------------------------- MODULE MC_MonitorCallback -------------------------
EXTENDS MonitorCallback, TLC

\* callers and callback pointers are interchangeable
MCSymmetry == Permutations(Threads) \cup Permutations(Callbacks)
=============================================================================
