\* Register, Unregister and Invoke of two callers over a two-slot registry,
\* with the buffer pointers set as the design intends.
CONSTANTS
    Threads = {t1, t2}
    Callbacks = {f1, f2}
    NSlots = 2
    MaxTokens = 3
    BuffersWired = TRUE
    Null = Null
    NoThread = NoThread
SPECIFICATION Spec
INVARIANT TypeOK
SYMMETRY MCSymmetry
