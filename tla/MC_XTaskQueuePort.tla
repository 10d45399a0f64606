------------------------- MODULE MC_XTaskQueuePort -------------------------
(***************************************************************************)
(* Instances of XTaskQueuePort for TLC.  Threads, contexts and addresses   *)
(* are model values given in each .cfg; a thread always calls QueueItem    *)
(* from the same call depth, so its `queue` local has one address.         *)
(***************************************************************************)
EXTENDS XTaskQueuePort, TLC

CONSTANTS t1, t2, t3, e1, e2, e3

MCFrameOf == [t \in Threads |-> CASE t = t1 -> {e1}
                                  [] t = t2 -> {e2}
                                  [] t = t3 -> {e3}]

\* caller threads are interchangeable only when their frames are renamed
\* with them, so no symmetry set is used; contexts and requests are
\* interchangeable.
MCSymmetry == Permutations(Contexts) \cup Permutations(TermAddrs)
=============================================================================
