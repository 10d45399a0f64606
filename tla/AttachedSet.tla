----------------------------- MODULE AttachedSet -----------------------------
(***************************************************************************)
(* What the port needs of its attached-context vector: a set of contexts   *)
(* that Attach adds to and Detach removes from, and that NotifyItemQueued   *)
(* visits.  XTaskQueuePort models `attached` as such a set; AtomicVector    *)
(* is checked to implement it.                                             *)
(***************************************************************************)
CONSTANT Values

VARIABLES members,  \* the attached contexts
          call      \* the last call that changed them: [op, v]

NoCall == [op |-> "none", v |-> "none"]

Init == members = {} /\ call = NoCall

\* Attach(v): v is in the set afterwards
Insert(v) == members' = members \cup {v} /\ call' = [op |-> "add", v |-> v]

\* Detach(v): v, and only v, is no longer in the set
Delete(v) == members' = members \ {v} /\ call' = [op |-> "remove", v |-> v]

Next == \E v \in Values : Insert(v) \/ Delete(v)

Spec == Init /\ [][Next]_<<members, call>>
=============================================================================
