----------------------------- MODULE AtomicVector -----------------------------
(***************************************************************************)
(* The SRW-locked vector of AtomicVector.c, which holds a port's attached  *)
(* contexts.  Add and Remove run under the exclusive lock and are single   *)
(* steps; Visit holds the shared lock across its loop, one step per        *)
(* element, so writers are excluded until it ends.  `items` is the live    *)
(* prefix items[0 .. size-1] of the array; slots past size are never read. *)
(***************************************************************************)
EXTENDS Naturals, Sequences

CONSTANTS Threads,   \* callers of Add, Remove and Visit
          Values,    \* the context pointers stored
          MaxSize    \* bound on size, the only unbounded quantity

ASSUME MaxSize \in Nat

VARIABLES items,     \* impl->items[0 .. size-1]
          capacity,  \* impl->capacity
          pc,        \* "idle", or "visit" while a thread holds the shared lock
          idx,       \* Visit's elementIterator
          lastCall   \* ghost: the last Add or Remove that returned

vars == <<items, capacity, pc, idx, lastCall>>

\* AcquireSRWLockExclusive does not block: no thread is inside Visit
NoReaders == \A u \in Threads : pc[u] = "idle"

\* mutant: the zero-capacity case is lost and the first array has no slots
NewCapacityFromDouble(c) == c * 2

\* the capacity Add grows to when size == capacity
NewCapacity(c) == IF c = 0 THEN 8 ELSE c * 2

\* Add(value): grow when full, then items[size++] = value
Add(t, v) ==
    /\ pc[t] = "idle" /\ NoReaders /\ Len(items) < MaxSize
    /\ items' = Append(items, v)
    /\ capacity' = IF Len(items) = capacity THEN NewCapacity(capacity) ELSE capacity
    /\ lastCall' = [op |-> "add", v |-> v]
    /\ UNCHANGED <<pc, idx>>

\* Add when full and realloc fails: E_OUTOFMEMORY, nothing changes
AddOutOfMemory(t) ==
    /\ pc[t] = "idle" /\ NoReaders /\ Len(items) = capacity
    /\ UNCHANGED vars

\* mutant: the element is never moved down, only the write index advances
RECURSIVE CompactNoCopy(_, _, _, _)
CompactNoCopy(arr, read, write, v) ==
    IF read >= Len(arr) THEN SubSeq(arr, 1, write)
    ELSE IF arr[read + 1] # v THEN CompactNoCopy(arr, read + 1, write + 1, v)
    ELSE CompactNoCopy(arr, read + 1, write, v)

\* Remove's loop with predicate `element == context`: kept elements are
\* copied down to `write`; size = write at the end (indices are 0-based)
RECURSIVE Compact(_, _, _, _)
Compact(arr, read, write, v) ==
    IF read >= Len(arr) THEN SubSeq(arr, 1, write)
    ELSE IF arr[read + 1] # v
         THEN Compact(IF write # read THEN [arr EXCEPT ![write + 1] = arr[read + 1]]
                      ELSE arr, read + 1, write + 1, v)
    ELSE Compact(arr, read + 1, write, v)

Remove(t, v) ==
    /\ pc[t] = "idle" /\ NoReaders
    /\ items' = Compact(items, 0, 0, v)
    /\ lastCall' = [op |-> "remove", v |-> v]
    /\ UNCHANGED <<capacity, pc, idx>>

\* Visit: AcquireSRWLockShared; no writer holds the lock between steps
VisitBegin(t) ==
    /\ pc[t] = "idle"
    /\ pc' = [pc EXCEPT ![t] = "visit"]
    /\ idx' = [idx EXCEPT ![t] = 0]
    /\ UNCHANGED <<items, capacity, lastCall>>

\* one turn of the loop: elementIterator < size, visitor(items[i])
VisitStep(t) ==
    /\ pc[t] = "visit" /\ idx[t] < Len(items)
    /\ idx' = [idx EXCEPT ![t] = @ + 1]
    /\ UNCHANGED <<items, capacity, pc, lastCall>>

\* the loop ends: ReleaseSRWLockShared
VisitEnd(t) ==
    /\ pc[t] = "visit" /\ idx[t] >= Len(items)
    /\ pc' = [pc EXCEPT ![t] = "idle"]
    /\ idx' = [idx EXCEPT ![t] = 0]
    /\ UNCHANGED <<items, capacity, lastCall>>

\* CreateAtomicVector: calloc, so no array and no elements
Init ==
    /\ items = <<>> /\ capacity = 0
    /\ pc = [t \in Threads |-> "idle"] /\ idx = [t \in Threads |-> 0]
    /\ lastCall = [op |-> "none", v |-> "none"]

Next ==
    \E t \in Threads :
        \/ \E v \in Values : Add(t, v) \/ Remove(t, v)
        \/ AddOutOfMemory(t)
        \/ VisitBegin(t) \/ VisitStep(t) \/ VisitEnd(t)

Spec == Init /\ [][Next]_vars

-----------------------------------------------------------------------------
\* the elements fit the allocation: items[size++] never writes past capacity
TypeOK ==
    /\ items \in Seq(Values) /\ capacity \in Nat /\ Len(items) <= capacity
    /\ pc \in [Threads -> {"idle", "visit"}] /\ idx \in [Threads -> 0 .. MaxSize]
    /\ lastCall \in [op : {"none", "add", "remove"}, v : Values \cup {"none"}]

SeqX == INSTANCE SequencesExt
Abstract == INSTANCE AttachedSet WITH members <- SeqX!ToSet(items), call <- lastCall
\* the vector implements a set of contexts: Add inserts, Remove deletes every
\* copy of the value (the compaction loop keeps all the others), Visit and a
\* failed Add change nothing.
AttachedSetRefined == Abstract!Spec
=============================================================================
