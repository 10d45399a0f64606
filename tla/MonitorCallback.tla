--------------------------- MODULE MonitorCallback ---------------------------
(***************************************************************************)
(* The submit-monitor registry of a task queue (x_task_queue_monitor_      *)
(* callback): two XMonitor buffers, one live and one being rewritten.      *)
(* Register and Unregister, under cs, copy the live buffer into the other  *)
(* one with their change applied, then try to flip the live buffer, whose  *)
(* index is bit 31 of the same `ref` field that counts references and      *)
(* Invoke's readers.  Invoke, without cs, counts itself in `ref`, reads    *)
(* the index, and calls every non-NULL callback of that buffer, slot by    *)
(* slot.                                                                   *)
(***************************************************************************)
EXTENDS Integers, FiniteSets

CONSTANTS Threads,        \* callers of Register, Unregister and Invoke
          Callbacks,      \* callback pointers a caller registers
          NSlots,         \* ARRAYSIZE(monitors_buffer1): 32 in the code
          MaxTokens,      \* bound on nextToken
          BuffersWired,   \* FALSE as built: monitors_buffers is never set
          Null, NoThread

ASSUME NSlots \in Nat \ {0} /\ MaxTokens \in Nat /\ BuffersWired \in BOOLEAN

Slots == 0 .. NSlots - 1
\* ref is a 32-bit LONG: a record of its bit 31 (hi) and its low 31 bits
\* (lo), carrying and borrowing between them as the word does
LoMax == 2147483647                \* 0x7FFFFFFF
Word(hi, lo) == [hi |-> hi, lo |-> lo]
Incr(w) == IF w.lo = LoMax THEN Word(1 - w.hi, 0) ELSE [w EXCEPT !.lo = @ + 1]
Decr(w) == IF w.lo = 0 THEN Word(1 - w.hi, LoMax) ELSE [w EXCEPT !.lo = @ - 1]
EmptySlot == [token |-> 0, cb |-> Null]

VARIABLES buf,        \* buf[b][i]: monitors_buffers[b][i] (token, callback)
          ref,        \* impl->ref
          nextToken,  \* impl->nextToken
          csOwner,    \* owner of impl->cs
          pc, slot, bidx,
          rIdx,       \* Register/Unregister: bufferReadIdx
          regTok,     \* the token a caller holds from its Register
          crash,
          live,       \* ghost: tokens whose Register has returned, not yet unregistered
          expect,     \* ghost: `live` when an Invoke read the buffer index
          called      \* ghost: tokens whose callback this Invoke called

vars == <<buf, ref, nextToken, csOwner, pc, slot, bidx, rIdx, regTok, crash,
          live, expect, called>>

\* the buffer index in bit 31 of ref
ReadIdx(r) == r.hi

\* the first slot whose live entry has no callback, or -1
FreeSlot(b) == IF \E i \in Slots : b[i].cb = Null
               THEN CHOOSE i \in Slots : b[i].cb = Null /\ \A j \in 0 .. i - 1 : b[j].cb # Null
               ELSE -1

Idle(t) == crash = "none" /\ pc[t] = "idle"

\* mutant: the token is read before nextToken is incremented
RegisterTokenBeforeIncrement(t, f) ==
    /\ Idle(t) /\ csOwner = NoThread /\ nextToken < MaxTokens /\ BuffersWired
    /\ LET r == ReadIdx(ref)
           k == FreeSlot(buf[r])
       IN  /\ buf' = [buf EXCEPT ![1 - r] = [i \in Slots |->
                        IF i = k THEN [token |-> nextToken, cb |-> f] ELSE buf[r][i]]]
           /\ csOwner' = t /\ rIdx' = [rIdx EXCEPT ![t] = r]
           /\ nextToken' = nextToken + 1
           /\ regTok' = [regTok EXCEPT ![t] = nextToken]
           /\ pc' = [pc EXCEPT ![t] = "swap"]
    /\ UNCHANGED <<ref, slot, bidx, crash, live, expect, called>>

\* Register(context, callback) up to the buffer flip: enter cs, copy the
\* live buffer into the other one, putting the callback with a fresh token
\* into the first free slot.  With no free slot it returns E_OUTOFMEMORY
\* still holding cs.  Unwired buffers fault on the first read.
Register(t, f) ==
    /\ Idle(t) /\ csOwner = NoThread /\ nextToken < MaxTokens
    /\ IF ~BuffersWired
       THEN /\ crash' = "NULL monitor buffer" /\ csOwner' = t
            /\ UNCHANGED <<buf, nextToken, pc, rIdx, regTok>>
       ELSE LET r == ReadIdx(ref)
                k == FreeSlot(buf[r])
            IN  /\ buf' = [buf EXCEPT ![1 - r] = [i \in Slots |->
                             IF i = k THEN [token |-> nextToken + 1, cb |-> f] ELSE buf[r][i]]]
                /\ csOwner' = t /\ rIdx' = [rIdx EXCEPT ![t] = r]
                /\ IF k = -1
                   THEN UNCHANGED <<nextToken, pc, regTok>>
                   ELSE /\ nextToken' = nextToken + 1
                        /\ regTok' = [regTok EXCEPT ![t] = nextToken + 1]
                        /\ pc' = [pc EXCEPT ![t] = "swap"]
                /\ UNCHANGED crash
    /\ UNCHANGED <<ref, slot, bidx, live, expect, called>>

\* Unregister(token) up to the buffer flip: copy the live buffer into the
\* other one, clearing only the callback of the slot holding the token.
Unregister(t) ==
    /\ Idle(t) /\ csOwner = NoThread /\ regTok[t] # 0
    /\ IF ~BuffersWired
       THEN /\ crash' = "NULL monitor buffer" /\ csOwner' = t
            /\ UNCHANGED <<buf, pc, rIdx, regTok, live>>
       ELSE LET r == ReadIdx(ref) IN
            /\ buf' = [buf EXCEPT ![1 - r] = [i \in Slots |->
                         IF buf[r][i].token = regTok[t]
                         THEN [buf[1 - r][i] EXCEPT !.cb = Null] ELSE buf[r][i]]]
            /\ csOwner' = t /\ rIdx' = [rIdx EXCEPT ![t] = r]
            /\ pc' = [pc EXCEPT ![t] = "swap"]
            /\ live' = live \ {regTok[t]}
            /\ regTok' = [regTok EXCEPT ![t] = 0]
            /\ UNCHANGED crash
    /\ UNCHANGED <<ref, nextToken, slot, bidx, expect, called>>

\* the spin loop of Register and Unregister, then LeaveCriticalSection:
\* InterlockedCompareExchange(&ref, expected, desired) stores `expected`
\* only when ref equals `desired`, and the loop ends as soon as ref was not
\* changed between its two reads, whatever the exchange did.
SwapBuffers(t) ==
    /\ crash = "none" /\ pc[t] = "swap"
    /\ LET expected == Word(rIdx[t], 0)
           desired  == Word(1 - rIdx[t], 0)
       IN  ref' = IF ref = desired THEN expected ELSE ref
    /\ csOwner' = NoThread
    /\ pc' = [pc EXCEPT ![t] = "idle"]
    /\ live' = IF regTok[t] # 0 THEN live \cup {regTok[t]} ELSE live
    /\ UNCHANGED <<buf, nextToken, slot, bidx, rIdx, regTok, crash, expect, called>>

\* Invoke(port): InterlockedIncrement(&ref)
InvokeBegin(t) ==
    /\ Idle(t)
    /\ ref' = Incr(ref)
    /\ pc' = [pc EXCEPT ![t] = "inv_idx"]
    /\ UNCHANGED <<buf, nextToken, csOwner, slot, bidx, rIdx, regTok, crash,
                   live, expect, called>>

\* read ref again and take bit 31 as the buffer to read
InvokeIndex(t) ==
    /\ crash = "none" /\ pc[t] = "inv_idx"
    /\ bidx' = [bidx EXCEPT ![t] = ReadIdx(ref)]
    /\ slot' = [slot EXCEPT ![t] = 0]
    /\ expect' = [expect EXCEPT ![t] = live]
    /\ called' = [called EXCEPT ![t] = {}]
    /\ pc' = [pc EXCEPT ![t] = "inv_loop"]
    /\ UNCHANGED <<buf, ref, nextToken, csOwner, rIdx, regTok, crash, live>>

\* one turn of the loop: call the slot's callback if it is not NULL
InvokeSlot(t) ==
    /\ crash = "none" /\ pc[t] = "inv_loop" /\ slot[t] < NSlots
    /\ IF ~BuffersWired
       THEN crash' = "NULL monitor buffer" /\ UNCHANGED <<slot, called>>
       ELSE LET e == buf[bidx[t]][slot[t]] IN
            /\ called' = IF e.cb # Null THEN [called EXCEPT ![t] = @ \cup {e.token}] ELSE called
            /\ slot' = [slot EXCEPT ![t] = @ + 1]
            /\ UNCHANGED crash
    /\ UNCHANGED <<buf, ref, nextToken, csOwner, pc, bidx, rIdx, regTok, live, expect>>

\* the loop ends: InterlockedDecrement(&ref)
InvokeEnd(t) ==
    /\ crash = "none" /\ pc[t] = "inv_loop" /\ slot[t] = NSlots
    /\ ref' = Decr(ref)
    /\ pc' = [pc EXCEPT ![t] = "idle"]
    /\ UNCHANGED <<buf, nextToken, csOwner, slot, bidx, rIdx, regTok, crash,
                   live, expect, called>>

\* XTaskQueueCreate: calloc'd monitor, ref = 1
Init ==
    /\ buf = [b \in {0, 1} |-> [i \in Slots |-> EmptySlot]]
    /\ ref = Word(0, 1) /\ nextToken = 0 /\ csOwner = NoThread
    /\ pc = [t \in Threads |-> "idle"] /\ slot = [t \in Threads |-> 0]
    /\ bidx = [t \in Threads |-> 0] /\ rIdx = [t \in Threads |-> 0]
    /\ regTok = [t \in Threads |-> 0] /\ crash = "none" /\ live = {}
    /\ expect = [t \in Threads |-> {}] /\ called = [t \in Threads |-> {}]

Next ==
    \E t \in Threads :
        \/ \E f \in Callbacks : Register(t, f)
        \/ Unregister(t) \/ SwapBuffers(t)
        \/ InvokeBegin(t) \/ InvokeIndex(t) \/ InvokeSlot(t) \/ InvokeEnd(t)

Spec == Init /\ [][Next]_vars

-----------------------------------------------------------------------------
Tokens == 0 .. MaxTokens
Entry == [token : Tokens, cb : Callbacks \cup {Null}]

\* types; a slot holding a callback has a real token (0 is Register's
\* "no slot found")
TypeOK ==
    /\ buf \in [{0, 1} -> [Slots -> Entry]]
    /\ \A b \in {0, 1}, i \in Slots : buf[b][i].cb # Null => buf[b][i].token # 0
    /\ ref \in [hi : {0, 1}, lo : 0 .. LoMax] /\ nextToken \in Tokens
    /\ csOwner \in Threads \cup {NoThread}
    /\ slot \in [Threads -> 0 .. NSlots] /\ bidx \in [Threads -> {0, 1}]
    /\ rIdx \in [Threads -> {0, 1}] /\ regTok \in [Threads -> Tokens]
    /\ live \subseteq Tokens

\* spec 4.3 and section 2: every registered monitor is notified on every
\* enqueue, so an Invoke calls every callback whose Register returned
\* before it chose its buffer and that was not unregistered.
RegisteredIsInvoked ==
    \A t \in Threads : pc[t] = "inv_loop" /\ slot[t] = NSlots => expect[t] \subseteq called[t]
=============================================================================
