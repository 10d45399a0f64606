--------------------------- MODULE XTaskQueuePort ---------------------------
(***************************************************************************)
(* One task-queue port (struct x_task_queue_port, XTaskQueue.c): its ready *)
(* list, its pending (delayed) list, its termination and parked            *)
(* termination lists, the per-context status and suspend count, the port   *)
(* critical section used by SignalQueue/Wait, the due-time timer, and the  *)
(* caller threads that drive it through QueueItem, Dispatch, the           *)
(* termination calls and SuspendPort/ResumePort.                           *)
(*                                                                         *)
(* The lists are modelled as the code keeps them: head and tail pointers   *)
(* and a next field per node, so that the pointer surgery of the code      *)
(* (tails that are never reset, a node appended twice) is reproduced.      *)
(* Every list walk is a RECURSIVE operator with fuel; a walk that runs     *)
(* out of fuel is a thread that never returns (a cyclic list), a           *)
(* recursion that runs out of fuel is a stack overflow.                    *)
(***************************************************************************)
EXTENDS Integers, Sequences, FiniteSets

CONSTANTS
    Threads,     \* caller threads (model values)
    Contexts,    \* port contexts that use this port
    EntryAddrs,  \* addresses an XQueue node can have
    FrameOf,     \* FrameOf[t]: addresses of the QueueItem local `queue` on t's stack
    TermAddrs,   \* heap addresses of XTerminateForPort nodes (calloc)
    Mode,        \* the port's XTaskQueueDispatchMode
    Delays,      \* waitMs values > 0 a caller may pass, in clock ticks
    MaxTime,     \* bound on the clock
    MaxItems,    \* bound on the number of QueueItem calls
    MaxRuns,     \* bound on the number of callbacks Dispatch starts
    Ops,         \* the groups of port operations the callers use
    Timeouts,    \* Dispatch's timeoutInMs: a subset of {"finite", "INFINITE"}
    MaxCSDepth,  \* bound on the recursion count of the port critical section
    MonitorCrashes, \* TRUE: ItemQueued reaches the monitor's NULL buffers (as built)
    Nil,         \* NULL
    NoThread     \* owner of a free critical section

Modes == {"Manual", "Immediate", "ThreadPool", "SerializedThreadPool"}

ASSUME /\ Mode \in Modes
       /\ Delays \subseteq Nat \ {0} /\ Delays # {}
       /\ FrameOf \in [Threads -> SUBSET EntryAddrs]
       /\ {MaxTime, MaxItems, MaxRuns, MaxCSDepth} \subseteq Nat
       /\ MonitorCrashes \in BOOLEAN
       /\ Ops \subseteq {"queue", "dispatch", "terminate", "port"}
       /\ Timeouts \subseteq {"finite", "INFINITE"}

\* XTaskQueuePortStatus, in declaration order (a status is compared with <, >)
Rank(st) == CASE st = "Active" -> 0 [] st = "Canceled" -> 1
              [] st = "Terminating" -> 2 [] st = "Terminated" -> 3
Statuses == {"Active", "Canceled", "Terminating", "Terminated"}

MaxDelay == CHOOSE d \in Delays : \A e \in Delays : e <= d
\* UINT64_MAX: later than any enqueueTime the clock can produce
NoDue == MaxTime + MaxDelay + 1
\* fuel of a list walk: more steps than nodes means the list is cyclic
WalkFuel == Cardinality(EntryAddrs) + Cardinality(TermAddrs) + 1
\* fuel of the call recursion: a call chain that returns nests at most one
\* CancelPendingEntries per context (ScheduleNextPendingCallback recurses on
\* another context) and one ScheduleTermination; a deeper chain never returns
DepthFuel == Cardinality(Contexts) + 3

NoNode == [ctx |-> Nil, item |-> 0, time |-> 0]

VARIABLES
    next, node,          \* XQueue.next and the rest of an XQueue node
    qHead, qTail,        \* queueList_head / queueList_tail (ready list)
    pHead, pTail,        \* pendingQueueList_head / _tail (delayed entries)
    tnext, treq,         \* XTerminateForPort.next and .portContext
    freeCount,           \* free() calls on each XTerminateForPort node
    tHead, tTail,        \* terminateList_head / _tail
    ptHead, ptTail,      \* pendingTerminateList_head / _tail
    status, suspendCount,\* x_task_queue_port_context.status / .suspendCount
    suspended, signaled, processing, \* port flags and processingCallback
    timerDue, timerAt,   \* port timerDue and the time the wait timer is set for
    now,                 \* the system clock (GetSystemTimeAsFileTime)
    attached,            \* attachedContexts
    csOwner, csDepth,    \* port critical section: owner and recursion count
    pc, arg, tok, held,  \* caller threads: location, arguments, prepared token, suspend held
    issued,              \* number of QueueItem calls so far (ghost)
    appended, ran,       \* items in the order appended to the ready list / run (ghost)
    fired,               \* termination requests whose callback ran (ghost)
    crash                \* "none" or why the process died

portVars == <<next, node, qHead, qTail, pHead, pTail, tnext, treq, freeCount,
              tHead, tTail, ptHead, ptTail, status, suspendCount, suspended,
              signaled, processing, timerDue, timerAt, attached, appended,
              ran, fired, crash>>
vars == <<portVars, now, csOwner, csDepth, pc, arg, tok, held, issued>>

PCs == {"idle", "qi_guard", "rs_read", "rs_cas", "rp_notify", "d_drain", "d_cb",
        "d_tail", "d_wait", "d_enter", "d_sleep", "d_woken", "d_timedout", "hung"}
NoArg == [ctx |-> Nil, addr |-> Nil, timeout |-> "INFINITE", n |-> 0]

-----------------------------------------------------------------------------
(***************************************************************************)
(* The port state as one record, so that a handler with nested calls and   *)
(* loops is a composition of operators S -> S.  Besides the variables the  *)
(* record carries what the step did: usedCS (it entered the critical       *)
(* section in SignalQueue), wake (it woke cvAny), hang (this thread never  *)
(* returns).                                                               *)
(***************************************************************************)
S == [next |-> next, node |-> node, qHead |-> qHead, qTail |-> qTail,
      pHead |-> pHead, pTail |-> pTail, tnext |-> tnext, treq |-> treq,
      freeCount |-> freeCount, tHead |-> tHead, tTail |-> tTail, ptHead |-> ptHead,
      ptTail |-> ptTail, status |-> status, suspendCount |-> suspendCount,
      suspended |-> suspended, signaled |-> signaled,
      processing |-> processing, timerDue |-> timerDue, timerAt |-> timerAt,
      attached |-> attached, appended |-> appended, ran |-> ran,
      fired |-> fired, crash |-> crash,
      usedCS |-> FALSE, wake |-> FALSE, hang |-> FALSE]

Live(s) == s.crash = "none" /\ ~s.hang
Crash(s, why) == IF Live(s) THEN [s EXCEPT !.crash = why] ELSE s
Hang(s) == [s EXCEPT !.hang = TRUE]

\* A thread sleeping on cvAny is woken by WakeAllConditionVariable.
WakePC(r, t) == IF r.wake /\ pc[t] = "d_sleep" THEN "d_woken" ELSE pc[t]

\* Write a computed record back to the variables; t is the stepping thread
\* (NoThread for the timer), its next location is loc unless it hangs.
Commit(r, t, loc) ==
    /\ next' = r.next /\ node' = r.node /\ qHead' = r.qHead /\ qTail' = r.qTail
    /\ pHead' = r.pHead /\ pTail' = r.pTail /\ tnext' = r.tnext
    /\ treq' = r.treq /\ freeCount' = r.freeCount /\ tHead' = r.tHead
    /\ tTail' = r.tTail /\ ptHead' = r.ptHead /\ ptTail' = r.ptTail
    /\ status' = r.status /\ suspendCount' = r.suspendCount
    /\ suspended' = r.suspended /\ signaled' = r.signaled
    /\ processing' = r.processing /\ timerDue' = r.timerDue
    /\ timerAt' = r.timerAt /\ attached' = r.attached
    /\ appended' = r.appended /\ ran' = r.ran /\ fired' = r.fired
    /\ crash' = r.crash
    /\ pc' = [u \in Threads |->
                IF u = t THEN (IF r.hang THEN "hung" ELSE loc) ELSE WakePC(r, u)]

\* EnterCriticalSection(&impl->cs) does not block thread t
CanEnter(t) == csOwner \in {NoThread, t}
\* a step that enters the critical section waits for it
MayRun(r, t) == ~r.usedCS \/ CanEnter(t)

-----------------------------------------------------------------------------
(* List surgery, as the code writes it.                                    *)

\* tail append of the ready list (AppendEntry): only the tail is tested, so
\* a NULL head with a stale tail stays NULL
LinkReady(s, e) ==
    LET s1 == [s EXCEPT !.next[e] = Nil]
    IN  IF s1.qTail = Nil THEN [s1 EXCEPT !.qHead = e, !.qTail = e]
        ELSE [s1 EXCEPT !.next[s1.qTail] = e, !.qTail = e]

\* tail append of the pending list (QueueItem): queue.next is not written
LinkPending(s, e) ==
    IF s.pTail = Nil THEN [s EXCEPT !.pHead = e, !.pTail = e]
    ELSE [s EXCEPT !.next[s.pTail] = e, !.pTail = e]

\* unlink cur (successor nxt, predecessor prev) from the pending list
UnlinkPending(s, cur, prev, nxt) ==
    LET s1 == IF prev # Nil THEN [s EXCEPT !.next[prev] = nxt]
              ELSE [s EXCEPT !.pHead = nxt]
        s2 == IF cur = s1.pTail THEN [s1 EXCEPT !.pTail = prev] ELSE s1
    IN  [s2 EXCEPT !.next[cur] = Nil]

\* tail append of the termination list (ScheduleTermination, PrepareTerminate)
LinkTerm(s, e) ==
    IF s.tTail = Nil THEN [s EXCEPT !.tHead = e, !.tTail = e]
    ELSE [s EXCEPT !.tnext[s.tTail] = e, !.tTail = e]

UnlinkTerm(s, cur, prev, nxt) ==
    LET s1 == IF prev # Nil THEN [s EXCEPT !.tnext[prev] = nxt]
              ELSE [s EXCEPT !.tHead = nxt]
    IN  IF cur = s1.tTail THEN [s1 EXCEPT !.tTail = prev] ELSE s1

\* tail append of the parked termination list (Terminate): next not reset
LinkParked(s, e) ==
    IF s.ptTail = Nil THEN [s EXCEPT !.ptHead = e, !.ptTail = e]
    ELSE [s EXCEPT !.tnext[s.ptTail] = e, !.ptTail = e]

UnlinkParked(s, cur, prev, nxt) ==
    LET s1 == IF prev # Nil THEN [s EXCEPT !.tnext[prev] = nxt]
              ELSE [s EXCEPT !.ptHead = nxt]
        s2 == IF cur = s1.ptTail THEN [s1 EXCEPT !.ptTail = prev] ELSE s1
    IN  [s2 EXCEPT !.tnext[cur] = Nil]

\* free() of an XTerminateForPort node
FreeTerm(s, a) == [s EXCEPT !.freeCount[a] = @ + 1]

-----------------------------------------------------------------------------
(* Context operations (x_task_queue_port_context).                     *)

SetStatus(s, c, st) == [s EXCEPT !.status[c] = st]

\* InterlockedExchangeAdd(&suspendCount, 1) == 0
AddSuspend(s, c) ==
    [s |-> [s EXCEPT !.suspendCount[c] = @ + 1], res |-> s.suspendCount[c] = 0]

\* mutant: the compare-exchange becomes a plain store of current - 1
CASDecrementBlindStore(s, c, current) ==
    [ok |-> TRUE, s |-> [s EXCEPT !.suspendCount[c] = current - 1]]

\* RemoveSuspend's InterlockedCompareExchange(&suspendCount, current - 1,
\* current): it stores only if the count still holds the value read
CASDecrement(s, c, current) ==
    IF s.suspendCount[c] = current
    THEN [ok |-> TRUE, s |-> [s EXCEPT !.suspendCount[c] = current - 1]]
    ELSE [ok |-> FALSE, s |-> s]

\* get_Status(ctx) > PortStatus_Canceled
Terminated(s, c) == Rank(s.status[c]) > Rank("Canceled")

-----------------------------------------------------------------------------
(* The port's IXWaitTimer, a one-shot thread-pool timer.  Model time counts *)
(* milliseconds, so a FILETIME (100 ns units) is the time divided by 10000. *)

\* GetAbsoluteTime(msFromNow): GetSystemTimeAsFileTime + msFromNow * 10000
GetAbsoluteTime(ms) == now + ms

\* Start(absoluteTime): SetThreadpoolTimer at that absolute FILETIME,
\* replacing any earlier setting
TimerStart(s, at) == [s EXCEPT !.timerAt = at]

\* Cancel: SetThreadpoolTimer(timer, NULL, 0, 0)
TimerCancel(s) == [s EXCEPT !.timerAt = Nil]

-----------------------------------------------------------------------------
SignalQueue(s) ==
    IF ~Live(s) \/ s.suspended THEN s
    ELSE [s EXCEPT !.usedCS = TRUE, !.signaled = TRUE, !.wake = TRUE]

\* DrainOneItem's pop: front = queueList_tail; queueList_head = front->next
Pop(s) ==
    IF s.qTail = Nil THEN Crash(s, "NULL front")
    ELSE [s EXCEPT !.qHead = s.next[s.qTail],
                   !.ran = Append(@, s.node[s.qTail])]

\* enqueueTime of nextItem; the calloc'd placeholder has enqueueTime 0
NextItemTime(s, ni) == IF ni = Nil THEN 0 ELSE s.node[ni].time

\* ScheduleNextPendingCallback's loop: unlink the first entry due at dueTime,
\* and keep as nextItem every entry seen before it, and after it any entry
\* earlier than the current nextItem.
RECURSIVE SNWalk(_, _, _, _, _, _, _)
SNWalk(s, cur, prev, dueTime, hasDue, ni, g) ==
    IF cur = Nil THEN [s |-> s, due |-> hasDue, ni |-> ni]
    ELSE IF g = 0 THEN [s |-> Hang(s), due |-> hasDue, ni |-> ni]
    ELSE LET nxt == s.next[cur] IN
         IF ~hasDue /\ s.node[cur].time = dueTime
         THEN SNWalk(UnlinkPending(s, cur, prev, nxt), nxt, prev, dueTime,
                     TRUE, ni, g - 1)
         ELSE SNWalk(s, nxt, cur, dueTime, hasDue,
                     IF ~hasDue \/ NextItemTime(s, ni) > s.node[cur].time
                     THEN cur ELSE ni, g - 1)

-----------------------------------------------------------------------------
(***************************************************************************)
(* The port's internal calls, which call each other: f is the stack depth  *)
(* left.  Every cycle of calls goes through ScheduleTermination or         *)
(* CancelPendingEntries, which consume it.                                 *)
(***************************************************************************)
RECURSIVE AppendEntry(_, _, _), NotifyItemQueued(_, _), DrainInline(_, _),
          DrainTail(_, _), SignalTerminations(_, _), STWalk(_, _, _, _, _),
          ScheduleTermination(_, _, _), CancelPendingEntries(_, _, _, _),
          CPWalk(_, _, _, _, _, _, _), ScheduleNextPendingCallback(_, _, _),
          SubmitPendingCallback(_, _)

\* AppendEntry(entry): entry->next = NULL, tail append, SignalQueue,
\* NotifyItemQueued.  AppendEntry(NULL) faults on entry->next.
AppendEntry(s, e, f) ==
    IF ~Live(s) THEN s
    ELSE IF e = Nil THEN Crash(s, "AppendEntry(NULL)")
    ELSE NotifyItemQueued(
           SignalQueue([LinkReady(s, e) EXCEPT !.appended = Append(@, s.node[e])]),
           f)

\* NotifyItemQueued: Submit on the never created thread-pool work object,
\* Visit(attachedContexts) -> ItemQueued -> monitor Invoke, and an inline
\* DrainOneItem in Immediate mode, suspended or not.
NotifyItemQueued(s, f) ==
    IF ~Live(s) \/ (s.suspended /\ Mode # "Immediate") THEN s
    ELSE IF Mode \in {"ThreadPool", "SerializedThreadPool"}
         THEN Crash(s, "SubmitThreadpoolWork(NULL)")
    ELSE IF s.attached # {} /\ MonitorCrashes THEN Crash(s, "NULL monitor buffer")
    ELSE IF Mode = "Immediate" THEN DrainInline(s, f)
    ELSE s

\* DrainOneItem called inline: the callback runs on this thread, so
\* processingCallback goes up and down within the call.
DrainInline(s, f) ==
    IF ~Live(s) \/ (s.suspended /\ Mode # "Immediate") THEN s
    ELSE IF s.qHead = Nil THEN DrainTail(s, f)
    ELSE DrainTail(Pop(s), f)

\* the end of DrainOneItem: if the ready list is empty, SignalTerminations
\* and SignalQueue
DrainTail(s, f) ==
    IF ~Live(s) \/ s.qHead # Nil THEN s
    ELSE SignalQueue(SignalTerminations(s, f))

SignalTerminations(s, f) == STWalk(s, s.tHead, Nil, f, WalkFuel)

\* for each entry whose context is Terminating or Terminated: unlink it,
\* ScheduleTermination it, SetStatus(Terminated), run its callback, free it
STWalk(s, cur, prev, f, g) ==
    IF ~Live(s) \/ cur = Nil THEN s
    ELSE IF g = 0 THEN Hang(s)
    ELSE LET nxt == s.tnext[cur]
             c   == s.treq[cur]
         IN IF Rank(s.status[c]) >= Rank("Terminating")
            THEN LET s1 == ScheduleTermination(UnlinkTerm(s, cur, prev, nxt), cur, f)
                     s2 == IF ~Live(s1) THEN s1
                           ELSE FreeTerm([SetStatus(s1, c, "Terminated")
                                            EXCEPT !.fired = Append(@, cur)], cur)
                 IN STWalk(s2, nxt, prev, f, g - 1)
            ELSE STWalk(s, nxt, cur, f, g - 1)

\* entry->next = NULL, tail append, SignalTerminations, SignalQueue
ScheduleTermination(s, e, f) ==
    IF ~Live(s) THEN s
    ELSE IF f = 0 THEN Crash(s, "stack overflow")
    ELSE SignalQueue(SignalTerminations(LinkTerm([s EXCEPT !.tnext[e] = Nil], e), f - 1))

\* Cancel the timer, timerDue = UINT64_MAX, move (app) or drop every pending
\* entry of context c, then SubmitPendingCallback.  A dropped entry is the
\* caller's stack frame; free() of it is refused by the heap and has no effect.
CancelPendingEntries(s, c, app, f) ==
    IF ~Live(s) THEN s
    ELSE IF f = 0 THEN Crash(s, "stack overflow")
    ELSE SubmitPendingCallback(
           CPWalk([TimerCancel(s) EXCEPT !.timerDue = NoDue],
                  s.pHead, Nil, c, app, f - 1, WalkFuel),
           f - 1)

CPWalk(s, cur, prev, c, app, f, g) ==
    IF ~Live(s) \/ cur = Nil THEN s
    ELSE IF g = 0 THEN Hang(s)
    ELSE LET nxt == s.next[cur] IN
         IF s.node[cur].ctx = c
         THEN LET s1 == UnlinkPending(s, cur, prev, nxt)
              IN  CPWalk(IF app THEN AppendEntry(s1, cur, f) ELSE s1,
                         nxt, prev, c, app, f, g - 1)
         ELSE CPWalk(s, nxt, cur, c, app, f, g - 1)

\* Returns whether an entry due at dueTime was unlinked.  Its callers pass
\* dueTime = timerDue, so both compare-exchanges store the value timerDue
\* already has: the timer is started for nextItem, or cancelled.
ScheduleNextPendingCallback(s, dueTime, f) ==
    LET r  == SNWalk(s, s.pHead, Nil, dueTime, FALSE, Nil, WalkFuel)
        s1 == r.s
        c  == s1.node[r.ni].ctx
    IN  [due |-> r.due,
         s |-> IF ~Live(s1) THEN s1
               ELSE IF r.ni = Nil THEN TimerCancel(s1)
               ELSE IF s1.status[c] = "Active"
                    THEN TimerStart(s1, s1.node[r.ni].time)
               ELSE CancelPendingEntries(s1, c, TRUE, f)]

\* the local dueEntry is passed by value and stays NULL
SubmitPendingCallback(s, f) ==
    IF ~Live(s) THEN s
    ELSE LET r == ScheduleNextPendingCallback(s, s.timerDue, f)
         IN  IF r.due THEN AppendEntry(r.s, Nil, f) ELSE r.s

\* ResumeTermination: on the last RemoveSuspend, ScheduleTermination and
\* unlink every parked request of context c
RECURSIVE RTWalk(_, _, _, _, _, _)
RTWalk(s, cur, prev, c, f, g) ==
    IF ~Live(s) \/ cur = Nil THEN s
    ELSE IF g = 0 THEN Hang(s)
    ELSE LET nxt == s.tnext[cur] IN
         IF s.treq[cur] = c
         THEN LET s1 == ScheduleTermination(s, cur, f)
              IN  IF ~Live(s1) THEN s1
                  ELSE RTWalk(UnlinkParked(s1, cur, prev, nxt), nxt, prev, c, f, g - 1)
         ELSE RTWalk(s, nxt, cur, c, f, g - 1)

\* the rest of ResumeTermination once RemoveSuspend returned TRUE
ResumeParked(s, c, f) ==
    IF s.ptHead = Nil THEN s ELSE RTWalk(s, s.ptHead, Nil, c, f, WalkFuel)

\* CancelTermination's loop: unlink and free the entry that is the token
RECURSIVE CTWalk(_, _, _, _, _)
CTWalk(s, cur, prev, a, g) ==
    IF cur = Nil THEN s
    ELSE IF g = 0 THEN Hang(s)
    ELSE LET nxt == s.tnext[cur] IN
         IF cur = a
         THEN CTWalk(FreeTerm([UnlinkTerm(s, cur, prev, nxt) EXCEPT !.tnext[cur] = Nil], cur),
                     nxt, prev, a, g - 1)
         ELSE CTWalk(s, nxt, cur, a, g - 1)

\* ResumePort's counting loops: -1 when the list never ends
RECURSIVE CountList(_, _, _)
CountList(nf, cur, g) ==
    IF cur = Nil THEN 0
    ELSE IF g = 0 THEN -1
    ELSE LET k == CountList(nf, nf[cur], g - 1) IN IF k < 0 THEN -1 ELSE k + 1

RECURSIVE NotifyTimes(_, _, _)
NotifyTimes(s, n, f) ==
    IF n = 0 THEN s ELSE NotifyTimes(NotifyItemQueued(SignalQueue(s), f), n - 1, f)

-----------------------------------------------------------------------------
(***************************************************************************)
(* Actions.  A caller thread in "idle" may call any port operation.        *)
(***************************************************************************)

\* run the computed record r as thread t's step, which ends at loc
Step(t, r, loc) == MayRun(r, t) /\ Commit(r, t, loc) /\ UNCHANGED <<now, csOwner, csDepth>>

Idle(t) == crash = "none" /\ pc[t] = "idle"

\* QueueItem up to the "guard against race condition" test: the entry is the
\* stack local `queue`; waitMs = 0 appends it, otherwise it is linked into the
\* pending list and the timerDue compare-exchange loop may start the timer.
QueueItem(t, c, d, a) ==
    /\ Idle(t) /\ issued < MaxItems
    /\ ~Terminated(S, c)
    /\ LET s0 == [S EXCEPT !.node[a] = [ctx |-> c, item |-> issued + 1,
                                         time |-> IF d = 0 THEN 0 ELSE GetAbsoluteTime(d)]]
           s1 == LinkPending(s0, a)
           r  == IF d = 0 THEN AppendEntry(s0, a, DepthFuel)
                 ELSE IF s0.node[a].time < s1.timerDue
                      THEN TimerStart([s1 EXCEPT !.timerDue = s0.node[a].time], s0.node[a].time)
                      ELSE s1
       IN  Step(t, r, "qi_guard")
    /\ arg' = [arg EXCEPT ![t] = [NoArg EXCEPT !.ctx = c, !.addr = a]]
    /\ issued' = issued + 1
    /\ UNCHANGED <<tok, held>>

\* `get_Status != PortStatus_Active` compares the method pointer and is always
\* true: CancelPendingEntries(portContext, TRUE) ends every QueueItem.
QueueItemGuard(t) ==
    /\ crash = "none" /\ pc[t] = "qi_guard"
    /\ Step(t, CancelPendingEntries(S, arg[t].ctx, TRUE, DepthFuel), "idle")
    /\ arg' = [arg EXCEPT ![t] = NoArg]
    /\ UNCHANGED <<tok, held, issued>>

threadVars == <<arg, tok, held, issued>>

\* Dispatch(portContext, timeoutInMs) is called
Dispatch(t, c, x) ==
    /\ Idle(t)
    /\ pc' = [pc EXCEPT ![t] = "d_drain"]
    /\ arg' = [arg EXCEPT ![t] = [NoArg EXCEPT !.ctx = c, !.timeout = x]]
    /\ UNCHANGED <<portVars, now, csOwner, csDepth, tok, held, issued>>

\* DrainOneItem from Dispatch: returns FALSE when suspended, else pops the
\* tail entry and starts its callback, or finds the list empty.
DrainOneItem(t) ==
    /\ crash = "none" /\ pc[t] = "d_drain"
    /\ \/ /\ suspended /\ Mode # "Immediate"
          /\ Step(t, S, "d_wait")
       \/ /\ ~suspended \/ Mode = "Immediate"
          /\ qHead = Nil
          /\ Step(t, DrainTail(S, DepthFuel), "d_wait")
       \/ /\ ~suspended \/ Mode = "Immediate"
          /\ qHead # Nil /\ Len(ran) < MaxRuns
          /\ Step(t, [Pop(S) EXCEPT !.processing = @ + 1], "d_cb")
    /\ UNCHANGED threadVars

\* mutant: processingCallback is decremented on both paths of the pop
CallbackReturnDoubleDecrement(t) ==
    /\ crash = "none" /\ pc[t] = "d_cb"
    /\ Step(t, [S EXCEPT !.processing = @ - 2], "d_tail")
    /\ UNCHANGED threadVars

\* the callback returns: processingCallback--, WakeAllConditionVariable(cv)
\* (only WaitForUnwind sleeps on cv), the context's Release and the free of
\* the stack entry, which the heap refuses
CallbackReturn(t) ==
    /\ crash = "none" /\ pc[t] = "d_cb"
    /\ Step(t, [S EXCEPT !.processing = @ - 1], "d_tail")
    /\ UNCHANGED threadVars

\* after the decrement: the empty-list tail; Dispatch returns TRUE
DrainReturn(t) ==
    /\ crash = "none" /\ pc[t] = "d_tail"
    /\ Step(t, DrainTail(S, DepthFuel), "idle")
    /\ arg' = [arg EXCEPT ![t] = NoArg]
    /\ UNCHANGED <<tok, held, issued>>

\* the condition of Wait's loop
WaitLoops == suspended \/ (qHead = Nil /\ tHead = Nil)

\* Wait returns TRUE at once and Dispatch breaks out, returning FALSE
WaitReturn(t) ==
    /\ crash = "none" /\ pc[t] = "d_wait" /\ ~WaitLoops
    /\ pc' = [pc EXCEPT ![t] = "idle"]
    /\ arg' = [arg EXCEPT ![t] = NoArg]
    /\ UNCHANGED <<portVars, now, csOwner, csDepth, tok, held, issued>>

\* Wait returns FALSE for a Terminated context: Dispatch drains again
WaitTerminated(t) ==
    /\ crash = "none" /\ pc[t] = "d_wait" /\ WaitLoops
    /\ status[arg[t].ctx] = "Terminated"
    /\ pc' = [pc EXCEPT ![t] = "d_drain"]
    /\ UNCHANGED <<portVars, now, csOwner, csDepth, threadVars>>

\* the loop test holds and the context is not Terminated
WaitCheck(t) ==
    /\ crash = "none" /\ pc[t] = "d_wait" /\ WaitLoops
    /\ status[arg[t].ctx] # "Terminated"
    /\ pc' = [pc EXCEPT ![t] = "d_enter"]
    /\ UNCHANGED <<portVars, now, csOwner, csDepth, threadVars>>

\* EnterCriticalSection, then consume a signal (leave cs, signaled =
\* FALSE, test again), or sleep on cvAny (which releases cs)
WaitEnter(t) ==
    /\ crash = "none" /\ pc[t] = "d_enter"
    /\ CanEnter(t)
    /\ \/ signaled /\ signaled' = FALSE /\ pc' = [pc EXCEPT ![t] = "d_wait"]
       \/ ~signaled /\ pc' = [pc EXCEPT ![t] = "d_sleep"] /\ UNCHANGED signaled
    /\ UNCHANGED <<next, node, qHead, qTail, pHead, pTail, tnext, treq, freeCount,
                   tHead, tTail, ptHead, ptTail, status, suspendCount, suspended,
                   processing, timerDue, timerAt, attached, appended, ran, fired,
                   crash, now, csOwner, csDepth, threadVars>>

\* woken on cvAny: cs is re-entered, left, and signaled cleared
WaitWoken(t) ==
    /\ crash = "none" /\ pc[t] = "d_woken" /\ CanEnter(t)
    /\ signaled' = FALSE
    /\ pc' = [pc EXCEPT ![t] = "d_wait"]
    /\ UNCHANGED <<next, node, qHead, qTail, pHead, pTail, tnext, treq, freeCount,
                   tHead, tTail, ptHead, ptTail, status, suspendCount, suspended,
                   processing, timerDue, timerAt, attached, appended, ran, fired,
                   crash, now, csOwner, csDepth, threadVars>>

\* a finite timeout elapses
WaitTimeout(t) ==
    /\ crash = "none" /\ pc[t] = "d_sleep" /\ arg[t].timeout = "finite"
    /\ pc' = [pc EXCEPT ![t] = "d_timedout"]
    /\ UNCHANGED <<portVars, now, csOwner, csDepth, threadVars>>

\* SleepConditionVariableCS re-enters cs and fails; Wait returns FALSE
\* without LeaveCriticalSection, and Dispatch drains again
WaitTimedOut(t) ==
    /\ crash = "none" /\ pc[t] = "d_timedout" /\ CanEnter(t)
    /\ csDepth < MaxCSDepth
    /\ csOwner' = t /\ csDepth' = csDepth + 1
    /\ pc' = [pc EXCEPT ![t] = "d_drain"]
    /\ UNCHANGED <<portVars, now, threadVars>>

\* PrepareTerminate: calloc a request (a never used address), append it to
\* terminateList, SetStatus(PortStatus_Active), return it as the token
PrepareTerminate(t, c, a) ==
    /\ Idle(t) /\ tok[t] = Nil /\ treq[a] = Nil
    /\ Step(t, SetStatus(LinkTerm([S EXCEPT !.treq[a] = c], a), c, "Active"), "idle")
    /\ tok' = [tok EXCEPT ![t] = a]
    /\ UNCHANGED <<arg, held, issued>>

\* Terminate(token) up to ResumeTermination: Terminating, cancel pending
\* entries, then ScheduleTermination on the first suspend, else park
Terminate(t) ==
    /\ Idle(t) /\ tok[t] # Nil
    /\ LET a  == tok[t]
           c  == treq[a]
           s1 == CancelPendingEntries(SetStatus(S, c, "Terminating"), c, TRUE, DepthFuel)
           r  == AddSuspend(s1, c)
           s2 == IF ~Live(s1) THEN s1
                 ELSE IF r.res THEN ScheduleTermination(r.s, a, DepthFuel)
                 ELSE LinkParked(r.s, a)
       IN  /\ Step(t, s2, "rs_read")
           /\ arg' = [arg EXCEPT ![t] = [NoArg EXCEPT !.ctx = c]]
    /\ tok' = [tok EXCEPT ![t] = Nil]
    /\ UNCHANGED <<held, issued>>

\* ResumeTermination(ctx), from Terminate (balancing its AddSuspend), from
\* SuspendTermination's E_ABORT path or from the caller: RemoveSuspend reads
\* the count; at 0 it returns TRUE at once
RemoveSuspendRead(t) ==
    /\ crash = "none" /\ pc[t] = "rs_read"
    /\ LET c == arg[t].ctx IN
       IF suspendCount[c] = 0
       THEN /\ Step(t, ResumeParked(S, c, DepthFuel), "idle")
            /\ arg' = [arg EXCEPT ![t] = NoArg]
       ELSE /\ pc' = [pc EXCEPT ![t] = "rs_cas"]
            /\ arg' = [arg EXCEPT ![t].n = suspendCount[c]]
            /\ UNCHANGED <<portVars, now, csOwner, csDepth>>
    /\ UNCHANGED <<tok, held, issued>>

\* the compare-exchange: on success RemoveSuspend returns current == 1 and
\* the last remover reschedules the parked requests; on failure it reads
\* again
RemoveSuspendCAS(t) ==
    /\ crash = "none" /\ pc[t] = "rs_cas"
    /\ LET c == arg[t].ctx
           r == CASDecrement(S, c, arg[t].n)
       IN  IF r.ok
           THEN /\ Step(t, IF arg[t].n = 1 THEN ResumeParked(r.s, c, DepthFuel) ELSE r.s,
                         "idle")
                /\ arg' = [arg EXCEPT ![t] = NoArg]
           ELSE /\ pc' = [pc EXCEPT ![t] = "rs_read"]
                /\ UNCHANGED <<portVars, now, csOwner, csDepth, arg>>
    /\ UNCHANGED <<tok, held, issued>>

\* CancelTermination(token): Canceled, unlink and free the token from
\* terminateList, then free(terminate) once more
CancelTermination(t) ==
    /\ Idle(t) /\ tok[t] # Nil
    /\ LET a == tok[t]
           s1 == CTWalk(SetStatus(S, treq[a], "Canceled"), tHead, Nil, a, WalkFuel)
       IN  Step(t, IF Live(s1) THEN FreeTerm(s1, a) ELSE s1, "idle")
    /\ tok' = [tok EXCEPT ![t] = Nil]
    /\ UNCHANGED <<arg, held, issued>>

\* SuspendTermination: AddSuspend, and ResumeTermination if the context is
\* already terminating (E_ABORT)
SuspendTermination(t, c) ==
    /\ Idle(t) /\ held[t] = Nil
    /\ LET r == AddSuspend(S, c) IN
       IF Terminated(r.s, c)
       THEN /\ Step(t, r.s, "rs_read")
            /\ arg' = [arg EXCEPT ![t] = [NoArg EXCEPT !.ctx = c]]
            /\ UNCHANGED held
       ELSE Step(t, r.s, "idle") /\ held' = [held EXCEPT ![t] = c] /\ UNCHANGED arg
    /\ UNCHANGED <<tok, issued>>

\* the caller balances its SuspendTermination
ResumeTerminationCall(t) ==
    /\ Idle(t) /\ held[t] # Nil
    /\ pc' = [pc EXCEPT ![t] = "rs_read"]
    /\ arg' = [arg EXCEPT ![t] = [NoArg EXCEPT !.ctx = held[t]]]
    /\ held' = [held EXCEPT ![t] = Nil]
    /\ UNCHANGED <<portVars, now, csOwner, csDepth, tok, issued>>

SuspendPort(t) ==
    /\ Idle(t)
    /\ Step(t, [S EXCEPT !.suspended = TRUE], "idle")
    /\ UNCHANGED threadVars

\* ResumePort's two counting loops, before `suspended` is cleared
ResumePort(t) ==
    /\ Idle(t)
    /\ LET n1 == CountList(next, qHead, WalkFuel)
           n2 == CountList(tnext, tHead, WalkFuel)
       IN  IF n1 < 0 \/ n2 < 0
           THEN Step(t, Hang(S), "idle") /\ UNCHANGED arg
           ELSE /\ pc' = [pc EXCEPT ![t] = "rp_notify"]
                /\ arg' = [arg EXCEPT ![t] = [NoArg EXCEPT !.n = n1 + n2]]
                /\ UNCHANGED <<portVars, now, csOwner, csDepth>>
    /\ UNCHANGED <<tok, held, issued>>

\* clear suspended, then SignalQueue and NotifyItemQueued once per entry counted
ResumePortNotify(t) ==
    /\ crash = "none" /\ pc[t] = "rp_notify"
    /\ Step(t, NotifyTimes([S EXCEPT !.suspended = FALSE], arg[t].n, DepthFuel), "idle")
    /\ arg' = [arg EXCEPT ![t] = NoArg]
    /\ UNCHANGED <<tok, held, issued>>

\* Detach: CancelPendingEntries(portContext, FALSE), remove from the vector
Detach(t, c) ==
    /\ Idle(t) /\ c \in attached
    /\ LET s1 == CancelPendingEntries(S, c, FALSE, DepthFuel)
       IN  Step(t, IF Live(s1) THEN [s1 EXCEPT !.attached = @ \ {c}] ELSE s1, "idle")
    /\ UNCHANGED threadVars

\* the owning queue's RundownObject for a context of this port:
\* SetStatus(PortStatus_Terminated), then Detach
Rundown(t, c) ==
    /\ Idle(t) /\ c \in attached
    /\ LET s1 == CancelPendingEntries(SetStatus(S, c, "Terminated"), c, FALSE, DepthFuel)
       IN  Step(t, IF Live(s1) THEN [s1 EXCEPT !.attached = @ \ {c}] ELSE s1, "idle")
    /\ UNCHANGED threadVars

\* WaitCallback: the timer's context is set, so it calls the port's
\* x_task_queue_port_WaitTimerOperation, i.e. SubmitPendingCallback
WaitCallback(s) == SubmitPendingCallback(s, DepthFuel)

\* the one-shot thread-pool timer expires (and is no longer set)
TimerFire ==
    /\ crash = "none" /\ timerAt # Nil /\ now >= timerAt
    /\ LET r == WaitCallback([S EXCEPT !.timerAt = Nil])
       IN  /\ MayRun(r, NoThread) /\ Commit(r, NoThread, "idle")
    /\ UNCHANGED <<now, csOwner, csDepth, threadVars>>

Tick ==
    /\ crash = "none" /\ now < MaxTime
    /\ now' = now + 1
    /\ UNCHANGED <<portVars, pc, csOwner, csDepth, threadVars>>

-----------------------------------------------------------------------------
(* A freshly created port (calloc, Initialize) with its contexts attached. *)
Init ==
    /\ next = [a \in EntryAddrs |-> Nil] /\ node = [a \in EntryAddrs |-> NoNode]
    /\ qHead = Nil /\ qTail = Nil /\ pHead = Nil /\ pTail = Nil
    /\ tnext = [a \in TermAddrs |-> Nil] /\ treq = [a \in TermAddrs |-> Nil]
    /\ freeCount = [a \in TermAddrs |-> 0]
    /\ tHead = Nil /\ tTail = Nil /\ ptHead = Nil /\ ptTail = Nil
    /\ status = [c \in Contexts |-> "Active"]
    /\ suspendCount = [c \in Contexts |-> 0]
    /\ suspended = FALSE /\ signaled = FALSE /\ processing = 0
    /\ timerDue = 0          \* never initialised: zero from calloc
    /\ timerAt = Nil /\ now = 0
    /\ attached = Contexts
    /\ csOwner = NoThread /\ csDepth = 0
    /\ pc = [t \in Threads |-> "idle"] /\ arg = [t \in Threads |-> NoArg]
    /\ tok = [t \in Threads |-> Nil] /\ held = [t \in Threads |-> Nil]
    /\ issued = 0 /\ appended = <<>> /\ ran = <<>> /\ fired = <<>>
    /\ crash = "none"

QueueOps(t) ==
    \/ \E c \in Contexts, d \in {0} \cup Delays, a \in FrameOf[t] : QueueItem(t, c, d, a)
    \/ QueueItemGuard(t)

DispatchOps(t) ==
    \/ \E c \in Contexts, x \in Timeouts : Dispatch(t, c, x)
    \/ DrainOneItem(t) \/ CallbackReturn(t) \/ DrainReturn(t)
    \/ WaitReturn(t) \/ WaitTerminated(t) \/ WaitCheck(t) \/ WaitEnter(t)
    \/ WaitWoken(t) \/ WaitTimeout(t) \/ WaitTimedOut(t)

TerminationOps(t) ==
    \/ \E c \in Contexts, a \in TermAddrs : PrepareTerminate(t, c, a)
    \/ Terminate(t) \/ RemoveSuspendRead(t) \/ RemoveSuspendCAS(t)
    \/ CancelTermination(t)
    \/ \E c \in Contexts : SuspendTermination(t, c)
    \/ ResumeTerminationCall(t)

PortOps(t) ==
    \/ SuspendPort(t) \/ ResumePort(t) \/ ResumePortNotify(t)
    \/ \E c \in Contexts : Detach(t, c) \/ Rundown(t, c)

Next ==
    \/ \E t \in Threads :
        \/ "queue" \in Ops /\ QueueOps(t)
        \/ "dispatch" \in Ops /\ DispatchOps(t)
        \/ "terminate" \in Ops /\ TerminationOps(t)
        \/ "port" \in Ops /\ PortOps(t)
    \/ TimerFire
    \/ Tick

Spec == Init /\ [][Next]_vars

-----------------------------------------------------------------------------
Times == 0 .. (MaxTime + MaxDelay)
Opt(X) == X \cup {Nil}
Node == [ctx : Opt(Contexts), item : 0 .. MaxItems, time : Times]

TypeOK ==
    /\ next \in [EntryAddrs -> Opt(EntryAddrs)]
    /\ node \in [EntryAddrs -> Node]
    /\ {qHead, qTail, pHead, pTail} \subseteq Opt(EntryAddrs)
    /\ tnext \in [TermAddrs -> Opt(TermAddrs)] /\ treq \in [TermAddrs -> Opt(Contexts)]
    /\ freeCount \in [TermAddrs -> Nat]
    /\ {tHead, tTail, ptHead, ptTail} \subseteq Opt(TermAddrs)
    /\ status \in [Contexts -> Statuses] /\ suspendCount \in [Contexts -> Nat]
    /\ suspended \in BOOLEAN /\ signaled \in BOOLEAN /\ processing \in Nat
    /\ timerDue \in Times \cup {NoDue} /\ timerAt \in Opt(Times) /\ now \in 0 .. MaxTime
    /\ attached \subseteq Contexts
    /\ csOwner \in Threads \cup {NoThread} /\ csDepth \in 0 .. MaxCSDepth
    /\ pc \in [Threads -> PCs] /\ tok \in [Threads -> Opt(TermAddrs)]
    /\ held \in [Threads -> Opt(Contexts)]
    /\ issued \in 0 .. MaxItems
    /\ appended \in Seq(Node) /\ ran \in Seq(Node) /\ fired \in Seq(TermAddrs)
    /\ crash \in STRING

-----------------------------------------------------------------------------
(* Properties.                                                             *)

\* the nodes a walk from cur along nf visits
RECURSIVE ReachFrom(_, _, _)
ReachFrom(nf, cur, g) ==
    IF cur = Nil \/ g = 0 THEN {} ELSE {cur} \cup ReachFrom(nf, nf[cur], g - 1)

Alive == crash = "none"

\* a context's suspendCount is the number of suspends outstanding on it:
\* SuspendTermination calls not yet balanced, plus the ResumeTermination
\* calls (Terminate's own, the E_ABORT path's, the caller's) whose
\* RemoveSuspend has not yet succeeded.  RemoveSuspend reads the count and
\* then compare-exchanges it, so two removers that read the same value must
\* not both store: one of them retries.
ResumePCs == {"rs_read", "rs_cas"}
SuspendCountMatchesHolders ==
    Alive => \A c \in Contexts :
        suspendCount[c] = Cardinality({t \in Threads : held[t] = c})
                          + Cardinality({t \in Threads : pc[t] \in ResumePCs /\ arg[t].ctx = c})

\* FIFO (spec section 8): callbacks start in the order their entries were
\* appended to the ready list by AppendEntry, each once, so the started ones
\* are a prefix of the appended ones.  DrainOneItem pops queueList_tail.
RunInAppendOrder ==
    Len(ran) <= Len(appended) /\ SubSeq(appended, 1, Len(ran)) = ran

\* Terminate does not overflow the stack (SignalTerminations and
\* ScheduleTermination call each other).
TerminationDoesNotOverflow == crash # "stack overflow"

\* no thread sleeps in Wait while an entry is ready on an unsuspended port:
\* every append and ResumePort signals cvAny.
NoLostWakeup ==
    \A t \in Threads : pc[t] = "d_sleep" /\ ~suspended => qHead = Nil

\* a prepared termination request stays linked in terminateList until it is
\* cancelled or terminated (Terminate parks a request through the same next
\* field that links it into terminateList).
PreparedRequestsListed ==
    Alive => \A t \in Threads : tok[t] # Nil => tok[t] \in ReachFrom(tnext, tHead, WalkFuel)
=============================================================================
