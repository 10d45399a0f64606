----------------------------- MODULE ThreadPool -----------------------------
(***************************************************************************)
(* The IThreadPool wrapper of ThreadPool.c: one Win32 work object whose    *)
(* callback, TPCallback, wraps the owner's callback with a heap-allocated  *)
(* ThreadPoolActionStatus and an AddRef/Release of the pool.  The owner    *)
(* calls Initialize, Submit and Terminate; each Submit queues one run of   *)
(* TPCallback, which the Win32 pool starts on a thread of its own.         *)
(***************************************************************************)
EXTENDS Naturals

CONSTANTS Workers,       \* thread-pool threads that run TPCallback
          MaxSubmits,    \* bound on the owner's Submit calls
          CallocFails    \* whether TPCallback's calloc of the status may fail

ASSUME MaxSubmits \in Nat /\ CallocFails \in BOOLEAN

VARIABLES phase,       \* the owner's view: "created", "initialized", "failed", "terminated"
          work,        \* impl->work is set (CreateThreadpoolWork succeeded)
          ref,         \* impl->ref
          pending,     \* runs of TPCallback queued by Submit and not yet started
          wpc,         \* per worker: "idle", or "in_cb" while the owner's callback runs
          status,      \* per worker: its ThreadPoolActionStatus (IsComplete, longRunning)
          submitted,   \* ghost: Submit calls
          invoked      \* ghost: calls of the owner's callback

vars == <<phase, work, ref, pending, wpc, status, submitted, invoked>>

NoStatus == [complete |-> FALSE, longRunning |-> FALSE]

\* CreateIThreadPool: calloc, ref = 1, no work object yet
Init ==
    /\ phase = "created" /\ work = FALSE /\ ref = 1 /\ pending = 0
    /\ wpc = [w \in Workers |-> "idle"] /\ status = [w \in Workers |-> NoStatus]
    /\ submitted = 0 /\ invoked = 0

\* Initialize(context, callback): CreateThreadpoolWork, which may fail; the
\* owner stops using the pool when it returns an error
Initialize ==
    /\ phase = "created"
    /\ \E ok \in BOOLEAN :
         /\ work' = ok
         /\ phase' = IF ok THEN "initialized" ELSE "failed"
    /\ UNCHANGED <<ref, pending, wpc, status, submitted, invoked>>

\* Submit: SubmitThreadpoolWork(work) queues one run of TPCallback
Submit ==
    /\ phase = "initialized" /\ submitted < MaxSubmits
    /\ pending' = pending + 1
    /\ submitted' = submitted + 1
    /\ UNCHANGED <<phase, work, ref, wpc, status, invoked>>

\* Terminate: the test is inverted, so with a work object it neither waits
\* for outstanding callbacks nor closes the work object; then Release
Terminate ==
    /\ phase = "initialized"
    /\ phase' = "terminated"
    /\ ref' = ref - 1
    /\ UNCHANGED <<work, pending, wpc, status, submitted, invoked>>

\* the pool starts TPCallback on a worker: calloc the status (on failure
\* return at once), AddRef, and call the owner's callback
TPCallbackBegin(w) ==
    /\ wpc[w] = "idle" /\ pending > 0
    /\ pending' = pending - 1
    /\ \/ /\ wpc' = [wpc EXCEPT ![w] = "in_cb"]
          /\ status' = [status EXCEPT ![w] = NoStatus]
          /\ ref' = ref + 1
          /\ invoked' = invoked + 1
       \/ /\ CallocFails
          /\ UNCHANGED <<wpc, status, ref, invoked>>
    /\ UNCHANGED <<phase, work, submitted>>

\* ThreadPoolActionStatus_Complete: IsComplete = TRUE and
\* DisassociateCurrentThreadFromCallback
Complete(w) ==
    /\ status' = [status EXCEPT ![w].complete = TRUE]

\* the owner's callback calls status->Complete before it returns, as
\* ProcessThreadPoolCallback does, at most once
CallbackComplete(w) ==
    /\ wpc[w] = "in_cb" /\ ~status[w].complete
    /\ Complete(w)
    /\ UNCHANGED <<phase, work, ref, pending, wpc, submitted, invoked>>

\* ThreadPoolActionStatus_MayRunLong: TpCallbackMayRunLong once
MayRunLong(w) ==
    /\ wpc[w] = "in_cb" /\ ~status[w].longRunning
    /\ status' = [status EXCEPT ![w].longRunning = TRUE]
    /\ UNCHANGED <<phase, work, ref, pending, wpc, submitted, invoked>>

\* the owner's callback returns: Complete unless it already did, then
\* Release (which never frees); the status is never freed
TPCallbackEnd(w) ==
    /\ wpc[w] = "in_cb"
    /\ IF status[w].complete THEN UNCHANGED status ELSE Complete(w)
    /\ ref' = ref - 1
    /\ wpc' = [wpc EXCEPT ![w] = "idle"]
    /\ UNCHANGED <<phase, work, pending, submitted, invoked>>

Next ==
    \/ Initialize \/ Submit \/ Terminate
    \/ \E w \in Workers :
         TPCallbackBegin(w) \/ CallbackComplete(w) \/ MayRunLong(w) \/ TPCallbackEnd(w)

\* the Win32 pool runs every queued callback (it adds threads as needed),
\* and the owner's callback returns
Fairness ==
    /\ WF_vars(\E w \in Workers : TPCallbackBegin(w))
    /\ \A w \in Workers : WF_vars(TPCallbackEnd(w))

Spec == Init /\ [][Next]_vars /\ Fairness

-----------------------------------------------------------------------------
\* spec section 2 (ThreadPool mode: every successful enqueue schedules one
\* thread-pool work item, and N items may run N callbacks) and the error
\* policy (an allocation failure is surfaced to the caller that triggered
\* it): every Submit eventually calls the owner's callback.  TPCallback
\* returns at once, with no trace, when it cannot allocate its status.
EverySubmitInvoked ==
    \A n \in 1 .. MaxSubmits : submitted >= n ~> invoked >= n

\* the port's comment at its Submit call and TPCallback's comment: the final
\* release must wait on outstanding calls, so once Terminate has returned
\* no callback is queued or running
TerminateWaitsForCallbacks ==
    phase = "terminated" => pending = 0 /\ \A w \in Workers : wpc[w] = "idle"
=============================================================================
