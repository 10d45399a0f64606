----------------------------- MODULE TaskQueue ------------------------------
(***************************************************************************)
(* The task queue object (struct x_task_queue, XTaskQueue.c) as its callers *)
(* see it: XTaskQueueCreate, which allocates the queue, its monitor, its    *)
(* two port contexts, its two ports and their helper objects, any of which  *)
(* allocations may fail; and the queue's Terminate up to the call that      *)
(* hands the work port's request to the port, which prepares one           *)
(* termination request (XTerminateForPort) on each port and cancels the     *)
(* first when the second cannot be allocated.                               *)
(*                                                                         *)
(* A port's termination list is the set of requests linked in it; the      *)
(* pointer surgery of those lists, and what the port's Terminate does next  *)
(* (it overflows the stack), are in XTaskQueuePort.  The XTerminate record  *)
(* the two requests share is not tracked.                                   *)
(***************************************************************************)
EXTENDS Naturals, Sequences

CONSTANTS Threads,   \* callers of the queue's Terminate
          TermAddrs, \* heap addresses an XTerminateForPort can get from calloc
          Nil

\* XTaskQueuePort, and the two port contexts of the queue (impl->workPort,
\* impl->completionPort)
Ports == {"Work", "Completion"}
WorkCtx == "workPort"
CompletionCtx == "completionPort"
Contexts == {WorkCtx, CompletionCtx}

\* the objects XTaskQueueCreate allocates, in the order it allocates them
CreateAllocs == <<"impl", "monitor", "workContext", "completionContext">>
\* a port's Initialize: CreateAtomicVector, XCreateWaitTimer, CreateIThreadPool
PortInitAllocs(p) == <<p \o "Vector", p \o "Timer", p \o "Pool">>
PortAllocs == <<"workPortObj", "completionPortObj">>
              \o PortInitAllocs("work") \o PortInitAllocs("completion")
Objects == {CreateAllocs[i] : i \in 1 .. 4} \cup {PortAllocs[i] : i \in 1 .. 8}
           \cup {"taskObject"}

VARIABLES heap,      \* heap[o]: "unallocated", "live" or "freed"
          cpc,       \* where XTaskQueueCreate is: "start", "ports", "handle", "done"
          hr,        \* the HRESULT XTaskQueueCreate returned
          handle,    \* the caller's *queue: "unset", Nil, or "taskObject"
          ref,       \* impl->ref
          allowed,   \* impl->terminationData.allowed
          status,    \* x_task_queue_port_context.status of the two contexts
          tlist,     \* tlist[p]: the requests linked in port p's terminateList
          reqCtx,    \* XTerminateForPort.portContext (Nil: never allocated)
          freeCount, \* free() calls on each XTerminateForPort
          pc,        \* per caller: where its Terminate is
          wtok,      \* per caller: its workToken
          wait       \* per caller: the `wait` argument

vars == <<heap, cpc, hr, handle, ref, allowed, status, tlist, reqCtx, freeCount,
          pc, wtok, wait>>

\* the first n allocations of objs succeed
AllocFirst(h, objs, n) ==
    [o \in DOMAIN h |-> IF \E i \in 1 .. n : objs[i] = o THEN "live" ELSE h[o]]
Free(h, os) == [o \in DOMAIN h |-> IF o \in os THEN "freed" ELSE h[o]]

\* calloc of a request: an address never handed out before
Fresh(a) == reqCtx[a] = Nil

Init ==
    /\ heap = [o \in Objects |-> "unallocated"]
    /\ cpc = "start" /\ hr = "none" /\ handle = "unset" /\ ref = 0
    /\ allowed = FALSE
    /\ status = [c \in Contexts |-> "Active"]
    /\ tlist = [p \in Ports |-> {}]
    /\ reqCtx = [a \in TermAddrs |-> Nil] /\ freeCount = [a \in TermAddrs |-> 0]
    /\ pc = [t \in Threads |-> "idle"] /\ wtok = [t \in Threads |-> Nil]
    /\ wait = [t \in Threads |-> FALSE]

-----------------------------------------------------------------------------
(* XTaskQueueCreate                                                        *)

\* calloc of impl, the monitor and the two contexts; a failure returns
\* E_OUTOFMEMORY at once, leaking what was allocated, and leaves *queue
\* untouched.  Then ref = 1 and *queue = NULL.
CreateObjects ==
    /\ cpc = "start"
    /\ \E n \in 0 .. 4 :
         /\ heap' = AllocFirst(heap, CreateAllocs, n)
         /\ IF n < 4
            THEN cpc' = "done" /\ hr' = "E_OUTOFMEMORY" /\ UNCHANGED <<handle, ref>>
            ELSE cpc' = "ports" /\ handle' = Nil /\ ref' = 1 /\ UNCHANGED hr
    /\ UNCHANGED <<allowed, status, tlist, reqCtx, freeCount, pc, wtok, wait>>

\* InitializeOverloadPorts(.., TRUE, TRUE): calloc the two ports, then each
\* port's Initialize callocs its atomic vector, wait timer and thread pool
\* (the timer's CreateThreadpoolTimer result is ignored).  A failure after
\* both ports exist frees the two ports only; a failure before returns
\* without freeing.  XTaskQueueCreate then frees impl and returns S_OK.
\* On success the contexts are attached (a failed Attach is ignored) and
\* termination is allowed.
InitializeOverloadPorts ==
    /\ cpc = "ports"
    /\ \E n \in 0 .. 8 :
         LET h1 == AllocFirst(heap, PortAllocs, n)
             h2 == IF n >= 2 THEN Free(h1, {"workPortObj", "completionPortObj"}) ELSE h1
         IN  IF n = 8
             THEN heap' = h1 /\ allowed' = TRUE /\ cpc' = "handle" /\ UNCHANGED hr
             ELSE heap' = Free(h2, {"impl"}) /\ hr' = "S_OK" /\ cpc' = "done"
                  /\ UNCHANGED allowed
    /\ UNCHANGED <<handle, ref, status, tlist, reqCtx, freeCount, pc, wtok, wait>>

\* CreateTaskQueueHandle: calloc the handle object, AddRef, *queue = it;
\* on failure XTaskQueueCreate frees impl.  Either way it returns S_OK.
CreateTaskQueueHandle ==
    /\ cpc = "handle"
    /\ \/ /\ heap' = [heap EXCEPT !["taskObject"] = "live"]
          /\ handle' = "taskObject" /\ ref' = ref + 1
       \/ /\ heap' = Free(heap, {"impl"})
          /\ UNCHANGED <<handle, ref>>
    /\ hr' = "S_OK" /\ cpc' = "done"
    /\ UNCHANGED <<allowed, status, tlist, reqCtx, freeCount, pc, wtok, wait>>

-----------------------------------------------------------------------------
(* The ports' termination calls the queue makes.                           *)

\* PrepareTerminate(portContext) on port p: link a fresh request into
\* terminateList and SetStatus(portContext, PortStatus_Active)
PortPrepareTerminate(p, c, a) ==
    /\ tlist' = [tlist EXCEPT ![p] = @ \cup {a}]
    /\ reqCtx' = [reqCtx EXCEPT ![a] = c]
    /\ status' = [status EXCEPT ![c] = "Active"]

\* CancelTermination(token) on port p: Canceled, unlink and free the token
\* if p's list holds it, then free it once more
PortCancelTermination(p, a) ==
    /\ status' = [status EXCEPT ![reqCtx[a]] = "Canceled"]
    /\ tlist' = [tlist EXCEPT ![p] = @ \ {a}]
    /\ freeCount' = [freeCount EXCEPT ![a] = @ + (IF a \in tlist[p] THEN 2 ELSE 1)]

-----------------------------------------------------------------------------
(* The queue's Terminate(wait, ...), per caller thread.                    *)

Created == cpc = "done" /\ handle = "taskObject"

\* calloc the XTerminate (failure: E_OUTOFMEMORY), then the allowed test
\* (failure: E_ACCESSDENIED)
TerminateBegin(t, w) ==
    /\ Created /\ pc[t] = "idle"
    /\ \E ok \in BOOLEAN :
         pc' = [pc EXCEPT ![t] = IF ok /\ allowed THEN "prep_work" ELSE "idle"]
    /\ wait' = [wait EXCEPT ![t] = w]
    /\ UNCHANGED <<heap, cpc, hr, handle, ref, allowed, status, tlist, reqCtx,
                   freeCount, wtok>>

\* the work port's PrepareTerminate for the work context; on failure free
\* the XTerminate and return
PrepareWork(t) ==
    /\ pc[t] = "prep_work"
    /\ \/ \E a \in TermAddrs :
            /\ Fresh(a)
            /\ PortPrepareTerminate("Work", WorkCtx, a)
            /\ wtok' = [wtok EXCEPT ![t] = a]
            /\ pc' = [pc EXCEPT ![t] = "prep_completion"]
       \/ /\ pc' = [pc EXCEPT ![t] = "idle"]
          /\ UNCHANGED <<tlist, reqCtx, status, wtok>>
    /\ UNCHANGED <<heap, cpc, hr, handle, ref, allowed, freeCount, wait>>

\* the completion port's PrepareTerminate, passed impl->workPort as the
\* context; on failure CancelTermination(workToken) is called on
\* queuePort, which by then is the completion port
PrepareCompletion(t) ==
    /\ pc[t] = "prep_completion"
    /\ \/ \E b \in TermAddrs :
            /\ Fresh(b)
            /\ PortPrepareTerminate("Completion", WorkCtx, b)
            /\ pc' = [pc EXCEPT ![t] = "terminate"]
            /\ UNCHANGED <<freeCount, wtok>>
       \/ /\ PortCancelTermination("Completion", wtok[t])
          /\ pc' = [pc EXCEPT ![t] = "idle"]
          /\ wtok' = [wtok EXCEPT ![t] = Nil]
          /\ UNCHANGED reqCtx
    /\ UNCHANGED <<heap, cpc, hr, handle, ref, allowed, wait>>

\* AddRef, a second AddRef when waiting, then the work port's
\* Terminate(workToken), which continues in the port
TerminateWork(t) ==
    /\ pc[t] = "terminate"
    /\ ref' = ref + (IF wait[t] THEN 2 ELSE 1)
    /\ pc' = [pc EXCEPT ![t] = "in_port"]
    /\ UNCHANGED <<heap, cpc, hr, handle, allowed, status, tlist, reqCtx, freeCount,
                   wtok, wait>>

Next ==
    \/ CreateObjects \/ InitializeOverloadPorts \/ CreateTaskQueueHandle
    \/ \E t \in Threads :
         \/ \E w \in BOOLEAN : TerminateBegin(t, w)
         \/ PrepareWork(t) \/ PrepareCompletion(t) \/ TerminateWork(t)

Spec == Init /\ [][Next]_vars

-----------------------------------------------------------------------------
TypeOK ==
    /\ heap \in [Objects -> {"unallocated", "live", "freed"}]
    /\ cpc \in {"start", "ports", "handle", "done"}
    /\ hr \in {"none", "S_OK", "E_OUTOFMEMORY"}
    /\ handle \in {"unset", Nil, "taskObject"} /\ ref \in Nat /\ allowed \in BOOLEAN
    /\ status \in [Contexts -> {"Active", "Canceled", "Terminating", "Terminated"}]
    /\ tlist \in [Ports -> SUBSET TermAddrs]
    /\ reqCtx \in [TermAddrs -> Contexts \cup {Nil}] /\ freeCount \in [TermAddrs -> Nat]
    /\ pc \in [Threads -> {"idle", "prep_work", "prep_completion", "terminate", "in_port"}]
    /\ wtok \in [Threads -> TermAddrs \cup {Nil}] /\ wait \in [Threads -> BOOLEAN]

\* a termination request that has been freed is linked in no port's
\* terminateList: the port walks that list in SignalTerminations and
\* CancelTermination, so a freed node in it is used after free.  Terminate
\* cancels the work port's request when the completion port's
\* PrepareTerminate fails, and must cancel it on the port that holds it.
NoFreedRequestListed ==
    \A p \in Ports : \A a \in tlist[p] : freeCount[a] = 0
=============================================================================
