# TLA+ models of the WineGDK XTaskQueue threading code

This directory holds TLA+ models of the task-queue runtime in
`src/dlls/xgameruntime/GDKComponent/System/Threading/`. It also holds the TLC
configurations that check those models. `PROJECT.json` maps every model
definition to the source lines it translates. It also lists the runs, the
mutants, the findings and the hazards.

## The system

| Part | Source | Role |
|---|---|---|
| port context | `XTaskQueue.c` 63-216 | A queue's handle on a port. It holds a status (Active, Canceled, Terminating, Terminated) and a suspend count. It forwards `ItemQueued` to the monitor. |
| port | `XTaskQueue.c` 397-1388 | Holds four intrusive lists. `queueList` holds ready entries. `pendingQueueList` holds delayed entries. `terminateList` holds termination requests. `pendingTerminateList` holds termination requests parked while suspends are held. The port also has a critical section `cs`, two condition variables (`cv` and `cvAny`), a `signaled` flag, `suspended`, `processingCallback`, and a wait timer with `timerDue`. |
| monitor | `XTaskQueue.c` 218-395 | Submit-callback registrations in two `XMonitor` buffers. |
| task queue | `XTaskQueue.c` 1390-1855 | A work port context and a completion port context, each bound to a port of its own. It also covers creation, termination, rundown and handle creation. |
| thread pool | `ThreadPool.c` | A wrapper around a Win32 thread-pool work object. |
| wait timer | `XOSThreading.c` | A wrapper around a Win32 thread-pool timer. |
| atomic vector | `AtomicVector.c` | The SRW-locked vector of attached contexts. |

**How the parts interact:**
- A caller queues work with `QueueItem`.
  - An entry due now goes straight to the ready list through `AppendEntry`. `AppendEntry` calls `SignalQueue`, which wakes `cvAny`, and then `NotifyItemQueued`.
  - `NotifyItemQueued` submits thread-pool work, visits the attached contexts (which invokes the monitor), and in Immediate mode drains one item inline.
  - A delayed entry goes to the pending list and arms the wait timer. When the timer fires, `SubmitPendingCallback` moves the due entry to the ready list.
- `Dispatch` loops. Each pass runs `DrainOneItem`, which pops an entry and runs its callback, and then `Wait`, which sleeps on `cvAny` under `cs`.
- A termination is a `PrepareTerminate` / `Terminate` pair, or a `PrepareTerminate` / `CancelTermination` pair.
  - `Terminate` sets the context Terminating, cancels the pending entries, and schedules the request.
  - If suspends are held (`SuspendTermination`), `Terminate` parks the request instead. The last `ResumeTermination` schedules it.
  - `SignalTerminations` delivers the terminated callbacks once the ready list is empty.

## Modules

### `XTaskQueuePort.tla`: one port and its contexts

**State.** The variables follow `struct x_task_queue_port` and `struct x_task_queue_port_context`.
- The lists are kept at pointer level:
  - `next[a]` is the `next` field of the XQueue at address `a`;
  - `tnext[a]` is the `next` field of the XTerminateForPort at address `a`;
  - `qHead`/`qTail`, `pHead`/`pTail`, `tHead`/`tTail` and `ptHead`/`ptTail` are the list heads and tails.
- `node[a]` holds the fields of an entry: its context, its item number and its `enqueueTime`.
- `freeCount` counts `free()` calls on each termination request.
- The port fields are `status`, `suspendCount`, `suspended`, `signaled`, `processing` (`processingCallback`) and `timerDue`.
- `timerAt` is the armed due time of the wait timer.
- `attached` is the attached-context vector.
- `csOwner`/`csDepth` record the owner of `cs`.
- Caller threads have a program counter `pc` and their arguments `arg`. `tok` holds a thread's prepared termination token, and `held` holds its outstanding `SuspendTermination`.
- Ghost variables record history: `appended` (the order entries reached the ready list), `ran` (the order callbacks started), `fired` (terminations delivered) and `crash` (the first fault).

**Actions.** Each public port method is an action of a caller thread. It models the whole method, with every nested call. Nested calls are operators on a record of the port state, and `Commit` writes the record back.

| Method | Actions |
|---|---|
| `QueueItem` | `QueueItem`, `QueueItemGuard` |
| `Dispatch` | `Dispatch`, then `DrainOneItem`, `CallbackReturn` and `DrainReturn` for `DrainOneItem`; `WaitReturn`, `WaitTerminated`, `WaitCheck`, `WaitEnter`, `WaitWoken`, `WaitTimeout` and `WaitTimedOut` for `Wait` |
| `PrepareTerminate` | `PrepareTerminate` |
| `Terminate` | `Terminate`, then `RemoveSuspendRead` and `RemoveSuspendCAS` for its closing `ResumeTermination` |
| `CancelTermination` | `CancelTermination` |
| `SuspendTermination` | `SuspendTermination` |
| `ResumeTermination` (by the caller) | `ResumeTerminationCall`, then `RemoveSuspendRead` and `RemoveSuspendCAS` |
| `SuspendPort` | `SuspendPort` |
| `ResumePort` | `ResumePort` (the counting loops), `ResumePortNotify` |
| `Detach` | `Detach` |

Two more actions are not caller methods:
- `Rundown` is the owning queue's `RundownObject` for a context of this port. It is the only code that sets `PortStatus_Terminated`. The model runs it for one context at a time, as `RundownObject` does for each of the queue's two contexts; the ordering between the two contexts at queue level is not modelled.
- `TimerFire` is the wait timer's callback (`WaitCallback` calling `WaitTimerOperation`).

`Tick` advances the discrete clock.

The internal calls are recursive operators, because they call each other:
- `AppendEntry`, `NotifyItemQueued`, `SignalTerminations` and `ScheduleTermination`;
- `CancelPendingEntries`, `ScheduleNextPendingCallback` and `SubmitPendingCallback`;
- `ResumeParked`, the walk of the parked-termination list that `RemoveSuspend` does when the count reaches zero.

**Recursion bounds.**
- A list walk gets `WalkFuel` steps, one more than the number of addresses. Running out means the list is cyclic, and the thread hangs (`pc = "hung"`).
- A call chain gets `DepthFuel` levels, which is enough for every acyclic chain. Running out is recorded as a stack overflow.

**Constants.**
- Model values: `Threads`, `Contexts`, `EntryAddrs`, `TermAddrs`.
- `FrameOf[t]` is the address of thread `t`'s `queue` local. A thread calls from one stack depth, so it has one frame.
- `Mode` is the dispatch mode.
- `Delays`, `MaxTime`, `MaxItems`, `MaxRuns`, `Timeouts` and `MaxCSDepth` are the named bounds.
- `Ops` chooses which groups of methods the callers use: `queue`, `dispatch`, `terminate` and `port`.
- `MonitorCrashes` is a switch, described under "Modelling decisions".

### `AtomicVector.tla` and `AttachedSet.tla`: the attached-context vector

`AtomicVector` models `AtomicVector.c`.

**State.**
- `items` is the live prefix `items[0 .. size-1]`. Slots past `size` are never read.
- `capacity`.
- Per thread, `pc` is `"visit"` while the thread holds the shared lock, and `idx` is Visit's iterator.
- Ghost variable: `lastCall` records the last Add or Remove, for the refinement mapping.

**Actions.**
- `Add` and `Remove` hold the exclusive lock for their whole body, so each is one step. Each is guarded by `NoReaders`.
- `Add` grows the array with `NewCapacity`, which gives 8 and then doubles.
- `AddOutOfMemory` is the realloc failure.
- `Remove`'s loop is the recursive operator `Compact`, which has the code's read and write indices.
- `Visit` is `VisitBegin`, then one `VisitStep` per element, then `VisitEnd`, because its loop re-reads `size` while other threads run.

`AttachedSet` is the abstract specification: a set of contexts with `Insert` and `Delete`, and a record of the call. `AtomicVector` is checked to implement it under the mapping `members <- ToSet(items)`, `call <- lastCall`. That mapping is the reason `XTaskQueuePort` may model `attached` as a set.

### `MonitorCallback.tla`: the submit-monitor registry

`MonitorCallback` models `x_task_queue_monitor_callback` (`XTaskQueue.c` 253-383).

**State.**
- `buf[b][i]` is slot `i` of `monitors_buffers[b]`, a token and a callback. The context pointer is dropped.
- `ref` is the 32-bit `ref` word, kept as its bit 31 (`hi`, the live buffer index) and its low 31 bits (`lo`, the count). `Incr` and `Decr` carry and borrow between them as the word does.
- `nextToken`, and `csOwner` for `cs`.
- Per thread: `pc`, the loop index `slot`, Invoke's `bidx`, Register's `rIdx`, and `regTok`, the token its Register returned.
- Ghost variables: `live` holds the tokens whose Register returned and which are not unregistered. `expect` and `called` record, per Invoke, what was live and what it called.

**Actions.**
- `Register` is the copy loop under `cs`: it copies the live buffer into the other one and puts the callback, with a fresh token, into the first free slot. With no free slot it returns E_OUTOFMEMORY and keeps `cs`, as the code does.
- `Unregister` is the same copy, clearing the callback of the slot with the token.
- `SwapBuffers` is the shared swap loop and `LeaveCriticalSection`. `InterlockedCompareExchange(&ref, expected, desired)` stores `expected` only when `ref` equals `desired`. The loop ends once `ref` is read the same twice, whatever the exchange did. The model keeps the exchange and drops the retry, which changes nothing.
- `InvokeBegin` (increment), `InvokeIndex` (read bit 31), one `InvokeSlot` per slot, `InvokeEnd` (decrement). Invoke takes no lock, so each is its own step.
- `BuffersWired = FALSE` is the build: `monitors_buffers` is never set, so the first buffer access faults. Both runs set it TRUE to check the design behind those pointers.

### `ThreadPool.tla`: the thread-pool wrapper

`ThreadPool` models `ThreadPool.c` as it behaves once its owner has called `Initialize`. In this build the port never does (see `PROJECT.json`), so the module checks the component on its own.

**State.**
- `phase` is the owner's view: created, initialized, failed (`CreateThreadpoolWork` failed) or terminated. `work` says whether the work object exists.
- `ref` is the pool's count. `pending` counts runs of `TPCallback` queued by `Submit` and not yet started.
- Per pool thread: `wpc` (`"in_cb"` while the owner's callback runs) and its `ThreadPoolActionStatus` (`IsComplete`, `longRunning`).
- Ghost variables: the counts `submitted` (returned `Submit` calls) and `invoked` (owner callbacks run).

**Actions.**
- `Initialize`, `Submit` and `Terminate` are the owner's calls. `Terminate` keeps the inverted test: with a work object it releases at once.
- `TPCallbackBegin` is the start of `TPCallback`: the calloc of the status (which may fail, `CallocFails`, and then returns), the AddRef, and the call of the owner's callback.
- Inside the callback, `CallbackComplete` is the owner calling `Complete`, as `ProcessThreadPoolCallback` does, and `MayRunLong` is `ThreadPoolActionStatus_MayRunLong`.
- `TPCallbackEnd` completes the status unless the owner did, and releases.

### `TaskQueue.tla`: queue creation and the queue's Terminate

**State.** `heap` records each object `XTaskQueueCreate` allocates (the queue, the monitor, the two contexts, the two ports and, per port, the vector, timer and pool that the port's `Initialize` creates, and the handle object) as unallocated, live or freed. `cpc`, `hr` and `handle` follow `XTaskQueueCreate`; `ref` and `allowed` are `impl->ref` and `impl->terminationData.allowed`. For termination requests, `tlist[p]` is the set of requests linked in port `p`'s `terminateList`, `reqCtx[a]` is a request's `portContext`, and `freeCount[a]` counts the `free()` calls on it. The pointer surgery of the lists is in `XTaskQueuePort`; here only membership matters.

**Actions.**
- `CreateObjects`, `InitializeOverloadPorts` and `CreateTaskQueueHandle` are the three stages of `XTaskQueueCreate`. Each picks how many of its allocations succeed (`\E n`). The failure paths are the code's: an early failure leaks what was allocated; a port `Initialize` failure frees the two ports only; after `InitializeOverloadPorts` or `CreateTaskQueueHandle` fails, `impl` is freed and the function still returns `S_OK` with `*queue` NULL.
- Per caller thread, the queue's `Terminate` is `TerminateBegin` (the `XTerminate` calloc and the `allowed` test), `PrepareWork` and `PrepareCompletion` (the two ports' `PrepareTerminate`, either of which can fail to allocate), and `TerminateWork` (the AddRefs and the call into the work port's `Terminate`, where `XTaskQueuePort` takes over).
- `PortPrepareTerminate` and `PortCancelTermination` are the ports' calls at the level of list membership. `CancelTermination` frees a token it finds in its list and then frees it again.

### `MC_XTaskQueuePort.tla`

Instantiates the port with model values for TLC. `MCFrameOf` gives each thread its one frame address. Contexts and request addresses are symmetric. Threads are not symmetric, because each owns a distinct frame.

## Modelling decisions

**Memory.**
- An entry is the caller's stack local `queue` (`XTaskQueue.c:473`).
  - A thread's later `QueueItem` reuses the same address. So it overwrites `node` and `next` of an entry that may still be linked.
  - `free()` of such an entry is refused by the heap and has no effect.
  - `queue.next` is never written by `QueueItem`. The first time it is NULL; after that it holds the stale value at that address.

**Timer.**
- `ScheduleNextPendingCallback`'s compare-exchanges compare `timerDue` with itself. Its callers pass `dueTime = timerDue`. So the timer is either started for `nextItem` or cancelled. The model keeps the decision and drops the retry loop, which cannot retry.
- `timerDue` starts at 0 (`calloc`). It is set to `UINT64_MAX` (`NoDue`) by `CancelPendingEntries`.
- The wait timer of `XOSThreading.c` is three operators: `GetAbsoluteTime` (`now + waitMs`, with model time in milliseconds on a clock of `MaxTime` ticks), `TimerStart` and `TimerCancel`. A one-shot expiry is `TimerFire`, which clears the setting and calls `WaitCallback`, that is `SubmitPendingCallback`.

**Atomicity.**
- A method is one atomic step, except at the points where another thread's step changes what it does. These points are:
  - `QueueItem` before its race guard;
  - `Terminate` before its closing `ResumeTermination`;
  - `RemoveSuspend` between reading `suspendCount` (181) and its compare-exchange (192), which retries when the count moved;
  - `DrainOneItem` between the `processingCallback` decrement (733) and its tail (744-748);
  - `Wait` between its loop test (759) and `EnterCriticalSection` (766); only the `signaled` flag covers this window;
  - `ResumePort` between counting and notifying;
  - `Dispatch` at each loop turn and at each wait on `cvAny`.
- This under-approximates races inside a list walk. Every violation found is still a real behaviour.
- `EnterCriticalSection` is a guard (`CanEnter`). A step that enters `cs` waits while another thread owns it.

**Undefined and defective behaviour.** Such behaviour is a crash value, and every action stops after a crash. The crash values are:
- `AppendEntry(NULL)`;
- `SubmitThreadpoolWork(NULL)`;
- `stack overflow`;
- `NULL front` (a pop with a NULL tail).

**`MonitorCrashes`.**
- `Invoke` reads `monitors_buffers`, which is never set. So in the built program every `ItemQueued` dereferences NULL.
- With `MonitorCrashes = FALSE` the model looks past that fault, so that the port's own logic can be checked. All runs use FALSE.

## Runs

### Passing runs

The two port runs use Manual mode with 2 threads and 2 contexts.

| Run | What it checks |
|---|---|
| `dispatch` | Ops queue and dispatch. Delays {1}, `MaxItems = 2`, `MaxRuns = 2`, finite and infinite waits, `MaxCSDepth = 1`, symmetry over threads (491k states). `TypeOK`. `NoLostWakeup`: a thread that sleeps on `cvAny` with an entry ready has a wakeup pending. `Wait` tests its loop condition (759) before it enters `cs` (766), so an append can land in between; the `signaled` flag that `SignalQueue` sets under `cs` is what keeps that wakeup from being lost. |
| `suspend` | Ops terminate, dispatch and port, with two request addresses (1.66M states). `SuspendCountMatchesHolders`: each context's `suspendCount` equals the suspends outstanding. These are unbalanced `SuspendTermination` calls plus `Terminate` and `ResumeTermination` calls that have not yet finished their `RemoveSuspend`. `RemoveSuspend` reads the count and then compare-exchanges it, so two threads can read the same value; the property shows the retry loses no decrement. It holds across the E_ABORT path, `Rundown` and parked terminations. |
| `vector` | `MC_AtomicVector` with 2 threads, 2 values and `MaxSize = 9`, so the array grows from 8 to 16, symmetry over threads (41k states). `TypeOK`, which includes that the elements fit the allocation. `AttachedSetRefined`: the vector implements `AttachedSet`: growth, compaction and concurrent Visits never lose, duplicate or invent an element. |
| `monitor` | `MC_MonitorCallback` with 2 threads, 2 callbacks, 2 slots and 3 tokens, `BuffersWired = TRUE` (9k states). `TypeOK`, which includes that an occupied slot has a nonzero token. It also fires every action of the monitor for the `monitor_invoke` violation run. |

### Violation runs

Each violation run checks one property that the code's comments or its obvious contract state, and TLC refutes it. The findings in `PROJECT.json` give the source line and the trace.

| Run | Property | What breaks it |
|---|---|---|
| `fifo` | `RunInAppendOrder` | The pop takes the tail of the ready list, so the second entry runs first. |
| `lost_wakeup` | `NoLostWakeup` | `ResumePort` counts before clearing `suspended`, and an append in between is never signalled. Three threads. |
| `overflow` | `TerminationDoesNotOverflow` | `SignalTerminations` and `ScheduleTermination` recurse forever. |
| `term_list` | `PreparedRequestsListed` | Parking a request reuses its `terminateList` link. Three request addresses. |
| `queue_terminate` | `NoFreedRequestListed` | `TaskQueue` with 2 callers and 3 request addresses. When the completion port's `PrepareTerminate` fails, `Terminate` cancels the work port's request on the completion port, which frees it while the work port still links it. |
| `monitor_invoke` | `RegisteredIsInvoked` | The swap loop's compare-exchange never flips the live buffer, so Register writes buffer 1 and Invoke reads the empty buffer 0. Spec 4.3 says every registered monitor is notified. |
| `pool_dropped` | `EverySubmitInvoked` | `ThreadPool` with 2 pool threads, 2 submits and failing allocations. `TPCallback` drops the owner's callback when `calloc` of its status fails (line 96); spec section 2 says each enqueue runs one callback and allocation failures are surfaced, not swallowed. |
| `pool_terminate` | `TerminateWaitsForCallbacks` | `thread_pool_Terminate` tests `!impl->work`, so with a work object it skips the wait for outstanding callbacks. |

**Mutants.** Each property of a passing run is shown to be sensitive to the code it is about: `PROJECT.json` lists a mutant of the mapped definition that TLC must catch.
- `SignalQueue` without setting `signaled` breaks `NoLostWakeup`.
- `CallbackReturn` with a double decrement breaks `TypeOK`.
- `RemoveSuspend`'s compare-exchange as a blind store of the value read breaks `SuspendCountMatchesHolders`.
- `NewCapacity` without the zero case breaks `TypeOK` of the vector.
- `Compact` without the copy-down breaks `AttachedSetRefined`.
- `Register` reading the token before incrementing `nextToken` breaks `TypeOK` of the monitor.

### Bounds

- The pool uses two threads and two submits: two callbacks run together, and a failed allocation in either drops its callback.
- Two threads suffice for every pairwise interleaving of methods. The lost wakeup needs three: a sleeper, a resumer and an appender.
- Two items and two runs let a second entry overtake or overwrite the first.
- One delay value and `MaxTime = 1` let a delayed entry be either due or not due.
- `MaxCSDepth = 1` lets a `cs` kept by `Wait`'s timeout path block another thread.
- `TaskQueue` uses two callers of `Terminate` and three request addresses, enough for one caller to hold requests on both ports while another prepares; every allocation count from none to all is enumerated, so each failure point is taken.
- The monitor needs two slots so that a registration lands after an occupied slot, and three tokens so that a Register can follow an Unregister. Its 32 slots behave alike, and the full-table path is unreachable (see `PROJECT.json`).

**Fairness.**
- `AtomicVector` and `MonitorCallback` assume no fairness: their runs check only invariants and a safety refinement.
- `ThreadPool` assumes weak fairness of starting some queued `TPCallback` (the Win32 pool adds threads while work is queued) and of each thread's `TPCallbackEnd` (the owner's callback returns).
- `pool_dropped` uses this fairness and drops symmetry, which is unsound with liveness. It sets `CHECK_DEADLOCK FALSE`: a pool with no work left really stops. The port assumes none: every termination path overflows the stack before the callback is delivered, so "a terminated context's callback is eventually delivered" would be vacuous until that defect is fixed.

## Not modelled, and the plan

- **Monitor composed with the port.** `MonitorCallback` stands alone; the port still models the monitor as the `MonitorCrashes` switch.
- **Task queue past the work port's `Terminate`.** `TaskQueue` stops where the queue hands its request to the work port: that call overflows the stack inside the port (`overflow`), so `OnTerminationCallback`, the completion port's termination and the wait in `Terminate` are never reached. Two wiring defects live there and are listed as hazards in `PROJECT.json` without a run: `OnTerminationCallback` hands the completion port's token to the work port, and `RundownObject` detaches the completion context from the work port. `TaskQueue` does model that `Terminate` passes the work context to the completion port's `PrepareTerminate`. `GetPortContext` and `Close` change no state the properties read.
- **Creation failures.** `TaskQueue` models them (leaks, `S_OK` with a NULL handle) but no run checks them: one allocation failure in a unit test shows each.
- **The window after `processingCallback` is decremented** (733-748). `XTaskQueuePort` splits `CallbackReturn` from `DrainReturn`, so `WaitForUnwind` could observe the count at zero while the callback's thread is still in `DrainOneItem`. No run checks it: `WaitForUnwind`, the only reader of the count, is reached only after the `Terminate` path that overflows the stack.
- **Atomic vector reference counting** (`Release` frees the array). No property reads it.
- **`Dispatch`'s return value.** The code returns FALSE when `Wait` reports an entry ready, but the spec gives `Dispatch` no return contract, so no run checks it.
- **Some defects are left out of the run budget because any single test shows them.** A `Wait` whose finite timeout expires returns without `LeaveCriticalSection` (line 768; `XTaskQueuePort` models the path). `CancelTermination` frees its token twice. A thread-pool port faults on its first item. Every delayed entry is appended at once (the guard at line 525). A firing timer appends NULL (`SubmitPendingCallback`). `PrepareTerminate` sets a Canceled context back to Active. Immediate mode runs callbacks on a suspended port. Stack-local entries are also not checked by a run of their own; `fifo` may reach them, but its shortest trace is about the tail pop.
- **Not modelled, for lack of reachable state.**
  - The thread pool composed with the port: the port never initialises it, so its first `Submit` faults. `ThreadPool` checks the pool alone.
  - Wait-handle registry: the queue never creates it.
  - `ProcessThreadPoolCallback`: never reached.
  - `EraseQueue`: never called.
  - Reference counts: no property reads them.
- **Planned.** An abstract FIFO specification of a port, with `XTaskQueuePort` checked against it through a refinement mapping. Given the findings above, it is expected to fail.
