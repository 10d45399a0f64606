\* One owner and two pool threads, checking that Terminate returns only when
\* no callback is queued or running.
CONSTANTS
    Workers = {w1, w2}
    MaxSubmits = 2
    CallocFails = FALSE
SPECIFICATION Spec
INVARIANT TerminateWaitsForCallbacks
CHECK_DEADLOCK FALSE
