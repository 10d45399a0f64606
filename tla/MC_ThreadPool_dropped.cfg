\* One owner, two pool threads and two submits, with the status allocation
\* in TPCallback allowed to fail.  The pool stops for good once its queue is
\* empty: deadlock is not an error.
CONSTANTS
    Workers = {w1, w2}
    MaxSubmits = 2
    CallocFails = TRUE
SPECIFICATION Spec
PROPERTY EverySubmitInvoked
CHECK_DEADLOCK FALSE
