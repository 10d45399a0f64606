\* Two callers terminate a queue that XTaskQueueCreate may fail to build.
CONSTANTS
    Threads = {t1, t2}
    TermAddrs = {k1, k2, k3}
    Nil = Nil
SPECIFICATION Spec
INVARIANT NoFreedRequestListed
CHECK_DEADLOCK FALSE
