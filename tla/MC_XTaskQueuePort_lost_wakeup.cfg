\* Three callers: one sleeps in Dispatch, one resumes the port, one queues.
CONSTANTS
    t1 = t1  t2 = t2  t3 = t3  e1 = e1  e2 = e2  e3 = e3
    Nil = Nil  NoThread = NoThread
    Threads = {t1, t2, t3}
    Contexts = {c1}
    EntryAddrs = {e1, e2, e3}
    FrameOf <- MCFrameOf
    TermAddrs = {k1}
    Mode = "Manual"
    Delays = {1}
    MaxTime = 0
    MaxItems = 1
    MaxRuns = 1
    Ops = {"queue", "dispatch", "port"}
    Timeouts = {"INFINITE"}
    MaxCSDepth = 0
    MonitorCrashes = FALSE
SPECIFICATION Spec
INVARIANT NoLostWakeup
CHECK_DEADLOCK FALSE
