\* Two callers prepare, suspend and terminate on two contexts.
CONSTANTS
    t1 = t1  t2 = t2  t3 = t3  e1 = e1  e2 = e2  e3 = e3
    Nil = Nil  NoThread = NoThread
    Threads = {t1, t2}
    Contexts = {c1, c2}
    EntryAddrs = {e1, e2}
    FrameOf <- MCFrameOf
    TermAddrs = {k1, k2, k3}
    Mode = "Manual"
    Delays = {1}
    MaxTime = 0
    MaxItems = 0
    MaxRuns = 0
    Ops = {"terminate"}
    Timeouts = {"INFINITE"}
    MaxCSDepth = 0
    MonitorCrashes = FALSE
SPECIFICATION Spec
INVARIANT PreparedRequestsListed
CHECK_DEADLOCK FALSE
