\* Two callers queue and dispatch on a Manual port with one context.
CONSTANTS
    t1 = t1  t2 = t2  t3 = t3  e1 = e1  e2 = e2  e3 = e3
    Nil = Nil  NoThread = NoThread
    Threads = {t1, t2}
    Contexts = {c1, c2}
    EntryAddrs = {e1, e2}
    FrameOf <- MCFrameOf
    TermAddrs = {k1}
    Mode = "Manual"
    Delays = {1}
    MaxTime = 1
    MaxItems = 2
    MaxRuns = 2
    Ops = {"queue", "dispatch"}
    Timeouts = {"finite", "INFINITE"}
    MaxCSDepth = 1
    MonitorCrashes = FALSE
SPECIFICATION Spec
INVARIANT TypeOK
 
CHECK_DEADLOCK FALSE
SYMMETRY MCSymmetry
