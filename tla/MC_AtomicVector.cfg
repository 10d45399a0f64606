\* Two callers on one vector; nine elements make the array grow from 8 to 16.
CONSTANTS
    Threads = {t1, t2}
    Values = {v1, v2}
    MaxSize = 9
SPECIFICATION Spec
INVARIANT TypeOK
PROPERTY AttachedSetRefined
SYMMETRY MCSymmetry
