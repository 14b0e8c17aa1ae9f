SPECIFICATION Spec
CONSTANTS
    Thread = {t1, t2}
    Server = {f1, f2}
    Slot = {s1, s2, s3}
    None = None
SYMMETRY Alike
INVARIANTS
    GrantsOfRequests
    PanicsOnlyWhenHeld
\* VFS stops when it panics.
CHECK_DEADLOCK FALSE
