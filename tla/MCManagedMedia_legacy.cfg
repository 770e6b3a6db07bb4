\* A public file of an earlier release.
CONSTANTS
    Media = {m1}
    Posts = {p}
    Comments = {}
    Cleaners = {k1}
    None = None
    Quota = 1
SPECIFICATION Spec
INVARIANT LegacyCitedIsStored
CHECK_DEADLOCK FALSE
