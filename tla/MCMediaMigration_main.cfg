\* One attachment, new or of an earlier release, two articles, a comment, two cleaners.
CONSTANTS
    Media = {m1}
    Posts = {p, q}
    Comments = {c}
    Cleaners = {k1, k2}
    None = None
    Quota = 1
SPECIFICATION FairSpec
INVARIANTS
    MigrationTypeOK
    CommittedIsStored
    OwnerAlive
    ObjectHasRow
    HiddenIsMigrated
PROPERTIES
    DeletedIsUnused
    UnusedIsRemoved
CHECK_DEADLOCK FALSE
