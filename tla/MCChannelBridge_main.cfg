\* m1 is delivered with every fault (duplicates, crashes, lost answers, hang-ups), m2 by a patient provider.
CONSTANTS
    Conversations = {c1, c2}
    Messages = {m1, m2}
    Handlers = {h1, h2}
    None = None
    MaxLost = 1
    Failing = {m1}
    Patient = {m2}
SPECIFICATION FairSpec
INVARIANTS
    CopiesExplained
    ReferencesKept
    AckedIsDelivered
PROPERTIES
    KeepsMail
    Forwarded
CHECK_DEADLOCK FALSE
