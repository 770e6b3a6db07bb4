\* One tab with four failures, or two tabs with one.  A fifth owner is the last
\* that is ever issued, so MaxOwners cuts nothing off.
CONSTANTS
    Tabs = {t1, t2}
    MaxAttempts = 3
    MaxOwners = 5
    MaxFaults <- FaultBounds
SPECIFICATION FairSpec
INVARIANTS
    TypeOK
    AttemptRemembered
    NoSecondOrder
PROPERTIES
    OrderIsAdopted
