\* The tabs of a visitor who stays and of one who leaves, with crashes, and claims that outlast the 30 s.
CONSTANTS
    Browsers = {b1, b2}
    Tabs = {t1, t2}
    NoTab = NoTab
    NetworkDailyLimit = 1
    MaxPollAttempts = 2
    MaxSlow = 1
    Steady = {b1}
SPECIFICATION FairSpec
INVARIANTS
    OneSubscription
    ReadyIsProvisioned
PROPERTIES
    Granted
CHECK_DEADLOCK FALSE
