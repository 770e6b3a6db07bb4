\* A visitor leaves the page while the subscription is created, and comes back.
CONSTANTS
    Browsers = {b1}
    Tabs = {t1}
    NoTab = NoTab
    NetworkDailyLimit = 1
    MaxPollAttempts = 2
    MaxSlow = 0
    Steady = {}
SPECIFICATION FairSpec
PROPERTY StuckIsRecovered
CHECK_DEADLOCK FALSE
