\* Two visitors, three concurrent requests, one order.  Two faults, so three
\* claims are enough and MaxAttempts cuts nothing off.
CONSTANTS
    Orders = {o1}
    Bindings = {b1, b2}
    Requests = {r1, r2, r3}
    NoBinding = NoBinding
    NoOrder = NoOrder
    NoMessage = NoMessage
    MaxAttempts = 3
    MaxFaults = 2
SPECIFICATION FairSpec
INVARIANTS
    ReceiptTruthful
    CurrentAttemptShown
    OneSender
PROPERTIES
    ReceiptNeverDropped
    KeepsPromise
    BoundIsDelivered
CHECK_DEADLOCK FALSE
