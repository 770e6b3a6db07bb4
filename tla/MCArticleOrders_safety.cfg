\* Three requests of two readers for one article at two prices: one request
\* can cancel out with a retry, an order can be reopened beside a newer one.
CONSTANTS
    Readers = {x1, x2}
    Articles = {a1}
    Orders = {o1, o2}
    Requests = {r1, r2, r3}
    MaxPrice = 2
    None = None
SYMMETRY ArticleSymmetry
SPECIFICATION Spec
INVARIANTS
    OnePending
    EntitledIffCompleted
    
PROPERTIES
    OrderedAtPostedPrice
    KeepsBooks
CHECK_DEADLOCK FALSE
