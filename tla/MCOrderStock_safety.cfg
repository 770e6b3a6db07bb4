\* Two admin requests, two orders, one product: an order competes for the last
\* unit with another one that may hold a unit already; two edits, so that a
\* product can become unlimited and counted again.
CONSTANTS
    Orders = {o1, o2}
    Products = {p1}
    Staff = {s1, s2}
    NoProduct = NoProduct
    NoForm = NoForm
    StockLevels <- FewUnits
    MaxEdits = 2
SYMMETRY StockSymmetry
SPECIFICATION Spec
INVARIANTS
    StockConserved
    
    
PROPERTIES
    KeepsInventory
CHECK_DEADLOCK FALSE
