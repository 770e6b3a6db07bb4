\* One account of each kind, two sessions, three register or login requests,
\* and up to two resets or changes of status between any two statements.
CONSTANTS
    Readers = {reader}
    Affiliates = {affiliate}
    Admins = {admin}
    Tokens = {t1, t2}
    Handlers = {h1, h2, h3}
    Requests = {q1}
    MaxChanges = 2
    None = None
SYMMETRY SessionSymmetry
SPECIFICATION Spec
INVARIANTS
    ValidIffCurrentPassword
    AllowedWasValid
CHECK_DEADLOCK FALSE
