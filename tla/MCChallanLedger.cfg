SPECIFICATION Spec
CONSTANTS
    Student = {s1}
    Periods = 3
    Payment = {p1, p2}
    Request = {r1, r2}
    Run = {g1}
    Kind = {"monthly"}
    Charge = {1}
    Amount = {1}
    MaxAttempts = 2
    NoChallan = NoChallan
    Free = Free
SYMMETRY Symmetry
INVARIANTS
    DebtInvariant
    ArrearsFollowed
PROPERTIES
    ReceiptsAppendOnly
    ReopenedOnlyWithBearer
    ImplementsAccount
