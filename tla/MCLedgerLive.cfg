SPECIFICATION FairSpec
CONSTANTS
    Student = {s1}
    Periods = 2
    Payment = {p1}
    Request = {r1, r2}
    Run = {g1}
    Kind = {"monthly", "installment"}
    Charge = {0, 1}
    Amount = {1, 2}
    MaxAttempts = 2
    NoChallan = NoChallan
    Free = Free
PROPERTIES
    EveryCallAnswered
    EveryRunReturns
