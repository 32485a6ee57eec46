SPECIFICATION MCFairSpec
CONSTANTS
    Student = {s1}
    Periods = 1
    Payment = {p1, p2}
    Charge = {2}
    Amount = {1, 2}
    Submission = {n1, n2}
    Reviewer = {v1, v2}
    Plan <- Installments
    IssuedFor <- ForFirst
    DueOrder <- Latest
    Faults = {"record", "lost ack"}
    NoChallan = NoChallan NoPayment = NoPayment NoSubmission = NoSubmission None = None
    Parts = {"review", "cache"}
    Child = {"ann", "ben"} Parent = {"gil"} Class = {"nine", "ten"} Section = {"9A", "10A"} ClassOf <- Grades
    Months = 2 LastDay = 2 DueIn = 0 MonthCharge = 2 Queries <- Asked Mover = "ann" Start = "9A"
    Reader = {"r1", "r2"} Writer = {"w1", "w2"} Ttl = 2 MaxWrites = 3
INVARIANTS
    NoneStranded
    StaleOnlyAcrossWrite
PROPERTIES
    EveryClaimSettles
    StaleEnds
CHECK_DEADLOCK FALSE
