SPECIFICATION MCSpec
CONSTANTS
    Admin = {x1, x2}
    Months = 3
    Schedules <- Forms
    MonthlyFee = 1
    MaxRows = 4
    Off = Off Free = Free NoChallan = NoChallan
    None = None NoCode = NoCode NoFee = NoFee
    s1 = s1 s2 = s2
    Clerk = {"ann", "bob"} FeeHead = {"tuition", "bus"} BankAccount = {"alfa", "beta"}
    Rebate = {"merit"} FeeCode = {"e1"} Prices = {0, 5} Percents = {50, 500}
    Child = {"ann"} Charges = {0, 3, 5} Year = {"y1"} Section = {"9A", "9B", "10A"} ClassOf <- MCClassOf
    Offering = {"chemA", "chemB", "labB", "artB", "music"} SectionOf <- MCSectionOf
    SubjectOf <- MCSubjectOf CodeOf <- MCCodeOf
SYMMETRY Symmetry
INVARIANTS
    InstallmentsBilledOnce
    ArithmeticExact
    RunsNumberAndConserve
    ChargesAsShown
PROPERTIES
    SavesKeepFaith
CHECK_DEADLOCK FALSE
