---------------------------- MODULE MCFeeOffice ----------------------------
(***************************************************************************)
(* The parts of the fee office that share no state, checked in one run:    *)
(* part is the one a behaviour belongs to, chosen in its initial state.    *)
(* The plans are the module itself, and stay as they were initially in the *)
(* other parts; the variables of the others hold Off outside their own.    *)
(***************************************************************************)
EXTENDS InstallmentPlans, TLC

CONSTANTS
    Off, Free, NoChallan, None, NoCode, NoFee,
    s1, s2                      \* students

CONSTANTS
    Clerk, FeeHead, BankAccount, Rebate, FeeCode, Prices, Percents,     \* as in FeeSetup
    Child, Year, Section, ClassOf, Offering, SectionOf, SubjectOf,
        CodeOf, Charges                                                 \* as in SubjectBilling

VARIABLES
    part,
    question, answer,
    status, netAmount, paidAmount, charges, challanNo, carriedTo, receipt, lock, req, run,
    heads, own, discounts, held, fees, taught, accounts, calls, area,
    rows, picks, electives, mode, fee, monthly

\* Two administrators, three months and up to four installment rows.
Forms == {<<[amount |-> 1, due |-> 1], [amount |-> 1, due |-> 2]>>,
          <<[amount |-> 1, due |-> 2], [amount |-> 1, due |-> 3]>>,
          <<[amount |-> 2, due |-> 1]>>}

ASSUME PlanAssumption

Arithmetic == INSTANCE MCFeeCalculator WITH MaxAmount <- 3, MaxRows <- 3

\* Two students and two runs of either kind, without payments.
Runs == INSTANCE ChallanLedger WITH
    Student <- {s1, s2}, Periods <- 2, Payment <- {}, Request <- {}, Run <- Admin,
    Kind <- {"monthly", "installment"}, Charge <- {1}, Amount <- {1}, MaxAttempts <- 2

Setup == INSTANCE FeeSetup WITH
    Admin <- Clerk, Account <- BankAccount, Discount <- Rebate, Code <- FeeCode,
    Amounts <- Prices

Subjects == INSTANCE SubjectBilling WITH Student <- Child, Amounts <- Charges

ASSUME OfficeAssumption == Setup!SetupAssumption /\ Subjects!StructureAssumption

arithmeticVars == <<question, answer>>
runVars == <<status, netAmount, paidAmount, charges, challanNo, carriedTo, receipt, lock, req, run>>
setupVars == <<heads, own, discounts, held, fees, taught, accounts, calls, area>>
subjectVars == <<rows, picks, electives, mode, fee, monthly>>
allVars == <<part, vars, arithmeticVars, runVars, setupVars, subjectVars>>

-----------------------------------------------------------------------------
(* The set-up: two admins, two heads, and one kind of row at a time.  area is
   what the admins of a behaviour are at work on, the rest stays as it was. *)

SetupInit ==
    /\ area \in {"heads", "discounts", "codes", "accounts"}
    /\ Setup!Init
    /\ heads = [h \in FeeHead |-> IF area = "heads" THEN [amount |-> 5, active |-> TRUE] ELSE None]
    /\ area # "codes" => taught = {}

Work == [heads |-> {"overrides"}, discounts |-> {"discount"}, codes |-> {"fees", "write"},
         accounts |-> {"demote", "account"}]

\* Bounds: an excluded head keeps the amount it was saved with; bob only resets a student's
\* heads.  An edit of a discount has one field.
SomeOverride == {[amount |-> 0, excluded |-> FALSE], [amount |-> 0, excluded |-> TRUE],
                 [amount |-> 5, excluded |-> TRUE]}
SomeOverrides(x) == IF x = "bob" THEN {[h \in {} |-> None]}
                    ELSE UNION {[D -> SomeOverride] : D \in SUBSET FeeHead}
SomePatch == {[type |-> t] : t \in {"PERCENT", "FIXED"}} \cup {[value |-> v] : v \in Percents}
             \cup {[active |-> FALSE]}

SetupStep ==
    /\ Setup!Next /\ UNCHANGED area
    /\ area # "heads" => UNCHANGED heads
    /\ area # "discounts" => UNCHANGED <<discounts, held>>
    /\ area # "codes" => UNCHANGED taught
    /\ area # "accounts" => UNCHANGED accounts
    /\ \A h \in FeeHead : heads'[h] # None => heads'[h].amount = 5
    /\ \A x \in Clerk :
        /\ calls'[x].op \in Work[area] \union {"idle"}
        /\ calls'[x].op = "overrides" => calls'[x].to \in SomeOverrides(x)
        /\ calls'[x].op = "discount" => calls'[x].patch \in SomePatch
        /\ calls'[x].op = "demote" => DOMAIN calls'[x].patch # {}

-----------------------------------------------------------------------------
(* Subjects and their codes: one student of a class with two sections and of
   another class; two subjects share a code and one has none. *)
Classes == "9A" :> "nine" @@ "9B" :> "nine" @@ "10A" :> "ten"
Sections == "chemA" :> "9A" @@ "chemB" :> "9B" @@ "labB" :> "9B" @@ "artB" :> "9B" @@ "music" :> "10A"
Taught == "chemA" :> "chem" @@ "chemB" :> "chem" @@ "labB" :> "lab" @@ "artB" :> "art" @@ "music" :> "mus"
Coded == "chem" :> "c1" @@ "lab" :> "c1" @@ "art" :> NoCode @@ "mus" :> "c2"

\* What the .cfg gives the constants; TLC evaluates each of the above once.
MCClassOf == Classes
MCSectionOf == Sections
MCSubjectOf == Taught
MCCodeOf == Coded

SubjectsInit ==
    Subjects!Init /\ electives \in {{"chemA", "chemB", "labB", "artB"}, {"chemB", "music"}}

\* Bounds: one open place and one closed beside it; the sections of the ninth class differ
\* in how they bill; one price, and no heads.
SubjectStep ==
    /\ Subjects!Next
    /\ rows' # rows =>
        \E p \in rows' : /\ p.status = "ACTIVE" /\ \A q \in rows' \ {p} : q.status = "INACTIVE"
                          /\ Cardinality(rows') <= 2
    /\ mode'["10A"] = "MONTHLY"
    /\ \A c \in DOMAIN fee : fee'[c] \in {NoFee, 3}
    /\ \A s \in Child : monthly'[s].heads = 0 /\ monthly'[s].fee \in {0, 5}

-----------------------------------------------------------------------------
MCInit ==
    /\ part \in {"plans", "arithmetic", "runs", "setup", "subjects"}
    /\ Init
    /\ IF part = "arithmetic" THEN Arithmetic!Init ELSE question = Off /\ answer = Off
    /\ IF part = "runs" THEN Runs!Init
       ELSE /\ status = Off /\ netAmount = Off /\ paidAmount = Off /\ charges = Off
            /\ challanNo = Off /\ carriedTo = Off /\ receipt = Off /\ lock = Off
            /\ req = Off /\ run = Off
    /\ IF part = "setup" THEN SetupInit
       ELSE /\ heads = Off /\ own = Off /\ discounts = Off /\ held = Off /\ fees = Off
            /\ taught = Off /\ accounts = Off /\ calls = Off /\ area = Off
    /\ IF part = "subjects" THEN SubjectsInit
       ELSE /\ rows = Off /\ picks = Off /\ electives = Off /\ mode = Off
            /\ fee = Off /\ monthly = Off

OthersRest(p) ==
    /\ UNCHANGED part
    /\ p # "plans" => UNCHANGED vars
    /\ p # "arithmetic" => UNCHANGED arithmeticVars
    /\ p # "runs" => UNCHANGED runVars
    /\ p # "setup" => UNCHANGED setupVars
    /\ p # "subjects" => UNCHANGED subjectVars

MCNext ==
    \/ part = "plans" /\ Next /\ OthersRest("plans")
    \/ part = "arithmetic" /\ Arithmetic!Next /\ OthersRest("arithmetic")
    \/ part = "runs" /\ Runs!Next /\ OthersRest("runs")
    \/ part = "setup" /\ SetupStep /\ OthersRest("setup")
    \/ part = "subjects" /\ SubjectStep /\ OthersRest("subjects")

MCSpec == MCInit /\ [][MCNext]_allVars

Symmetry == Permutations(Admin)

\* A billed schedule keeps its shape and a student on a plan is never billed by
\* month, as long as no save overlaps a run (installment-plans set, buildPlan); and
\* the parents hear of a save of overrides exactly when the bill changes
\* (student-fee-heads.service.ts).
SavesKeepFaith ==
    [][FrozenStep /\ ByMonthStep /\ (part = "setup" => Setup!HeardStep)]_allVars

\* An issued challan keeps the installment it bills (schema.prisma, Challan: "once a
\* row has been billed, the schedule can no longer be re-shaped underneath it").
BilledRowStays == [][BilledRowStep]_vars

\* What a challan asks and what receipts settle add up: fee-calculator.ts.
ArithmeticExact == part = "arithmetic" =>
    /\ Arithmetic!ArrearsUndiscounted /\ Arithmetic!PercentRounded
    /\ Arithmetic!WaterfallExact /\ Arithmetic!StatusTruthful
    /\ Arithmetic!PartsAddUp /\ Arithmetic!DatesRunOn

\* Monthly and installment runs at once neither skip nor share a number, and lose
\* no arrears (challans.service.ts, commitPlan).
RunsNumberAndConserve == part = "runs" =>
    Runs!DebtConserved /\ Runs!NumbersContiguous

\* What an administrator is shown of a student's heads and discounts is what the
\* student is billed, and the subjects of a child are charged by their codes
\* once each (student-fee-heads.service.ts, challans.service.ts).
ChargesAsShown ==
    /\ part = "setup" => Setup!BilledAsShown
    /\ part = "subjects" => Subjects!TaughtIsPaidFor
=============================================================================
