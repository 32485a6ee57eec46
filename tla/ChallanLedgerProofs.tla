------------------------ MODULE ChallanLedgerProofs ------------------------
(***************************************************************************)
(* The safety of the fee ledger for every number of students, periods,     *)
(* payments, concurrent requests and concurrent runs, and for every fee    *)
(* and amount.  The argument is LedgerInvariant: the lemmas below take the *)
(* actions of ChallanLedger one at a time, and the theorems combine them.  *)
(* The second part follows the debt of a student with DebtInvariant.       *)
(***************************************************************************)
EXTENDS ChallanLedger, FiniteSetTheorems, FunctionTheorems, TLAPS

-----------------------------------------------------------------------------
(* Sums, for finite sets of any size and amounts of any value: a sum is the *)
(* cardinality of a set of units, so each fact comes from cardinalities     *)

\* A finite set of rows with natural amounts has finitely many units.
LEMMA UnitsFinite ==
    ASSUME NEW S, IsFiniteSet(S), NEW amount, \A x \in S : amount[x] \in Nat
    PROVE  IsFiniteSet(Units(S, amount))
<1> DEFINE U == {UnitsOf(x, amount) : x \in S}
           f == [x \in S |-> UnitsOf(x, amount)]
<1>1. f \in Surjection(S, U)
    BY DEF Surjection
<1>2. IsFiniteSet(U)
    BY <1>1, FS_Surjection
<1>3. ASSUME NEW x \in S PROVE IsFiniteSet(UnitsOf(x, amount))
    <2>1. IsFiniteSet({x})
        BY FS_Singleton
    <2>2. amount[x] \in Int
        OBVIOUS
    <2>3. IsFiniteSet(1..amount[x])
        BY <2>2, FS_Interval
    <2>4. IsFiniteSet({x} \X (1..amount[x]))
        BY <2>1, <2>3, FS_Product
    <2> QED BY <2>4 DEF UnitsOf
<1>4. \A T \in U : IsFiniteSet(T)
    BY <1>3
<1> HIDE DEF U
<1>5. IsFiniteSet(UNION U)
    BY <1>2, <1>4, FS_UNION
<1> QED BY <1>5 DEF U, Units

\* A sum of natural amounts is a natural number.
LEMMA TotalIsNat ==
    ASSUME NEW S, IsFiniteSet(S), NEW amount, \A x \in S : amount[x] \in Nat
    PROVE  Total(S, amount) \in Nat
BY UnitsFinite, FS_CardinalityType DEF Total

\* The sum over no rows is 0 (agg._sum.amount ?? 0).
LEMMA TotalOfNone ==
    ASSUME NEW amount PROVE Total({}, amount) = 0
<1>1. Units({}, amount) = {}
    BY DEF Units
<1> QED BY <1>1, FS_EmptySet DEF Total

\* The sum over one row is its amount.
LEMMA TotalOfOne ==
    ASSUME NEW x, NEW amount, amount[x] \in Nat
    PROVE  Total({x}, amount) = amount[x]
<1>1. Units({x}, amount) = {x} \X (1..amount[x])
    BY DEF Units, UnitsOf
<1>2. IsFiniteSet(1..amount[x]) /\ Cardinality(1..amount[x]) = amount[x]
    BY FS_Interval
<1>3. IsFiniteSet({x}) /\ Cardinality({x}) = 1
    BY FS_Singleton
<1>4. Cardinality({x} \X (1..amount[x])) = Cardinality({x}) * Cardinality(1..amount[x])
    BY <1>2, <1>3, FS_Product
<1>5. Cardinality({x} \X (1..amount[x])) = amount[x]
    BY <1>2, <1>3, <1>4
<1> QED BY <1>1, <1>5 DEF Total

\* A sum depends on nothing but the amounts of the rows it ranges over.
LEMMA TotalOfSame ==
    ASSUME NEW S, NEW a, NEW b, \A x \in S : a[x] = b[x]
    PROVE  Total(S, a) = Total(S, b)
<1>1. Units(S, a) = Units(S, b)
    BY DEF Units, UnitsOf
<1> QED BY <1>1 DEF Total

\* Sums over disjoint sets of rows add up.
LEMMA TotalOfDisjoint ==
    ASSUME NEW S, NEW T, NEW amount, IsFiniteSet(S), IsFiniteSet(T),
           S \cap T = {}, \A x \in S \cup T : amount[x] \in Nat
    PROVE  Total(S \cup T, amount) = Total(S, amount) + Total(T, amount)
<1>1. Units(S \cup T, amount) = Units(S, amount) \cup Units(T, amount)
    BY DEF Units
<1>2. Units(S, amount) \cap Units(T, amount) = {}
    BY DEF Units, UnitsOf
<1>3. IsFiniteSet(Units(S, amount)) /\ IsFiniteSet(Units(T, amount))
    BY UnitsFinite
<1>4. /\ Cardinality(Units(S, amount)) \in Nat
      /\ Cardinality(Units(T, amount)) \in Nat
    BY <1>3, FS_CardinalityType
<1>5. Cardinality(Units(S, amount) \cup Units(T, amount)) =
        Cardinality(Units(S, amount)) + Cardinality(Units(T, amount)) - Cardinality({})
    BY <1>2, <1>3, FS_Union
<1>6. Cardinality({}) = 0
    BY FS_EmptySet
<1>7. /\ Total(S \cup T, amount) = Cardinality(Units(S, amount) \cup Units(T, amount))
      /\ Total(S, amount) = Cardinality(Units(S, amount))
      /\ Total(T, amount) = Cardinality(Units(T, amount))
    BY <1>1 DEF Total
<1> QED BY <1>4, <1>5, <1>6, <1>7

\* One more row adds its amount.
LEMMA TotalWithOneMore ==
    ASSUME NEW S, NEW x, NEW amount, IsFiniteSet(S), x \notin S,
           \A y \in S \cup {x} : amount[y] \in Nat
    PROVE  Total(S \cup {x}, amount) = Total(S, amount) + amount[x]
<1>1. IsFiniteSet({x})
    BY FS_Singleton
<1>2. S \cap {x} = {} /\ amount[x] \in Nat
    OBVIOUS
<1>3. Total(S \cup {x}, amount) = Total(S, amount) + Total({x}, amount)
    BY <1>1, <1>2, TotalOfDisjoint
<1> QED BY <1>2, <1>3, TotalOfOne

\* A sum over fewer rows is no larger.
LEMMA TotalOfSubset ==
    ASSUME NEW S, NEW T, NEW amount, IsFiniteSet(T), S \subseteq T,
           \A x \in T : amount[x] \in Nat
    PROVE  Total(S, amount) <= Total(T, amount)
<1>1. Units(S, amount) \subseteq Units(T, amount)
    BY DEF Units
<1> QED BY <1>1, UnitsFinite, FS_Subset DEF Total

\* The status a settlement derives is one of the three open ones, is PAID just
\* when nothing is owed, and UNPAID only when nothing was received.
LEMMA ResolvedStatus ==
    ASSUME NEW paid \in Nat, NEW net \in Nat
    PROVE  /\ ResolveChallanStatus(paid, net) \in {"UNPAID", "PARTIALLY_PAID", "PAID"}
           /\ ResolveChallanStatus(paid, net) = "PAID" <=>
                RemainingBalance(net, paid) = 0
           /\ ResolveChallanStatus(paid, net) = "UNPAID" => paid = 0
BY DEF ResolveChallanStatus, RemainingBalance, NonNegative

-----------------------------------------------------------------------------
(* Receipts and their sums *)

Receipts == [Payment -> Receipt]

LEMMA ChallanIsFinite == IsFiniteSet(Challan)
<1>1. IsFiniteSet(Student) /\ Periods \in Nat
    BY LedgerAssumption
<1>2. IsFiniteSet(1..Periods)
    BY <1>1, FS_Interval
<1> QED BY <1>1, <1>2, FS_Product DEF Challan

LEMMA LiveIsFinite ==
    ASSUME NEW t, NEW c PROVE IsFiniteSet(LiveIn(t, c))
<1>1. LiveIn(t, c) \in SUBSET Payment
    BY DEF LiveIn
<1> QED BY <1>1, LedgerAssumption, FS_Subset

\* The re-summed ledger is an amount.
LEMMA SumIsNat ==
    ASSUME NEW t \in Receipts, NEW c PROVE SumIn(t, c) \in Nat
<1> DEFINE amount == [p \in Payment |-> t[p].amount]
<1>1. \A p \in LiveIn(t, c) : amount[p] \in Nat
    BY DEF LiveIn, Receipts, Receipt
<1> HIDE DEF amount
<1>2. Total(LiveIn(t, c), amount) \in Nat
    BY <1>1, LiveIsFinite, TotalIsNat
<1> QED BY <1>2 DEF SumIn, amount

\* The sum is 0 exactly when no receipt stands.
LEMMA SumIsZero ==
    ASSUME NEW t \in Receipts, NEW c \in Challan,
           \A p \in Payment : t[p].of # NoChallan => t[p].amount > 0
    PROVE  SumIn(t, c) = 0 <=> LiveIn(t, c) = {}
<1> DEFINE amount == [p \in Payment |-> t[p].amount]
<1>1. LiveIn(t, c) = {} => SumIn(t, c) = 0
    BY TotalOfNone DEF SumIn
<1>2. ASSUME NEW p \in LiveIn(t, c) PROVE SumIn(t, c) # 0
    <2>1. \A q \in LiveIn(t, c) : amount[q] \in Nat
        BY DEF LiveIn, Receipts, Receipt
    <2>2. amount[p] > 0
        BY LedgerAssumption DEF LiveIn
    <2> HIDE DEF amount
    <2>3. Total({p}, amount) <= Total(LiveIn(t, c), amount)
        BY <1>2, <2>1, LiveIsFinite, TotalOfSubset
    <2>4. Total({p}, amount) = amount[p] /\ amount[p] \in Nat
        BY <1>2, <2>1, TotalOfOne
    <2>5. Total(LiveIn(t, c), amount) \in Nat
        BY <2>1, LiveIsFinite, TotalIsNat
    <2>6. Total(LiveIn(t, c), amount) # 0
        BY <2>2, <2>3, <2>4, <2>5
    <2> QED BY <2>6 DEF SumIn, amount
<1> QED BY <1>1, <1>2

\* A table that differs on other challans only has the same receipts for c.
LEMMA SumOfSameReceipts ==
    ASSUME NEW t, NEW u, NEW c,
           \A p \in Payment : t[p].of = c \/ u[p].of = c => t[p] = u[p]
    PROVE  LiveIn(t, c) = LiveIn(u, c) /\ SumIn(t, c) = SumIn(u, c)
<1> DEFINE a == [p \in Payment |-> t[p].amount]
           b == [p \in Payment |-> u[p].amount]
<1>1. LiveIn(t, c) = LiveIn(u, c)
    BY DEF LiveIn
<1>2. \A p \in LiveIn(t, c) : a[p] = b[p]
    BY DEF LiveIn
<1> HIDE DEF a, b
<1>3. Total(LiveIn(t, c), a) = Total(LiveIn(t, c), b)
    BY <1>2, TotalOfSame
<1> QED BY <1>1, <1>3 DEF SumIn, a, b

\* Recording adds one receipt and its amount.
LEMMA SumAfterRecord ==
    ASSUME NEW t \in Receipts, NEW c \in Challan, NEW p \in Payment,
           t[p].of = NoChallan, NEW amt \in Nat
    PROVE  LET u == [t EXCEPT ![p] = [of |-> c, amount |-> amt, voided |-> FALSE]]
           IN  SumIn(u, c) = SumIn(t, c) + amt
<1> DEFINE u == [t EXCEPT ![p] = [of |-> c, amount |-> amt, voided |-> FALSE]]
           a == [q \in Payment |-> t[q].amount]
           b == [q \in Payment |-> u[q].amount]
           S == LiveIn(t, c)
<1>1. c # NoChallan
    BY LedgerAssumption
<1>2. p \notin S
    BY <1>1 DEF LiveIn
<1>3. LiveIn(u, c) = S \cup {p}
    BY DEF LiveIn, Receipts, Receipt
<1>4. /\ \A q \in S : a[q] = b[q]
      /\ \A q \in S \cup {p} : b[q] \in Nat
      /\ b[p] = amt
    BY <1>2 DEF LiveIn, Receipts, Receipt
<1>5. IsFiniteSet(S)
    BY LiveIsFinite
<1>6. SumIn(u, c) = Total(S \cup {p}, b) /\ SumIn(t, c) = Total(S, a)
    BY <1>3 DEF SumIn
<1> HIDE DEF u, a, b, S
<1>7. Total(S, a) = Total(S, b)
    BY <1>4, TotalOfSame
<1>8. Total(S \cup {p}, b) = Total(S, b) + b[p]
    BY <1>2, <1>4, <1>5, TotalWithOneMore
<1>9. SumIn(u, c) = SumIn(t, c) + amt
    BY <1>4, <1>6, <1>7, <1>8
<1> QED BY <1>9 DEF u

\* Voiding never adds to what was received.
LEMMA SumAfterVoid ==
    ASSUME NEW t \in Receipts, NEW c \in Challan, NEW p \in Payment
    PROVE  LET u == [t EXCEPT ![p].voided = TRUE]
           IN  SumIn(u, c) <= SumIn(t, c)
<1> DEFINE u == [t EXCEPT ![p].voided = TRUE]
           a == [q \in Payment |-> t[q].amount]
           b == [q \in Payment |-> u[q].amount]
           S == LiveIn(t, c)
           R == LiveIn(u, c)
<1>1. R \subseteq S
    BY DEF LiveIn, Receipts, Receipt
<1>2. \A q \in R : a[q] = b[q]
    BY DEF LiveIn, Receipts, Receipt
<1>3. \A q \in S : a[q] \in Nat
    BY DEF LiveIn, Receipts, Receipt
<1>4. IsFiniteSet(S)
    BY LiveIsFinite
<1>5. SumIn(u, c) = Total(R, b) /\ SumIn(t, c) = Total(S, a)
    BY DEF SumIn
<1> HIDE DEF u, a, b, S, R
<1>6. Total(R, a) = Total(R, b)
    BY <1>2, TotalOfSame
<1>7. Total(R, a) <= Total(S, a)
    BY <1>1, <1>3, <1>4, TotalOfSubset
<1>8. SumIn(u, c) <= SumIn(t, c)
    BY <1>5, <1>6, <1>7
<1> QED BY <1>8 DEF u

-----------------------------------------------------------------------------
(* The initial state *)

LEMMA InitInvariant == Init => LedgerInvariant
<1> SUFFICES ASSUME Init PROVE LedgerInvariant
    OBVIOUS
<1>1. MaxAttempts \in Nat \ {0}
    BY LedgerAssumption
<1>2. /\ Issued = {}
      /\ receipt \in Receipts
      /\ \A p \in Payment : receipt[p].of = NoChallan
    BY DEF Init, Issued, Receipts, Receipt
<1>3. \A c \in Challan : LiveIn(receipt, c) = {} /\ SumIn(receipt, c) = 0
    <2> TAKE c \in Challan
    <2>1. LiveIn(receipt, c) = {}
        BY <1>2, LedgerAssumption DEF LiveIn
    <2> QED BY <2>1, TotalOfNone DEF SumIn
<1>4. TypeOK
    BY <1>1, LedgerAssumption DEF Init, TypeOK, Idle, CallWith, NotSeen, NoJob, JobWith, NoMoney,
        Call, Seen, Job, Status, Receipt
<1>5. PaidIsReceiptSum /\ NeverOverpaid /\ CancelledHasNoMoney /\ StatusMatchesLedger
    BY <1>2, <1>3 DEF Init, PaidIsReceiptSum, NeverOverpaid, CancelledHasNoMoney,
        StatusMatchesLedger, LiveSum, LiveReceipts
<1>6. BooksInOrder
    BY <1>2 DEF Init, BooksInOrder
<1>7. CallsInOrder /\ LocksInOrder /\ ReadsStand
    BY LedgerAssumption DEF Init, CallsInOrder, LocksInOrder, ReadsStand, HoldsLock, Idle, CallWith
<1>8. JobsInOrder
    BY DEF Init, JobsInOrder, NoJob, JobWith
<1> QED BY <1>4, <1>5, <1>6, <1>7, <1>8 DEF LedgerInvariant

-----------------------------------------------------------------------------
(* What a step leaves alone *)

LEMMA SameBooks ==
    ASSUME LedgerInvariant, UNCHANGED <<rows, receipt>>
    PROVE  /\ PaidIsReceiptSum' /\ NeverOverpaid'
           /\ CancelledHasNoMoney' /\ StatusMatchesLedger'
           /\ BooksInOrder'
BY DEF LedgerInvariant, rows, PaidIsReceiptSum, NeverOverpaid, CancelledHasNoMoney,
    StatusMatchesLedger, BooksInOrder, LiveSum, LiveReceipts, Issued

LEMMA SameCalls ==
    ASSUME LedgerInvariant, UNCHANGED <<rows, receipt, lock, req>>
    PROVE  CallsInOrder' /\ LocksInOrder' /\ ReadsStand'
<1>1. CallsInOrder'
    BY DEF LedgerInvariant, rows, CallsInOrder, Issued
<1>2. LocksInOrder'
    BY DEF LedgerInvariant, LocksInOrder, HoldsLock
<1>3. \A r \in Request : HoldsLock(r)' = HoldsLock(r) /\ MayProceed(r)' = MayProceed(r)
    BY DEF HoldsLock, MayProceed, MayRecord, MayVoid, MayCancel, LiveReceipts
<1>4. \A r \in Request : Written(r)' = Written(r)
    BY DEF Written
<1>5. ReadsStand'
    BY <1>3, <1>4 DEF LedgerInvariant, ReadsStand, rows
<1> QED BY <1>1, <1>2, <1>5

LEMMA SameJobs ==
    ASSUME LedgerInvariant, UNCHANGED run
    PROVE  JobsInOrder'
BY DEF LedgerInvariant, JobsInOrder

-----------------------------------------------------------------------------
(* Requests *)


\* A step that touches nothing but one request and its row lock.
LEMMA RequestOnlyStep ==
    ASSUME LedgerInvariant, NEW r \in Request,
           UNCHANGED <<rows, receipt, run>>,
           req' \in [Request -> Call],
           \A s \in Request \ {r} : req'[s] = req[s],
           lock' \in [Challan -> Request \cup {Free}],
           \A c \in Challan : lock'[c] # lock[c] => {lock[c], lock'[c]} \subseteq {r, Free},
           \A c \in Challan : lock'[c] = r <=> HoldsLock(r)' /\ req'[r].challan = c,
           req'[r].pc # "idle" =>
                /\ req'[r].challan \in Issued
                /\ req'[r].op = "record" =>
                    /\ req'[r].payment \in Payment /\ req'[r].amount \in Amount
                    /\ receipt[req'[r].payment].of = NoChallan
                    /\ \A s \in Request \ {r} :
                         req[s].pc # "idle" /\ req[s].op = "record" =>
                            req[s].payment # req'[r].payment
                /\ req'[r].op = "void" =>
                    /\ req'[r].payment \in Payment
                    /\ receipt[req'[r].payment].of = req'[r].challan,
           HoldsLock(r)' => req'[r].seen =
                [status |-> status[req'[r].challan],
                 netAmount |-> netAmount[req'[r].challan],
                 paidAmount |-> paidAmount[req'[r].challan]],
           req'[r].pc = "decided" =>
                MayProceed(r)' /\ req'[r].total = SumIn(Written(r), req[r].challan)'
    PROVE  LedgerInvariant'
<1>1. TypeOK'
    BY DEF LedgerInvariant, TypeOK, rows
<1>2. CallsInOrder'
    <2>1. Issued' = Issued /\ receipt' = receipt
        BY DEF Issued, rows
    <2> QED BY <2>1 DEF LedgerInvariant, CallsInOrder
<1>3. LocksInOrder'
    <2>1. \A s \in Request \ {r} : HoldsLock(s)' = HoldsLock(s)
        BY DEF HoldsLock
    <2>2. ASSUME NEW s \in Request, HoldsLock(s) PROVE req[s].challan \in Challan
        <3>1. req[s].pc # "idle"
            BY <2>2 DEF HoldsLock
        <3> QED BY <3>1 DEF LedgerInvariant, CallsInOrder, Issued
    <2>3. HoldsLock(r)' => req'[r].challan \in Challan
        BY DEF Issued, HoldsLock
    <2>4. \A s \in Request \ {r}, c \in Challan : lock'[c] = s <=> lock[c] = s
        BY LedgerAssumption
    <2> QED BY <2>1, <2>2, <2>3, <2>4 DEF LedgerInvariant, LocksInOrder
<1>4. ReadsStand'
    <2>1. \A s \in Request \ {r} : /\ HoldsLock(s)' = HoldsLock(s)
                                  /\ MayProceed(s)' = MayProceed(s)
                                  /\ Written(s)' = Written(s)
        BY DEF HoldsLock, MayProceed, MayRecord, MayVoid, MayCancel, LiveReceipts, Written
    <2> QED BY <2>1 DEF LedgerInvariant, ReadsStand, HoldsLock, rows
<1> QED BY <1>1, <1>2, <1>3, <1>4, SameBooks, SameJobs DEF LedgerInvariant

LEMMA CallRecordStep ==
    ASSUME LedgerInvariant, NEW r \in Request, NEW c \in Challan,
           NEW p \in Payment, NEW a \in Amount, CallRecord(r, c, p, a)
    PROVE  LedgerInvariant'
<1> DEFINE call == CallWith("called", "record", c, p, a)
<1>1. /\ req' = [req EXCEPT ![r] = call]
      /\ req[r].pc = "idle" /\ c \in Issued
      /\ p \notin Recorded /\ p \notin Claimed
      /\ UNCHANGED <<rows, receipt, lock, run>>
    BY DEF CallRecord
<1>2. /\ call \in Call
      /\ call.pc = "called" /\ call.op = "record"
      /\ call.challan = c /\ call.payment = p /\ call.amount = a
    BY LedgerAssumption DEF CallWith, Call, NotSeen, Seen, Status
<1> HIDE DEF call
<1>3. TypeOK
    BY DEF LedgerInvariant
<1>4. /\ req'[r] = call
      /\ \A s \in Request \ {r} : req'[s] = req[s]
      /\ req' \in [Request -> Call]
    BY <1>1, <1>2, <1>3 DEF TypeOK
<1>5. ~HoldsLock(r)' /\ \A d \in Challan : lock'[d] # r
    BY <1>1, <1>2, <1>4 DEF LedgerInvariant, LocksInOrder, HoldsLock
<1>6. /\ a > 0 /\ receipt[p].of = NoChallan
      /\ \A s \in Request \ {r} : req[s].payment # p
    BY <1>1, LedgerAssumption DEF Recorded, Claimed
<1> QED BY <1>1, <1>2, <1>3, <1>4, <1>5, <1>6, RequestOnlyStep DEF TypeOK

LEMMA CallVoidStep ==
    ASSUME LedgerInvariant, NEW r \in Request, NEW p \in Payment, CallVoid(r, p)
    PROVE  LedgerInvariant'
<1> DEFINE call == CallWith("called", "void", receipt[p].of, p, 0)
<1>1. /\ req' = [req EXCEPT ![r] = call]
      /\ req[r].pc = "idle" /\ p \in Recorded
      /\ UNCHANGED <<rows, receipt, lock, run>>
    BY DEF CallVoid
<1>2. TypeOK
    BY DEF LedgerInvariant
<1>3. receipt[p].of \in Issued
    BY <1>1 DEF LedgerInvariant, BooksInOrder, Recorded
<1>4. /\ call \in Call
      /\ call.pc = "called" /\ call.op = "void"
      /\ call.challan = receipt[p].of /\ call.payment = p
    BY <1>3 DEF CallWith, Call, NotSeen, Seen, Status, Issued
<1> HIDE DEF call
<1>5. /\ req'[r] = call
      /\ \A s \in Request \ {r} : req'[s] = req[s]
      /\ req' \in [Request -> Call]
    BY <1>1, <1>2, <1>4 DEF TypeOK
<1>6. ~HoldsLock(r)' /\ \A d \in Challan : lock'[d] # r
    BY <1>1, <1>4, <1>5 DEF LedgerInvariant, LocksInOrder, HoldsLock
<1> QED BY <1>1, <1>2, <1>3, <1>4, <1>5, <1>6, RequestOnlyStep DEF TypeOK

LEMMA CallCancelStep ==
    ASSUME LedgerInvariant, NEW r \in Request, NEW c \in Challan, CallCancel(r, c)
    PROVE  LedgerInvariant'
<1> DEFINE call == CallWith("called", "cancel", c, NoChallan, 0)
<1>1. /\ req' = [req EXCEPT ![r] = call]
      /\ req[r].pc = "idle" /\ c \in Issued
      /\ UNCHANGED <<rows, receipt, lock, run>>
    BY DEF CallCancel
<1>2. TypeOK
    BY DEF LedgerInvariant
<1>3. /\ call \in Call
      /\ call.pc = "called" /\ call.op = "cancel" /\ call.challan = c
    BY DEF CallWith, Call, NotSeen, Seen, Status
<1> HIDE DEF call
<1>4. /\ req'[r] = call
      /\ \A s \in Request \ {r} : req'[s] = req[s]
      /\ req' \in [Request -> Call]
    BY <1>1, <1>2, <1>3 DEF TypeOK
<1>5. ~HoldsLock(r)' /\ \A d \in Challan : lock'[d] # r
    BY <1>1, <1>3, <1>4 DEF LedgerInvariant, LocksInOrder, HoldsLock
<1> QED BY <1>1, <1>2, <1>3, <1>4, <1>5, RequestOnlyStep DEF TypeOK

LEMMA LockChallanStep ==
    ASSUME LedgerInvariant, NEW r \in Request, LockChallan(r)
    PROVE  LedgerInvariant'
<1> DEFINE c == req[r].challan
           call == req'[r]
<1>1. TypeOK
    BY DEF LedgerInvariant
<1>2. /\ req[r].pc = "called" /\ lock[c] = Free
      /\ lock' = [lock EXCEPT ![c] = r]
      /\ UNCHANGED <<rows, receipt, run>>
    BY DEF LockChallan
<1>3. /\ \A s \in Request \ {r} : req'[s] = req[s]
      /\ call.pc = "locked"
      /\ call.seen = [status |-> status[c], netAmount |-> netAmount[c],
                      paidAmount |-> paidAmount[c]]
      /\ call.op = req[r].op /\ call.challan = c
      /\ call.payment = req[r].payment /\ call.amount = req[r].amount
      /\ DOMAIN req' = Request
    BY <1>1 DEF LockChallan, TypeOK, Call
<1>4. c \in Issued /\ c \in Challan
    BY <1>2 DEF LedgerInvariant, CallsInOrder, Issued
<1>5. req' \in [Request -> Call]
    <2>1. [status |-> status[c], netAmount |-> netAmount[c],
           paidAmount |-> paidAmount[c]] \in Seen
        BY <1>1, <1>4 DEF TypeOK, Seen
    <2>2. call = [pc |-> "locked", op |-> req[r].op, challan |-> c,
                  payment |-> req[r].payment, amount |-> req[r].amount,
                  seen |-> call.seen, total |-> req[r].total]
        BY <1>1 DEF LockChallan, TypeOK, Call
    <2>3. call \in Call
        BY <1>1, <1>3, <2>1, <2>2 DEF TypeOK, Call
    <2> QED BY <1>1, <1>3, <2>3 DEF LockChallan, TypeOK
<1>6. HoldsLock(r)' /\ \A d \in Challan : lock'[d] = r <=> c = d
    BY <1>1, <1>2, <1>3, <1>4 DEF LedgerInvariant, LocksInOrder, HoldsLock, TypeOK
<1>7. lock' \in [Challan -> Request \cup {Free}]
      /\ \A d \in Challan : lock'[d] # lock[d] => {lock[d], lock'[d]} \subseteq {r, Free}
    BY <1>1, <1>2 DEF TypeOK
<1>8. /\ req[r].op = "record" =>
            /\ req[r].payment \in Payment /\ req[r].amount \in Amount
            /\ receipt[req[r].payment].of = NoChallan
            /\ \A s \in Request \ {r} :
                 req[s].pc # "idle" /\ req[s].op = "record" =>
                    req[s].payment # req[r].payment
      /\ req[r].op = "void" =>
            req[r].payment \in Payment /\ receipt[req[r].payment].of = c
    BY <1>2 DEF LedgerInvariant, CallsInOrder
<1> HIDE DEF c, call
<1> QED BY <1>2, <1>3, <1>4, <1>5, <1>6, <1>7, <1>8, RequestOnlyStep DEF c, call

\* What a transaction would write is a Payment table.
LEMMA WrittenIsTable ==
    ASSUME LedgerInvariant, NEW r \in Request, req[r].pc # "idle"
    PROVE  Written(r) \in Receipts
<1>1. /\ req[r] \in Call /\ receipt \in Receipts
      /\ req[r].challan \in Challan
      /\ req[r].op = "record" => req[r].payment \in Payment
      /\ req[r].op = "void" => req[r].payment \in Payment
    BY DEF LedgerInvariant, TypeOK, CallsInOrder, Issued, Receipts
<1>2. req[r].op \in {"record", "void", "cancel"} /\ req[r].amount \in Nat
    BY <1>1 DEF Call
<1>3. CASE req[r].op = "record"
    BY <1>1, <1>2, <1>3 DEF Written, Receipts, Receipt
<1>4. CASE req[r].op = "void"
    <2> DEFINE p == req[r].payment
    <2>1. Written(r) = [receipt EXCEPT ![p].voided = TRUE]
        BY <1>4 DEF Written
    <2>2. receipt[p] \in Receipt
        BY <1>1, <1>4 DEF Receipts
    <2>3. [receipt[p] EXCEPT !.voided = TRUE] \in Receipt
        BY <2>2, Zenon DEF Receipt
    <2> QED BY <1>1, <2>1, <2>3 DEF Receipts
<1>5. CASE req[r].op = "cancel"
    BY <1>1, <1>5 DEF Written
<1> QED BY <1>2, <1>3, <1>4, <1>5

LEMMA DecideStep ==
    ASSUME LedgerInvariant, NEW r \in Request, Decide(r)
    PROVE  LedgerInvariant'
<1> DEFINE c == req[r].challan
           call == req'[r]
<1>1. TypeOK
    BY DEF LedgerInvariant
<1>2. /\ req[r].pc = "locked" /\ MayProceed(r)
      /\ UNCHANGED <<rows, receipt, lock, run>>
    BY DEF Decide
<1>3. /\ \A s \in Request \ {r} : req'[s] = req[s]
      /\ call.pc = "decided" /\ call.total = SumIn(Written(r), c)
      /\ call.op = req[r].op /\ call.challan = c /\ call.seen = req[r].seen
      /\ call.payment = req[r].payment /\ call.amount = req[r].amount
      /\ DOMAIN req' = Request
    BY <1>1 DEF Decide, TypeOK, Call
<1>4. /\ c \in Issued
      /\ req[r].op = "record" =>
            /\ req[r].payment \in Payment /\ req[r].amount \in Amount
            /\ receipt[req[r].payment].of = NoChallan
            /\ \A s \in Request \ {r} :
                 req[s].pc # "idle" /\ req[s].op = "record" =>
                    req[s].payment # req[r].payment
      /\ req[r].op = "void" =>
            req[r].payment \in Payment /\ receipt[req[r].payment].of = c
    BY <1>2 DEF LedgerInvariant, CallsInOrder
<1>5. SumIn(Written(r), c) \in Nat
    BY <1>2, WrittenIsTable, SumIsNat
<1>6. req' \in [Request -> Call]
    <2>1. call = [pc |-> "decided", op |-> req[r].op, challan |-> c,
                  payment |-> req[r].payment, amount |-> req[r].amount,
                  seen |-> req[r].seen, total |-> SumIn(Written(r), c)]
        BY <1>1 DEF Decide, TypeOK, Call
    <2>2. call \in Call
        BY <1>1, <1>3, <1>5, <2>1 DEF TypeOK, Call
    <2> QED BY <1>1, <1>3, <2>2 DEF Decide, TypeOK
<1>7. /\ HoldsLock(r) /\ HoldsLock(r)'
      /\ \A d \in Challan : lock'[d] = r <=> c = d
    BY <1>1, <1>2, <1>3, <1>4 DEF LedgerInvariant, LocksInOrder, HoldsLock, TypeOK
<1>8. lock' = lock /\ lock' \in [Challan -> Request \cup {Free}]
    BY <1>1, <1>2 DEF TypeOK
<1>9. /\ MayProceed(r)'
      /\ call.total = SumIn(Written(r), req[r].challan)'
    BY <1>2, <1>3 DEF MayProceed, MayRecord, MayVoid, MayCancel, LiveReceipts, Written
<1>10. call.seen = [status |-> status[c], netAmount |-> netAmount[c],
                    paidAmount |-> paidAmount[c]]
    BY <1>3, <1>7 DEF LedgerInvariant, ReadsStand
<1> HIDE DEF c, call
<1> QED BY <1>2, <1>3, <1>4, <1>6, <1>7, <1>8, <1>9, <1>10, RequestOnlyStep DEF c, call

\* Every way a transaction ends without writing: the lock goes, the call ends.
LEMMA EndWithoutWriting ==
    ASSUME LedgerInvariant, NEW r \in Request,
           req' = [req EXCEPT ![r] = Idle],
           lock' = [d \in Challan |-> IF lock[d] = r THEN Free ELSE lock[d]],
           UNCHANGED <<rows, receipt, run>>
    PROVE  LedgerInvariant'
<1>1. TypeOK
    BY DEF LedgerInvariant
<1>2. Idle \in Call /\ Idle.pc = "idle"
    BY DEF Idle, CallWith, NotSeen, Call, Seen, Status
<1>3. /\ req'[r] = Idle
      /\ \A s \in Request \ {r} : req'[s] = req[s]
      /\ req' \in [Request -> Call]
    BY <1>1, <1>2 DEF TypeOK
<1>4. /\ lock' \in [Challan -> Request \cup {Free}]
      /\ \A d \in Challan : lock'[d] # r
      /\ \A d \in Challan : lock'[d] # lock[d] => {lock[d], lock'[d]} \subseteq {r, Free}
    BY <1>1, LedgerAssumption DEF TypeOK
<1>5. ~HoldsLock(r)'
    BY <1>2, <1>3 DEF HoldsLock
<1> QED BY <1>2, <1>3, <1>4, <1>5, RequestOnlyStep

\* A transaction that holds its lock holds no other.
LEMMA LockHeld ==
    ASSUME LedgerInvariant, NEW r \in Request, HoldsLock(r)
    PROVE  /\ req[r].challan \in Issued /\ req[r].challan \in Challan
           /\ \A d \in Challan : lock[d] = r <=> d = req[r].challan
<1>1. req[r].pc # "idle"
    BY DEF HoldsLock
<1>2. req[r].challan \in Issued
    BY <1>1 DEF LedgerInvariant, CallsInOrder
<1> QED BY <1>2 DEF LedgerInvariant, LocksInOrder, Issued

LEMMA RefuseStep ==
    ASSUME LedgerInvariant, NEW r \in Request, Refuse(r)
    PROVE  LedgerInvariant'
<1>1. HoldsLock(r)
    BY DEF Refuse, HoldsLock
<1>2. lock \in [Challan -> Request \cup {Free}]
    BY DEF LedgerInvariant, TypeOK
<1>3. lock' = [d \in Challan |-> IF lock[d] = r THEN Free ELSE lock[d]]
    BY <1>1, <1>2, LockHeld DEF Refuse, Respond
<1> QED BY <1>3, EndWithoutWriting DEF Refuse, Respond

LEMMA FailRequestStep ==
    ASSUME LedgerInvariant, NEW r \in Request, FailRequest(r)
    PROVE  LedgerInvariant'
BY EndWithoutWriting DEF FailRequest

-----------------------------------------------------------------------------
(* Commits *)

\* What a transaction read and decided under its lock survives any step that
\* leaves its challan's row and receipts alone.
LEMMA ReadSurvives ==
    ASSUME LedgerInvariant, NEW s \in Request, req'[s] = req[s], HoldsLock(s),
           status'[req[s].challan] = status[req[s].challan],
           netAmount'[req[s].challan] = netAmount[req[s].challan],
           paidAmount'[req[s].challan] = paidAmount[req[s].challan],
           receipt' \in Receipts,
           \A q \in Payment :
                receipt[q].of = req[s].challan \/ receipt'[q].of = req[s].challan =>
                    receipt'[q] = receipt[q]
    PROVE  LET d == req'[s].challan IN
           /\ req'[s].seen = [status |-> status'[d], netAmount |-> netAmount'[d],
                             paidAmount |-> paidAmount'[d]]
           /\ req'[s].pc = "decided" =>
                MayProceed(s)' /\ req'[s].total = SumIn(Written(s), req[s].challan)'
<1> DEFINE d == req[s].challan
           call == req[s]
<1>1. /\ call \in Call /\ receipt \in Receipts
      /\ call.pc # "idle" /\ d \in Challan /\ d # NoChallan
      /\ call.op = "record" => call.payment \in Payment
      /\ call.op = "void" => call.payment \in Payment /\ receipt[call.payment].of = d
    BY LedgerAssumption DEF LedgerInvariant, TypeOK, CallsInOrder, HoldsLock, Issued, Receipts
<1>2. call.op \in {"record", "void", "cancel"}
    BY <1>1 DEF Call
<1>3. call.seen = [status |-> status[d], netAmount |-> netAmount[d],
                   paidAmount |-> paidAmount[d]]
    BY DEF LedgerInvariant, ReadsStand
<1>4. ASSUME call.pc = "decided"
      PROVE  MayProceed(s)' /\ call.total = SumIn(Written(s), req[s].challan)'
    <2>1. MayProceed(s) /\ call.total = SumIn(Written(s), d)
        BY <1>4 DEF LedgerInvariant, ReadsStand
    <2>2. LiveReceipts(d)' = LiveReceipts(d)
        BY DEF LiveReceipts, LiveIn
    <2>3. MayProceed(s)'
        BY <1>1, <1>2, <2>1, <2>2 DEF MayProceed, MayRecord, MayVoid, MayCancel
    <2>4. \A q \in Payment :
            Written(s)[q].of = d \/ Written(s)'[q].of = d => Written(s)[q] = Written(s)'[q]
        <3>1. CASE call.op = "record"
            BY <1>1, <3>1 DEF Written, Receipts
        <3>2. CASE call.op = "void"
            BY <1>1, <3>2 DEF Written, Receipts
        <3>3. CASE call.op = "cancel"
            BY <3>3 DEF Written
        <3> QED BY <1>2, <3>1, <3>2, <3>3
    <2>5. SumIn(Written(s), d) = SumIn(Written(s)', d)
        BY <2>4, SumOfSameReceipts
    <2> QED BY <2>1, <2>3, <2>5
<1> QED BY <1>3, <1>4

\* The calls that did not commit keep their claims: the receipts they are about
\* are not the one that was written.
LEMMA SettleStep ==
    ASSUME LedgerInvariant, NEW r \in Request,
           req[r].pc = "decided", req[r].op \in {"record", "void"},
           receipt' = Written(r), Resettle(r), Respond(r),
           UNCHANGED <<netAmount, charges, challanNo, carriedTo, run>>
    PROVE  LedgerInvariant'
<1> DEFINE c == req[r].challan
           p == req[r].payment
           paid == req[r].total
<1>1. /\ TypeOK /\ receipt \in Receipts /\ req[r] \in Call
      /\ HoldsLock(r) /\ req[r].pc # "idle"
    BY DEF LedgerInvariant, TypeOK, HoldsLock, Receipts
<1>2. /\ c \in Issued /\ c \in Challan /\ c # NoChallan
      /\ \A d \in Challan : lock[d] = r <=> d = c
    BY <1>1, LockHeld, LedgerAssumption
<1>3. /\ p \in Payment
      /\ req[r].op = "record" => receipt[p].of = NoChallan /\ req[r].amount > 0
      /\ req[r].op = "void" => receipt[p].of = c
    <2>1. \A a \in Amount : a > 0
        BY LedgerAssumption
    <2> QED BY <1>1, <2>1 DEF LedgerInvariant, CallsInOrder
<1>4. /\ MayProceed(r) /\ paid = SumIn(Written(r), c)
      /\ req[r].seen = [status |-> status[c], netAmount |-> netAmount[c],
                        paidAmount |-> paidAmount[c]]
    BY <1>1 DEF LedgerInvariant, ReadsStand
<1>5. receipt' \in Receipts
    BY <1>1, WrittenIsTable
<1>6. /\ \A q \in Payment \ {p} : receipt'[q] = receipt[q]
      /\ receipt'[p].of = c /\ receipt'[p].amount > 0
      /\ receipt[p].of \in {NoChallan, c}
    <2>1. CASE req[r].op = "record"
        BY <1>1, <1>3, <2>1 DEF Written, Receipts, Receipt
    <2>2. CASE req[r].op = "void"
        BY <1>1, <1>2, <1>3, <2>2 DEF Written, Receipts, Receipt, LedgerInvariant, BooksInOrder
    <2> QED BY <2>1, <2>2
<1>7. \A d \in Challan \ {c} :
        LiveIn(receipt', d) = LiveIn(receipt, d) /\ SumIn(receipt', d) = SumIn(receipt, d)
    <2> TAKE d \in Challan \ {c}
    <2>1. \A q \in Payment : receipt[q].of = d \/ receipt'[q].of = d => receipt[q] = receipt'[q]
        BY <1>6, LedgerAssumption
    <2> QED BY <2>1, SumOfSameReceipts
<1>8. paid \in Nat /\ paid = SumIn(receipt', c)
    BY <1>4, <1>5, SumIsNat
<1>9. SumIn(receipt, c) = paidAmount[c] /\ SumIn(receipt, c) <= netAmount[c]
    BY <1>2 DEF LedgerInvariant, PaidIsReceiptSum, NeverOverpaid, LiveSum
<1>10. netAmount[c] \in Nat /\ paidAmount[c] \in Nat /\ req[r].amount \in Nat
    BY <1>1, <1>2 DEF TypeOK, Call
<1>11. status[c] # "CANCELLED" /\ paid <= netAmount[c]
    <2>1. CASE req[r].op = "record"
        <3>1. /\ status[c] # "CANCELLED"
              /\ req[r].amount <= RemainingBalance(netAmount[c], paidAmount[c])
            BY <1>4, <2>1 DEF MayProceed, MayRecord
        <3>2. paid = SumIn(receipt, c) + req[r].amount
            BY <1>1, <1>2, <1>3, <1>4, <1>10, <2>1, SumAfterRecord DEF Written
        <3> QED BY <1>9, <1>10, <3>1, <3>2 DEF RemainingBalance, NonNegative
    <2>2. CASE req[r].op = "void"
        <3>1. paid <= SumIn(receipt, c)
            BY <1>1, <1>2, <1>3, <1>4, <2>2, SumAfterVoid DEF Written
        <3>2. p \in LiveReceipts(c)
            BY <1>3, <1>4, <2>2 DEF MayProceed, MayVoid, LiveReceipts, LiveIn
        <3>3. status[c] # "CANCELLED"
            BY <1>2, <3>2 DEF LedgerInvariant, CancelledHasNoMoney
        <3> QED BY <1>8, <1>9, <1>10, <3>1, <3>3
    <2> QED BY <2>1, <2>2
<1>12. /\ status'[c] = ResolveChallanStatus(paid, netAmount[c])
       /\ status'[c] \in {"UNPAID", "PARTIALLY_PAID", "PAID"}
       /\ paidAmount'[c] = paid
       /\ \A d \in Challan \ {c} : status'[d] = status[d] /\ paidAmount'[d] = paidAmount[d]
    <2>1. ResolveChallanStatus(paid, netAmount[c]) \in {"UNPAID", "PARTIALLY_PAID", "PAID"}
        BY <1>8, <1>10, ResolvedStatus
    <2> QED BY <1>1, <1>2, <1>4, <2>1 DEF Resettle, TypeOK
<1>13. Idle \in Call /\ Idle.pc = "idle"
    BY DEF Idle, CallWith, NotSeen, Call, Seen, Status
<1>14. /\ req'[r] = Idle
       /\ \A s \in Request \ {r} : req'[s] = req[s]
       /\ lock'[c] = Free
       /\ \A d \in Challan \ {c} : lock'[d] = lock[d]
    BY <1>1, <1>2 DEF Respond, TypeOK
<1>15. TypeOK'
    <2>1. status' \in [Challan -> Status] /\ paidAmount' \in [Challan -> Nat]
        BY <1>1, <1>8, <1>12 DEF Resettle, TypeOK, Status
    <2>2. req' \in [Request -> Call] /\ lock' \in [Challan -> Request \cup {Free}]
        BY <1>1, <1>13 DEF Respond, TypeOK
    <2> QED BY <1>1, <1>5, <2>1, <2>2 DEF TypeOK, Receipts
<1>16. Issued' = Issued
    BY <1>2, <1>12 DEF Issued
<1> HIDE DEF c, p, paid
<1>17. PaidIsReceiptSum' /\ NeverOverpaid'
    BY <1>2, <1>7, <1>8, <1>11, <1>12, <1>16
        DEF LedgerInvariant, PaidIsReceiptSum, NeverOverpaid, LiveSum, Issued
<1>18. CancelledHasNoMoney' /\ StatusMatchesLedger'
    BY <1>2, <1>7, <1>8, <1>11, <1>12, <1>16
        DEF LedgerInvariant, CancelledHasNoMoney, StatusMatchesLedger, LiveReceipts, LiveSum, Issued
<1>19. BooksInOrder'
    BY <1>2, <1>6, <1>11, <1>12, <1>16 DEF LedgerInvariant, BooksInOrder, Issued
<1>20. CallsInOrder'
    <2>1. ASSUME NEW s \in Request, req'[s].pc # "idle"
          PROVE  s # r /\ req'[s] = req[s]
        BY <1>13, <1>14, <2>1
    <2>2. \A s \in Request : req'[s].pc # "idle" /\ req'[s].op = "record" =>
            receipt'[req'[s].payment].of = NoChallan
        <3> SUFFICES ASSUME NEW s \in Request, req'[s].pc # "idle", req'[s].op = "record"
                     PROVE  receipt'[req'[s].payment].of = NoChallan
            OBVIOUS
        <3>1. req[s].payment # p
            BY <1>1, <1>2, <1>3, <2>1 DEF LedgerInvariant, CallsInOrder, p
        <3> QED BY <1>6, <2>1, <3>1 DEF LedgerInvariant, CallsInOrder
    <2>3. \A s \in Request : req'[s].pc # "idle" /\ req'[s].op = "void" =>
            receipt'[req'[s].payment].of = req'[s].challan
        <3> SUFFICES ASSUME NEW s \in Request, req'[s].pc # "idle", req'[s].op = "void"
                     PROVE  receipt'[req'[s].payment].of = req'[s].challan
            OBVIOUS
        <3>1. /\ req[s].payment \in Payment /\ req[s].challan \in Challan
              /\ receipt[req[s].payment].of = req[s].challan
            BY <2>1 DEF LedgerInvariant, CallsInOrder, Issued
        <3> QED BY <1>6, <2>1, <3>1, LedgerAssumption
    <2> QED BY <1>16, <2>1, <2>2, <2>3 DEF LedgerInvariant, CallsInOrder
<1>21. LocksInOrder'
    <2>1. ~HoldsLock(r)' /\ \A s \in Request \ {r} : HoldsLock(s)' = HoldsLock(s)
        BY <1>13, <1>14 DEF HoldsLock
    <2>2. \A d \in Challan : lock'[d] # r
        BY <1>2, <1>14, LedgerAssumption
    <2>3. \A s \in Request \ {r} : HoldsLock(s) => req[s].challan \in Challan \ {c}
        BY <1>2, LockHeld
    <2> QED BY <1>14, <2>1, <2>2, <2>3, LedgerAssumption DEF LedgerInvariant, LocksInOrder
<1>22. ReadsStand'
    <2>1. ASSUME NEW s \in Request, HoldsLock(s)'
          PROVE  LET d == req'[s].challan IN
             /\ req'[s].seen = [status |-> status'[d], netAmount |-> netAmount'[d],
                               paidAmount |-> paidAmount'[d]]
             /\ req'[s].pc = "decided" =>
                  MayProceed(s)' /\ req'[s].total = SumIn(Written(s), req[s].challan)'
        <3>1. s # r /\ req'[s] = req[s] /\ HoldsLock(s)
            BY <1>13, <1>14, <2>1 DEF HoldsLock
        <3>2. req[s].challan \in Challan \ {c}
            BY <1>2, <3>1, LockHeld
        <3>3. \A q \in Payment :
                receipt[q].of = req[s].challan \/ receipt'[q].of = req[s].challan =>
                    receipt'[q] = receipt[q]
            BY <1>6, <3>2, LedgerAssumption
        <3> QED BY <1>5, <1>12, <3>1, <3>2, <3>3, ReadSurvives
    <2> QED BY <2>1 DEF ReadsStand, HoldsLock
<1> QED BY <1>15, <1>17, <1>18, <1>19, <1>20, <1>21, <1>22, SameJobs DEF LedgerInvariant

LEMMA CommitRecordStep ==
    ASSUME LedgerInvariant, NEW r \in Request, CommitRecord(r)
    PROVE  LedgerInvariant'
BY SettleStep DEF CommitRecord

LEMMA CommitVoidStep ==
    ASSUME LedgerInvariant, NEW r \in Request, CommitVoid(r)
    PROVE  LedgerInvariant'
BY SettleStep DEF CommitVoid

\* What a cancellation that commits finds and what it writes: the challan, the
\* challans it gives back, and the rows it leaves alone.
LEMMA CancelEffect ==
    ASSUME LedgerInvariant, NEW r \in Request, CommitCancel(r)
    PROVE  /\ req[r].challan \in Issued /\ req[r].challan \in Challan
           /\ status[req[r].challan] # "CANCELLED" /\ carriedTo[req[r].challan] = 0
           /\ LiveReceipts(req[r].challan) = {}
           /\ CarriedBy(req[r].challan) \subseteq Issued \ {req[r].challan}
           /\ \A d \in CarriedBy(req[r].challan) :
                /\ status[d] = "CANCELLED" /\ LiveReceipts(d) = {} /\ netAmount[d] > 0
                /\ status'[d] = "UNPAID" /\ carriedTo'[d] = 0
           /\ status'[req[r].challan] = "CANCELLED" /\ carriedTo'[req[r].challan] = 0
           /\ \A d \in Challan \ ({req[r].challan} \cup CarriedBy(req[r].challan)) :
                status'[d] = status[d] /\ carriedTo'[d] = carriedTo[d]
           /\ Issued' = Issued
           /\ UNCHANGED <<netAmount, paidAmount, charges, challanNo, receipt, run>>
<1> DEFINE c == req[r].challan
           carried == CarriedBy(c)
<1>1. /\ TypeOK /\ receipt \in Receipts
      /\ req[r].pc = "decided" /\ req[r].op = "cancel"
      /\ HoldsLock(r)
      /\ UNCHANGED <<netAmount, paidAmount, charges, challanNo, receipt, run>>
    BY DEF LedgerInvariant, TypeOK, HoldsLock, Receipts, CommitCancel
<1>2. c \in Issued /\ c \in Challan
    BY <1>1, LockHeld
<1>3. status[c] # "CANCELLED" /\ carriedTo[c] = 0 /\ LiveReceipts(c) = {}
    <2>1. /\ MayProceed(r)
          /\ req[r].seen = [status |-> status[c], netAmount |-> netAmount[c],
                            paidAmount |-> paidAmount[c]]
        BY <1>1 DEF LedgerInvariant, ReadsStand
    <2> QED BY <1>1, <1>2, <2>1 DEF MayProceed, MayCancel, LedgerInvariant, BooksInOrder
<1>4. /\ carried \subseteq Challan \ {c}
      /\ \A d \in carried :
            /\ status[d] = "CANCELLED" /\ LiveReceipts(d) = {} /\ netAmount[d] > 0
            /\ d \in Issued
    <2>1. challanNo[c] # 0
        BY <1>1, <1>2 DEF LedgerInvariant, BooksInOrder, TypeOK
    <2> QED BY <1>3, <2>1 DEF CarriedBy, LedgerInvariant, CancelledHasNoMoney, BooksInOrder, Issued
<1>5. /\ status'[c] = "CANCELLED"
      /\ \A d \in carried : status'[d] = "UNPAID"
      /\ \A d \in Challan \ ({c} \cup carried) : status'[d] = status[d]
      /\ \A d \in {c} \cup carried : carriedTo'[d] = 0
      /\ \A d \in Challan \ ({c} \cup carried) : carriedTo'[d] = carriedTo[d]
    BY <1>2, <1>4 DEF CommitCancel
<1>6. Issued' = Issued
    BY <1>2, <1>4, <1>5 DEF Issued
<1> HIDE DEF carried
<1> QED BY <1>1, <1>2, <1>3, <1>4, <1>5, <1>6 DEF carried

LEMMA CommitCancelStep ==
    ASSUME LedgerInvariant, NEW r \in Request, CommitCancel(r)
    PROVE  LedgerInvariant'
<1> DEFINE c == req[r].challan
           carried == CarriedBy(c)
<1>1. /\ TypeOK /\ receipt \in Receipts /\ HoldsLock(r)
      /\ \A d \in carried : lock[d] = Free
      /\ UNCHANGED <<netAmount, paidAmount, charges, challanNo, receipt, run>>
    BY DEF LedgerInvariant, TypeOK, HoldsLock, Receipts, CommitCancel
<1>2. /\ c \in Issued /\ c \in Challan
      /\ \A d \in Challan : lock[d] = r <=> d = c
    BY <1>1, LockHeld
<1>3. LiveReceipts(c) = {}
    BY CancelEffect
<1>4. /\ carried \subseteq Challan \ {c}
      /\ \A d \in carried : /\ LiveReceipts(d) = {} /\ netAmount[d] > 0
                             /\ d \in Issued
    BY CancelEffect DEF Issued
<1>5. /\ status'[c] = "CANCELLED"
      /\ \A d \in carried : status'[d] = "UNPAID"
      /\ \A d \in Challan \ ({c} \cup carried) : status'[d] = status[d]
      /\ \A d \in {c} \cup carried : carriedTo'[d] = 0
      /\ \A d \in Challan \ ({c} \cup carried) : carriedTo'[d] = carriedTo[d]
    BY CancelEffect
<1>6. Idle \in Call /\ Idle.pc = "idle"
    BY DEF Idle, CallWith, NotSeen, Call, Seen, Status
<1>7. /\ req'[r] = Idle
      /\ \A s \in Request \ {r} : req'[s] = req[s]
      /\ lock'[c] = Free
      /\ \A d \in Challan \ {c} : lock'[d] = lock[d]
    BY <1>1, <1>2 DEF CommitCancel, Respond, TypeOK
<1>8. TypeOK'
    <2>1. status' \in [Challan -> Status]
        BY <1>1, <1>2, <1>4, <1>5 DEF CommitCancel, TypeOK, Status
    <2>2. carriedTo' \in [Challan -> Nat]
        BY <1>1 DEF CommitCancel, TypeOK
    <2>3. req' \in [Request -> Call] /\ lock' \in [Challan -> Request \cup {Free}]
        BY <1>1, <1>6 DEF CommitCancel, Respond, TypeOK
    <2> QED BY <1>1, <2>1, <2>2, <2>3 DEF TypeOK
<1>9. Issued' = Issued
    BY CancelEffect
<1> HIDE DEF c, carried
<1>10. PaidIsReceiptSum' /\ NeverOverpaid'
    BY <1>1, <1>9 DEF LedgerInvariant, PaidIsReceiptSum, NeverOverpaid, LiveSum
<1>11. CancelledHasNoMoney'
    BY <1>1, <1>3, <1>4, <1>5 DEF LedgerInvariant, CancelledHasNoMoney, LiveReceipts
<1>12. StatusMatchesLedger'
    <2>1. ASSUME NEW d \in carried
          PROVE  ResolveChallanStatus(LiveSum(d), netAmount[d]) = "UNPAID"
        <3>1. LiveSum(d) = 0 /\ netAmount[d] \in Nat /\ netAmount[d] > 0
            BY <1>1, <1>4, TotalOfNone DEF LiveSum, SumIn, LiveReceipts, TypeOK
        <3> QED BY <3>1 DEF ResolveChallanStatus, NonNegative
    <2> QED BY <1>1, <1>5, <1>9, <2>1
        DEF LedgerInvariant, StatusMatchesLedger, LiveSum, Issued
<1>13. BooksInOrder'
    BY <1>1, <1>4, <1>5, <1>9 DEF LedgerInvariant, BooksInOrder, Issued
<1>14. CallsInOrder'
    <2>1. \A s \in Request : req'[s].pc # "idle" => s # r /\ req'[s] = req[s]
        BY <1>6, <1>7
    <2> QED BY <1>1, <1>9, <2>1 DEF LedgerInvariant, CallsInOrder
<1>15. LocksInOrder'
    <2>1. ~HoldsLock(r)' /\ \A s \in Request \ {r} : HoldsLock(s)' = HoldsLock(s)
        BY <1>6, <1>7 DEF HoldsLock
    <2>2. \A d \in Challan : lock'[d] # r
        BY <1>2, <1>7, LedgerAssumption
    <2>3. \A s \in Request \ {r} : HoldsLock(s) => req[s].challan \in Challan \ {c}
        BY <1>2, LockHeld
    <2> QED BY <1>7, <2>1, <2>2, <2>3, LedgerAssumption DEF LedgerInvariant, LocksInOrder
<1>16. ReadsStand'
    <2>1. ASSUME NEW s \in Request, HoldsLock(s)'
          PROVE  LET d == req'[s].challan IN
             /\ req'[s].seen = [status |-> status'[d], netAmount |-> netAmount'[d],
                               paidAmount |-> paidAmount'[d]]
             /\ req'[s].pc = "decided" =>
                  MayProceed(s)' /\ req'[s].total = SumIn(Written(s), req[s].challan)'
        <3>1. s # r /\ req'[s] = req[s] /\ HoldsLock(s)
            BY <1>6, <1>7, <2>1 DEF HoldsLock
        <3>2. req[s].challan \in Challan \ ({c} \cup carried)
            BY <1>1, <1>2, <3>1, LockHeld, LedgerAssumption
        <3> QED BY <1>1, <1>5, <3>1, <3>2, ReadSurvives
    <2> QED BY <2>1 DEF ReadsStand, HoldsLock
<1> QED BY <1>1, <1>8, <1>10, <1>11, <1>12, <1>13, <1>14, <1>15, <1>16, SameJobs
    DEF LedgerInvariant

-----------------------------------------------------------------------------
(* Runs *)

\* A step of a run that writes no row.
LEMMA RunOnlyStep ==
    ASSUME LedgerInvariant, NEW g \in Run,
           UNCHANGED <<rows, receipt, lock, req>>,
           NEW job \in Job, run' = [run EXCEPT ![g] = job],
           job.pc # "idle" =>
                /\ job.period \in 1..Periods
                /\ job.pc = "plan" => job.carry = {}
                /\ \A c \in job.carry :
                    StudentOf(c) \in job.bill /\ PeriodOf(c) < job.period
    PROVE  LedgerInvariant'
<1>1. TypeOK'
    BY DEF LedgerInvariant, TypeOK, rows
<1>2. JobsInOrder'
    BY DEF LedgerInvariant, TypeOK, JobsInOrder
<1> QED BY <1>1, <1>2, SameBooks, SameCalls DEF LedgerInvariant

LEMMA FreshJob ==
    ASSUME NEW pc \in {"idle", "plan"}, NEW kind \in {"monthly", "installment"},
           NEW period \in 1..Periods \cup {0}, NEW roster \in SUBSET Student,
           NEW n \in 1..MaxAttempts
    PROVE  LET job == JobWith(pc, kind, period, roster, n) IN
           /\ job \in Job /\ job.pc = pc /\ job.period = period /\ job.carry = {}
BY DEF JobWith, Job, NoMoney

LEMMA NoJobIsJob == NoJob \in Job /\ NoJob.pc = "idle"
<1>1. 1 \in 1..MaxAttempts
    BY LedgerAssumption
<1> QED BY <1>1, FreshJob DEF NoJob

LEMMA RunEnds ==
    ASSUME LedgerInvariant, NEW g \in Run,
           UNCHANGED <<rows, receipt, lock, req>>, run' = [run EXCEPT ![g] = NoJob]
    PROVE  LedgerInvariant'
BY NoJobIsJob, RunOnlyStep

LEMMA StartRunStep ==
    ASSUME LedgerInvariant, NEW g \in Run, NEW kind \in Kind,
           NEW period \in 1..Periods, NEW roster \in SUBSET Student,
           StartRun(g, kind, period, roster)
    PROVE  LedgerInvariant'
<1> DEFINE job == JobWith("plan", kind, period, roster, 1)
<1>1. 1 \in 1..MaxAttempts /\ kind \in {"monthly", "installment"}
    BY LedgerAssumption
<1>4. period \in 1..Periods \cup {0} /\ "plan" \in {"idle", "plan"}
    OBVIOUS
<1>2. job \in Job /\ job.pc = "plan" /\ job.period = period /\ job.carry = {}
    BY <1>1, <1>4 DEF JobWith, Job, NoMoney
<1>3. UNCHANGED <<rows, receipt, lock, req>> /\ run' = [run EXCEPT ![g] = job]
    BY DEF StartRun
<1> HIDE DEF job
<1> QED BY <1>2, <1>3, RunOnlyStep

LEMMA NothingToBillStep ==
    ASSUME LedgerInvariant, NEW g \in Run, NothingToBill(g) PROVE LedgerInvariant'
BY RunEnds DEF NothingToBill

LEMMA FailRunStep ==
    ASSUME LedgerInvariant, NEW g \in Run, FailRun(g) PROVE LedgerInvariant'
BY RunEnds DEF FailRun

LEMMA StartOverStep ==
    ASSUME LedgerInvariant, NEW g \in Run, run[g].pc # "idle", StartOver(g)
    PROVE  LedgerInvariant'
<1>1. CASE run[g].kind = "monthly" /\ run[g].attempt < MaxAttempts
    <2> DEFINE job == JobWith("plan", "monthly", run[g].period, run[g].roster,
                              run[g].attempt + 1)
    <2>1. run[g] \in Job /\ run[g].period \in 1..Periods
        BY DEF LedgerInvariant, TypeOK, JobsInOrder
    <2>2. run[g].roster \in SUBSET Student /\ run[g].attempt + 1 \in 1..MaxAttempts
        BY <1>1, <2>1, LedgerAssumption DEF Job
    <2>3. job \in Job /\ job.pc = "plan" /\ job.period = run[g].period /\ job.carry = {}
        BY <2>1, <2>2 DEF JobWith, Job, NoMoney
    <2>4. UNCHANGED <<rows, receipt, lock, req>> /\ run' = [run EXCEPT ![g] = job]
        BY <1>1 DEF StartOver
    <2> HIDE DEF job
    <2> QED BY <2>1, <2>3, <2>4, RunOnlyStep
<1>2. CASE ~(run[g].kind = "monthly" /\ run[g].attempt < MaxAttempts)
    BY <1>2, RunEnds DEF StartOver
<1> QED BY <1>1, <1>2

LEMMA LoseRaceStep ==
    ASSUME LedgerInvariant, NEW g \in Run, LoseRace(g) \/ Deadlock(g)
    PROVE  LedgerInvariant'
BY StartOverStep DEF LoseRace, Deadlock

LEMMA TakeNumberStep ==
    ASSUME LedgerInvariant, NEW g \in Run, NEW n \in Nat, TakeNumber(g, n)
    PROVE  LedgerInvariant'
<1> DEFINE job == run'[g]
<1>1. /\ run \in [Run -> Job] /\ run[g] \in Job /\ run[g].pc = "planned"
      /\ UNCHANGED <<rows, receipt, lock, req>>
    BY DEF LedgerInvariant, TypeOK, TakeNumber
<1>3. job = [pc |-> "numbered", kind |-> run[g].kind, period |-> run[g].period,
             roster |-> run[g].roster, bill |-> run[g].bill, fee |-> run[g].fee,
             carry |-> run[g].carry, arrears |-> run[g].arrears, base |-> n,
             attempt |-> run[g].attempt]
    BY <1>1 DEF TakeNumber, Job
<1>4. job \in Job
    BY <1>1, <1>3 DEF Job
<1>5. /\ job.period = run[g].period /\ job.bill = run[g].bill
      /\ job.carry = run[g].carry /\ job.pc = "numbered"
    BY <1>3
<1>6. run' = [run EXCEPT ![g] = job]
    BY <1>1 DEF TakeNumber
<1> HIDE DEF job
<1>7. /\ run[g].period \in 1..Periods
      /\ \A c \in run[g].carry : StudentOf(c) \in run[g].bill /\ PeriodOf(c) < run[g].period
    BY <1>1 DEF LedgerInvariant, JobsInOrder
<1> QED BY <1>1, <1>4, <1>5, <1>6, <1>7, RunOnlyStep

LEMMA ReadNumberStep ==
    ASSUME LedgerInvariant, NEW g \in Run
    PROVE  /\ \A n \in 0..Cardinality(Challan) : ReadHighestNo(g, n) => LedgerInvariant'
           /\ CountChallans(g) => LedgerInvariant'
<1>1. Cardinality(Challan) \in Nat /\ Cardinality(Issued) \in Nat
    <2>1. Issued \in SUBSET Challan
        BY DEF Issued
    <2> QED BY <2>1, ChallanIsFinite, FS_Subset, FS_CardinalityType
<1> QED BY <1>1, TakeNumberStep DEF ReadHighestNo, CountChallans

\* A plan carries challans of the students it bills, from earlier periods.
LEMMA PlanStep ==
    ASSUME LedgerInvariant, NEW g \in Run, NEW bill \in SUBSET run[g].roster,
           NEW fee \in [Student -> Charge \cup {0}],
           NEW carry \in [Student -> SUBSET Challan],
           \A s \in Student : \A c \in carry[s] :
                s \in bill /\ StudentOf(c) = s /\ PeriodOf(c) < run[g].period,
           Plan(g, bill, fee, carry)
    PROVE  LedgerInvariant'
<1> DEFINE folded == UNION {carry[s] : s \in Student}
           arrears == [s \in Student |-> Total(carry[s], netAmount)]
           job == run'[g]
<1>1. /\ run \in [Run -> Job] /\ run[g] \in Job /\ run[g].pc = "plan"
      /\ netAmount \in [Challan -> Nat]
      /\ UNCHANGED <<rows, receipt, lock, req>>
    BY DEF LedgerInvariant, TypeOK, Plan
<1>2. job = [pc |-> "planned", kind |-> run[g].kind, period |-> run[g].period,
             roster |-> run[g].roster, bill |-> bill, fee |-> fee,
             carry |-> folded, arrears |-> arrears, base |-> run[g].base,
             attempt |-> run[g].attempt]
    BY <1>1 DEF Plan, Job
<1>3. \A s \in Student : carry[s] \subseteq Challan
    OBVIOUS
<1>4. arrears \in [Student -> Nat]
    <2>1. ASSUME NEW s \in Student PROVE Total(carry[s], netAmount) \in Nat
        <3>1. IsFiniteSet(carry[s])
            BY <1>3, ChallanIsFinite, FS_Subset
        <3>2. \A c \in carry[s] : netAmount[c] \in Nat
            BY <1>1, <1>3
        <3> QED BY <3>1, <3>2, TotalIsNat
    <2> QED BY <2>1
<1>5. \A c \in folded : StudentOf(c) \in bill /\ PeriodOf(c) < run[g].period
    OBVIOUS
<1>6. /\ bill \in SUBSET Student /\ fee \in [Student -> Nat]
      /\ folded \in SUBSET Challan
    <2>1. bill \in SUBSET Student
        <3>1. run[g].roster \subseteq Student
            BY <1>1 DEF Job
        <3> QED BY <3>1
    <2>2. fee \in [Student -> Nat]
        <3>1. Charge \cup {0} \subseteq Nat
            BY LedgerAssumption
        <3>2. \A s \in Student : fee[s] \in Nat
            BY <3>1
        <3> QED BY <3>2
    <2>3. folded \in SUBSET Challan
        BY <1>3
    <2> QED BY <2>1, <2>2, <2>3
<1>7. run' = [run EXCEPT ![g] = job]
    BY <1>1 DEF Plan
<1>8. run[g].period \in 1..Periods
    BY <1>1 DEF LedgerInvariant, JobsInOrder
<1> HIDE DEF folded, arrears
<1>9. /\ job \in Job
      /\ job.pc = "planned" /\ job.period = run[g].period
      /\ job.bill = bill /\ job.carry = folded
    BY <1>1, <1>2, <1>4, <1>6 DEF Job
<1> HIDE DEF job
<1> QED BY <1>1, <1>5, <1>7, <1>8, <1>9, RunOnlyStep

LEMMA BuildPlanStep ==
    ASSUME LedgerInvariant, NEW g \in Run, NEW bill \in SUBSET run[g].roster,
           NEW fee \in [Student -> Charge \cup {0}],
           BuildPlan(g, bill, fee) \/ BuildInstallmentBatch(g, bill, fee)
    PROVE  LedgerInvariant'
<1>1. CASE BuildPlan(g, bill, fee)
    <2> DEFINE carry == [s \in Student |->
                            IF s \in bill THEN Arrears(s, run[g].period) ELSE {}]
    <2>1. Plan(g, bill, fee, carry)
        BY <1>1 DEF BuildPlan
    <2>2. /\ carry \in [Student -> SUBSET Challan]
          /\ \A s \in Student : \A c \in carry[s] :
                s \in bill /\ StudentOf(c) = s /\ PeriodOf(c) < run[g].period
        BY DEF Arrears
    <2> HIDE DEF carry
    <2> QED BY <2>1, <2>2, PlanStep
<1>2. CASE BuildInstallmentBatch(g, bill, fee)
    <2> DEFINE carry == [s \in Student |-> {}]
    <2>1. Plan(g, bill, fee, carry)
        BY <1>2 DEF BuildInstallmentBatch
    <2>2. carry \in [Student -> SUBSET Challan] /\ \A s \in Student : carry[s] = {}
        OBVIOUS
    <2> HIDE DEF carry
    <2> QED BY <2>1, <2>2, PlanStep
<1> QED BY <1>1, <1>2

LEMMA ChallanParts ==
    ASSUME NEW c \in Challan
    PROVE  /\ StudentOf(c) \in Student /\ PeriodOf(c) \in 1..Periods
           /\ c = <<StudentOf(c), PeriodOf(c)>>
BY DEF Challan, StudentOf, PeriodOf

\* What a run that commits finds and what it writes: new rows, the rows folded
\* into them, and the rows it leaves alone.
LEMMA RunEffect ==
    ASSUME LedgerInvariant, NEW g \in Run, NEW no \in [run[g].bill -> BatchNos(g)],
           CommitRun(g, no)
    PROVE  /\ Batch(g) \subseteq Challan \ Issued
           /\ \A s \in run[g].bill : s \in Student /\ no[s] \in Nat /\ no[s] > 0
           /\ \A c \in Batch(g) :
                /\ StudentOf(c) \in run[g].bill /\ PeriodOf(c) = run[g].period
                /\ netAmount'[c] = run[g].fee[StudentOf(c)] + run[g].arrears[StudentOf(c)]
                /\ charges'[c] = run[g].fee[StudentOf(c)]
                /\ status'[c] \in {"UNPAID", "PARTIALLY_PAID", "PAID"}
                /\ status'[c] = ResolveChallanStatus(0, netAmount'[c])
                /\ challanNo'[c] = no[StudentOf(c)] /\ carriedTo'[c] = 0
           /\ run[g].carry \subseteq Issued
           /\ \A c \in run[g].carry :
                /\ StudentOf(c) \in run[g].bill /\ PeriodOf(c) < run[g].period
                /\ status[c] = "UNPAID" /\ paidAmount[c] = 0
                /\ LiveReceipts(c) = {} /\ netAmount[c] > 0
                /\ status'[c] = "CANCELLED" /\ carriedTo'[c] = no[StudentOf(c)]
           /\ \A c \in Challan \ Batch(g) :
                /\ netAmount'[c] = netAmount[c] /\ charges'[c] = charges[c]
                /\ challanNo'[c] = challanNo[c]
           /\ \A c \in Challan \ (Batch(g) \cup run[g].carry) :
                status'[c] = status[c] /\ carriedTo'[c] = carriedTo[c]
           /\ Issued' = Issued \cup Batch(g)
           /\ TypeOK'
<1> DEFINE job == run[g]
           new == Batch(g)
           old == run[g].carry
           due == [s \in Student |-> job.fee[s] + job.arrears[s]]
<1>1. /\ TypeOK /\ receipt \in Receipts /\ job \in Job /\ job.pc = "numbered"
      /\ ~Collides(g) /\ ~StaleArrears(g) /\ Superseded(g) = old
      /\ \A c \in old : lock[c] = Free
      /\ run' = [run EXCEPT ![g] = NoJob]
      /\ UNCHANGED <<paidAmount, receipt, lock, req>>
    BY DEF CommitRun, LedgerInvariant, TypeOK, StaleArrears, Receipts
<1>2. /\ job.fee \in [Student -> Nat] /\ job.arrears \in [Student -> Nat]
      /\ job.base \in Nat /\ old \subseteq Challan /\ job.bill \subseteq Student
    BY <1>1 DEF Job
<1>3. /\ \A c \in new :
            /\ StudentOf(c) \in job.bill /\ PeriodOf(c) = job.period
            /\ c \in Challan \ Issued /\ carriedTo[c] = 0
      /\ \A c \in old : StudentOf(c) \in job.bill /\ PeriodOf(c) < job.period
    <2>1. /\ job.period \in 1..Periods
          /\ \A c \in old : StudentOf(c) \in job.bill /\ PeriodOf(c) < job.period
        BY <1>1 DEF LedgerInvariant, JobsInOrder
    <2>2. \A c \in new :
            /\ StudentOf(c) \in job.bill /\ PeriodOf(c) = job.period
            /\ c \in Challan \ Issued
        BY <1>1, <1>2, <2>1 DEF Batch, Collides, StudentOf, PeriodOf, Challan
    <2> QED BY <2>1, <2>2 DEF LedgerInvariant, BooksInOrder, Issued
<1>4. \A s \in job.bill : no[s] \in Nat /\ no[s] > 0
    <2>1. Cardinality(job.bill) \in Nat
        BY <1>2, LedgerAssumption, FS_Subset, FS_CardinalityType
    <2>2. \A s \in job.bill : no[s] \in BatchNos(g)
        OBVIOUS
    <2>3. \A n \in BatchNos(g) : n \in Nat /\ n > 0
        BY <1>2, <2>1 DEF BatchNos
    <2> QED BY <2>2, <2>3
<1>5. \A c \in old :
        /\ status[c] = "UNPAID" /\ paidAmount[c] = 0
        /\ c \in Issued /\ c \notin new
        /\ LiveReceipts(c) = {} /\ netAmount[c] > 0
    <2> SUFFICES ASSUME NEW c \in old
                 PROVE  /\ status[c] = "UNPAID" /\ paidAmount[c] = 0
                        /\ c \in Issued /\ c \notin new
                        /\ LiveReceipts(c) = {} /\ netAmount[c] > 0
        OBVIOUS
    <2>1. status[c] = "UNPAID" /\ paidAmount[c] = 0
        BY <1>1 DEF Superseded
    <2>2. c \in Challan /\ c \in Issued /\ c \notin new
        BY <1>2, <1>3, <2>1 DEF Issued
    <2>3. SumIn(receipt, c) = 0
        BY <2>1, <2>2 DEF LedgerInvariant, PaidIsReceiptSum, LiveSum
    <2>4. LiveReceipts(c) = {}
        BY <1>1, <2>2, <2>3, SumIsZero DEF LiveReceipts, LedgerInvariant, BooksInOrder
    <2>5. /\ ResolveChallanStatus(0, netAmount[c]) = "UNPAID"
          /\ netAmount[c] \in Nat
        BY <1>1, <2>1, <2>2, <2>3 DEF LedgerInvariant, StatusMatchesLedger, LiveSum, TypeOK
    <2>6. netAmount[c] > 0
        BY <2>5 DEF ResolveChallanStatus, NonNegative
    <2> QED BY <2>1, <2>2, <2>4, <2>6
<1>6. \A s \in Student :
        /\ due[s] \in Nat
        /\ ResolveChallanStatus(0, due[s]) \in {"UNPAID", "PARTIALLY_PAID", "PAID"}
    BY <1>2, ResolvedStatus
<1>7. /\ \A c \in new :
            /\ netAmount'[c] = due[StudentOf(c)] /\ charges'[c] = job.fee[StudentOf(c)]
            /\ status'[c] = ResolveChallanStatus(0, due[StudentOf(c)])
            /\ challanNo'[c] = no[StudentOf(c)] /\ carriedTo'[c] = 0
      /\ \A c \in old :
            status'[c] = "CANCELLED" /\ carriedTo'[c] = no[StudentOf(c)]
      /\ \A c \in Challan \ new :
            /\ netAmount'[c] = netAmount[c] /\ charges'[c] = charges[c]
            /\ challanNo'[c] = challanNo[c]
      /\ \A c \in Challan \ (new \cup old) :
            status'[c] = status[c] /\ carriedTo'[c] = carriedTo[c]
    <2>1. netAmount' = [c \in Challan |-> IF c \in new
                            THEN job.fee[StudentOf(c)] + job.arrears[StudentOf(c)]
                            ELSE netAmount[c]]
        BY DEF CommitRun
    <2>2. \A c \in Challan : status'[c] =
            IF c \in new THEN ResolveChallanStatus(0, netAmount'[c])
            ELSE IF c \in old THEN "CANCELLED" ELSE status[c]
        BY <1>1 DEF CommitRun
    <2>3. \A c \in Challan :
            /\ charges'[c] = IF c \in new THEN job.fee[StudentOf(c)] ELSE charges[c]
            /\ challanNo'[c] = IF c \in new THEN no[StudentOf(c)] ELSE challanNo[c]
            /\ carriedTo'[c] = IF c \in old THEN no[StudentOf(c)] ELSE carriedTo[c]
        BY <1>1 DEF CommitRun
    <2> HIDE DEF new, old
    <2> QED BY <1>2, <1>3, <1>5, <2>1, <2>2, <2>3, ChallanParts
<1>8. TypeOK'
    <2>1. /\ status' = [c \in Challan |-> status'[c]]
          /\ netAmount' = [c \in Challan |-> netAmount'[c]]
          /\ challanNo' = [c \in Challan |-> challanNo'[c]]
          /\ carriedTo' = [c \in Challan |-> carriedTo'[c]]
        BY DEF CommitRun
    <2>2. charges' \in [Challan -> Nat]
        BY <1>1, <1>2, ChallanParts DEF CommitRun, TypeOK
    <2>3. run' \in [Run -> Job]
        BY <1>1, NoJobIsJob DEF TypeOK
    <2> HIDE DEF new, old, due
    <2>4. \A c \in Challan :
            /\ status'[c] \in Status /\ netAmount'[c] \in Nat
            /\ challanNo'[c] \in Nat /\ carriedTo'[c] \in Nat
        BY <1>1, <1>3, <1>4, <1>6, <1>7, ChallanParts DEF TypeOK, Status
    <2> QED BY <1>1, <2>1, <2>2, <2>3, <2>4 DEF TypeOK
<1>9. Issued' = Issued \cup new
    <2> HIDE DEF job, new, old, due
    <2> QED BY <1>3, <1>5, <1>6, <1>7, ChallanParts DEF Issued
<1>10. \A c \in new : /\ netAmount'[c] = job.fee[StudentOf(c)] + job.arrears[StudentOf(c)]
                      /\ status'[c] \in {"UNPAID", "PARTIALLY_PAID", "PAID"}
                      /\ status'[c] = ResolveChallanStatus(0, netAmount'[c])
    <2>1. \A c \in new : StudentOf(c) \in Student
        BY <1>2, <1>3
    <2>2. \A s \in Student : due[s] = job.fee[s] + job.arrears[s]
        OBVIOUS
    <2> HIDE DEF new, due
    <2> QED BY <1>6, <1>7, <2>1, <2>2
<1>11. \A s \in job.bill : s \in Student
    BY <1>2
<1> HIDE DEF due
<1> QED BY <1>3, <1>4, <1>5, <1>7, <1>8, <1>9, <1>10, <1>11

LEMMA CommitRunStep ==
    ASSUME LedgerInvariant, NEW g \in Run, NEW no \in [run[g].bill -> BatchNos(g)],
           CommitRun(g, no)
    PROVE  LedgerInvariant'
<1> DEFINE new == Batch(g)
           old == run[g].carry
<1>1. /\ TypeOK /\ receipt \in Receipts
      /\ \A c \in old : lock[c] = Free
      /\ run' = [run EXCEPT ![g] = NoJob]
      /\ UNCHANGED <<paidAmount, receipt, lock, req>>
    BY DEF CommitRun, LedgerInvariant, TypeOK, Receipts
<1>2. /\ new \subseteq Challan \ Issued /\ old \subseteq Issued
      /\ Issued' = Issued \cup new /\ TypeOK'
    BY RunEffect
<1>3. \A c \in new :
        /\ status'[c] \in {"UNPAID", "PARTIALLY_PAID", "PAID"}
        /\ status'[c] = ResolveChallanStatus(0, netAmount'[c])
        /\ challanNo'[c] > 0 /\ carriedTo'[c] = 0
    BY RunEffect
<1>4. \A c \in old :
        /\ LiveReceipts(c) = {} /\ netAmount[c] > 0
        /\ status'[c] = "CANCELLED"
    BY RunEffect
<1>5. /\ \A c \in Challan \ new : netAmount'[c] = netAmount[c] /\ challanNo'[c] = challanNo[c]
      /\ \A c \in Challan \ (new \cup old) :
            status'[c] = status[c] /\ carriedTo'[c] = carriedTo[c]
    BY RunEffect
<1> HIDE DEF new, old
<1>6. \A c \in new : LiveReceipts(c) = {} /\ paidAmount[c] = 0 /\ LiveSum(c) = 0
    <2> SUFFICES ASSUME NEW c \in new
                 PROVE  LiveReceipts(c) = {} /\ paidAmount[c] = 0 /\ LiveSum(c) = 0
        OBVIOUS
    <2>1. c \in Challan /\ c \notin Issued /\ c # NoChallan
        BY <1>2, LedgerAssumption
    <2>2. LiveReceipts(c) = {}
        BY <2>1 DEF LiveReceipts, LiveIn, LedgerInvariant, BooksInOrder
    <2> QED BY <2>1, <2>2, TotalOfNone
            DEF LiveReceipts, LiveSum, SumIn, Issued, LedgerInvariant, BooksInOrder
<1>7. \A c \in Challan : LiveSum(c)' = LiveSum(c) /\ LiveReceipts(c)' = LiveReceipts(c)
    BY <1>1 DEF LiveSum, LiveReceipts
<1>8. PaidIsReceiptSum' /\ NeverOverpaid'
    <2>1. \A c \in Issued : netAmount'[c] = netAmount[c] /\ c \in Challan
        BY <1>2, <1>5 DEF Issued
    <2>2. \A c \in new : netAmount'[c] \in Nat
        BY <1>2 DEF TypeOK
    <2> QED BY <1>1, <1>2, <1>6, <1>7, <2>1, <2>2
            DEF LedgerInvariant, PaidIsReceiptSum, NeverOverpaid
<1>9. CancelledHasNoMoney'
    BY <1>2, <1>4, <1>5, <1>6, <1>7 DEF LedgerInvariant, CancelledHasNoMoney
<1>10. StatusMatchesLedger'
    BY <1>2, <1>3, <1>4, <1>5, <1>6, <1>7 DEF LedgerInvariant, StatusMatchesLedger, Issued
<1>11. BooksInOrder'
    BY <1>1, <1>2, <1>3, <1>4, <1>5 DEF LedgerInvariant, BooksInOrder, Issued
<1>12. CallsInOrder'
    BY <1>1, <1>2 DEF LedgerInvariant, CallsInOrder
<1>13. LocksInOrder'
    BY <1>1 DEF LedgerInvariant, LocksInOrder, HoldsLock
<1>14. ReadsStand'
    <2>1. ASSUME NEW s \in Request, HoldsLock(s)'
          PROVE  LET d == req'[s].challan IN
             /\ req'[s].seen = [status |-> status'[d], netAmount |-> netAmount'[d],
                               paidAmount |-> paidAmount'[d]]
             /\ req'[s].pc = "decided" =>
                  MayProceed(s)' /\ req'[s].total = SumIn(Written(s), req[s].challan)'
        <3>1. req'[s] = req[s] /\ HoldsLock(s)
            BY <1>1, <2>1 DEF HoldsLock
        <3>2. req[s].challan \in Challan \ (new \cup old)
            BY <1>1, <1>2, <3>1, LockHeld, LedgerAssumption
        <3> QED BY <1>1, <1>5, <3>1, <3>2, ReadSurvives
    <2> QED BY <2>1 DEF ReadsStand, HoldsLock
<1>15. JobsInOrder'
    BY <1>1, NoJobIsJob DEF LedgerInvariant, JobsInOrder, TypeOK
<1> QED BY <1>2, <1>8, <1>9, <1>10, <1>11, <1>12, <1>13, <1>14, <1>15 DEF LedgerInvariant

-----------------------------------------------------------------------------
(* The theorems *)

LEMMA NextInvariant == LedgerInvariant /\ [Next]_vars => LedgerInvariant'
<1> SUFFICES ASSUME LedgerInvariant, [Next]_vars PROVE LedgerInvariant'
    OBVIOUS
<1>1. CASE UNCHANGED vars
    <2>1. UNCHANGED <<rows, receipt, lock, req, run>>
        BY <1>1 DEF vars, rows
    <2>2. TypeOK'
        BY <2>1 DEF LedgerInvariant, TypeOK, rows
    <2> QED BY <2>1, <2>2, SameBooks, SameCalls, SameJobs DEF LedgerInvariant
<1>2. ASSUME NEW r \in Request, RequestStep(r) PROVE LedgerInvariant'
    BY <1>2, CallRecordStep, CallVoidStep, CallCancelStep, LockChallanStep, DecideStep,
        RefuseStep, CommitRecordStep, CommitVoidStep, CommitCancelStep, FailRequestStep
        DEF RequestStep
<1>3. ASSUME NEW g \in Run, RunStep(g) PROVE LedgerInvariant'
    BY <1>3, StartRunStep, NothingToBillStep, BuildPlanStep, ReadNumberStep,
        CommitRunStep, LoseRaceStep, FailRunStep
        DEF RunStep
<1> QED BY <1>1, <1>2, <1>3 DEF Next

\* The invariant holds in every state the ledger reaches, whatever the number of
\* students, months, payments, requests and runs (payments.service.ts and
\* challans.service.ts together).
THEOREM LedgerIsInvariant == Spec => []LedgerInvariant
<1>1. Init => LedgerInvariant
    BY InitInvariant
<1>2. LedgerInvariant /\ [Next]_vars => LedgerInvariant'
    BY NextInvariant
<1> QED BY <1>1, <1>2, PTL DEF Spec

\* Every row, call and run has its type: in particular no run makes more than
\* MaxAttempts attempts and every carried total is a natural number.
THEOREM TypeCorrect == Spec => []TypeOK
<1>1. LedgerInvariant => TypeOK
    BY DEF LedgerInvariant
<1> QED BY <1>1, LedgerIsInvariant, PTL

\* resettle keeps the denormalised total equal to the receipts that stand.
THEOREM PaidIsAlwaysTheReceipts == Spec => []PaidIsReceiptSum
<1>1. LedgerInvariant => PaidIsReceiptSum
    BY DEF LedgerInvariant
<1> QED BY <1>1, LedgerIsInvariant, PTL

\* However many receipts are recorded at once, none is accepted beyond what its
\* challan still owed: the row lock is enough.
THEOREM NeverOverpays == Spec => []NeverOverpaid
<1>1. LedgerInvariant => NeverOverpaid
    BY DEF LedgerInvariant
<1> QED BY <1>1, LedgerIsInvariant, PTL

\* Neither cancelChallan nor the carry-forward of a run strands a live receipt
\* on a cancelled challan.
THEOREM NoMoneyIsStranded == Spec => []CancelledHasNoMoney
<1>1. LedgerInvariant => CancelledHasNoMoney
    BY DEF LedgerInvariant
<1> QED BY <1>1, LedgerIsInvariant, PTL

\* The stored status is the one the receipts imply, for a challan that was
\* carried forward and reopened as well.
THEOREM StatusIsAlwaysImplied == Spec => []StatusMatchesLedger
<1>1. LedgerInvariant => StatusMatchesLedger
    BY DEF LedgerInvariant
<1> QED BY <1>1, LedgerIsInvariant, PTL

\* A recorded receipt is never rewritten and never revived.
THEOREM ReceiptsStay == Spec => ReceiptsAppendOnly
<1> DEFINE Kept == \A p \in Recorded :
                    /\ receipt'[p].of = receipt[p].of
                    /\ receipt'[p].amount = receipt[p].amount
                    /\ receipt[p].voided => receipt'[p].voided
<1>1. ASSUME LedgerInvariant, NEW r \in Request, req[r].pc = "decided",
             receipt' = Written(r)
      PROVE  Kept
    <2>1. /\ receipt \in Receipts /\ req[r] \in Call
          /\ req[r].op = "record" => receipt[req[r].payment].of = NoChallan
        BY <1>1 DEF LedgerInvariant, TypeOK, CallsInOrder, Receipts
    <2>2. CASE req[r].op = "record"
        BY <1>1, <2>1, <2>2 DEF Written, Receipts, Recorded
    <2>3. CASE req[r].op = "void"
        BY <1>1, <2>1, <2>3 DEF Written, Receipts, Receipt, Recorded
    <2>4. CASE req[r].op = "cancel"
        BY <1>1, <2>4 DEF Written
    <2> QED BY <2>1, <2>2, <2>3, <2>4 DEF Call
<1>2. receipt' = receipt => Kept
    OBVIOUS
<1>3. LedgerInvariant /\ [Next]_vars => [Kept]_vars
    <2> SUFFICES ASSUME LedgerInvariant, Next PROVE Kept
        OBVIOUS
    <2> HIDE DEF Kept
    <2>1. ASSUME NEW r \in Request, RequestStep(r) PROVE Kept
        BY <1>1, <1>2, <2>1 DEF RequestStep, CallRecord, CallVoid, CallCancel, LockChallan,
            Decide, Refuse, CommitRecord, CommitVoid, CommitCancel, FailRequest
    <2>2. ASSUME NEW g \in Run, RunStep(g) PROVE Kept
        BY <1>2, <2>2 DEF RunStep, StartRun, NothingToBill, BuildPlan, BuildInstallmentBatch, Plan,
            ReadHighestNo, CountChallans, TakeNumber,
            CommitRun, LoseRace, Deadlock, StartOver, FailRun
    <2> QED BY <2>1, <2>2 DEF Next
<1> QED BY <1>3, LedgerIsInvariant, PTL DEF Spec, ReceiptsAppendOnly

\* What a transaction that is about to commit knows.
LEMMA WhatWasDecided ==
    ASSUME LedgerInvariant, NEW r \in Request, req[r].pc = "decided"
    PROVE  /\ req[r].challan \in Challan /\ req[r].challan \in Issued
           /\ req[r].seen.status = status[req[r].challan]
           /\ req[r].op = "record" => MayRecord(r)
           /\ req[r].op = "void" => /\ req[r].payment \in LiveReceipts(req[r].challan)
                                   /\ MayVoid(r)
           /\ req[r].op = "cancel" => MayCancel(r)
<1> DEFINE c == req[r].challan
<1>1. HoldsLock(r)
    BY DEF HoldsLock
<1>2. c \in Challan /\ c \in Issued
    BY <1>1, LockHeld
<1>3. /\ MayProceed(r)
      /\ req[r].seen = [status |-> status[c], netAmount |-> netAmount[c],
                        paidAmount |-> paidAmount[c]]
    BY <1>1 DEF LedgerInvariant, ReadsStand
<1>4. req[r].op = "void" => req[r].payment \in Payment /\ receipt[req[r].payment].of = c
    BY DEF LedgerInvariant, CallsInOrder
<1>5. /\ req[r].op = "record" => MayRecord(r)
      /\ req[r].op = "void" => MayVoid(r)
      /\ req[r].op = "cancel" => MayCancel(r)
    BY <1>3 DEF MayProceed
<1>6. req[r].op = "void" => req[r].payment \in LiveReceipts(c)
    BY <1>4, <1>5 DEF MayVoid, LiveReceipts, LiveIn
<1> QED BY <1>2, <1>3, <1>5, <1>6

\* A cancelled challan is reopened by nothing but the cancellation of the bill
\* that carried it (cancelChallan); a receipt or a void never revives one.
THEOREM ReopeningNeedsBearer == Spec => ReopenedOnlyWithBearer
<1> DEFINE Justified == \A c \in Challan :
                status[c] = "CANCELLED" /\ status'[c] # "CANCELLED" =>
                    \E d \in Issued : /\ challanNo[d] = carriedTo[c]
                                     /\ status[d] # "CANCELLED"
                                     /\ status'[d] = "CANCELLED"
                                     /\ carriedTo'[d] = 0
<1>1. status' = status => Justified
    OBVIOUS
<1>2. ASSUME LedgerInvariant, NEW r \in Request, CommitRecord(r) \/ CommitVoid(r)
      PROVE  Justified
    <2> DEFINE c == req[r].challan
    <2>1. /\ req[r].pc = "decided" /\ req[r].op \in {"record", "void"}
          /\ status \in [Challan -> Status] /\ Resettle(r)
        BY <1>2 DEF CommitRecord, CommitVoid, LedgerInvariant, TypeOK
    <2>2. \A d \in Challan \ {c} : status'[d] = status[d]
        BY <2>1 DEF Resettle
    <2>3. c \in Challan /\ (req[r].op = "void" => LiveReceipts(c) # {})
        BY <1>2, <2>1, WhatWasDecided
    <2>4. status[c] # "CANCELLED"
        <3>1. CASE req[r].op = "record"
            BY <1>2, <2>1, <3>1, WhatWasDecided DEF MayRecord
        <3>2. CASE req[r].op = "void"
            BY <1>2, <2>3, <3>2 DEF LedgerInvariant, CancelledHasNoMoney
        <3> QED BY <2>1, <3>1, <3>2
    <2> HIDE DEF c
    <2> QED BY <2>2, <2>4
<1>3. ASSUME LedgerInvariant, NEW r \in Request, CommitCancel(r)
      PROVE  Justified
    <2> DEFINE c == req[r].challan
    <2>1. req[r].pc = "decided" /\ req[r].op = "cancel"
        BY <1>3 DEF CommitCancel
    <2>2. c \in Challan /\ c \in Issued /\ status[c] # "CANCELLED"
        BY <1>3, <2>1, WhatWasDecided DEF MayCancel
    <2>3. status'[c] = "CANCELLED" /\ carriedTo'[c] = 0
        BY <1>3, <2>2 DEF CommitCancel
    <2>4. \A d \in Challan \ {c} : d \in CarriedBy(c) \/ status'[d] = status[d]
        BY <1>3 DEF CommitCancel
    <2>5. \A d \in CarriedBy(c) : carriedTo[d] = challanNo[c]
        BY DEF CarriedBy
    <2> HIDE DEF c
    <2> QED BY <2>2, <2>3, <2>4, <2>5
<1>4. ASSUME LedgerInvariant, NEW g \in Run, NEW no, CommitRun(g, no)
      PROVE  Justified
    <2>1. Batch(g) \cap Issued = {}
        BY <1>4 DEF CommitRun, Collides
    <2>2. \A c \in Challan \ Batch(g) : status'[c] \in {"CANCELLED", status[c]}
        BY <1>4 DEF CommitRun
    <2> QED BY <2>1, <2>2 DEF Issued
<1>5. LedgerInvariant /\ [Next]_vars => [Justified]_vars
    <2> SUFFICES ASSUME LedgerInvariant, Next PROVE Justified
        OBVIOUS
    <2> HIDE DEF Justified
    <2>1. ASSUME NEW r \in Request, RequestStep(r) PROVE Justified
        BY <1>1, <1>2, <1>3, <2>1 DEF RequestStep, CallRecord, CallVoid, CallCancel,
            LockChallan, Decide, Refuse, FailRequest, rows
    <2>2. ASSUME NEW g \in Run, RunStep(g) PROVE Justified
        BY <1>1, <1>4, <2>2 DEF RunStep, StartRun, NothingToBill, BuildPlan, BuildInstallmentBatch, Plan,
            ReadHighestNo, CountChallans, TakeNumber,
            LoseRace, Deadlock, StartOver, FailRun, rows
    <2> QED BY <2>1, <2>2 DEF Next
<1> QED BY <1>5, LedgerIsInvariant, PTL DEF Spec, ReopenedOnlyWithBearer

-----------------------------------------------------------------------------
(***************************************************************************)
(* What becomes of a debt: no run and no cancellation loses or doubles an  *)
(* amount, the numbers of a year are given without a gap, a bill that was  *)
(* carried can be followed to the one that asks for it, and the ledger     *)
(* implements the account of FeeAccount.                                   *)
(*                                                                         *)
(* DebtInvariant adds to LedgerInvariant what a run has planned while it   *)
(* holds its lock: a plan that was read before another commit would lose   *)
(* or double a bill, and it is the lock that keeps it true.                *)
(***************************************************************************)

(* Arrears: what a run plans, the numbers it gives, and the debt it moves *)

\* A ledger that was never used owes nothing.
LEMMA DebtInit == Init => DebtInvariant
<1> SUFFICES ASSUME Init PROVE DebtInvariant
    OBVIOUS
<1>1. Issued = {} /\ \A c \in Challan : ~Standing(c)
    BY DEF Init, Issued, Standing
<1>2. PlansInOrder /\ CarriedDebtHasBearer /\ BillsAddUp
    BY <1>1 DEF Init, PlansInOrder, NoJob, JobWith, CarriedDebtHasBearer, BillsAddUp
<1>3. NumbersInOrder
    <2>1. Cardinality({}) = 0
        BY FS_EmptySet
    <2> QED BY <1>1, <2>1 DEF Init, NumbersInOrder, NumbersContiguous
<1>4. DebtConserved
    <2> SUFFICES ASSUME NEW s \in Student
                 PROVE  Total({c \in Issued : StudentOf(c) = s /\ status[c] # "CANCELLED"}, netAmount)
                        = Total({c \in Challan : StudentOf(c) = s /\ Standing(c)}, charges)
        BY DEF DebtConserved
    <2>1. /\ {c \in Issued : StudentOf(c) = s /\ status[c] # "CANCELLED"} = {}
          /\ {c \in Challan : StudentOf(c) = s /\ Standing(c)} = {}
        BY <1>1
    <2> QED BY <2>1, TotalOfNone
<1> QED BY <1>2, <1>3, <1>4, InitInvariant DEF DebtInvariant

\* The challans that were ever issued are finitely many.
LEMMA IssuedIsFinite ==
    /\ IsFiniteSet(Issued) /\ Cardinality(Issued) \in Nat /\ Issued \subseteq Challan
    /\ Cardinality(Challan) \in Nat
<1>1. Issued \in SUBSET Challan
    BY DEF Issued
<1> QED BY <1>1, ChallanIsFinite, FS_Subset, FS_CardinalityType

\* A step that cancels, reopens and issues nothing moves no debt.
LEMMA SameDebt ==
    ASSUME DebtInvariant, UNCHANGED <<netAmount, charges, challanNo, carriedTo>>,
           \A c \in Challan : /\ (status'[c] = "ABSENT") <=> (status[c] = "ABSENT")
                              /\ (status'[c] = "CANCELLED") <=> (status[c] = "CANCELLED")
    PROVE  Issued' = Issued /\ NumbersInOrder' /\ CarriedDebtHasBearer'
           /\ BillsAddUp' /\ DebtConserved'
<1>1. Issued' = Issued
    BY DEF Issued
<1>2. \A c \in Challan : Standing(c)' = Standing(c)
    BY <1>1 DEF Standing
<1>3. \A c \in Challan : CarriedBy(c)' = CarriedBy(c)
    BY DEF CarriedBy
<1>4. NumbersInOrder'
    BY <1>1 DEF DebtInvariant, NumbersInOrder, NumbersContiguous
<1>5. CarriedDebtHasBearer'
    BY <1>1, <1>2 DEF DebtInvariant, CarriedDebtHasBearer
<1>6. BillsAddUp'
    BY <1>2, <1>3 DEF DebtInvariant, BillsAddUp
<1>7. DebtConserved'
    <2> SUFFICES ASSUME NEW s \in Student
                 PROVE  (Total({c \in Issued : StudentOf(c) = s /\ status[c] # "CANCELLED"}, netAmount)
                        = Total({c \in Challan : StudentOf(c) = s /\ Standing(c)}, charges))'
        BY DEF DebtConserved
    <2>1. /\ {c \in Issued : StudentOf(c) = s /\ status[c] # "CANCELLED"}'
             = {c \in Issued : StudentOf(c) = s /\ status[c] # "CANCELLED"}
          /\ {c \in Challan : StudentOf(c) = s /\ Standing(c)}'
             = {c \in Challan : StudentOf(c) = s /\ Standing(c)}
        BY <1>1, <1>2 DEF Issued
    <2> QED BY <2>1 DEF DebtInvariant, DebtConserved
<1> QED BY <1>1, <1>4, <1>5, <1>6, <1>7

\* Plans survive a step that leaves them alone and rewrites no issued row.
LEMMA PlansSurvive ==
    ASSUME LedgerInvariant, PlansInOrder, NEW g \in Run, run'[g] = run[g],
           Issued \subseteq Issued', netAmount' \in [Challan -> Nat],
           \A c \in Issued : netAmount'[c] = netAmount[c],
           run[g].pc \in {"planned", "numbered"}
    PROVE  /\ run'[g].bill # {} /\ run'[g].carry \subseteq Issued'
           /\ \A s \in run'[g].bill : run'[g].fee[s] \in Charge
           /\ \A s \in Student : run'[g].arrears[s] =
                Total({c \in run'[g].carry : StudentOf(c) = s}, netAmount')
           /\ run'[g].pc = "numbered" => run'[g].base <= Cardinality(Issued')
<1>1. /\ run[g].bill # {} /\ run[g].carry \subseteq Issued
      /\ \A s \in run[g].bill : run[g].fee[s] \in Charge
      /\ \A s \in Student : run[g].arrears[s] =
            Total({c \in run[g].carry : StudentOf(c) = s}, netAmount)
      /\ run[g].pc = "numbered" => run[g].base <= Cardinality(Issued)
    BY DEF PlansInOrder
<1>2. ASSUME NEW s \in Student
      PROVE  Total({c \in run[g].carry : StudentOf(c) = s}, netAmount)
             = Total({c \in run[g].carry : StudentOf(c) = s}, netAmount')
    <2>1. \A c \in {c \in run[g].carry : StudentOf(c) = s} : netAmount[c] = netAmount'[c]
        BY <1>1
    <2> QED BY <2>1, TotalOfSame
<1>3. /\ Cardinality(Issued) \in Nat /\ Cardinality(Issued') \in Nat
      /\ Cardinality(Issued) <= Cardinality(Issued')
    <2>1. Issued' \in SUBSET Challan
        BY DEF Issued
    <2> QED BY <2>1, IssuedIsFinite, ChallanIsFinite, FS_Subset, FS_CardinalityType
<1>4. run[g].base \in Nat
    BY DEF LedgerInvariant, TypeOK, Job
<1> QED BY <1>1, <1>2, <1>3, <1>4
\* The columns a plan is written into.
LEMMA TableOfPlan ==
    ASSUME LedgerInvariant, PlansInOrder, NEW g \in Run,
           UNCHANGED <<rows, receipt, lock, req>>,
           NEW job \in Job, run' = [run EXCEPT ![g] = job],
           job.pc \in {"planned", "numbered"} =>
                /\ job.bill # {} /\ job.carry \subseteq Issued
                /\ \A s \in job.bill : job.fee[s] \in Charge
                /\ \A s \in Student : job.arrears[s] =
                        Total({c \in job.carry : StudentOf(c) = s}, netAmount)
                /\ job.pc = "numbered" => job.base <= Cardinality(Issued)
    PROVE  PlansInOrder'
<1>1. Issued' = Issued /\ netAmount' = netAmount /\ netAmount' \in [Challan -> Nat]
    BY DEF rows, Issued, LedgerInvariant, TypeOK
<1>2. run'[g] = job /\ \A h \in Run \ {g} : run'[h] = run[h]
    BY DEF LedgerInvariant, TypeOK
<1> QED BY <1>1, <1>2 DEF PlansInOrder

\* A plan names rows that are there and sums what they ask for.
LEMMA PlanDebtStep ==
    ASSUME LedgerInvariant, PlansInOrder, NEW g \in Run, NEW bill \in SUBSET run[g].roster,
           NEW fee \in [Student -> Charge \cup {0}],
           NEW carry \in [Student -> SUBSET Issued],
           \A s \in Student : \A c \in carry[s] :
                s \in bill /\ StudentOf(c) = s /\ PeriodOf(c) < run[g].period,
           Plan(g, bill, fee, carry)
    PROVE  PlansInOrder'
<1> DEFINE all == UNION {carry[s] : s \in Student}
           arrears == [s \in Student |-> Total(carry[s], netAmount)]
           job == [run[g] EXCEPT !.pc = "planned", !.bill = bill, !.fee = fee,
                                 !.carry = all, !.arrears = arrears]
<1>1. /\ run' = [run EXCEPT ![g] = job]
      /\ UNCHANGED <<rows, receipt, lock, req>>
      /\ bill # {} /\ \A s \in bill : fee[s] \in Charge
    BY DEF Plan, LedgerInvariant, TypeOK
<1>2. TypeOK /\ TypeOK'
    <2>1. carry \in [Student -> SUBSET Challan]
        BY IssuedIsFinite
    <2> QED BY <2>1, PlanStep DEF LedgerInvariant
<1>3. job \in Job /\ run[g] \in Job
    BY <1>1, <1>2 DEF TypeOK
<1>4. all \subseteq Issued
    OBVIOUS
<1>5. ASSUME NEW s \in Student
      PROVE  arrears[s] = Total({c \in all : StudentOf(c) = s}, netAmount)
    <2>1. {c \in all : StudentOf(c) = s} = carry[s]
        OBVIOUS
    <2> QED BY <2>1
<1>6. /\ job.pc = "planned" /\ job.bill = bill /\ job.fee = fee
      /\ job.carry = all /\ job.arrears = arrears
    BY <1>3 DEF Job
<1> HIDE DEF job, all, arrears
<1> QED BY <1>1, <1>3, <1>4, <1>5, <1>6, TableOfPlan

\* buildPlan reads the table under the lock, so that what it plans is there to be carried.
LEMMA BuildPlanDebtStep ==
    ASSUME LedgerInvariant, PlansInOrder, NEW g \in Run, NEW bill \in SUBSET run[g].roster,
           NEW fee \in [Student -> Charge \cup {0}],
           BuildPlan(g, bill, fee) \/ BuildInstallmentBatch(g, bill, fee)
    PROVE  PlansInOrder'
<1>1. CASE BuildPlan(g, bill, fee)
    <2> DEFINE carry == [s \in Student |->
                            IF s \in bill THEN Arrears(s, run[g].period) ELSE {}]
    <2>1. Plan(g, bill, fee, carry)
        BY <1>1 DEF BuildPlan
    <2>2. /\ carry \in [Student -> SUBSET Issued]
          /\ \A s \in Student : \A c \in carry[s] :
                s \in bill /\ StudentOf(c) = s /\ PeriodOf(c) < run[g].period
        BY DEF Arrears, Issued
    <2> HIDE DEF carry
    <2> QED BY <2>1, <2>2, PlanDebtStep
<1>2. CASE BuildInstallmentBatch(g, bill, fee)
    <2> DEFINE carry == [s \in Student |-> {}]
    <2>1. Plan(g, bill, fee, carry)
        BY <1>2 DEF BuildInstallmentBatch
    <2>2. carry \in [Student -> SUBSET Issued] /\ \A s \in Student : carry[s] = {}
        OBVIOUS
    <2> HIDE DEF carry
    <2> QED BY <2>1, <2>2, PlanDebtStep
<1> QED BY <1>1, <1>2

\* Counting starts at a number that is not above the number of rows, whichever way
\* the run found it.
LEMMA ReadNumberDebtStep ==
    ASSUME LedgerInvariant, PlansInOrder, NumbersInOrder, NEW g \in Run,
           NEW n \in Nat, TakeNumber(g, n), HighestNo(n) \/ n = Cardinality(Issued)
    PROVE  PlansInOrder'
<1> DEFINE job == [run[g] EXCEPT !.pc = "numbered", !.base = n]
<1>1. n <= Cardinality(Issued)
    BY IssuedIsFinite DEF HighestNo, NumbersInOrder, NumbersContiguous
<1>2. /\ run' = [run EXCEPT ![g] = job] /\ run[g].pc = "planned"
      /\ UNCHANGED <<rows, receipt, lock, req>>
      /\ run[g] \in Job
    BY DEF TakeNumber, LedgerInvariant, TypeOK
<1>3. /\ job \in Job /\ job.bill = run[g].bill /\ job.carry = run[g].carry
      /\ job.fee = run[g].fee /\ job.arrears = run[g].arrears /\ job.base = n
    BY <1>2 DEF Job
<1>4. /\ run[g].bill # {} /\ run[g].carry \subseteq Issued
      /\ \A s \in run[g].bill : run[g].fee[s] \in Charge
      /\ \A s \in Student : run[g].arrears[s] =
            Total({c \in run[g].carry : StudentOf(c) = s}, netAmount)
    BY <1>2 DEF PlansInOrder
<1> HIDE DEF job
<1> QED BY <1>1, <1>2, <1>3, <1>4, TableOfPlan

\* A run that starts has planned nothing.
LEMMA FreshJobDebtStep ==
    ASSUME LedgerInvariant, PlansInOrder, NEW g \in Run,
           UNCHANGED <<rows, receipt, lock, req>>,
           NEW job \in Job, run' = [run EXCEPT ![g] = job], job.pc \in {"idle", "plan"}
    PROVE  PlansInOrder'
BY TableOfPlan

\* Every step of a run but the last leaves the books alone and keeps the plans.
LEMMA RunPlansStep ==
    ASSUME LedgerInvariant, PlansInOrder, NumbersInOrder, NEW g \in Run, RunStep(g)
    PROVE  \/ PlansInOrder' /\ UNCHANGED <<rows, receipt, lock, req>>
           \/ \E no \in [run[g].bill -> BatchNos(g)] : CommitRun(g, no)
<1>1. ASSUME NEW kind \in Kind, NEW period \in 1..Periods, NEW roster \in SUBSET Student,
             StartRun(g, kind, period, roster)
      PROVE  PlansInOrder' /\ UNCHANGED <<rows, receipt, lock, req>>
    <2> DEFINE job == JobWith("plan", kind, period, roster, 1)
    <2>1. /\ run' = [run EXCEPT ![g] = job]
          /\ UNCHANGED <<rows, receipt, lock, req>>
        BY <1>1 DEF StartRun
    <2>2. job \in Job /\ job.pc = "plan"
        <3>1. 1 \in 1..MaxAttempts /\ kind \in {"monthly", "installment"}
            BY LedgerAssumption
        <3>2. "plan" \in {"idle", "plan"} /\ period \in 1..Periods \cup {0}
            OBVIOUS
        <3> QED BY <3>1, <3>2 DEF JobWith, Job, NoMoney
    <2> HIDE DEF job
    <2> QED BY <2>1, <2>2, FreshJobDebtStep
<1>2. ASSUME NothingToBill(g) \/ FailRun(g)
      PROVE  PlansInOrder' /\ UNCHANGED <<rows, receipt, lock, req>>
    BY <1>2, NoJobIsJob, FreshJobDebtStep DEF NothingToBill, FailRun
<1>3. ASSUME NEW bill \in SUBSET run[g].roster, NEW fee \in [Student -> Charge \cup {0}],
             BuildPlan(g, bill, fee) \/ BuildInstallmentBatch(g, bill, fee)
      PROVE  PlansInOrder' /\ UNCHANGED <<rows, receipt, lock, req>>
    BY <1>3, BuildPlanDebtStep DEF BuildPlan, BuildInstallmentBatch, Plan
<1>4. ASSUME NEW n \in 0..Cardinality(Challan), ReadHighestNo(g, n)
      PROVE  PlansInOrder' /\ UNCHANGED <<rows, receipt, lock, req>>
    <2>1. n \in Nat /\ HighestNo(n) /\ TakeNumber(g, n)
        BY <1>4, IssuedIsFinite DEF ReadHighestNo
    <2> QED BY <2>1, ReadNumberDebtStep DEF TakeNumber
<1>5. ASSUME CountChallans(g)
      PROVE  PlansInOrder' /\ UNCHANGED <<rows, receipt, lock, req>>
    BY <1>5, ReadNumberDebtStep, IssuedIsFinite DEF CountChallans, TakeNumber
<1>6. ASSUME LoseRace(g) \/ Deadlock(g)
      PROVE  PlansInOrder' /\ UNCHANGED <<rows, receipt, lock, req>>
    <2> DEFINE job == run'[g]
    <2>1. /\ StartOver(g) /\ run[g].pc = "numbered" /\ run[g] \in Job
          /\ UNCHANGED <<rows, receipt, lock, req>>
        BY <1>6 DEF LoseRace, Deadlock, StartOver, LedgerInvariant, TypeOK
    <2>2. /\ TypeOK' /\ job \in Job /\ run' = [run EXCEPT ![g] = job]
        <3>1. TypeOK'
            BY <1>6, LoseRaceStep DEF LedgerInvariant
        <3> QED BY <2>1, <3>1 DEF StartOver, TypeOK, LedgerInvariant
    <2>3. job.pc \in {"idle", "plan"}
        BY <2>1 DEF StartOver, JobWith, NoJob, LedgerInvariant, TypeOK
    <2> HIDE DEF job
    <2> QED BY <2>1, <2>2, <2>3, FreshJobDebtStep
<1> QED BY <1>1, <1>2, <1>3, <1>4, <1>5, <1>6 DEF RunStep

-----------------------------------------------------------------------------
(* A batch: its numbers and its debt *)

\* A run that gets past the unique indexes counted from the last number that was
\* given, whatever was committed since it counted, and gives each number once.
LEMMA BatchNumbers ==
    ASSUME LedgerInvariant, PlansInOrder, NumbersInOrder, NEW g \in Run,
           NEW no \in [run[g].bill -> BatchNos(g)], CommitRun(g, no)
    PROVE  /\ IsFiniteSet(run[g].bill) /\ Cardinality(run[g].bill) \in Nat
           /\ run[g].base = Cardinality(Issued)
           /\ {no[s] : s \in run[g].bill} =
                (Cardinality(Issued) + 1)..(Cardinality(Issued) + Cardinality(run[g].bill))
           /\ \A s, t \in run[g].bill : no[s] = no[t] => s = t
<1> DEFINE bill == run[g].bill
           base == run[g].base
           n == Cardinality(Issued)
           m == Cardinality(bill)
<1>1. /\ bill \subseteq Student /\ base \in Nat /\ bill # {} /\ base <= n
      /\ ~Collides(g) /\ {no[s] : s \in bill} = BatchNos(g)
    BY DEF LedgerInvariant, TypeOK, Job, PlansInOrder, CommitRun
<1>2. IsFiniteSet(bill) /\ m \in Nat /\ m # 0
    BY <1>1, LedgerAssumption, FS_Subset, FS_CardinalityType, FS_EmptySet
<1>3. n \in Nat
    BY IssuedIsFinite
<1>4. BatchNos(g) = (base + 1)..(base + m)
    BY DEF BatchNos
<1>5. {challanNo[c] : c \in Issued} = 1..n
    BY DEF NumbersInOrder, NumbersContiguous
<1>6. \A c \in Issued : challanNo[c] \notin BatchNos(g)
    BY <1>1 DEF Collides
<1> HIDE DEF bill, base, n, m
<1>7. base = n
    <2> SUFFICES ASSUME base < n PROVE FALSE
        BY <1>1, <1>3
    <2>1. base + 1 \in 1..n /\ base + 1 \in BatchNos(g)
        BY <1>1, <1>2, <1>3, <1>4
    <2> QED BY <1>5, <1>6, <2>1
<1>8. no \in Surjection(bill, BatchNos(g))
    BY <1>1 DEF Surjection, bill
<1>9. Cardinality(BatchNos(g)) = m
    <2>1. base + 1 \in Int /\ base + m \in Int /\ ~(base + 1 > base + m)
        BY <1>1, <1>2
    <2>2. Cardinality((base + 1)..(base + m)) = (base + m) - (base + 1) + 1
        BY <2>1, FS_Interval
    <2> QED BY <1>1, <1>2, <1>4, <2>2
<1>10. no \in Injection(bill, BatchNos(g))
    BY <1>2, <1>8, <1>9, FS_SurjSameCardinalityImpliesInj DEF m
<1>11. \A s, t \in bill : no[s] = no[t] => s = t
    BY <1>10 DEF Injection, IsInjective, bill
<1> QED BY <1>1, <1>2, <1>4, <1>7, <1>11 DEF bill, base, n, m

\* A committed run gives the next numbers of the year, each once.
LEMMA RunNumbersStep ==
    ASSUME LedgerInvariant, PlansInOrder, NumbersInOrder, NEW g \in Run,
           NEW no \in [run[g].bill -> BatchNos(g)], CommitRun(g, no)
    PROVE  NumbersInOrder'
<1> DEFINE new == Batch(g)
           bill == run[g].bill
           n == Cardinality(Issued)
           m == Cardinality(bill)
<1>1. /\ IsFiniteSet(bill) /\ m \in Nat
      /\ {no[s] : s \in bill} = (n + 1)..(n + m)
      /\ \A s, t \in bill : no[s] = no[t] => s = t
    BY BatchNumbers
<1>2. /\ new \subseteq Challan \ Issued /\ Issued' = Issued \cup new
      /\ \A c \in new : /\ StudentOf(c) \in bill /\ PeriodOf(c) = run[g].period
                         /\ challanNo'[c] = no[StudentOf(c)]
      /\ \A c \in Challan \ new : challanNo'[c] = challanNo[c]
    BY RunEffect
<1>3. /\ n \in Nat /\ IsFiniteSet(Issued) /\ Issued \subseteq Challan
      /\ {challanNo[c] : c \in Issued} = 1..n
      /\ \A c, d \in Issued : challanNo[c] = challanNo[d] => c = d
      /\ \A c \in Challan \ Issued : challanNo[c] = 0
    BY IssuedIsFinite DEF NumbersInOrder, NumbersContiguous
<1>4. IsFiniteSet(new) /\ Cardinality(new) = m
    <2> DEFINE f == [s \in bill |-> <<s, run[g].period>>]
    <2>1. new = {f[s] : s \in bill}
        BY DEF Batch
    <2>2. \A s, t \in bill : f[s] = f[t] => s = t
        OBVIOUS
    <2>3. DOMAIN f = bill /\ f = [s \in bill |-> f[s]]
        OBVIOUS
    <2> HIDE DEF f, new, bill
    <2>4. f \in Surjection(bill, new)
        BY <2>1, <2>3 DEF Surjection
    <2>5. f \in Injection(bill, new)
        BY <2>1, <2>2, <2>3 DEF Injection, IsInjective
    <2> QED BY <1>1, <2>4, <2>5, FS_Surjection DEF m
<1>5. \A s \in bill : <<s, run[g].period>> \in new /\ StudentOf(<<s, run[g].period>>) = s
    BY DEF Batch, StudentOf
<1> HIDE DEF new, bill
<1>6. Cardinality(Issued') = n + m
    <2>1. Issued \cap new = {} /\ Cardinality({}) = 0
        BY <1>2, FS_EmptySet
    <2>2. Cardinality(Issued \cup new) =
            Cardinality(Issued) + Cardinality(new) - Cardinality(Issued \cap new)
        BY <1>3, <1>4, FS_Union
    <2>3. Cardinality(Issued \cap new) = 0
        BY <2>1
    <2>4. Cardinality(Issued') = Cardinality(Issued \cup new)
        BY <1>2
    <2> QED BY <1>1, <1>3, <1>4, <2>2, <2>3, <2>4
<1> HIDE DEF n, m
<1>7. {challanNo'[c] : c \in new} = (n + 1)..(n + m)
    <2>1. ASSUME NEW s \in bill PROVE \E c \in new : challanNo'[c] = no[s]
        BY <1>2, <1>5
    <2>2. ASSUME NEW c \in new PROVE \E s \in bill : challanNo'[c] = no[s]
        BY <1>2
    <2> QED BY <1>1, <2>1, <2>2
<1>8. {challanNo'[c] : c \in Issued} = 1..n
    BY <1>2, <1>3
<1>9. {challanNo'[c] : c \in Issued'} = 1..(n + m)
    <2>1. {challanNo'[c] : c \in Issued'} = 1..n \cup (n + 1)..(n + m)
        BY <1>2, <1>7, <1>8
    <2> QED BY <1>1, <1>3, <2>1
<1>10. \A c, d \in Issued' : challanNo'[c] = challanNo'[d] => c = d
    <2>1. \A c \in Issued : challanNo'[c] = challanNo[c] /\ challanNo'[c] \in 1..n
        BY <1>2, <1>3
    <2>2. \A c \in new : challanNo'[c] \in (n + 1)..(n + m)
        BY <1>7
    <2>3. \A c, d \in new : challanNo'[c] = challanNo'[d] => c = d
        BY <1>1, <1>2, ChallanParts
    <2>4. \A c \in Issued, d \in new : challanNo'[c] # challanNo'[d]
        BY <1>1, <1>3, <2>1, <2>2
    <2> QED BY <1>2, <1>3, <2>1, <2>3, <2>4
<1>11. \A c \in Challan \ Issued' : challanNo'[c] = 0
    BY <1>2, <1>3
<1> QED BY <1>6, <1>9, <1>10, <1>11 DEF NumbersInOrder, NumbersContiguous

\* Whom each bill carries, and which rows stand, after a batch.
LEMMA RunCarries ==
    ASSUME DebtInvariant, NEW g \in Run,
           NEW no \in [run[g].bill -> BatchNos(g)], CommitRun(g, no)
    PROVE  /\ \A c \in Batch(g) : CarriedBy(c)' =
                {d \in run[g].carry : StudentOf(d) = StudentOf(c)}
           /\ \A c \in Issued : CarriedBy(c)' = CarriedBy(c)
           /\ \A c \in Challan : Standing(c)' <=> Standing(c) \/ c \in Batch(g)
           /\ \A c \in run[g].carry : Standing(c)
<1> DEFINE new == Batch(g)
           old == run[g].carry
           n == Cardinality(Issued)
<1>1. /\ new \subseteq Challan \ Issued /\ Issued' = Issued \cup new
      /\ \A c \in new : /\ StudentOf(c) \in run[g].bill /\ status'[c] # "CANCELLED"
                         /\ challanNo'[c] = no[StudentOf(c)] /\ carriedTo'[c] = 0
      /\ old \subseteq Issued
      /\ \A c \in old : /\ StudentOf(c) \in run[g].bill /\ status[c] = "UNPAID"
                         /\ status'[c] = "CANCELLED" /\ carriedTo'[c] = no[StudentOf(c)]
      /\ \A c \in Challan \ new : challanNo'[c] = challanNo[c]
      /\ \A c \in Challan \ (new \cup old) :
            status'[c] = status[c] /\ carriedTo'[c] = carriedTo[c]
    BY RunEffect DEF DebtInvariant
<1>2. n \in Nat /\ Issued \subseteq Challan
    BY IssuedIsFinite
<1>3. \A s \in run[g].bill : no[s] \in Nat /\ no[s] > n
    <2> DEFINE m == Cardinality(run[g].bill)
    <2>1. m \in Nat /\ {no[s] : s \in run[g].bill} = (n + 1)..(n + m)
        BY BatchNumbers DEF DebtInvariant
    <2> HIDE DEF n, m
    <2>2. \A s \in run[g].bill : no[s] \in (n + 1)..(n + m)
        BY <2>1
    <2> QED BY <1>2, <2>1, <2>2
<1>4. \A c \in Issued : challanNo[c] \in 1..n
    BY DEF DebtInvariant, NumbersInOrder, NumbersContiguous
<1>5. \A c \in Challan : carriedTo[c] \in 0..n
    <2> SUFFICES ASSUME NEW c \in Challan, carriedTo[c] # 0 PROVE carriedTo[c] \in 0..n
        BY <1>2
    <2>1. \E d \in Challan : challanNo[d] = carriedTo[c] /\ Standing(d)
        BY DEF DebtInvariant, CarriedDebtHasBearer
    <2> QED BY <1>2, <1>4, <2>1 DEF Standing
<1>6. \A c \in Challan \ Issued : status[c] = "ABSENT"
    BY DEF Issued
<1> HIDE DEF new, old, n
<1>7. ASSUME NEW c \in new
      PROVE  CarriedBy(c)' = {d \in old : StudentOf(d) = StudentOf(c)}
    <2>1. \A d \in Challan : d \in CarriedBy(c)' <=>
            StudentOf(d) = StudentOf(c) /\ status'[d] = "CANCELLED"
                /\ carriedTo'[d] = no[StudentOf(c)]
        BY <1>1 DEF CarriedBy
    <2>2. \A d \in Challan \ (new \cup old) : carriedTo'[d] # no[StudentOf(c)]
        BY <1>1, <1>2, <1>3, <1>5
    <2>3. CarriedBy(c)' \subseteq Challan
        BY DEF CarriedBy
    <2> QED BY <1>1, <1>2, <2>1, <2>2, <2>3
<1>8. ASSUME NEW c \in Issued
      PROVE  CarriedBy(c)' = CarriedBy(c)
    <2>1. challanNo'[c] = challanNo[c] /\ challanNo[c] \in 1..n
        BY <1>1, <1>2, <1>4
    <2>2. \A d \in old : carriedTo'[d] # challanNo[c] /\ status[d] # "CANCELLED"
        BY <1>1, <1>2, <1>3, <2>1
    <2>3. \A d \in new : status'[d] # "CANCELLED" /\ status[d] # "CANCELLED"
        BY <1>1, <1>6
    <2> QED BY <1>1, <2>1, <2>2, <2>3 DEF CarriedBy
<1>9. \A c \in old : Standing(c)
    BY <1>1 DEF Standing
<1>10. ASSUME NEW c \in Challan
       PROVE  Standing(c)' <=> Standing(c) \/ c \in new
    <2>1. CASE c \in new
        BY <1>1, <2>1 DEF Standing
    <2>2. CASE c \in old
        BY <1>1, <1>2, <1>3, <1>9, <2>2 DEF Standing
    <2>3. CASE c \notin new \cup old
        BY <1>1, <2>3 DEF Standing
    <2> QED BY <2>1, <2>2, <2>3
<1> QED BY <1>7, <1>8, <1>9, <1>10 DEF new, old

\* What a committed run carries is asked for by the challan it issued to the student.
LEMMA RunBearersStep ==
    ASSUME DebtInvariant, NEW g \in Run,
           NEW no \in [run[g].bill -> BatchNos(g)], CommitRun(g, no)
    PROVE  CarriedDebtHasBearer'
<1> SUFFICES ASSUME NEW c \in Challan, carriedTo'[c] # 0
             PROVE  /\ status'[c] = "CANCELLED"
                    /\ \E d \in Challan :
                        /\ challanNo'[d] = carriedTo'[c] /\ Standing(d)'
                        /\ StudentOf(d) = StudentOf(c) /\ PeriodOf(c) < PeriodOf(d)
                        /\ \A e \in Issued' : challanNo'[e] = challanNo'[d] => e = d
    BY DEF CarriedDebtHasBearer
<1>1. \A d \in Issued' : \A e \in Issued' : challanNo'[e] = challanNo'[d] => e = d
    BY RunNumbersStep DEF DebtInvariant, NumbersInOrder
<1>2. /\ Batch(g) \subseteq Challan \ Issued /\ Issued' = Issued \cup Batch(g)
      /\ run[g].carry \subseteq Issued
      /\ \A d \in Batch(g) : carriedTo'[d] = 0
      /\ \A d \in Challan \ Batch(g) : challanNo'[d] = challanNo[d]
    BY RunEffect DEF DebtInvariant
<1>3. \A d \in Challan : Standing(d)' <=> Standing(d) \/ d \in Batch(g)
    BY RunCarries
<1>4. CASE c \in run[g].carry
    <2>1. /\ StudentOf(c) \in run[g].bill /\ PeriodOf(c) < run[g].period
          /\ status'[c] = "CANCELLED" /\ carriedTo'[c] = no[StudentOf(c)]
        BY <1>4, RunEffect DEF DebtInvariant
    <2>2. PICK d \in Batch(g) : StudentOf(d) = StudentOf(c) /\ PeriodOf(d) = run[g].period
        <3>1. <<StudentOf(c), run[g].period>> \in Batch(g)
            BY <2>1 DEF Batch
        <3>2. \A s, p : StudentOf(<<s, p>>) = s /\ PeriodOf(<<s, p>>) = p
            BY DEF StudentOf, PeriodOf
        <3> QED BY <3>1, <3>2
    <2>3. challanNo'[d] = no[StudentOf(c)]
        BY <2>2, RunEffect DEF DebtInvariant
    <2>4. /\ d \in Challan /\ Standing(d)' /\ d \in Issued'
        BY <1>2, <1>3, <2>2
    <2> QED BY <1>1, <2>1, <2>2, <2>3, <2>4
<1>5. CASE c \notin run[g].carry
    <2>1. status'[c] = status[c] /\ carriedTo'[c] = carriedTo[c]
        BY <1>2, <1>5, RunEffect DEF DebtInvariant
    <2>2. PICK d \in Challan :
            /\ status[c] = "CANCELLED"
            /\ challanNo[d] = carriedTo[c] /\ Standing(d)
            /\ StudentOf(d) = StudentOf(c) /\ PeriodOf(c) < PeriodOf(d)
        BY <2>1 DEF DebtInvariant, CarriedDebtHasBearer
    <2>3. d \in Issued /\ Standing(d)'
        BY <1>3, <2>2 DEF Standing
    <2>4. challanNo'[d] = challanNo[d] /\ d \in Issued'
        BY <1>2, <2>3
    <2> QED BY <1>1, <2>1, <2>2, <2>3, <2>4
<1> QED BY <1>4, <1>5

\* A challan that a run issued asks for its charge and for what it carries.
LEMMA RunBillsStep ==
    ASSUME DebtInvariant, NEW g \in Run,
           NEW no \in [run[g].bill -> BatchNos(g)], CommitRun(g, no)
    PROVE  BillsAddUp'
<1> SUFFICES ASSUME NEW c \in Challan, Standing(c)'
             PROVE  netAmount'[c] = charges'[c] + Total(CarriedBy(c)', netAmount')
    BY DEF BillsAddUp
<1>1. /\ Batch(g) \subseteq Challan \ Issued /\ run[g].carry \subseteq Issued
      /\ \A d \in Challan \ Batch(g) :
            netAmount'[d] = netAmount[d] /\ charges'[d] = charges[d]
      /\ Issued \subseteq Challan
    BY RunEffect, IssuedIsFinite DEF DebtInvariant
<1>2. CASE c \in Batch(g)
    <2> DEFINE s == StudentOf(c)
               K == {d \in run[g].carry : StudentOf(d) = s}
    <2>1. /\ netAmount'[c] = run[g].fee[s] + run[g].arrears[s]
          /\ charges'[c] = run[g].fee[s] /\ CarriedBy(c)' = K
        BY <1>2, RunEffect, RunCarries DEF DebtInvariant
    <2>2. run[g].arrears[s] = Total(K, netAmount)
        BY <1>1, <1>2, ChallanParts DEF DebtInvariant, PlansInOrder, CommitRun
    <2>3. Total(K, netAmount) = Total(K, netAmount')
        <3>1. \A d \in K : netAmount[d] = netAmount'[d]
            BY <1>1
        <3> QED BY <3>1, TotalOfSame
    <2> QED BY <2>1, <2>2, <2>3
<1>3. CASE c \notin Batch(g)
    <2>1. Standing(c) /\ c \in Issued
        BY <1>3, RunCarries DEF Standing
    <2>2. netAmount[c] = charges[c] + Total(CarriedBy(c), netAmount)
        BY <2>1 DEF DebtInvariant, BillsAddUp
    <2>3. CarriedBy(c)' = CarriedBy(c)
        BY <2>1, RunCarries
    <2>4. Total(CarriedBy(c), netAmount) = Total(CarriedBy(c), netAmount')
        <3>1. \A d \in CarriedBy(c) : netAmount[d] = netAmount'[d]
            BY <1>1 DEF CarriedBy, Issued
        <3> QED BY <3>1, TotalOfSame
    <2> QED BY <1>1, <1>3, <2>2, <2>3, <2>4
<1> QED BY <1>2, <1>3

\* A batch asks each student it bills for one more charge and moves the rest.
LEMMA RunConserves ==
    ASSUME DebtInvariant, NEW g \in Run,
           NEW no \in [run[g].bill -> BatchNos(g)], CommitRun(g, no)
    PROVE  DebtConserved'
<1> DEFINE Open(s) == {c \in Issued : StudentOf(c) = s /\ status[c] # "CANCELLED"}
           Owed(s) == {c \in Challan : StudentOf(c) = s /\ Standing(c)}
<1> SUFFICES ASSUME NEW s \in Student
             PROVE  Total(Open(s)', netAmount') = Total(Owed(s)', charges')
    BY DEF DebtConserved
<1>1. /\ Batch(g) \subseteq Challan \ Issued /\ Issued' = Issued \cup Batch(g)
      /\ \A c \in Batch(g) :
            /\ StudentOf(c) \in run[g].bill /\ PeriodOf(c) = run[g].period
            /\ netAmount'[c] = run[g].fee[StudentOf(c)] + run[g].arrears[StudentOf(c)]
            /\ charges'[c] = run[g].fee[StudentOf(c)]
            /\ status'[c] # "CANCELLED"
      /\ run[g].carry \subseteq Issued
      /\ \A c \in run[g].carry : /\ StudentOf(c) \in run[g].bill
                                  /\ status[c] = "UNPAID" /\ status'[c] = "CANCELLED"
      /\ \A c \in Challan \ Batch(g) :
            netAmount'[c] = netAmount[c] /\ charges'[c] = charges[c]
      /\ \A c \in Challan \ (Batch(g) \cup run[g].carry) : status'[c] = status[c]
    BY RunEffect DEF DebtInvariant
<1>2. \A c \in Challan : Standing(c)' <=> Standing(c) \/ c \in Batch(g)
    BY RunCarries
<1>3. /\ Issued \subseteq Challan
      /\ netAmount \in [Challan -> Nat] /\ charges \in [Challan -> Nat]
      /\ netAmount' \in [Challan -> Nat] /\ charges' \in [Challan -> Nat]
    BY RunEffect, IssuedIsFinite DEF DebtInvariant, LedgerInvariant, TypeOK
<1>4. IsFiniteSet(Open(s)) /\ IsFiniteSet(Owed(s))
    <2>1. Open(s) \in SUBSET Challan /\ Owed(s) \in SUBSET Challan
        BY <1>3
    <2> QED BY <2>1, ChallanIsFinite, FS_Subset
<1>5. Total(Open(s), netAmount) = Total(Owed(s), charges)
    BY DEF DebtInvariant, DebtConserved
<1>6. CASE s \notin run[g].bill
    <2>1. Open(s)' = Open(s)
        BY <1>1, <1>3, <1>6
    <2>2. Owed(s)' = Owed(s)
        BY <1>1, <1>2, <1>6
    <2>3. \A c \in Open(s) : netAmount'[c] = netAmount[c]
        BY <1>1, <1>3
    <2>4. \A c \in Owed(s) : charges'[c] = charges[c]
        BY <1>1 DEF Standing
    <2> HIDE DEF Open, Owed
    <2>5. Total(Open(s), netAmount) = Total(Open(s), netAmount')
        BY <2>3, TotalOfSame
    <2>6. Total(Owed(s), charges) = Total(Owed(s), charges')
        BY <2>4, TotalOfSame
    <2> QED BY <1>5, <2>1, <2>2, <2>5, <2>6
<1>7. CASE s \in run[g].bill
    <2> DEFINE K == {c \in run[g].carry : StudentOf(c) = s}
               rest == Open(s) \ K
    <2>1. PICK b \in Batch(g) : StudentOf(b) = s
        <3>1. <<s, run[g].period>> \in Batch(g)
            BY <1>7 DEF Batch
        <3>2. StudentOf(<<s, run[g].period>>) = s
            BY DEF StudentOf
        <3> QED BY <3>1, <3>2
    <2>2. \A c \in Batch(g) : StudentOf(c) = s => c = b
        BY <1>1, <2>1, ChallanParts
    <2>3. /\ b \in Challan /\ b \notin Issued /\ b \notin Open(s) /\ b \notin Owed(s)
          /\ netAmount'[b] = run[g].fee[s] + run[g].arrears[s]
          /\ charges'[b] = run[g].fee[s]
        BY <1>1, <2>1 DEF Standing
    <2>4. K \subseteq Open(s)
        BY <1>1
    <2>5. Open(s)' = rest \cup {b}
        BY <1>1, <1>3, <2>1, <2>2, <2>3, <2>4
    <2>6. Owed(s)' = Owed(s) \cup {b}
        BY <1>1, <1>2, <2>1, <2>2, <2>3
    <2>7. run[g].arrears[s] = Total(K, netAmount)
        BY DEF DebtInvariant, PlansInOrder, CommitRun
    <2>8. /\ \A c \in Open(s) : netAmount'[c] = netAmount[c] /\ netAmount[c] \in Nat
          /\ \A c \in Owed(s) : charges'[c] = charges[c] /\ charges[c] \in Nat
        BY <1>1, <1>3 DEF Standing
    <2> HIDE DEF Open, Owed, K
    <2>9. IsFiniteSet(K) /\ IsFiniteSet(rest)
        BY <1>4, <2>4, FS_Subset
    <2>10. Total(Open(s), netAmount) = Total(K, netAmount) + Total(rest, netAmount)
        <3>1. K \cup rest = Open(s) /\ K \cap rest = {}
            BY <2>4
        <3>2. Total(K \cup rest, netAmount) = Total(K, netAmount) + Total(rest, netAmount)
            BY <2>8, <2>9, <3>1, TotalOfDisjoint
        <3> QED BY <3>1, <3>2
    <2>11. Total(rest \cup {b}, netAmount') = Total(rest, netAmount) + netAmount'[b]
        <3>1. Total(rest, netAmount) = Total(rest, netAmount')
            BY <2>8, TotalOfSame
        <3>2. b \notin rest /\ \A c \in rest \cup {b} : netAmount'[c] \in Nat
            BY <1>3, <2>3, <2>8
        <3>3. Total(rest \cup {b}, netAmount') = Total(rest, netAmount') + netAmount'[b]
            BY <2>9, <3>2, TotalWithOneMore
        <3> QED BY <3>1, <3>3
    <2>12. Total(Owed(s) \cup {b}, charges') = Total(Owed(s), charges) + charges'[b]
        <3>1. Total(Owed(s), charges) = Total(Owed(s), charges')
            BY <2>8, TotalOfSame
        <3>2. \A c \in Owed(s) \cup {b} : charges'[c] \in Nat
            BY <1>3, <2>3, <2>8
        <3>3. Total(Owed(s) \cup {b}, charges') = Total(Owed(s), charges') + charges'[b]
            BY <1>4, <2>3, <3>2, TotalWithOneMore
        <3> QED BY <3>1, <3>3
    <2>13. /\ Total(K, netAmount) \in Nat /\ Total(rest, netAmount) \in Nat
           /\ charges'[b] \in Nat
        BY <1>3, <2>3, <2>4, <2>8, <2>9, TotalIsNat
    <2> HIDE DEF rest
    <2> QED BY <1>5, <2>3, <2>5, <2>6, <2>7, <2>10, <2>11, <2>12, <2>13
<1> QED BY <1>6, <1>7

-----------------------------------------------------------------------------
(* A cancellation: the debt it gives back *)

\* A cancelled challan stands no longer; every other bill stands as it did and carries
\* what it did.
LEMMA CancelCarries ==
    ASSUME DebtInvariant, NEW r \in Request, CommitCancel(r), NEW c, c = req[r].challan
    PROVE  /\ Standing(c) /\ ~Standing(c)'
           /\ \A d \in Challan \ {c} : Standing(d)' <=> Standing(d)
           /\ \A d \in Issued \ {c} : CarriedBy(d)' = CarriedBy(d)
<1> DEFINE K == CarriedBy(c)
<1>1. /\ c \in Issued /\ c \in Challan
      /\ status[c] # "CANCELLED" /\ carriedTo[c] = 0
      /\ K \subseteq Issued \ {c}
      /\ \A d \in K : status[d] = "CANCELLED" /\ status'[d] = "UNPAID"
      /\ status'[c] = "CANCELLED" /\ carriedTo'[c] = 0
      /\ \A d \in Challan \ ({c} \cup K) : status'[d] = status[d] /\ carriedTo'[d] = carriedTo[d]
      /\ Issued' = Issued /\ challanNo' = challanNo
    BY CancelEffect DEF DebtInvariant
<1>2. \A d \in Issued : challanNo[d] \in Nat /\ challanNo[d] # 0
    BY DEF DebtInvariant, LedgerInvariant, BooksInOrder, TypeOK, Issued
<1>3. \A d \in K : carriedTo[d] = challanNo[c]
    BY DEF CarriedBy
<1>4. \A d \in Issued : d # c => challanNo[d] # challanNo[c]
    BY <1>1 DEF DebtInvariant, NumbersInOrder
<1> HIDE DEF K
<1>5. Standing(c) /\ ~Standing(c)'
    BY <1>1 DEF Standing
<1>6. ASSUME NEW d \in Challan, d # c PROVE Standing(d)' <=> Standing(d)
    <2>1. CASE d \in K
        BY <1>1, <1>2, <1>3, <2>1 DEF Standing
    <2>2. CASE d \notin K
        BY <1>1, <1>6, <2>2 DEF Standing
    <2> QED BY <2>1, <2>2
<1>7. ASSUME NEW d \in Issued, d # c PROVE CarriedBy(d)' = CarriedBy(d)
    <2>1. challanNo'[d] = challanNo[d] /\ challanNo[d] # 0
        BY <1>1, <1>2
    <2>2. \A e \in K : carriedTo[e] # challanNo[d] /\ status'[e] # "CANCELLED"
        BY <1>1, <1>3, <1>4, <1>7
    <2> QED BY <1>1, <2>1, <2>2 DEF CarriedBy
<1> QED BY <1>5, <1>6, <1>7

\* Cancelling moves debt back to where it came from.
LEMMA CancelDebtStep ==
    ASSUME DebtInvariant, NEW r \in Request, CommitCancel(r)
    PROVE  NumbersInOrder' /\ CarriedDebtHasBearer' /\ BillsAddUp' /\ DebtConserved'
<1>1. PICK c \in Challan : c = req[r].challan
    BY CancelEffect DEF DebtInvariant
<1> DEFINE K == CarriedBy(c)
<1>2. /\ c \in Issued /\ status[c] # "CANCELLED"
      /\ K \subseteq Issued \ {c}
      /\ \A d \in K : /\ status[d] = "CANCELLED" /\ status'[d] = "UNPAID"
                       /\ carriedTo'[d] = 0
      /\ status'[c] = "CANCELLED" /\ carriedTo'[c] = 0
      /\ \A d \in Challan \ ({c} \cup K) : status'[d] = status[d] /\ carriedTo'[d] = carriedTo[d]
      /\ Issued' = Issued /\ UNCHANGED <<challanNo, netAmount, charges>>
    BY <1>1, CancelEffect DEF DebtInvariant
<1>3. /\ Standing(c) /\ ~Standing(c)'
      /\ \A d \in Challan \ {c} : Standing(d)' <=> Standing(d)
      /\ \A d \in Issued \ {c} : CarriedBy(d)' = CarriedBy(d)
    BY <1>1, CancelCarries
<1>4. /\ Issued \subseteq Challan
      /\ netAmount \in [Challan -> Nat] /\ charges \in [Challan -> Nat]
    BY IssuedIsFinite DEF DebtInvariant, LedgerInvariant, TypeOK
<1>5. NumbersInOrder'
    BY <1>2 DEF DebtInvariant, NumbersInOrder, NumbersContiguous
<1>6. CarriedDebtHasBearer'
    <2> SUFFICES ASSUME NEW d \in Challan, carriedTo'[d] # 0
                 PROVE  /\ status'[d] = "CANCELLED"
                        /\ \E e \in Challan :
                            /\ challanNo'[e] = carriedTo'[d] /\ Standing(e)'
                            /\ StudentOf(e) = StudentOf(d) /\ PeriodOf(d) < PeriodOf(e)
                            /\ \A f \in Issued' : challanNo'[f] = challanNo'[e] => f = e
        BY DEF CarriedDebtHasBearer
    <2>1. d \notin {c} \cup K /\ status'[d] = status[d] /\ carriedTo'[d] = carriedTo[d]
        BY <1>2
    <2>2. PICK e \in Challan :
            /\ status[d] = "CANCELLED"
            /\ challanNo[e] = carriedTo[d] /\ Standing(e)
            /\ StudentOf(e) = StudentOf(d) /\ PeriodOf(d) < PeriodOf(e)
            /\ \A f \in Issued : challanNo[f] = challanNo[e] => f = e
        BY <2>1 DEF DebtInvariant, CarriedDebtHasBearer
    <2>3. e # c
        BY <2>1, <2>2 DEF CarriedBy
    <2>4. Standing(e)'
        BY <1>3, <2>2, <2>3
    <2> QED BY <1>2, <2>1, <2>2, <2>4
<1>7. BillsAddUp'
    <2> SUFFICES ASSUME NEW d \in Challan, Standing(d)'
                 PROVE  netAmount'[d] = charges'[d] + Total(CarriedBy(d)', netAmount')
        BY DEF BillsAddUp
    <2>1. d # c /\ Standing(d)
        BY <1>3
    <2>2. CarriedBy(d)' = CarriedBy(d)
        BY <1>3, <2>1 DEF Standing
    <2> QED BY <1>2, <2>1, <2>2 DEF DebtInvariant, BillsAddUp
<1>8. DebtConserved'
    <2> DEFINE Open(s) == {d \in Issued : StudentOf(d) = s /\ status[d] # "CANCELLED"}
               Owed(s) == {d \in Challan : StudentOf(d) = s /\ Standing(d)}
    <2> SUFFICES ASSUME NEW s \in Student
                 PROVE  Total(Open(s)', netAmount) = Total(Owed(s)', charges)
        BY <1>2 DEF DebtConserved
    <2>1. Total(Open(s), netAmount) = Total(Owed(s), charges)
        BY DEF DebtInvariant, DebtConserved
    <2>2. CASE s # StudentOf(c)
        <3>1. \A d \in K : StudentOf(d) # s
            BY <2>2 DEF CarriedBy
        <3> HIDE DEF K
        <3>2. Open(s)' = Open(s)
            BY <1>2, <1>4, <2>2, <3>1
        <3>3. Owed(s)' = Owed(s)
            BY <1>3, <2>2
        <3> QED BY <2>1, <3>2, <3>3
    <2>3. CASE s = StudentOf(c)
        <3> DEFINE open == Open(s) \ {c}
                   owed == Owed(s) \ {c}
        <3>1. \A d \in K : StudentOf(d) = s
            BY <2>3 DEF CarriedBy
        <3>2. netAmount[c] = charges[c] + Total(K, netAmount)
            BY <1>3 DEF DebtInvariant, BillsAddUp
        <3> HIDE DEF K
        <3>3. Open(s)' = open \cup K /\ Open(s) = open \cup {c} /\ open \cap K = {}
            BY <1>2, <1>4, <2>3, <3>1
        <3>4. Owed(s)' = owed /\ Owed(s) = owed \cup {c}
            BY <1>3, <2>3
        <3>5. IsFiniteSet(open) /\ IsFiniteSet(owed) /\ IsFiniteSet(K)
            <4>1. open \in SUBSET Challan /\ owed \in SUBSET Challan /\ K \in SUBSET Challan
                BY <1>2, <1>4
            <4> QED BY <4>1, ChallanIsFinite, FS_Subset
        <3>6. /\ \A d \in open \cup K \cup {c} : netAmount[d] \in Nat
              /\ \A d \in owed \cup {c} : charges[d] \in Nat
            BY <1>2, <1>4
        <3>7. c \notin open /\ c \notin owed
            OBVIOUS
        <3> HIDE DEF Open, Owed, open, owed
        <3>8. Total(open \cup {c}, netAmount) = Total(open, netAmount) + netAmount[c]
            BY <3>5, <3>6, <3>7, TotalWithOneMore
        <3>9. Total(owed \cup {c}, charges) = Total(owed, charges) + charges[c]
            BY <3>5, <3>6, <3>7, TotalWithOneMore
        <3>10. Total(open \cup K, netAmount) = Total(open, netAmount) + Total(K, netAmount)
            BY <3>3, <3>5, <3>6, TotalOfDisjoint
        <3>11. /\ Total(open, netAmount) \in Nat /\ Total(K, netAmount) \in Nat
               /\ Total(owed, charges) \in Nat /\ charges[c] \in Nat
            BY <3>5, <3>6, TotalIsNat
        <3> QED BY <2>1, <3>2, <3>3, <3>4, <3>8, <3>9, <3>10, <3>11
    <2> QED BY <2>2, <2>3
<1> QED BY <1>5, <1>6, <1>7, <1>8

-----------------------------------------------------------------------------
(* Arrears are never lost and never asked for twice *)

\* A receipt or its void is settled on an open row, which stays open.
LEMMA SettleEffect ==
    ASSUME LedgerInvariant, NEW r \in Request, CommitRecord(r) \/ CommitVoid(r)
    PROVE  /\ req[r].challan \in Issued /\ req[r].challan \in Challan
           /\ status[req[r].challan] \notin {"ABSENT", "CANCELLED"}
           /\ status'[req[r].challan] \in {"UNPAID", "PARTIALLY_PAID", "PAID"}
           /\ \A d \in Challan \ {req[r].challan} : status'[d] = status[d]
           /\ UNCHANGED <<netAmount, charges, challanNo, carriedTo, run>>
<1> DEFINE c == req[r].challan
<1>1. /\ req[r].pc = "decided" /\ req[r].op \in {"record", "void"}
      /\ status \in [Challan -> Status] /\ Resettle(r)
      /\ req[r].total \in Nat /\ req[r].seen.netAmount \in Nat
      /\ UNCHANGED <<netAmount, charges, challanNo, carriedTo, run>>
    BY DEF CommitRecord, CommitVoid, LedgerInvariant, TypeOK, Call, Seen
<1>2. c \in Challan /\ c \in Issued
    BY <1>1, WhatWasDecided
<1>3. status[c] # "CANCELLED"
    <2>1. CASE req[r].op = "record"
        BY <1>1, <2>1, WhatWasDecided DEF MayRecord
    <2>2. CASE req[r].op = "void"
        BY <1>1, <2>2, WhatWasDecided DEF LedgerInvariant, CancelledHasNoMoney
    <2> QED BY <1>1, <2>1, <2>2
<1>4. ResolveChallanStatus(req[r].total, req[r].seen.netAmount)
        \in {"UNPAID", "PARTIALLY_PAID", "PAID"}
    BY <1>1, ResolvedStatus
<1> QED BY <1>1, <1>2, <1>3, <1>4 DEF Resettle, Issued

\* Every step of a run preserves the invariant.
LEMMA RunDebtStep ==
    ASSUME DebtInvariant, NEW g \in Run,
           NEW no \in [run[g].bill -> BatchNos(g)], CommitRun(g, no)
    PROVE  DebtInvariant'
<1>1. LedgerInvariant'
    BY CommitRunStep DEF DebtInvariant
<1>2. NumbersInOrder' /\ CarriedDebtHasBearer' /\ BillsAddUp' /\ DebtConserved'
    BY RunNumbersStep, RunBearersStep, RunBillsStep, RunConserves DEF DebtInvariant
<1>3. PlansInOrder'
    <2>1. /\ Issued \subseteq Issued' /\ netAmount' \in [Challan -> Nat]
          /\ \A c \in Issued : netAmount'[c] = netAmount[c]
        BY RunEffect, IssuedIsFinite DEF DebtInvariant, TypeOK
    <2>2. /\ run'[g].pc = "idle"
          /\ \A h \in Run \ {g} : run'[h] = run[h]
        BY NoJobIsJob DEF CommitRun, DebtInvariant, LedgerInvariant, TypeOK
    <2> SUFFICES ASSUME NEW h \in Run, run'[h].pc \in {"planned", "numbered"}
                 PROVE  /\ run'[h].bill # {} /\ run'[h].carry \subseteq Issued'
                        /\ \A s \in run'[h].bill : run'[h].fee[s] \in Charge
                        /\ \A s \in Student : run'[h].arrears[s] =
                                Total({c \in run'[h].carry : StudentOf(c) = s}, netAmount')
                        /\ run'[h].pc = "numbered" => run'[h].base <= Cardinality(Issued')
        BY DEF PlansInOrder
    <2>3. run'[h] = run[h] /\ run[h].pc \in {"planned", "numbered"}
        BY <2>2
    <2> QED BY <2>1, <2>3, PlansSurvive DEF DebtInvariant
<1> QED BY <1>1, <1>2, <1>3 DEF DebtInvariant

\* A request's step keeps every plan: it issues no row and rewrites no net amount.
LEMMA RequestPlansStep ==
    ASSUME DebtInvariant, UNCHANGED <<netAmount, run>>, Issued' = Issued
    PROVE  PlansInOrder'
BY DEF DebtInvariant, PlansInOrder

\* Every step of a request preserves the invariant.
LEMMA RequestDebtStep ==
    ASSUME DebtInvariant, LedgerInvariant', NEW r \in Request, RequestStep(r)
    PROVE  DebtInvariant'
<1>1. CASE UNCHANGED <<rows, run>>
    <2>1. UNCHANGED <<status, netAmount, charges, challanNo, carriedTo, run>>
        BY <1>1 DEF rows
    <2> QED BY <2>1, SameDebt, RequestPlansStep DEF DebtInvariant
<1>2. CASE CommitRecord(r) \/ CommitVoid(r)
    <2>1. /\ UNCHANGED <<netAmount, charges, challanNo, carriedTo, run>>
          /\ \A c \in Challan : /\ (status'[c] = "ABSENT") <=> (status[c] = "ABSENT")
                                /\ (status'[c] = "CANCELLED") <=> (status[c] = "CANCELLED")
        BY <1>2, SettleEffect DEF DebtInvariant
    <2> QED BY <2>1, SameDebt, RequestPlansStep DEF DebtInvariant
<1>3. CASE CommitCancel(r)
    <2>1. UNCHANGED <<netAmount, run>> /\ Issued' = Issued
        BY <1>3, CancelEffect DEF DebtInvariant
    <2> QED BY <1>3, <2>1, CancelDebtStep, RequestPlansStep DEF DebtInvariant
<1>4. \/ UNCHANGED <<rows, run>>
      \/ CommitRecord(r) \/ CommitVoid(r) \/ CommitCancel(r)
    BY DEF RequestStep, CallRecord, CallVoid, CallCancel, LockChallan, Decide, Refuse, FailRequest
<1> QED BY <1>1, <1>2, <1>3, <1>4

\* The invariant is inductive.
LEMMA NextDebt == DebtInvariant /\ [Next]_vars => DebtInvariant'
<1> SUFFICES ASSUME DebtInvariant, [Next]_vars PROVE DebtInvariant'
    OBVIOUS
<1>1. LedgerInvariant'
    BY NextInvariant DEF DebtInvariant
<1>2. CASE UNCHANGED vars
    <2>1. UNCHANGED <<status, netAmount, charges, challanNo, carriedTo, run>> /\ Issued' = Issued
        BY <1>2 DEF vars, Issued
    <2> QED BY <1>1, <2>1, SameDebt, RequestPlansStep DEF DebtInvariant
<1>3. ASSUME NEW r \in Request, RequestStep(r) PROVE DebtInvariant'
    BY <1>1, <1>3, RequestDebtStep
<1>4. ASSUME NEW g \in Run, RunStep(g) PROVE DebtInvariant'
    <2>1. CASE PlansInOrder' /\ UNCHANGED <<rows, receipt, lock, req>>
        <3>1. UNCHANGED <<status, netAmount, charges, challanNo, carriedTo>>
            BY <2>1 DEF rows
        <3> QED BY <1>1, <2>1, <3>1, SameDebt DEF DebtInvariant
    <2>2. ASSUME NEW no \in [run[g].bill -> BatchNos(g)], CommitRun(g, no)
          PROVE  DebtInvariant'
        BY <2>2, RunDebtStep
    <2> QED BY <1>4, <2>1, <2>2, RunPlansStep DEF DebtInvariant
<1> QED BY <1>2, <1>3, <1>4 DEF Next

\* Besides LedgerInvariant: what a run is about to write still adds up, numbers are
\* given once and in order, each bill that stands asks for its charge and for what
\* it carries, and every carried challan has its bearer.
THEOREM DebtIsInvariant == Spec => []DebtInvariant
<1>1. Init => DebtInvariant
    BY DebtInit
<1>2. DebtInvariant /\ [Next]_vars => DebtInvariant'
    BY NextDebt
<1> QED BY <1>1, <1>2, PTL DEF Spec

\* Every carried challan is followed to one standing bill of the same student that
\* carries it, and a student's open bills ask for exactly what was charged,
\* whatever runs and cancellations interleave (buildPlan, commitPlan, cancelChallan).
THEOREM ArrearsAreFollowed == Spec => []ArrearsFollowed
<1>1. DebtInvariant => ArrearsFollowed
    BY DEF DebtInvariant, ArrearsFollowed
<1> QED BY <1>1, DebtIsInvariant, PTL

\* Counting on from the highest number and counting rows come to the same, also
\* when monthly and installment runs race: the numbers are 1..n without a gap.
THEOREM NumbersNeverSkip == Spec => []NumbersContiguous
<1>1. DebtInvariant => NumbersContiguous
    BY DEF DebtInvariant, NumbersInOrder
<1> QED BY <1>1, DebtIsInvariant, PTL

-----------------------------------------------------------------------------
(* The account *)

\* The account counts money the way the ledger does.
LEMMA AccountSums ==
    /\ \A S, amount : Account!Total(S, amount) = Total(S, amount)
    /\ \A c : Account!Standing(c) = LiveReceipts(c) /\ Account!Received(c) = LiveSum(c)
    /\ Account!Bill = Challan
<1>1. \A S, amount : Account!Total(S, amount) = Total(S, amount)
    <2>1. \A S : Account!Cardinality(S) = Cardinality(S)
        BY DEF Account!Cardinality, Cardinality
    <2>2. \A S, amount : Account!Units(S, amount) = Units(S, amount)
        BY DEF Account!Units, Account!UnitsOf, Units, UnitsOf
    <2> QED BY <2>1, <2>2 DEF Account!Total, Total
<1>2. \A c : Account!Standing(c) = LiveReceipts(c)
    BY DEF Account!Standing, LiveReceipts, LiveIn
<1>3. \A c : Account!Received(c) = LiveSum(c)
    BY <1>1, <1>2 DEF Account!Received, LiveSum, SumIn, LiveReceipts
<1> QED BY <1>1, <1>2, <1>3 DEF Account!Bill, Challan

\* An absorbed bill is part of the bill whose number its cancelReason names.
PartsInOrder ==
    \A c \in Challan :
        /\ AccountInto[c] = NoChallan <=> carriedTo[c] = 0
        /\ \A d \in Issued : AccountInto[c] = d <=> carriedTo[c] = challanNo[d]
        /\ carriedTo[c] # 0 => AccountInto[c] \in Issued

\* The number in a cancelReason names one bill of the account.
LEMMA IntoBearer == DebtInvariant => PartsInOrder
<1> SUFFICES ASSUME DebtInvariant, NEW c \in Challan
             PROVE  /\ AccountInto[c] = NoChallan <=> carriedTo[c] = 0
                    /\ \A d \in Issued : AccountInto[c] = d <=> carriedTo[c] = challanNo[d]
                    /\ carriedTo[c] # 0 => AccountInto[c] \in Issued
    BY DEF PartsInOrder
<1>1. NoChallan \notin Challan /\ Issued \subseteq Challan
    BY LedgerAssumption, IssuedIsFinite
<1>2. \A d \in Issued : challanNo[d] # 0
    BY DEF DebtInvariant, LedgerInvariant, BooksInOrder, TypeOK, Issued
<1>3. CASE carriedTo[c] = 0
    BY <1>1, <1>2, <1>3 DEF AccountInto
<1>4. CASE carriedTo[c] # 0
    <2> DEFINE into == CHOOSE d \in Challan : challanNo[d] = carriedTo[c]
    <2>1. \E d \in Challan : challanNo[d] = carriedTo[c]
        BY <1>4 DEF DebtInvariant, CarriedDebtHasBearer
    <2>2. into \in Challan /\ challanNo[into] = carriedTo[c]
        BY <2>1
    <2>3. AccountInto[c] = into
        BY <1>4 DEF AccountInto
    <2> HIDE DEF into
    <2>4. into \in Issued
        BY <1>4, <2>2 DEF DebtInvariant, NumbersInOrder
    <2>5. \A d \in Issued : challanNo[into] = challanNo[d] => into = d
        BY <2>4 DEF DebtInvariant, NumbersInOrder
    <2> QED BY <1>1, <1>4, <2>2, <2>3, <2>4, <2>5
<1> QED BY <1>3, <1>4

LEMMA IntoBearerNext == DebtInvariant' => PartsInOrder'
BY IntoBearer, PTL

\* A challan whose cancelReason stays remains part of the same bill.
LEMMA IntoKept ==
    ASSUME PartsInOrder, PartsInOrder', NEW c \in Challan, carriedTo'[c] = carriedTo[c],
           \A d \in Issued : d \in Issued' /\ challanNo'[d] = challanNo[d]
    PROVE  AccountInto'[c] = AccountInto[c]
<1>1. CASE carriedTo[c] = 0
    BY <1>1 DEF AccountInto
<1>2. CASE carriedTo[c] # 0
    <2>1. PICK d \in Issued : AccountInto[c] = d
        BY <1>2 DEF PartsInOrder
    <2>2. carriedTo'[c] = challanNo'[d] /\ d \in Issued'
        BY <2>1 DEF PartsInOrder
    <2> QED BY <2>1, <2>2 DEF PartsInOrder
<1> QED BY <1>1, <1>2

\* An empty ledger is an empty account.
LEMMA AccountInit == Init => Account!Init
<1> SUFFICES ASSUME Init PROVE Account!Init
    OBVIOUS
<1>1. /\ AccountState = [b \in Challan |-> "none"]
      /\ AccountInto = [b \in Challan |-> NoChallan]
    BY DEF Init, AccountState, AccountInto
<1> QED BY <1>1, AccountSums DEF Account!Init, Init

\* The state of a challan on the account depends on two columns.
LEMMA StateKept ==
    ASSUME NEW c \in Challan,
           (status'[c] = "ABSENT") <=> (status[c] = "ABSENT"),
           (status'[c] = "CANCELLED") <=> (status[c] = "CANCELLED"),
           status[c] = "CANCELLED" => carriedTo'[c] = carriedTo[c]
    PROVE  AccountState'[c] = AccountState[c]
BY DEF AccountState

\* A challan that was issued and not cancelled is an open bill of the account.
LEMMA OpenOnAccount ==
    ASSUME NEW c \in Challan, status[c] \notin {"ABSENT", "CANCELLED"}
    PROVE  c \in Account!Open
BY AccountSums DEF Account!Open, AccountState

\* A committed payment is money received, and a committed void a receipt struck out.
LEMMA SettlesOnAccount ==
    ASSUME DebtInvariant, NEW r \in Request, CommitRecord(r) \/ CommitVoid(r)
    PROVE  Account!Next
<1> DEFINE c == req[r].challan
           p == req[r].payment
<1>1. /\ c \in Issued /\ c \in Challan /\ status[c] \notin {"ABSENT", "CANCELLED"}
      /\ status'[c] \in {"UNPAID", "PARTIALLY_PAID", "PAID"}
      /\ \A d \in Challan \ {c} : status'[d] = status[d]
      /\ UNCHANGED <<netAmount, challanNo, carriedTo>>
    BY SettleEffect DEF DebtInvariant
<1>2. /\ req[r].pc = "decided" /\ receipt' = Written(r) /\ HoldsLock(r)
    BY DEF CommitRecord, CommitVoid, HoldsLock
<1>3. UNCHANGED <<AccountState, AccountInto, netAmount>>
    <2>1. \A d \in Challan : AccountState'[d] = AccountState[d]
        BY <1>1, StateKept
    <2>2. AccountState' = [d \in Challan |-> AccountState'[d]]
          /\ AccountState = [d \in Challan |-> AccountState[d]]
        BY DEF AccountState
    <2>3. AccountState' = AccountState
        BY <2>1, <2>2
    <2>4. AccountInto' = AccountInto
        BY <1>1 DEF AccountInto
    <2> QED BY <1>1, <2>3, <2>4
<1>4. CASE CommitRecord(r)
    <2> DEFINE amount == req[r].amount
    <2>1. /\ p \in Payment /\ amount \in Amount /\ receipt[p].of = NoChallan
          /\ req[r].op = "record"
        BY <1>2, <1>4 DEF CommitRecord, DebtInvariant, LedgerInvariant, CallsInOrder
    <2>2. /\ amount <= RemainingBalance(req[r].seen.netAmount, req[r].seen.paidAmount)
          /\ req[r].seen.netAmount = netAmount[c] /\ req[r].seen.paidAmount = LiveSum(c)
        <3>1. LedgerInvariant
            BY DEF DebtInvariant
        <3>2. MayRecord(r)
            BY <1>2, <2>1, <3>1, WhatWasDecided
        <3>3. /\ req[r].seen = [status |-> status[c], netAmount |-> netAmount[c],
                               paidAmount |-> paidAmount[c]]
              /\ paidAmount[c] = LiveSum(c)
            BY <1>1, <1>2, <3>1 DEF LedgerInvariant, ReadsStand, PaidIsReceiptSum
        <3> QED BY <3>2, <3>3 DEF MayRecord
    <2>3. /\ netAmount[c] \in Nat /\ LiveSum(c) \in Nat /\ LiveSum(c) <= netAmount[c]
        BY <1>1 DEF DebtInvariant, LedgerInvariant, TypeOK, PaidIsReceiptSum, NeverOverpaid
    <2>4. amount <= netAmount[c] - Account!Received(c)
        BY <2>2, <2>3, AccountSums DEF RemainingBalance, NonNegative
    <2>5. receipt' = [receipt EXCEPT ![p] = [of |-> c, amount |-> amount, voided |-> FALSE]]
        BY <1>2, <2>1 DEF Written
    <2>6. c \in Account!Open /\ c \in Account!Bill
        BY <1>1, OpenOnAccount, AccountSums
    <2> HIDE DEF amount, c, p
    <2>7. Account!Receive(p, c, amount)
        BY <1>3, <2>1, <2>4, <2>5, <2>6 DEF Account!Receive
    <2> QED BY <2>1, <2>6, <2>7 DEF Account!Next
<1>5. CASE CommitVoid(r)
    <2>1. req[r].op = "void" /\ p \in LiveReceipts(c)
        BY <1>2, <1>5, WhatWasDecided DEF CommitVoid, DebtInvariant
    <2>2. p \in Payment /\ receipt[p].of # NoChallan /\ ~receipt[p].voided
        BY <1>1, <2>1, LedgerAssumption DEF LiveReceipts, LiveIn
    <2>3. receipt' = [receipt EXCEPT ![p].voided = TRUE]
        BY <1>2, <2>1 DEF Written
    <2> HIDE DEF c, p
    <2>4. Account!Strike(p)
        BY <1>3, <2>2, <2>3 DEF Account!Strike
    <2> QED BY <2>2, <2>4 DEF Account!Next
<1> QED BY <1>4, <1>5

\* A committed cancellation is a bill written off.
LEMMA CancelOnAccount ==
    ASSUME DebtInvariant, DebtInvariant', NEW r \in Request, CommitCancel(r)
    PROVE  Account!Next
<1>1. PICK c \in Challan : c = req[r].challan
    BY CancelEffect DEF DebtInvariant
<1> DEFINE K == CarriedBy(c)
<1>2. /\ c \in Issued /\ status[c] # "CANCELLED" /\ carriedTo[c] = 0
      /\ LiveReceipts(c) = {}
      /\ K \subseteq Issued \ {c}
      /\ \A d \in K : status'[d] = "UNPAID" /\ carriedTo'[d] = 0
      /\ status'[c] = "CANCELLED" /\ carriedTo'[c] = 0
      /\ \A d \in Challan \ ({c} \cup K) : status'[d] = status[d] /\ carriedTo'[d] = carriedTo[d]
      /\ Issued' = Issued /\ UNCHANGED <<challanNo, netAmount, receipt>>
    BY <1>1, CancelEffect DEF DebtInvariant
<1>3. PartsInOrder /\ PartsInOrder'
    BY IntoBearer, IntoBearerNext
<1>4. \A d \in Challan : AccountInto[d] = c <=> d \in K
    <2> SUFFICES ASSUME NEW d \in Challan PROVE carriedTo[d] = challanNo[c] <=> d \in K
        BY <1>2, <1>3 DEF PartsInOrder
    <2>1. ASSUME carriedTo[d] = challanNo[c] PROVE d \in K
        <3>1. carriedTo[d] # 0
            BY <1>2, <2>1 DEF DebtInvariant, LedgerInvariant, BooksInOrder, TypeOK, Issued
        <3>2. PICK e \in Challan :
                /\ status[d] = "CANCELLED" /\ challanNo[e] = carriedTo[d]
                /\ StudentOf(e) = StudentOf(d)
                /\ \A f \in Issued : challanNo[f] = challanNo[e] => f = e
            BY <3>1 DEF DebtInvariant, CarriedDebtHasBearer
        <3>3. e = c
            BY <1>2, <2>1, <3>2
        <3> QED BY <2>1, <3>2, <3>3 DEF CarriedBy
    <2> QED BY <2>1 DEF CarriedBy
<1>5. \A d \in Challan : AccountState'[d] =
            IF d = c THEN "written off"
            ELSE IF AccountInto[d] = c THEN "open" ELSE AccountState[d]
    <2> HIDE DEF K
    <2> TAKE d \in Challan
    <2>1. CASE d = c
        BY <1>2, <2>1 DEF AccountState
    <2>2. CASE d \in K
        BY <1>2, <1>4, <2>2 DEF AccountState
    <2>3. CASE d \notin {c} \cup K
        BY <1>2, <1>4, <2>3, StateKept
    <2> QED BY <2>1, <2>2, <2>3
<1>6. \A d \in Challan : AccountInto'[d] =
            IF AccountInto[d] = c THEN NoChallan ELSE AccountInto[d]
    <2> HIDE DEF K
    <2> TAKE d \in Challan
    <2>1. CASE d \in K
        BY <1>2, <1>3, <1>4, <2>1 DEF PartsInOrder
    <2>2. CASE d \notin K
        <3>1. carriedTo'[d] = carriedTo[d]
            BY <1>2, <2>2
        <3> QED BY <1>2, <1>3, <1>4, <2>2, <3>1, IntoKept
    <2> QED BY <2>1, <2>2
<1>7. /\ AccountState' = [d \in Challan |-> AccountState'[d]]
      /\ AccountInto' = [d \in Challan |-> AccountInto'[d]]
    BY DEF AccountState, AccountInto
<1>8. c \in Account!Open /\ Account!Standing(c) = {}
    BY <1>2, OpenOnAccount, AccountSums DEF Issued
<1> HIDE DEF K
<1>9. Account!WriteOff(c)
    BY <1>2, <1>5, <1>6, <1>7, <1>8, AccountSums DEF Account!WriteOff
<1> QED BY <1>9, AccountSums DEF Account!Next

\* A committed run issues one bill per student.
LEMMA RunOnAccount ==
    ASSUME DebtInvariant, DebtInvariant', NEW g \in Run,
           NEW no \in [run[g].bill -> BatchNos(g)], CommitRun(g, no)
    PROVE  Account!Next
<1> DEFINE bill == run[g].bill
           period == run[g].period
           old == run[g].carry
           new == Batch(g)
           charge == [s \in bill |-> run[g].fee[s]]
<1>1. /\ new \subseteq Challan \ Issued /\ Issued' = Issued \cup new
      /\ \A s \in bill : s \in Student /\ no[s] \in Nat /\ no[s] > 0
      /\ \A c \in new :
            /\ StudentOf(c) \in bill
            /\ netAmount'[c] = run[g].fee[StudentOf(c)] + run[g].arrears[StudentOf(c)]
            /\ status'[c] \in {"UNPAID", "PARTIALLY_PAID", "PAID"}
            /\ challanNo'[c] = no[StudentOf(c)] /\ carriedTo'[c] = 0
      /\ old \subseteq Issued
      /\ \A c \in old :
            /\ StudentOf(c) \in bill /\ PeriodOf(c) < period
            /\ status[c] = "UNPAID" /\ LiveReceipts(c) = {}
            /\ status'[c] = "CANCELLED" /\ carriedTo'[c] = no[StudentOf(c)]
      /\ \A c \in Challan \ new :
            netAmount'[c] = netAmount[c] /\ challanNo'[c] = challanNo[c]
      /\ \A c \in Challan \ (new \cup old) :
            status'[c] = status[c] /\ carriedTo'[c] = carriedTo[c]
    BY RunEffect DEF DebtInvariant
<1>2. /\ bill \in SUBSET Student /\ period \in 1..Periods
      /\ receipt' = receipt
      /\ netAmount' = [c \in Challan |-> netAmount'[c]]
      /\ \A s \in bill : run[g].fee[s] \in Charge
      /\ \A s \in Student : run[g].arrears[s] =
            Total({c \in old : StudentOf(c) = s}, netAmount)
    BY DEF CommitRun, DebtInvariant, LedgerInvariant, TypeOK, Job, JobsInOrder, PlansInOrder
<1>3. PartsInOrder /\ PartsInOrder' /\ Issued \subseteq Challan
    BY IntoBearer, IntoBearerNext, IssuedIsFinite
<1>4. new = bill \X {period}
    BY DEF Batch
<1>5. \A s \in bill : <<s, period>> \in new /\ StudentOf(<<s, period>>) = s
    BY DEF Batch, StudentOf
<1>6. \A c \in Challan : c[1] = StudentOf(c) /\ c[2] = PeriodOf(c)
    BY DEF StudentOf, PeriodOf
<1>7. charge \in [bill -> Charge] /\ \A s \in bill : charge[s] = run[g].fee[s]
    BY <1>2
<1> HIDE DEF bill, period, old, new, charge
<1>8. \A c \in new : AccountState[c] = "none"
    BY <1>1 DEF AccountState, Issued
<1>9. \A c \in old : c \in Account!Open
    BY <1>1, <1>3, OpenOnAccount
<1>10. \A c \in old : c[1] \in bill /\ c[2] < period /\ Account!Standing(c) = {}
    BY <1>1, <1>3, <1>6, AccountSums
<1>11. \A c \in Challan : AccountState'[c] =
            IF c \in new THEN "open" ELSE IF c \in old THEN "absorbed" ELSE AccountState[c]
    <2> TAKE c \in Challan
    <2>1. CASE c \in new
        BY <1>1, <2>1 DEF AccountState
    <2>2. CASE c \in old
        <3>1. c \notin new /\ status'[c] = "CANCELLED" /\ carriedTo'[c] # 0
            BY <1>1, <1>3, <2>2
        <3>2. AccountState'[c] = "absorbed"
            BY <3>1 DEF AccountState
        <3> QED BY <2>2, <3>1, <3>2
    <2>3. CASE c \notin new \cup old
        BY <1>1, <2>3, StateKept
    <2> QED BY <1>1, <2>1, <2>2, <2>3
<1>12. \A c \in Challan : netAmount'[c] =
            IF c \in new THEN charge[c[1]] + Account!Total({d \in old : d[1] = c[1]}, netAmount)
            ELSE netAmount[c]
    <2> TAKE c \in Challan
    <2>1. CASE c \in new
        <3>1. {d \in old : d[1] = c[1]} = {d \in old : StudentOf(d) = StudentOf(c)}
            BY <1>1, <1>3, <1>6
        <3>2. run[g].arrears[StudentOf(c)] =
                Account!Total({d \in old : d[1] = c[1]}, netAmount)
            BY <1>2, <3>1, AccountSums, ChallanParts
        <3> QED BY <1>1, <1>6, <1>7, <2>1, <3>2
    <2> QED BY <1>1, <2>1
<1>13. \A c \in Challan : AccountInto'[c] =
            IF c \in old THEN <<c[1], period>> ELSE AccountInto[c]
    <2> TAKE c \in Challan
    <2>1. CASE c \in old
        <3>1. PICK d \in new : d = <<c[1], period>> /\ StudentOf(d) = StudentOf(c)
            BY <1>1, <1>5, <1>6, <2>1
        <3>2. d \in Issued' /\ challanNo'[d] = carriedTo'[c]
            BY <1>1, <2>1, <3>1
        <3> QED BY <1>3, <2>1, <3>1, <3>2 DEF PartsInOrder
    <2>2. CASE c \notin old
        <3>1. carriedTo'[c] = carriedTo[c]
            BY <1>1, <2>2 DEF DebtInvariant, LedgerInvariant, BooksInOrder, Issued
        <3>2. \A d \in Issued : d \in Issued' /\ challanNo'[d] = challanNo[d]
            BY <1>1, <1>3
        <3> QED BY <1>3, <2>2, <3>1, <3>2, IntoKept
    <2> QED BY <2>1, <2>2
<1>14. /\ AccountState' = [c \in Challan |-> AccountState'[c]]
       /\ AccountInto' = [c \in Challan |-> AccountInto'[c]]
    BY DEF AccountState, AccountInto
<1>15. AccountState' = [c \in Challan |-> IF c \in new THEN "open"
                            ELSE IF c \in old THEN "absorbed" ELSE AccountState[c]]
    BY <1>11, <1>14
<1>16. netAmount' = [c \in Challan |-> IF c \in new
                        THEN charge[c[1]] + Account!Total({d \in old : d[1] = c[1]}, netAmount)
                        ELSE netAmount[c]]
    BY <1>2, <1>12
<1>17. AccountInto' = [c \in Challan |-> IF c \in old THEN <<c[1], period>>
                                        ELSE AccountInto[c]]
    BY <1>13, <1>14
<1>18. Account!Issue(bill, period, old, charge)
    BY <1>2, <1>4, <1>8, <1>10, <1>15, <1>16, <1>17, AccountSums DEF Account!Issue
<1>19. old \in SUBSET Account!Open
    BY <1>9
<1> QED BY <1>2, <1>7, <1>18, <1>19 DEF Account!Next

\* Seen from outside, each transaction happens at once: a batch issues, a receipt is
\* received or struck out, a cancellation writes off, and everything else (locks,
\* unlocked reads, retries, failures) is not seen (payments.service.ts and
\* challans.service.ts together).
THEOREM LedgerImplementsAccount == Spec => ImplementsAccount
<1>1. Init => Account!Init
    BY AccountInit
<1>2. ASSUME DebtInvariant, DebtInvariant', [Next]_vars
      PROVE  [Account!Next]_(Account!account)
    <2>1. CASE UNCHANGED <<rows, receipt>>
        <3>1. UNCHANGED <<AccountState, AccountInto, netAmount, receipt>>
            BY <2>1 DEF AccountState, AccountInto, rows
        <3> QED BY <3>1 DEF Account!account
    <2>2. CASE UNCHANGED vars
        BY <2>1, <2>2 DEF vars, rows
    <2>3. ASSUME NEW r \in Request, RequestStep(r) PROVE [Account!Next]_(Account!account)
        <3>1. CASE CommitRecord(r) \/ CommitVoid(r)
            BY <1>2, <3>1, SettlesOnAccount
        <3>2. CASE CommitCancel(r)
            BY <1>2, <3>2, CancelOnAccount
        <3>3. \/ UNCHANGED <<rows, receipt>>
              \/ CommitRecord(r) \/ CommitVoid(r) \/ CommitCancel(r)
            BY <2>3 DEF RequestStep, CallRecord, CallVoid, CallCancel, LockChallan,
                Decide, Refuse, FailRequest
        <3> QED BY <2>1, <3>1, <3>2, <3>3
    <2>4. ASSUME NEW g \in Run, RunStep(g) PROVE [Account!Next]_(Account!account)
        <3>1. ASSUME NEW no \in [run[g].bill -> BatchNos(g)], CommitRun(g, no)
              PROVE  Account!Next
            BY <1>2, <3>1, RunOnAccount
        <3>2. \/ UNCHANGED <<rows, receipt>>
              \/ \E no \in [run[g].bill -> BatchNos(g)] : CommitRun(g, no)
            BY <1>2, <2>4, RunPlansStep DEF DebtInvariant
        <3> QED BY <2>1, <3>1, <3>2
    <2> QED BY <1>2, <2>2, <2>3, <2>4 DEF Next
<1> QED BY <1>1, <1>2, DebtIsInvariant, PTL DEF Spec, ImplementsAccount, Account!Spec
=============================================================================
