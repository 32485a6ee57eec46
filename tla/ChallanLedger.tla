--------------------------- MODULE ChallanLedger ---------------------------
(***************************************************************************)
(* The fee ledger of one school for one academic year: the Challan and     *)
(* Payment tables and every transaction that writes them.                  *)
(*                                                                         *)
(* Two kinds of process run concurrently against PostgreSQL, at READ       *)
(* COMMITTED:                                                              *)
(*   - requests (payments.service.ts): record a receipt, void a receipt,   *)
(*     cancel a challan.  Each reads without a lock, takes the challan's   *)
(*     row lock (SELECT ... FOR UPDATE), decides on the row it read under  *)
(*     the lock, and commits;                                              *)
(*   - runs (challans.service.ts): a monthly run plans from unlocked reads,*)
(*     carries unpaid older challans forward as arrears, and commits a     *)
(*     whole batch or starts over; an installment run bills the roster's   *)
(*     installments, carries nothing and does not retry.                   *)
(*                                                                         *)
(* A challan is identified by its student and its period: the unique index *)
(* [studentId, academicYearId, periodYear, periodMonth] covers every row   *)
(* ever written, cancelled rows included, and no code path deletes one.    *)
(***************************************************************************)
EXTENDS Money

CONSTANTS
    Student,        \* students billed by month or by installment
    Periods,        \* months 1..Periods of the year
    Payment,        \* identifiers for Payment rows
    Request,        \* concurrent payments.service calls
    Run,            \* concurrent generation runs
    Kind,           \* how the school bills: "monthly", "installment" or both
    Charge,         \* what a month may charge a student, after discount
    Amount,         \* amounts a receipt may be for
    MaxAttempts,    \* MAX_GENERATE_ATTEMPTS
    NoChallan,      \* a Payment row that has not been written
    Free            \* a row lock nobody holds

Challan == Student \X (1..Periods)
StudentOf(c) == c[1]
PeriodOf(c) == c[2]

ASSUME LedgerAssumption ==
    /\ IsFiniteSet(Student) /\ IsFiniteSet(Payment)
    /\ Periods \in Nat
    /\ Kind \subseteq {"monthly", "installment"}
    /\ MaxAttempts \in Nat \ {0}
    /\ Charge \subseteq Nat
    /\ Amount \subseteq Nat \ {0}
    /\ NoChallan \notin Challan
    /\ Free \notin Request

VARIABLES
    status,         \* Challan.status, "ABSENT" before the row exists
    netAmount,      \* Challan.netAmount
    paidAmount,     \* Challan.paidAmount, the denormalised sum of receipts
    charges,        \* the challan's own lines: netAmount without the arrears line
    challanNo,      \* the sequential part of Challan.challanNo, 0 before it exists
    carriedTo,      \* the number in cancelReason "Carried forward to <no>", else 0
    receipt,        \* the Payment table
    lock,           \* who holds each challan's row lock
    req,            \* the requests in flight
    run             \* the generation runs in flight

rows == <<status, netAmount, paidAmount, charges, challanNo, carriedTo>>
vars == <<status, netAmount, paidAmount, charges, challanNo, carriedTo,
          receipt, lock, req, run>>

-----------------------------------------------------------------------------
Status == {"ABSENT", "UNPAID", "PARTIALLY_PAID", "PAID", "CANCELLED"}

Receipt == [of : Challan \cup {NoChallan}, amount : Nat, voided : BOOLEAN]
Seen    == [status : Status, netAmount : Nat, paidAmount : Nat]
Call    == [pc : {"idle", "called", "locked", "decided"},
            op : {"record", "void", "cancel"},
            challan : Challan \cup {NoChallan},
            payment : Payment \cup {NoChallan},
            amount : Nat,
            seen : Seen,
            total : Nat]
Job     == [pc : {"idle", "plan", "planned", "numbered"},
            kind : {"monthly", "installment"},
            period : 1..Periods \cup {0},
            roster : SUBSET Student,
            bill : SUBSET Student,
            fee : [Student -> Nat],
            carry : SUBSET Challan,
            arrears : [Student -> Nat],
            base : Nat,
            attempt : 1..MaxAttempts]

Issued == {c \in Challan : status[c] # "ABSENT"}
Recorded == {p \in Payment : receipt[p].of # NoChallan}

\* The receipts of c that are not voided, in the Payment table t, and
\* SELECT SUM(amount) over them.
LiveIn(t, c) == {p \in Payment : t[p].of = c /\ ~t[p].voided}
SumIn(t, c) == Total(LiveIn(t, c), [p \in Payment |-> t[p].amount])

LiveReceipts(c) == LiveIn(receipt, c)
LiveSum(c) == SumIn(receipt, c)

\* The challans whose cancelReason names c as the bill that carries them.
CarriedBy(c) ==
    {d \in Challan : /\ StudentOf(d) = StudentOf(c)
                     /\ status[d] = "CANCELLED"
                     /\ carriedTo[d] = challanNo[c]}

-----------------------------------------------------------------------------
\* Initial state: no challan issued, no receipt, nobody connected.

NotSeen == [status |-> "ABSENT", netAmount |-> 0, paidAmount |-> 0]

CallWith(pc, op, challan, payment, amount) ==
    [pc |-> pc, op |-> op, challan |-> challan, payment |-> payment,
     amount |-> amount, seen |-> NotSeen, total |-> 0]

Idle == CallWith("idle", "record", NoChallan, NoChallan, 0)

NoMoney == [s \in Student |-> 0]

JobWith(pc, kind, period, roster, attempt) ==
    [pc |-> pc, kind |-> kind, period |-> period, roster |-> roster,
     bill |-> {}, fee |-> NoMoney, carry |-> {}, arrears |-> NoMoney,
     base |-> 0, attempt |-> attempt]

NoJob == JobWith("idle", "monthly", 0, {}, 1)

Init ==
    /\ status = [c \in Challan |-> "ABSENT"]
    /\ netAmount = [c \in Challan |-> 0]
    /\ paidAmount = [c \in Challan |-> 0]
    /\ charges = [c \in Challan |-> 0]
    /\ challanNo = [c \in Challan |-> 0]
    /\ carriedTo = [c \in Challan |-> 0]
    /\ receipt = [p \in Payment |->
                    [of |-> NoChallan, amount |-> 0, voided |-> FALSE]]
    /\ lock = [c \in Challan |-> Free]
    /\ req = [r \in Request |-> Idle]
    /\ run = [g \in Run |-> NoJob]

-----------------------------------------------------------------------------
(* Requests: payments.service.ts *)

Claimed == {req[r].payment : r \in Request}

\* getChallanForWrite: the challan exists.  A new Payment row gets an unused id.
CallRecord(r, c, p, a) ==
    /\ req[r].pc = "idle"
    /\ c \in Issued
    /\ p \notin Recorded /\ p \notin Claimed
    /\ req' = [req EXCEPT ![r] = CallWith("called", "record", c, p, a)]
    /\ UNCHANGED <<rows, receipt, lock, run>>

\* The unlocked pre-check: the payment exists and is not voided yet.
CallVoid(r, p) ==
    /\ req[r].pc = "idle"
    /\ p \in Recorded /\ ~receipt[p].voided
    /\ req' = [req EXCEPT ![r] = CallWith("called", "void", receipt[p].of, p, 0)]
    /\ UNCHANGED <<rows, receipt, lock, run>>

CallCancel(r, c) ==
    /\ req[r].pc = "idle"
    /\ c \in Issued
    /\ req' = [req EXCEPT ![r] = CallWith("called", "cancel", c, NoChallan, 0)]
    /\ UNCHANGED <<rows, receipt, lock, run>>

\* Mutant of LockChallan: a plain SELECT, which waits for nobody.
LockChallanUnlocked(r) ==
    LET c == req[r].challan IN
    /\ req[r].pc = "called"
    /\ lock' = [lock EXCEPT ![c] = r]
    /\ req' = [req EXCEPT ![r].pc = "locked",
            ![r].seen = [status |-> status[c], netAmount |-> netAmount[c],
                         paidAmount |-> paidAmount[c]]]
    /\ UNCHANGED <<rows, receipt, run>>

\* lockChallan: SELECT ... FOR UPDATE, and the row as it is under the lock.
LockChallan(r) ==
    LET c == req[r].challan IN
    /\ req[r].pc = "called"
    /\ lock[c] = Free
    /\ lock' = [lock EXCEPT ![c] = r]
    /\ req' = [req EXCEPT ![r].pc = "locked",
            ![r].seen = [status |-> status[c], netAmount |-> netAmount[c],
                         paidAmount |-> paidAmount[c]]]
    /\ UNCHANGED <<rows, receipt, run>>

\* The transaction ends: the row lock goes and the caller has its answer.
Respond(r) ==
    /\ lock' = [lock EXCEPT ![req[r].challan] = Free]
    /\ req' = [req EXCEPT ![r] = Idle]

\* Mutant of MayRecord: the cancelled status is not looked at.
MayRecordCancelled(r) ==
    req[r].amount <= RemainingBalance(req[r].seen.netAmount,
                                     req[r].seen.paidAmount)

\* Under the lock, the balance decides whether the receipt fits.
MayRecord(r) ==
    /\ req[r].seen.status # "CANCELLED"
    /\ req[r].amount <= RemainingBalance(req[r].seen.netAmount,
                                         req[r].seen.paidAmount)

\* updateMany ... WHERE voidedAt IS NULL decides between two voids.
MayVoid(r) == ~receipt[req[r].payment].voided

\* Live receipts would be stranded: they must be voided first.
MayCancel(r) ==
    /\ req[r].seen.status # "CANCELLED"
    /\ LiveReceipts(req[r].challan) = {}

MayProceed(r) == CASE req[r].op = "record" -> MayRecord(r)
                   [] req[r].op = "void"   -> MayVoid(r)
                   [] req[r].op = "cancel" -> MayCancel(r)

\* Mutant of Written: voiding deletes the row instead of marking it.
WrittenDeleting(r) ==
    CASE req[r].op = "record" ->
            [receipt EXCEPT ![req[r].payment] = [of |-> req[r].challan,
                                    amount |-> req[r].amount, voided |-> FALSE]]
      [] req[r].op = "void" -> [receipt EXCEPT ![req[r].payment] =
                        [of |-> NoChallan, amount |-> 0, voided |-> FALSE]]
      [] req[r].op = "cancel" -> receipt

\* The Payment table as this transaction sees it: what is committed, and its
\* own insert or tombstone.
Written(r) ==
    CASE req[r].op = "record" ->
            [receipt EXCEPT ![req[r].payment] = [of |-> req[r].challan,
                                    amount |-> req[r].amount, voided |-> FALSE]]
      [] req[r].op = "void" -> [receipt EXCEPT ![req[r].payment].voided = TRUE]
      [] req[r].op = "cancel" -> receipt

\* The check, the write to Payment and the re-sum of resettle, all before the
\* commit: nobody else sees them yet.
Decide(r) ==
    /\ req[r].pc = "locked"
    /\ MayProceed(r)
    /\ req' = [req EXCEPT ![r].pc = "decided",
                          ![r].total = SumIn(Written(r), req[r].challan)]
    /\ UNCHANGED <<rows, receipt, lock, run>>

\* Mutant of Refuse: the error leaves the transaction and its lock open.
RefuseHoldingLock(r) ==
    /\ req[r].pc = "locked"
    /\ ~MayProceed(r)
    /\ req' = [req EXCEPT ![r] = Idle]
    /\ UNCHANGED <<rows, receipt, lock, run>>

\* BadRequestException: the transaction rolls back.
Refuse(r) ==
    /\ req[r].pc = "locked"
    /\ ~MayProceed(r)
    /\ Respond(r)
    /\ UNCHANGED <<rows, receipt, run>>

\* Mutant of Resettle: the total is stored and the status is left as it was.
ResettleAmount(r) ==
    /\ paidAmount' = [paidAmount EXCEPT ![req[r].challan] = req[r].total]
    /\ UNCHANGED status

\* resettle: paidAmount is the re-summed ledger, never an increment, and the
\* status follows from it and the net amount read under the lock.
Resettle(r) ==
    LET c == req[r].challan IN
    /\ paidAmount' = [paidAmount EXCEPT ![c] = req[r].total]
    /\ status' = [status EXCEPT ![c] =
            ResolveChallanStatus(req[r].total, req[r].seen.netAmount)]

CommitRecord(r) ==
    /\ req[r].pc = "decided" /\ req[r].op = "record"
    /\ receipt' = Written(r)
    /\ Resettle(r)
    /\ Respond(r)
    /\ UNCHANGED <<netAmount, charges, challanNo, carriedTo, run>>

CommitVoid(r) ==
    /\ req[r].pc = "decided" /\ req[r].op = "void"
    /\ receipt' = Written(r)
    /\ Resettle(r)
    /\ Respond(r)
    /\ UNCHANGED <<netAmount, charges, challanNo, carriedTo, run>>

\* Mutant of CommitCancel: what the challan carried stays cancelled.
CommitCancelForgetting(r) ==
    /\ req[r].pc = "decided" /\ req[r].op = "cancel"
    /\ status' = [status EXCEPT ![req[r].challan] = "CANCELLED"]
    /\ carriedTo' = [carriedTo EXCEPT ![req[r].challan] = 0]
    /\ Respond(r)
    /\ UNCHANGED <<netAmount, paidAmount, charges, challanNo, receipt, run>>

\* The challan is cancelled and the challans it carried are owed again: one
\* updateMany over rows whose locks it has to wait for.
CommitCancel(r) ==
    LET c == req[r].challan
        carried == CarriedBy(c) IN
    /\ req[r].pc = "decided" /\ req[r].op = "cancel"
    /\ \A d \in carried : lock[d] = Free
    /\ status' = [d \in Challan |-> CASE d = c -> "CANCELLED"
                                      [] d # c /\ d \in carried -> "UNPAID"
                                      [] d # c /\ d \notin carried -> status[d]]
    /\ carriedTo' = [d \in Challan |-> IF d \in {c} \cup carried THEN 0
                                      ELSE carriedTo[d]]
    /\ Respond(r)
    /\ UNCHANGED <<netAmount, paidAmount, charges, challanNo, receipt, run>>

\* The process dies, the connection drops or the transaction times out: the
\* database rolls back and the row lock goes.
FailRequest(r) ==
    /\ req[r].pc # "idle"
    /\ lock' = [c \in Challan |-> IF lock[c] = r THEN Free ELSE lock[c]]
    /\ req' = [req EXCEPT ![r] = Idle]
    /\ UNCHANGED <<rows, receipt, run>>

-----------------------------------------------------------------------------
(* Generation runs: challans.service.ts *)

\* generate / createSingle: the roster is a class, a section or one student.
StartRun(g, kind, period, roster) ==
    /\ run[g].pc = "idle"
    /\ roster # {}
    /\ run' = [run EXCEPT ![g] = JobWith("plan", kind, period, roster, 1)]
    /\ UNCHANGED <<rows, receipt, lock, req>>

\* The challans a run for this period may fold in: earlier ones, wholly unpaid.
Arrears(s, period) ==
    {c \in Challan : /\ StudentOf(c) = s /\ PeriodOf(c) < period
                     /\ status[c] = "UNPAID" /\ paidAmount[c] = 0
                     /\ RemainingBalance(netAmount[c], paidAmount[c]) > 0}

\* Those of the roster with no challan for the period; a cancelled one counts.
Unbilled(g) == {s \in run[g].roster : <<s, run[g].period>> \notin Issued}

\* Everybody is billed already, blocked for want of a fee, or billed the other
\* way (a student on a plan by installment, any other by month).
NothingToBill(g) ==
    /\ run[g].pc = "plan"
    /\ run' = [run EXCEPT ![g] = NoJob]
    /\ UNCHANGED <<rows, receipt, lock, req>>

\* The plan: whom the run bills, for how much, and what each bill absorbs.
Plan(g, bill, fee, carry) ==
    /\ run[g].pc = "plan"
    /\ bill # {}
    /\ \A s \in Student \ bill : fee[s] = 0
    /\ \A s \in bill : fee[s] \in Charge
    /\ run' = [run EXCEPT ![g].pc = "planned", ![g].bill = bill, ![g].fee = fee,
            ![g].carry = UNION {carry[s] : s \in Student},
            ![g].arrears = [s \in Student |-> Total(carry[s], netAmount)]]
    /\ UNCHANGED <<rows, receipt, lock, req>>

\* buildPlan: the new challan of each student absorbs that student's arrears.
BuildPlan(g, bill, fee) ==
    /\ run[g].kind = "monthly"
    /\ bill \subseteq Unbilled(g)
    /\ Plan(g, bill, fee, [s \in Student |->
            IF s \in bill THEN Arrears(s, run[g].period) ELSE {}])

\* buildInstallmentBatch: the installment's own amount, at least one unit, and
\* nothing else.
BuildInstallmentBatch(g, bill, fee) ==
    /\ run[g].kind = "installment"
    /\ bill \subseteq Unbilled(g)
    /\ \A s \in bill : fee[s] > 0
    /\ Plan(g, bill, fee, [s \in Student |-> {}])

HighestNo(n) == /\ n \in {0} \cup {challanNo[c] : c \in Issued}
                /\ \A c \in Issued : challanNo[c] <= n

TakeNumber(g, n) ==
    /\ run[g].pc = "planned"
    /\ run' = [run EXCEPT ![g].pc = "numbered", ![g].base = n]
    /\ UNCHANGED <<rows, receipt, lock, req>>

\* A monthly run counts on from the highest number ever issued.
ReadHighestNo(g, n) == run[g].kind = "monthly" /\ HighestNo(n) /\ TakeNumber(g, n)

\* An installment run counts on from the number of rows.
CountChallans(g) ==
    run[g].kind = "installment" /\ TakeNumber(g, Cardinality(Issued))

Batch(g) == {<<s, run[g].period>> : s \in run[g].bill}
BatchNos(g) == (run[g].base + 1)..(run[g].base + Cardinality(run[g].bill))

\* Mutant of Collides: no unique index on the number.
CollidesOnPeriod(g) == Batch(g) \cap Issued # {}

\* A unique index refuses the batch: P2002 on the period or on the number.
Collides(g) == \/ Batch(g) \cap Issued # {}
               \/ \E c \in Issued : challanNo[c] \in BatchNos(g)

\* updateMany re-asserts the precondition on the rows as they are now, and the
\* run compares the number of rows it changed with the number it planned.
Superseded(g) ==
    {c \in run[g].carry : status[c] = "UNPAID" /\ paidAmount[c] = 0}

\* Mutant of StaleArrears: the count of updated rows is not compared.
StaleArrearsIgnored(g) == FALSE

StaleArrears(g) == Superseded(g) # run[g].carry

\* The batch commits as a whole: every challan with its number, and every
\* challan folded into one is cancelled in the same transaction.
CommitRun(g, no) ==
    LET job == run[g]
        new == Batch(g) IN
    /\ job.pc = "numbered"
    /\ ~Collides(g)
    /\ \A c \in job.carry : lock[c] = Free
    /\ ~StaleArrears(g)
    /\ {no[s] : s \in job.bill} = BatchNos(g)
    /\ netAmount' = [c \in Challan |->
            IF c \in new THEN job.fee[StudentOf(c)] + job.arrears[StudentOf(c)]
            ELSE netAmount[c]]
    /\ charges' = [c \in Challan |->
            IF c \in new THEN job.fee[StudentOf(c)] ELSE charges[c]]
    /\ challanNo' = [c \in Challan |->
            IF c \in new THEN no[StudentOf(c)] ELSE challanNo[c]]
    /\ status' = [c \in Challan |->
            IF c \in new THEN ResolveChallanStatus(0, netAmount'[c])
            ELSE IF c \in Superseded(g) THEN "CANCELLED"
            ELSE status[c]]
    /\ carriedTo' = [c \in Challan |->
            IF c \in Superseded(g) THEN no[StudentOf(c)] ELSE carriedTo[c]]
    /\ run' = [run EXCEPT ![g] = NoJob]
    /\ UNCHANGED <<paidAmount, receipt, lock, req>>

\* Mutant of StartOver: the attempts are not counted.
StartOverUncounted(g) ==
    /\ run' = [run EXCEPT ![g] =
            IF run[g].kind = "monthly"
            THEN JobWith("plan", "monthly", run[g].period, run[g].roster,
                         run[g].attempt)
            ELSE NoJob]
    /\ UNCHANGED <<rows, receipt, lock, req>>

\* Rolled back.  A monthly run starts over with a new plan up to MaxAttempts
\* times; an installment run reports the collision at once.
StartOver(g) ==
    /\ run' = [run EXCEPT ![g] =
            IF run[g].kind = "monthly" /\ run[g].attempt < MaxAttempts
            THEN JobWith("plan", "monthly", run[g].period, run[g].roster,
                         run[g].attempt + 1)
            ELSE NoJob]
    /\ UNCHANGED <<rows, receipt, lock, req>>

\* P2002, or arrears that moved since the plan was read (StaleArrearsError).
LoseRace(g) ==
    /\ run[g].pc = "numbered"
    /\ \/ Collides(g)
       \/ (\A c \in run[g].carry : lock[c] = Free) /\ StaleArrears(g)
    /\ StartOver(g)

\* P2034: the database breaks a deadlock by aborting a run that waits for a row.
Deadlock(g) ==
    /\ run[g].pc = "numbered"
    /\ \E c \in run[g].carry : lock[c] # Free
    /\ StartOver(g)

FailRun(g) ==
    /\ run[g].pc # "idle"
    /\ run' = [run EXCEPT ![g] = NoJob]
    /\ UNCHANGED <<rows, receipt, lock, req>>

-----------------------------------------------------------------------------
RequestStep(r) ==
    \/ \E c \in Challan, p \in Payment, a \in Amount : CallRecord(r, c, p, a)
    \/ \E p \in Payment : CallVoid(r, p)
    \/ \E c \in Challan : CallCancel(r, c)
    \/ LockChallan(r) \/ Decide(r) \/ Refuse(r)
    \/ CommitRecord(r) \/ CommitVoid(r) \/ CommitCancel(r)
    \/ FailRequest(r)

RunStep(g) ==
    \/ \E kind \in Kind, period \in 1..Periods,
          roster \in SUBSET Student : StartRun(g, kind, period, roster)
    \/ NothingToBill(g)
    \/ \E bill \in SUBSET run[g].roster, fee \in [Student -> Charge \cup {0}] :
          BuildPlan(g, bill, fee) \/ BuildInstallmentBatch(g, bill, fee)
    \/ \E n \in 0..Cardinality(Challan) : ReadHighestNo(g, n)
    \/ CountChallans(g)
    \/ \E no \in [run[g].bill -> BatchNos(g)] : CommitRun(g, no)
    \/ LoseRace(g) \/ Deadlock(g)
    \/ FailRun(g)

Next == \/ \E r \in Request : RequestStep(r)
        \/ \E g \in Run : RunStep(g)

Spec == Init /\ [][Next]_vars

\* A handler that has started goes on.  Waiting for a row lock is strongly
\* fair because PostgreSQL queues waiters in order and every holder commits,
\* refuses or rolls back.  No call and no run is ever obliged to start.
Finish(r) == Decide(r) \/ Refuse(r)
             \/ CommitRecord(r) \/ CommitVoid(r) \/ CommitCancel(r)
EndRun(g) == \/ \E no \in [run[g].bill -> BatchNos(g)] : CommitRun(g, no)
             \/ LoseRace(g)
Prepare(g) ==
    \/ NothingToBill(g)
    \/ \E bill \in SUBSET run[g].roster, fee \in [Student -> Charge \cup {0}] :
          BuildPlan(g, bill, fee) \/ BuildInstallmentBatch(g, bill, fee)
    \/ \E n \in 0..Cardinality(Challan) : ReadHighestNo(g, n)
    \/ CountChallans(g)

Fairness ==
    /\ \A r \in Request : SF_vars(LockChallan(r)) /\ SF_vars(Finish(r))
    /\ \A g \in Run : WF_vars(Prepare(g)) /\ SF_vars(EndRun(g))

FairSpec == Spec /\ Fairness

-----------------------------------------------------------------------------
(* Properties *)

\* Every variable has its type, and so has every row the handlers read.
TypeOK ==
    /\ status \in [Challan -> Status]
    /\ netAmount \in [Challan -> Nat]
    /\ paidAmount \in [Challan -> Nat]
    /\ charges \in [Challan -> Nat]
    /\ challanNo \in [Challan -> Nat]
    /\ carriedTo \in [Challan -> Nat]
    /\ receipt \in [Payment -> Receipt]
    /\ lock \in [Challan -> Request \cup {Free}]
    /\ req \in [Request -> Call]
    /\ run \in [Run -> Job]

\* The denormalised total is the sum of the receipts that still stand, whatever
\* recorded, voided and cancelled in between (payments.service.ts, resettle).
PaidIsReceiptSum ==
    \A c \in Challan : paidAmount[c] = LiveSum(c)

\* Two receipts that each fit the balance cannot together overpay
\* (payments.service.ts, record: checked under the row lock).
NeverOverpaid ==
    \A c \in Issued : LiveSum(c) <= netAmount[c]

\* A cancelled challan holds no live receipt: neither a cancel nor a carry
\* forward strands money the school received.
CancelledHasNoMoney ==
    \A c \in Challan : status[c] = "CANCELLED" => LiveReceipts(c) = {}

\* The stored status is the one the ledger implies, also for a challan that was
\* carried forward and reopened.
StatusMatchesLedger ==
    \A c \in Issued : status[c] # "CANCELLED" =>
        status[c] = ResolveChallanStatus(LiveSum(c), netAmount[c])

\* Not written off: still open, or folded into another bill.
Standing(c) == c \in Issued /\ (status[c] # "CANCELLED" \/ carriedTo[c] # 0)

\* A challan carried forward is always borne by exactly one later challan of
\* the same student that has itself not been written off: cancelling the bearer
\* gives the debt back instead of erasing it (cancelChallan).
CarriedDebtHasBearer ==
    \A c \in Challan : carriedTo[c] # 0 =>
        /\ status[c] = "CANCELLED"
        /\ \E d \in Challan :
            /\ challanNo[d] = carriedTo[c] /\ Standing(d)
            /\ StudentOf(d) = StudentOf(c) /\ PeriodOf(c) < PeriodOf(d)
            /\ \A e \in Issued : challanNo[e] = challanNo[d] => e = d

\* What a student is asked for is what they were charged: over the open
\* challans the net amounts add up to the charges of every challan that was not
\* written off, so no month is lost and none is billed twice.
DebtConserved ==
    \A s \in Student :
        Total({c \in Issued : StudentOf(c) = s /\ status[c] # "CANCELLED"}, netAmount)
        = Total({c \in Challan : StudentOf(c) = s /\ Standing(c)}, charges)

\* Challan numbers are 1..n without a gap, which is what lets an installment
\* run count rows where a monthly run reads the highest number.
NumbersContiguous ==
    {challanNo[c] : c \in Issued} = 1..Cardinality(Issued)

\* A receipt is never rewritten: once recorded it keeps its challan and amount,
\* and a voided one stays voided.
ReceiptsAppendOnly ==
    [][\A p \in Recorded :
        /\ receipt'[p].of = receipt[p].of
        /\ receipt'[p].amount = receipt[p].amount
        /\ receipt[p].voided => receipt'[p].voided]_vars

\* A cancelled challan comes back only in the step that cancels the bill that
\* carried it; one an administrator cancelled never does.
ReopenedOnlyWithBearer ==
    [][\A c \in Challan :
        status[c] = "CANCELLED" /\ status'[c] # "CANCELLED" =>
            \E d \in Issued : /\ challanNo[d] = carriedTo[c]
                             /\ status[d] # "CANCELLED" /\ status'[d] = "CANCELLED"
                             /\ carriedTo'[d] = 0]_vars

\* The account the ledger implements: a challan folded into another is part of
\* the one its cancelReason names, and stored totals and statuses are gone.
AccountState == [c \in Challan |->
    CASE status[c] = "ABSENT" -> "none"
      [] status[c] = "CANCELLED" /\ carriedTo[c] = 0 -> "written off"
      [] status[c] = "CANCELLED" /\ carriedTo[c] # 0 -> "absorbed"
      [] OTHER -> "open"]

AccountInto == [c \in Challan |->
    IF carriedTo[c] = 0 THEN NoChallan
    ELSE CHOOSE d \in Challan : challanNo[d] = carriedTo[c]]

Account == INSTANCE FeeAccount WITH
    state <- AccountState, asked <- netAmount,
    into <- AccountInto, receipts <- receipt

\* Seen from outside, each transaction happens at once: with locks, unlocked
\* reads, retries and failures the ledger still is the account of FeeAccount.
ImplementsAccount == Account!Spec

\* Every request gets its answer: no row lock is held for ever and no two
\* transactions wait for each other.
EveryCallAnswered ==
    \A r \in Request : req[r].pc # "idle" ~> req[r].pc = "idle"

\* Every generation run returns, after at most MaxAttempts plans.
EveryRunReturns ==
    \A g \in Run : run[g].pc # "idle" ~> run[g].pc = "idle"

\* Arrears are followed to one bearer that still owes them, and none are lost or
\* charged twice, whatever is cancelled, reopened or paid (commitPlan, cancel).
ArrearsFollowed == CarriedDebtHasBearer /\ DebtConserved

-----------------------------------------------------------------------------
(* Why the safety properties hold: what each transaction knows at each of  *)
(* its steps, and what every row satisfies in between.  None of the        *)
(* properties above is inductive by itself; LedgerInvariant is, and        *)
(* implies them.  TLC checks it on small instances and ChallanLedgerProofs *)
(* proves it for all of them.                                              *)

\* A row is written only under its lock, so a transaction that holds the lock
\* of its challan is the only one at that row.
HoldsLock(r) == req[r].pc \in {"locked", "decided"}

\* Only issued challans have receipts, every receipt is for something, and a
\* challan that was carried forward was owed when it was.
BooksInOrder ==
    /\ \A p \in Payment : receipt[p].of # NoChallan =>
            receipt[p].of \in Issued /\ receipt[p].amount > 0
    /\ \A c \in Challan : status[c] = "ABSENT" => paidAmount[c] = 0
    /\ \A c \in Issued : challanNo[c] > 0
    /\ \A c \in Challan : carriedTo[c] # 0 =>
            status[c] = "CANCELLED" /\ netAmount[c] > 0

\* A call is about an issued challan; two calls never write one Payment row.
CallsInOrder ==
    \A r \in Request : req[r].pc # "idle" =>
        /\ req[r].challan \in Issued
        /\ req[r].op = "record" =>
            /\ req[r].payment \in Payment /\ req[r].amount \in Amount
            /\ receipt[req[r].payment].of = NoChallan
            /\ \A s \in Request \ {r} :
                 req[s].pc # "idle" /\ req[s].op = "record" =>
                    req[s].payment # req[r].payment
        /\ req[r].op = "void" =>
            /\ req[r].payment \in Payment
            /\ receipt[req[r].payment].of = req[r].challan

LocksInOrder ==
    /\ \A r \in Request : HoldsLock(r) => lock[req[r].challan] = r
    /\ \A r \in Request, c \in Challan :
            lock[c] = r => HoldsLock(r) /\ req[r].challan = c

\* What was read under the lock is still the row, and what was decided on it
\* still holds when it is written.
ReadsStand ==
    \A r \in Request :
        LET c == req[r].challan IN
        /\ HoldsLock(r) =>
            req[r].seen = [status |-> status[c], netAmount |-> netAmount[c],
                           paidAmount |-> paidAmount[c]]
        /\ req[r].pc = "decided" =>
            MayProceed(r) /\ req[r].total = SumIn(Written(r), c)

\* A run carries forward only challans of students it bills, of periods before
\* the one it bills, and bills nobody who is not on its roster.
JobsInOrder ==
    \A g \in Run : run[g].pc # "idle" =>
        /\ run[g].period \in 1..Periods
        /\ run[g].pc = "plan" => run[g].carry = {}
        /\ \A c \in run[g].carry :
            StudentOf(c) \in run[g].bill /\ PeriodOf(c) < run[g].period

LedgerInvariant ==
    /\ TypeOK
    /\ PaidIsReceiptSum /\ NeverOverpaid
    /\ CancelledHasNoMoney /\ StatusMatchesLedger
    /\ BooksInOrder /\ CallsInOrder /\ LocksInOrder
    /\ ReadsStand /\ JobsInOrder

\* The part of a run's plan that will be written: somebody is billed, for a charge
\* and for what the carried challans asked for, and counting starts no higher than
\* the last number that was given.
PlansInOrder ==
    \A g \in Run : run[g].pc \in {"planned", "numbered"} =>
        /\ run[g].bill # {} /\ run[g].carry \subseteq Issued
        /\ \A s \in run[g].bill : run[g].fee[s] \in Charge
        /\ \A s \in Student : run[g].arrears[s] =
                Total({c \in run[g].carry : StudentOf(c) = s}, netAmount)
        /\ run[g].pc = "numbered" => run[g].base <= Cardinality(Issued)

\* A number is given once, and only with the row.
NumbersInOrder ==
    /\ NumbersContiguous
    /\ \A c, d \in Issued : challanNo[c] = challanNo[d] => c = d
    /\ \A c \in Challan \ Issued : challanNo[c] = 0

\* A bill that stands asks for its own charge and for what it carries.
BillsAddUp ==
    \A c \in Challan : Standing(c) =>
        netAmount[c] = charges[c] + Total(CarriedBy(c), netAmount)

DebtInvariant ==
    /\ LedgerInvariant /\ PlansInOrder
    /\ NumbersInOrder /\ CarriedDebtHasBearer
    /\ BillsAddUp /\ DebtConserved
=============================================================================
