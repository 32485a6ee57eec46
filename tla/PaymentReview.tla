--------------------------- MODULE PaymentReview ---------------------------
(***************************************************************************)
(* Online payment proof (payment-submissions.service.ts): a family submits *)
(* a receipt, administrators verify or reject it, and verifying records a  *)
(* real payment.  A submitted receipt is evidence, not money: the money    *)
(* goes through the same ledger as every other payment.                    *)
(*                                                                         *)
(* The ledger is FeeAccount, which ChallanLedger is shown to implement: a  *)
(* payment, a void, a cancellation and a billing run happen in one step    *)
(* each.  The review itself is not one transaction: verify reads, claims   *)
(* the submission, records the payment and links it in four separate       *)
(* commits, and anything may happen between two of them.                   *)
(***************************************************************************)
EXTENDS Money, Sequences

CONSTANTS
    Student, Periods, Payment, Charge, Amount, NoChallan,   \* as in FeeAccount
    Submission,     \* identifiers for PaymentSubmission rows
    Reviewer,       \* concurrent verify and reject calls
    Plan,           \* the amounts of each student's active plan, <<>> for none
    IssuedFor,      \* the installment a challan was issued for, 0 for a month's
    DueOrder,       \* a challan's place by due date, then number
    Faults,         \* what may go wrong: members of FaultKinds
    NoPayment,      \* a submission that links no payment
    NoSubmission    \* a payment taken over the counter

Challan == Student \X (1..Periods)

\* The process dies; the recording transaction fails; the update that gives a
\* claim back fails; a commit succeeds and its answer is lost.
FaultKinds == {"crash", "record", "release", "lost ack"}

ReviewAssumption ==
    /\ IsFiniteSet(Payment) /\ IsFiniteSet(Student)
    /\ Periods \in Nat
    /\ Charge \subseteq Nat /\ Amount \subseteq Nat \ {0}
    /\ Plan \in [Student -> Seq(Nat \ {0})]
    /\ IssuedFor \in [Challan -> Nat] /\ DueOrder \in [Challan -> Nat]
    /\ Faults \subseteq FaultKinds
    /\ NoChallan \notin Challan
    /\ NoPayment \notin Payment
    /\ NoSubmission \notin Submission

VARIABLES
    state, asked, into, receipts,   \* the fee account
    submission,     \* the PaymentSubmission table
    review,         \* what each call in flight is doing
    evidence        \* history: the submission each payment was recorded for

ledger == <<state, asked, into, receipts>>
vars == <<state, asked, into, receipts, submission, review, evidence>>

Ledger == INSTANCE FeeAccount

Row == [status : {"NONE", "UPLOADING", "PENDING_VERIFICATION", "VERIFIED", "REJECTED"},
        challan : Challan \cup {NoChallan},
        installment : Nat,          \* installmentId as its seq, 0 when null
        amount : Nat,
        paymentId : Payment \cup {NoPayment}]

Review == [pc : {"idle", "loaded", "checked", "claimed", "failed", "recorded"},
           of : Submission \cup {NoSubmission},
           payment : Payment \cup {NoPayment}]

NoRow == [status |-> "NONE", challan |-> NoChallan, installment |-> 0,
          amount |-> 0, paymentId |-> NoPayment]
Rest == [pc |-> "idle", of |-> NoSubmission, payment |-> NoPayment]

Init ==
    /\ Ledger!Init
    /\ submission = [n \in Submission |-> NoRow]
    /\ review = [v \in Reviewer |-> Rest]
    /\ evidence = [p \in Payment |-> NoSubmission]

-----------------------------------------------------------------------------
(* Installments: what the schedule says is owed, derived on every read. *)

Balance(c) == RemainingBalance(asked[c], Ledger!Received(c))

\* paidPoolFor: live receipts on the student's challans that are not cancelled.
Pool(s) ==
    Total({p \in Payment : /\ receipts[p].of \in Ledger!Open
                           /\ receipts[p].of[1] = s
                           /\ ~receipts[p].voided},
          [p \in Payment |-> receipts[p].amount])

\* allocateInstallments: the pool fills the schedule oldest first.
RemainingOn(s, i) ==
    NonNegative(Plan[s][i] - NonNegative(Pool(s) - Total(1..(i - 1), Plan[s])))

NextDue(s, i) == /\ RemainingOn(s, i) > 0
                 /\ \A j \in 1..(i - 1) : RemainingOn(s, j) = 0

\* resolvePayable: the challan issued for the installment takes the payment, or else the
\* student's unsettled one that is due first.
Unsettled(s) == {c \in Ledger!Open : c[1] = s /\ Balance(c) > 0}
PayableChallan(s, i, c) ==
    LET issued == {d \in Unsettled(s) : IssuedFor[d] = i}
        choice == IF issued # {} THEN issued ELSE Unsettled(s)
    IN  c \in choice /\ \A d \in choice : DueOrder[c] <= DueOrder[d]

\* assertInstallmentRules: a student without a plan names no installment; a
\* student on one names the next one due and fits it and the payable challan.
FitsInstallment(s, i, a) ==
    IF Plan[s] = <<>> THEN i = 0
    ELSE /\ i \in DOMAIN Plan[s] /\ NextDue(s, i)
         /\ a <= RemainingOn(s, i)
         /\ \E c \in Unsettled(s) : PayableChallan(s, i, c) /\ a <= Balance(c)

-----------------------------------------------------------------------------
(* Submitting *)

\* The checks, and the bytes on their way to storage: there is no row yet.
Submit(n, c, i, a) ==
    /\ submission[n].status = "NONE"
    /\ c \in Ledger!Open
    /\ a <= Balance(c)
    /\ FitsInstallment(c[1], i, a)
    /\ submission' = [submission EXCEPT ![n] =
            [NoRow EXCEPT !.status = "UPLOADING", !.challan = c,
                          !.installment = i, !.amount = a]]
    /\ UNCHANGED <<ledger, review, evidence>>

\* The object is stored and the row is written, whatever happened meanwhile.
CreateSubmission(n) ==
    /\ submission[n].status = "UPLOADING"
    /\ submission' = [submission EXCEPT ![n].status = "PENDING_VERIFICATION"]
    /\ UNCHANGED <<ledger, review, evidence>>

\* A failed upload leaves no submission, at worst an object nobody names.
FailUpload(n) ==
    /\ submission[n].status = "UPLOADING"
    /\ submission' = [submission EXCEPT ![n] = NoRow]
    /\ UNCHANGED <<ledger, review, evidence>>

-----------------------------------------------------------------------------
(* Reviewing *)

InTable(n) == submission[n].status \notin {"NONE", "UPLOADING"}

\* verify: load the row and the challan; the balance still fits the claim.
StartVerify(v, n) ==
    /\ review[v].pc = "idle"
    /\ InTable(n)
    /\ submission[n].amount <= Balance(submission[n].challan)
    /\ review' = [review EXCEPT ![v].pc = "loaded", ![v].of = n]
    /\ UNCHANGED <<ledger, submission, evidence>>

\* assertInstallmentStillOwes: a second read, after the first.
InstallmentStillOwes(n) ==
    \/ submission[n].installment = 0
    \/ submission[n].amount <= RemainingOn(submission[n].challan[1],
                                          submission[n].installment)

CheckInstallment(v) ==
    /\ review[v].pc = "loaded"
    /\ review' = [review EXCEPT ![v] =
            IF InstallmentStillOwes(review[v].of)
            THEN [review[v] EXCEPT !.pc = "checked"] ELSE Rest]
    /\ UNCHANGED <<ledger, submission, evidence>>

\* Mutant of Claim: the update does not look at the status.
ClaimAny(v) ==
    /\ review[v].pc = "checked"
    /\ submission' = [submission EXCEPT ![review[v].of].status = "VERIFIED"]
    /\ review' = [review EXCEPT ![v].pc = "claimed"]
    /\ UNCHANGED <<ledger, evidence>>

\* updateMany WHERE status = PENDING_VERIFICATION: one reviewer wins, and every
\* other one is told that the submission has been reviewed.
Claim(v) ==
    LET n == review[v].of IN
    /\ review[v].pc = "checked"
    /\ IF submission[n].status = "PENDING_VERIFICATION"
       THEN /\ submission' = [submission EXCEPT ![n].status = "VERIFIED"]
            /\ review' = [review EXCEPT ![v].pc = "claimed"]
       ELSE /\ review' = [review EXCEPT ![v] = Rest]
            /\ UNCHANGED submission
    /\ UNCHANGED <<ledger, evidence>>

\* payments.record commits; then the caller goes on with the payment, or never
\* learns of the commit and takes it for a failure.
Record(v, p) ==
    LET n == review[v].of IN
    /\ review[v].pc = "claimed"
    /\ Ledger!Receive(p, submission[n].challan, submission[n].amount)
    /\ evidence' = [evidence EXCEPT ![p] = n]
    /\ \/ review' = [review EXCEPT ![v].pc = "recorded", ![v].payment = p]
       \/ /\ "lost ack" \in Faults
          /\ review' = [review EXCEPT ![v].pc = "failed"]
    /\ UNCHANGED submission

\* Mutant of FailRecord: the error is not caught.
FailRecordUncaught(v) ==
    LET n == review[v].of IN
    /\ review[v].pc = "claimed"
    /\ \/ submission[n].challan \notin Ledger!Open
       \/ submission[n].amount > Balance(submission[n].challan)
       \/ "record" \in Faults
    /\ review' = [review EXCEPT ![v] = Rest]
    /\ UNCHANGED <<ledger, submission, evidence>>

\* payments.record throws: the challan was cancelled or its balance has gone,
\* or the transaction failed.
FailRecord(v) ==
    LET n == review[v].of IN
    /\ review[v].pc = "claimed"
    /\ \/ submission[n].challan \notin Ledger!Open
       \/ submission[n].amount > Balance(submission[n].challan)
       \/ "record" \in Faults
    /\ review' = [review EXCEPT ![v].pc = "failed"]
    /\ UNCHANGED <<ledger, submission, evidence>>

\* Mutant of Release: the claim is not given back.
ReleaseNothing(v) ==
    /\ review[v].pc = "failed"
    /\ review' = [review EXCEPT ![v] = Rest]
    /\ UNCHANGED <<ledger, submission, evidence>>

\* The catch block: the submission goes back to the queue, unless that update
\* fails as well.
Release(v) ==
    /\ review[v].pc = "failed"
    /\ \/ submission' = [submission EXCEPT
                ![review[v].of].status = "PENDING_VERIFICATION"]
       \/ "release" \in Faults /\ UNCHANGED submission
    /\ review' = [review EXCEPT ![v] = Rest]
    /\ UNCHANGED <<ledger, evidence>>

\* The link, whose unique index refuses a payment that another row links.
LinkPayment(v) ==
    LET p == review[v].payment IN
    /\ review[v].pc = "recorded"
    /\ submission' = [submission EXCEPT ![review[v].of].paymentId =
            IF \E n \in Submission : submission[n].paymentId = p THEN @ ELSE p]
    /\ review' = [review EXCEPT ![v] = Rest]
    /\ UNCHANGED <<ledger, evidence>>

\* Mutant of Reject: any submission may be rejected.
RejectAny(n) ==
    /\ InTable(n)
    /\ submission' = [submission EXCEPT ![n].status = "REJECTED"]
    /\ UNCHANGED <<ledger, review, evidence>>

\* reject: one conditional update.
Reject(n) ==
    /\ submission[n].status = "PENDING_VERIFICATION"
    /\ submission' = [submission EXCEPT ![n].status = "REJECTED"]
    /\ UNCHANGED <<ledger, review, evidence>>

\* The process dies between two commits of verify.
Crash(v) ==
    /\ "crash" \in Faults
    /\ review[v].pc # "idle"
    /\ review' = [review EXCEPT ![v] = Rest]
    /\ UNCHANGED <<ledger, submission, evidence>>

\* Billing, receipts over the counter, voids and cancellations.
Account == Ledger!Next /\ UNCHANGED <<submission, review, evidence>>

-----------------------------------------------------------------------------
VerifyStep(v) ==
    \/ CheckInstallment(v) \/ Claim(v)
    \/ (\E p \in Payment : Record(v, p)) \/ FailRecord(v) \/ Release(v)
    \/ LinkPayment(v)

Next ==
    \/ \E n \in Submission, c \in Challan, a \in Amount, i \in 0..Periods :
          Submit(n, c, i, a)
    \/ \E n \in Submission : CreateSubmission(n) \/ FailUpload(n) \/ Reject(n)
    \/ \E v \in Reviewer, n \in Submission : StartVerify(v, n)
    \/ \E v \in Reviewer : VerifyStep(v) \/ Crash(v)
    \/ Account

Spec == Init /\ [][Next]_vars

\* A verify that has started runs on, as an awaited handler does.
FairSpec == Spec /\ \A v \in Reviewer : WF_vars(VerifyStep(v))

-----------------------------------------------------------------------------
(* Properties *)

TypeOK ==
    /\ Ledger!TypeOK
    /\ submission \in [Submission -> Row]
    /\ review \in [Reviewer -> Review]
    /\ evidence \in [Payment -> Submission \cup {NoSubmission}]

Made(n) == {p \in Payment : evidence[p] = n}

\* However many administrators verify one receipt at once, it is turned into at
\* most one payment (verify: "Double-verification is blocked twice over").
OnePaymentPerSubmission ==
    \A n \in Submission : \A p, q \in Made(n) : p = q

\* Money comes only from a receipt that stands as verified, never from one that
\* is back in the queue or was rejected, and it is the amount that was claimed,
\* on the challan it was claimed for.
MoneyOnlyFromVerified ==
    \A n \in Submission : \A p \in Made(n) :
        /\ submission[n].status = "VERIFIED"
        /\ receipts[p].of = submission[n].challan
        /\ receipts[p].amount = submission[n].amount

\* What a family is charged online: at most one payment for a receipt, and none for
\* a receipt that does not stand verified.
SubmissionsPaidOnce == TypeOK /\ OnePaymentPerSubmission /\ MoneyOnlyFromVerified

\* The reviewer who has claimed a submission and not finished with it.
Holds(v, n) == review[v].of = n /\ review[v].pc \in {"claimed", "failed"}

\* A verified submission has its payment, or somebody is still working on it
\* (verify's catch block: "rather than stranding a VERIFIED submission with no
\* Payment").
NoneStranded ==
    \A n \in Submission : submission[n].status = "VERIFIED" =>
        Made(n) # {} \/ \E v \in Reviewer : Holds(v, n)

\* A verdict is final, except that a claim no payment came of is given back.
VerdictStep ==
    \A n \in Submission :
        submission[n].status \in {"VERIFIED", "REJECTED"} =>
            \/ submission'[n].status = submission[n].status
            \/ /\ submission[n].status = "VERIFIED" /\ Made(n) = {}
               /\ submission'[n].status = "PENDING_VERIFICATION"
VerdictIsFinal == [][VerdictStep]_vars

\* A receipt is credited only while the installment it names owes that much
\* (assertInstallmentStillOwes: "Without this, two receipts for one installment
\* would both credit").
CreditedOnlyIfOwed ==
    [][\A n \in Submission :
        Made(n) # Made(n)' /\ submission[n].installment # 0 =>
            InstallmentStillOwes(n)]_vars

\* Every claim is settled: a payment, or back in the queue.
EveryClaimSettles ==
    \A n \in Submission :
        submission[n].status = "VERIFIED"
            ~> Made(n) # {} \/ submission[n].status = "PENDING_VERIFICATION"

-----------------------------------------------------------------------------
(* The inductive invariant behind them. *)

\* A row names a challan and an amount from the moment its bytes are on their way.
RowsInOrder ==
    \A n \in Submission : submission[n].status # "NONE" =>
        submission[n].challan \in Challan /\ submission[n].amount \in Amount

\* A call in flight is about a submission it has found in the table, and once it has
\* a payment, that payment was made for the submission.
CallsInOrder ==
    \A v \in Reviewer : review[v].pc # "idle" =>
        /\ review[v].of \in Submission /\ InTable(review[v].of)
        /\ review[v].pc = "recorded" => review[v].payment \in Made(review[v].of)

\* A submission has one holder at a time and stands verified meanwhile.
OneHolder ==
    \A v \in Reviewer, n \in Submission : Holds(v, n) =>
        /\ submission[n].status = "VERIFIED"
        /\ \A w \in Reviewer : Holds(w, n) => w = v

\* What was paid for a submission is the money it claimed, and it links no other.
PaymentsInOrder ==
    \A n \in Submission :
        /\ \A p \in Made(n) : /\ InTable(n)
                               /\ receipts[p].of = submission[n].challan
                               /\ receipts[p].amount = submission[n].amount
        /\ submission[n].paymentId = NoPayment \/ submission[n].paymentId \in Made(n)

\* Holds whatever fails.
ClaimsInOrder == TypeOK /\ RowsInOrder /\ CallsInOrder /\ OneHolder /\ PaymentsInOrder

\* A holder has made no payment yet: while every commit is answered, that is what
\* keeps a receipt from being paid twice.
ReviewInvariant ==
    /\ ClaimsInOrder /\ SubmissionsPaidOnce
    /\ \A v \in Reviewer, n \in Submission : Holds(v, n) => Made(n) = {}
=============================================================================
