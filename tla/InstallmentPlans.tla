-------------------------- MODULE InstallmentPlans --------------------------
(***************************************************************************)
(* One student's installment plan for one academic year, and the challans  *)
(* issued for it (installment-plans.service.ts and the installment half of *)
(* challans.service.ts).                                                   *)
(*                                                                         *)
(* Saving a plan always deletes its rows and creates new ones; a challan   *)
(* points at the row it bills, and the database sets that pointer to null  *)
(* when the row goes.  Saving and billing read first and write in a later  *)
(* transaction, so two administrators at once can each act on what the     *)
(* other has just changed.  Receipts are in ChallanLedger.                 *)
(***************************************************************************)
EXTENDS Money, Sequences

CONSTANTS
    Admin,          \* concurrent calls
    Months,         \* months 1..Months of the year
    Schedules,      \* the schedules a form may send
    MonthlyFee,     \* what a monthly challan charges this student
    MaxRows         \* bound: installment rows ever created

Month == 1..Months

\* validateSchedule: due months run strictly upwards.
ValidSchedule(rows) ==
    \A i, j \in DOMAIN rows : i < j => rows[i].due < rows[j].due

PlanAssumption ==
    /\ Months \in Nat /\ MaxRows \in Nat /\ MonthlyFee \in Nat
    /\ \A rows \in Schedules :
        /\ rows \in Seq([amount : Nat \ {0}, due : Month])
        /\ rows # <<>> /\ ValidSchedule(rows)

VARIABLES
    plan,           \* FeeInstallmentPlan and its FeeInstallment rows
    nextId,         \* row ids handed out so far
    challan,        \* the student's challan of each month
    call,           \* the calls in flight
    overlapped      \* history: two calls have been in flight at once

vars == <<plan, nextId, challan, call, overlapped>>

Entry == [id : Nat, amount : Nat, due : Month]
NoRow == [id |-> 0, amount |-> 0, due |-> 1]

Bill == [status : {"NONE", "ISSUED", "CANCELLED"},
         type : {"NORMAL", "INSTALLMENT"},
         row : Nat,             \* installmentId, 0 when null
         seq : Nat,             \* installmentSeq, a snapshot
         amount : Nat]

NoBill == [status |-> "NONE", type |-> "NORMAL", row |-> 0, seq |-> 0, amount |-> 0]

NoCall == [pc |-> "idle", rows |-> <<>>, active |-> FALSE, existed |-> FALSE,
           changed |-> FALSE, item |-> NoRow, seq |-> 0]

Init ==
    /\ plan = [exists |-> FALSE, active |-> FALSE, rows |-> <<>>]
    /\ nextId = 0
    /\ challan = [m \in Month |-> NoBill]
    /\ call = [a \in Admin |-> NoCall]
    /\ overlapped = FALSE

RowIds == {plan.rows[i].id : i \in DOMAIN plan.rows}
Taken == {m \in Month : challan[m].status # "NONE"}
OnPlan == {m \in Taken : challan[m].type = "INSTALLMENT"}
Standing == {m \in OnPlan : challan[m].status = "ISSUED"}
Linked(id) == \E m \in Taken : challan[m].row = id

InFlight(a) == call[a].pc # "idle"

Start(a, c) ==
    /\ ~InFlight(a)
    /\ call' = [call EXCEPT ![a] = c]
    /\ overlapped' = (overlapped \/ \E b \in Admin : InFlight(b))

Return(a) == call' = [call EXCEPT ![a] = NoCall] /\ UNCHANGED overlapped

-----------------------------------------------------------------------------
(* set: read, check, save *)

\* differs: anything a reader would notice.
Differs(rows, active) ==
    \/ ~plan.exists
    \/ plan.active # active
    \/ Len(plan.rows) # Len(rows)
    \/ \E i \in DOMAIN rows \cap DOMAIN plan.rows :
        plan.rows[i].amount # rows[i].amount \/ plan.rows[i].due # rows[i].due

ReadPlan(a, rows, active) ==
    /\ Start(a, [NoCall EXCEPT
            !.pc = "read", !.rows = rows, !.active = active,
            !.existed = plan.exists, !.changed = Differs(rows, active)])
    /\ UNCHANGED <<plan, nextId, challan>>

\* Mutant of Billed: only the challans that still point at a row.
BilledByLink == {m \in OnPlan : challan[m].row # 0 /\ challan[m].status = "ISSUED"}

\* The challans that forbid a new schedule: every one ever issued on the plan.
Billed == OnPlan

\* A schedule that differs is refused once anything was billed on the plan.
CheckBilled(a) ==
    /\ call[a].pc = "read"
    /\ IF call[a].existed /\ call[a].changed /\ Billed # {}
       THEN Return(a)
       ELSE call' = [call EXCEPT ![a].pc = "checked"] /\ UNCHANGED overlapped
    /\ UNCHANGED <<plan, nextId, challan>>

Numbered(rows) == [i \in DOMAIN rows |->
    [id |-> nextId + i, amount |-> rows[i].amount, due |-> rows[i].due]]

\* The upsert, deleteMany and createMany in one transaction, also when nothing
\* changed; ON DELETE SET NULL clears the pointers of issued challans.
SavePlan(a) ==
    /\ call[a].pc = "checked"
    /\ nextId + Len(call[a].rows) <= MaxRows
    /\ plan' = [exists |-> TRUE, active |-> call[a].active,
                rows |-> Numbered(call[a].rows)]
    /\ nextId' = nextId + Len(call[a].rows)
    /\ challan' = [m \in Month |->
            IF challan[m].row \in RowIds THEN [challan[m] EXCEPT !.row = 0]
            ELSE challan[m]]
    /\ Return(a)

-----------------------------------------------------------------------------
(* generateInstallments: read the batch, write the challan *)

\* buildInstallmentBatch: the installments of an active plan that are not
\* ALREADY_GENERATED, in a month that is not PERIOD_TAKEN.
Billable ==
    {i \in DOMAIN plan.rows : /\ plan.active /\ ~Linked(plan.rows[i].id)
                             /\ plan.rows[i].due \notin Taken}

\* sectionInstallmentOptions counts the student for these...
Eligible == {i \in DOMAIN plan.rows : plan.active /\ ~Linked(plan.rows[i].id)}

\* ...and installmentOptions calls these AVAILABLE: a cancelled challan does not
\* count, nor does it matter whether the plan is active.
Available ==
    {i \in DOMAIN plan.rows : ~\E m \in Standing : challan[m].row = plan.rows[i].id}

ReadBatch(a, seq) ==
    /\ seq \in Billable
    /\ Start(a, [NoCall EXCEPT
            !.pc = "batch", !.item = plan.rows[seq], !.seq = seq])
    /\ UNCHANGED <<plan, nextId, challan>>

\* The foreign key and the two unique indexes (installmentId, period).
Writable(item) == /\ item.id \in RowIds
                  /\ item.due \notin Taken /\ ~Linked(item.id)

\* The challan of one installment, with its position as a snapshot.
IssueInstallment(a) ==
    LET item == call[a].item IN
    /\ call[a].pc = "batch"
    /\ Writable(item)
    /\ challan' = [challan EXCEPT ![item.due] =
            [status |-> "ISSUED", type |-> "INSTALLMENT", row |-> item.id,
             seq |-> call[a].seq, amount |-> item.amount]]
    /\ Return(a)
    /\ UNCHANGED <<plan, nextId>>

\* P2002 or a foreign key error: nothing is written and nothing retried.
RefuseInstallment(a) ==
    /\ call[a].pc = "batch"
    /\ ~Writable(call[a].item)
    /\ Return(a)
    /\ UNCHANGED <<plan, nextId, challan>>

-----------------------------------------------------------------------------
(* generate: the monthly way, for a student who is not on an active plan *)

\* Mutant of ReadRoster: students on a plan stay in the roster.
ReadRosterAll(a, m) ==
    /\ m \notin Taken
    /\ Start(a, [NoCall EXCEPT !.pc = "planned", !.item = [NoRow EXCEPT !.due = m]])
    /\ UNCHANGED <<plan, nextId, challan>>

ReadRoster(a, m) ==
    /\ ~plan.active
    /\ m \notin Taken
    /\ Start(a, [NoCall EXCEPT !.pc = "planned", !.item = [NoRow EXCEPT !.due = m]])
    /\ UNCHANGED <<plan, nextId, challan>>

\* The unique index on the period decides; a run that loses plans again and
\* finds the month billed.
IssueMonthly(a) ==
    LET m == call[a].item.due IN
    /\ call[a].pc = "planned"
    /\ IF m \in Taken THEN UNCHANGED challan
       ELSE challan' = [challan EXCEPT ![m] =
                [NoBill EXCEPT !.status = "ISSUED", !.amount = MonthlyFee]]
    /\ Return(a)
    /\ UNCHANGED <<plan, nextId>>

\* cancelChallan: the row keeps its installment and its plan.
Cancel(m) ==
    /\ challan[m].status = "ISSUED"
    /\ challan' = [challan EXCEPT ![m].status = "CANCELLED"]
    /\ UNCHANGED <<plan, nextId, call, overlapped>>

\* A call dies before its transaction commits.
FailCall(a) ==
    /\ InFlight(a)
    /\ Return(a)
    /\ UNCHANGED <<plan, nextId, challan>>

Next ==
    \/ \E a \in Admin :
        \/ \E rows \in Schedules, active \in BOOLEAN : ReadPlan(a, rows, active)
        \/ CheckBilled(a) \/ SavePlan(a)
        \/ \E seq \in Month : ReadBatch(a, seq)
        \/ IssueInstallment(a) \/ RefuseInstallment(a)
        \/ \E m \in Month : ReadRoster(a, m)
        \/ IssueMonthly(a)
        \/ FailCall(a)
    \/ \E m \in Month : Cancel(m)

Spec == Init /\ [][Next]_vars

-----------------------------------------------------------------------------
(* Properties *)

Call == [pc : {"idle", "read", "checked", "batch", "planned"},
         rows : Schedules \cup {<<>>}, active : BOOLEAN, existed : BOOLEAN,
         changed : BOOLEAN, item : Entry \cup {NoRow}, seq : 0..Months]

TypeOK ==
    /\ plan \in [exists : BOOLEAN, active : BOOLEAN, rows : Seq(Entry)]
    /\ nextId \in 0..MaxRows
    /\ challan \in [Month -> Bill]
    /\ call \in [Admin -> Call]
    /\ overlapped \in BOOLEAN

\* A challan that points at an installment bills exactly that row of the plan as
\* it is now -- its position, its amount and its month -- although the plan is
\* rewritten between the reading of a batch and its commit.
LinkedRowAgrees ==
    \A m \in Taken : challan[m].row # 0 =>
        \E i \in DOMAIN plan.rows :
            /\ plan.rows[i].id = challan[m].row
            /\ challan[m].seq = i
            /\ challan[m].amount = plan.rows[i].amount /\ m = plan.rows[i].due

\* Until two calls overlap, no installment of the plan stands on two bills,
\* although saving the plan unlinks the bills of its rows
\* (buildInstallmentBatch).
BilledOnce ==
    ~overlapped =>
        \A m, k \in Standing : challan[m].seq = challan[k].seq => m = k

\* What a run would bill is what the options count and the form offers, or less
\* (buildInstallmentBatch, sectionInstallmentOptions, installmentOptions).
BillableOffered == Billable \subseteq Eligible /\ Eligible \subseteq Available

\* A bill agrees with the row it points at, although every save of a plan recreates its
\* rows; no installment stands on two bills; and what a run can bill is offered to it.
InstallmentsBilledOnce == LinkedRowAgrees /\ BilledOnce /\ BillableOffered

Shape == [i \in DOMAIN plan.rows |-> <<plan.rows[i].amount, plan.rows[i].due>>]

\* An invoiced schedule is no longer a draft (set: "refusing is right: an
\* invoiced schedule is no longer a draft"): amounts and due dates stay, as long
\* as no save has overlapped a billing.
FrozenStep == ~overlapped /\ OnPlan # {} => Shape' = Shape

\* A student on an active plan is billed by installment, never by month
\* (buildPlan: "billing both would charge them twice for the same year"), as
\* long as no save has overlapped a monthly run.
ByMonthStep == \A m \in Month :
    ~overlapped /\ challan[m].status = "NONE" /\ challan'[m].status = "ISSUED"
        /\ challan'[m].type = "NORMAL" => ~plan.active

\* An issued challan keeps the installment it bills (schema.prisma, Challan:
\* "once a row has been billed, the schedule can no longer be re-shaped
\* underneath it").
BilledRowStep == \A m \in Taken : challan'[m].row = challan[m].row

-----------------------------------------------------------------------------
(* The inductive invariant behind them. *)

\* The rows carry the ids handed out last, in order.
RowsNumbered ==
    /\ Len(plan.rows) <= nextId
    /\ \A i \in DOMAIN plan.rows : plan.rows[i].id = nextId - Len(plan.rows) + i
    /\ ~plan.exists => plan.rows = <<>>

\* A batch holds its row as the plan has it, or a row that is gone for good.
BatchesInOrder ==
    \A a \in Admin : call[a].pc = "batch" =>
        /\ call[a].item.id \in 1..nextId
        /\ call[a].item.id \in RowIds =>
              call[a].seq \in DOMAIN plan.rows /\ call[a].item = plan.rows[call[a].seq]

\* The plan has this schedule.
SameRows(rows) ==
    /\ Len(plan.rows) = Len(rows)
    /\ \A i \in DOMAIN rows : /\ plan.rows[i].amount = rows[i].amount
                              /\ plan.rows[i].due = rows[i].due

\* What the call of a has read is still so.
StillSo(a) ==
    /\ call[a].pc = "read" =>
          /\ call[a].existed = plan.exists
          /\ call[a].changed = Differs(call[a].rows, call[a].active)
    /\ call[a].pc = "checked" => OnPlan = {} \/ SameRows(call[a].rows)
    /\ call[a].pc = "batch" =>
          call[a].seq \in DOMAIN plan.rows /\ call[a].item = plan.rows[call[a].seq]
    /\ call[a].pc = "planned" => ~plan.active

\* Until two calls overlap there is one at a time, it knows what it writes to, and every
\* bill of the plan stands in the month of the installment it was issued for.
Undisturbed ==
    ~overlapped =>
        /\ \A a, b \in Admin : InFlight(a) /\ InFlight(b) => a = b
        /\ \A m \in OnPlan : /\ challan[m].seq \in DOMAIN plan.rows
                            /\ plan.rows[challan[m].seq].due = m
        /\ \A a \in Admin : StillSo(a)

PlanInvariant ==
    TypeOK /\ RowsNumbered /\ LinkedRowAgrees /\ BatchesInOrder /\ Undisturbed
=============================================================================
