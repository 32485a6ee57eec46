------------------------------ MODULE FeeViews ------------------------------
(***************************************************************************)
(* What people are shown of the fee ledger: the admin's list, print run,   *)
(* coverage and badges and the family's pages (challans.service.ts), and   *)
(* the figures of fee-reports.service.ts.  Each screen asks the database   *)
(* its own question; they have to answer alike.                            *)
(*                                                                         *)
(* Underneath, the ledger moves in whole transactions: how its calls and   *)
(* runs cross is ChallanLedger's subject.  One school, one year.           *)
(***************************************************************************)
EXTENDS Money, FiniteSetsExt

CONSTANTS Student, Parent, Class, Section, ClassOf,
          Periods,      \* months of the year
          MaxDay,       \* last day looked at; a challan is issued on a day
          DueIn,        \* days a challan gives to pay
          Charge,       \* what a month charges
          Queries,      \* filters the reports are asked with
          None          \* no challan

VARIABLES bill,         \* [Student \X Period -> challan or None]
          place,        \* each student's section
          links,        \* who is a parent of whom
          day           \* today

vars == <<bill, place, links, day>>

Period == 1..Periods
Slot == Student \X Period
StudentOf(b) == b[1]
PeriodOf(b) == b[2]

Unsettled == {"UNPAID", "PARTIALLY_PAID"}

\* A filter is the set of values it lets through; a window is explained below.
Filter == [classes : SUBSET Class, sections : SUBSET Section, periods : SUBSET Period,
           window : [from : Nat, to : Nat, preset : Nat]]

\* A challan row.
Row == [section : Section, net : Nat, paid : Nat, status : Unsettled \cup {"PAID", "CANCELLED"},
        issued : Nat, due : Nat,
        into : Nat]     \* the month that carries it, which cancelReason names; 0 for none

ViewsAssumption ==
    /\ IsFiniteSet(Student) /\ ClassOf \in [Section -> Class]
    /\ Periods \in Nat /\ DueIn \in Nat /\ Charge \in Nat
    /\ Queries \subseteq Filter
    /\ None \notin Row

Init ==
    /\ bill = [b \in Slot |-> None]
    /\ place \in [Student -> Section]
    /\ links = {}
    /\ day = 1

Issued == {b \in Slot : bill[b] # None}
Standing == {b \in Issued : bill[b].status # "CANCELLED"}
WithStatus(rows, s) == {b \in rows : bill[b].status = s}
Nets(rows) == Total(rows, [b \in rows |-> bill[b].net])
Payments(rows) == Total(rows, [b \in rows |-> bill[b].paid])
Floor(n, m) == IF n > m THEN n - m ELSE 0

-----------------------------------------------------------------------------
(* The ledger *)

StatusFor(net, paid) ==
    CASE paid >= net -> "PAID"
      [] paid < net /\ paid > 0 -> "PARTIALLY_PAID"
      [] paid < net /\ paid = 0 -> "UNPAID"

\* Mutant of Carried: whatever is owed of a part-paid challan is carried too.
CarriedOfUnsettled(s, p) ==
    {b \in Issued : StudentOf(b) = s /\ PeriodOf(b) < p /\ bill[b].status \in Unsettled}

\* Earlier challans that nothing was ever paid on; a part-paid one stays open.
Carried(s, p) ==
    {b \in Issued : /\ StudentOf(b) = s /\ PeriodOf(b) < p
                    /\ bill[b].status = "UNPAID" /\ bill[b].paid = 0}

NewBill(s, p) ==
    LET net == Charge + Nets(Carried(s, p)) - Payments(Carried(s, p)) IN
    [section |-> place[s], net |-> net, paid |-> 0, status |-> StatusFor(net, 0),
     issued |-> day, due |-> day + DueIn, into |-> 0]

\* A monthly run for one section.
Issue(section, p) ==
    LET roster == {s \in Student : place[s] = section /\ bill[s, p] = None}
        carried == UNION {Carried(s, p) : s \in roster} IN
    /\ roster # {}
    /\ bill' = [b \in Slot |->
            IF b \in roster \X {p} THEN NewBill(StudentOf(b), p)
            ELSE IF b \in carried THEN [bill[b] EXCEPT !.status = "CANCELLED", !.into = p]
            ELSE bill[b]]
    /\ UNCHANGED <<place, links, day>>

\* A receipt recorded, or the receipts of a challan voided.
SetPaid(b, paid) ==
    /\ b \in Standing /\ paid \in 0..bill[b].net /\ paid # bill[b].paid
    /\ bill' = [bill EXCEPT ![b].paid = paid,
                            ![b].status = StatusFor(bill[b].net, paid)]
    /\ UNCHANGED <<place, links, day>>

\* What the challan carried is owed again.
CarriedInto(b) ==
    {c \in Issued : StudentOf(c) = StudentOf(b) /\ bill[c].into = PeriodOf(b)}

CancelBill(b) ==
    /\ b \in Standing /\ bill[b].paid = 0
    /\ bill' = [c \in Slot |->
            IF c \in CarriedInto(b) THEN [bill[c] EXCEPT !.status = "UNPAID", !.into = 0]
            ELSE IF c = b THEN [bill[c] EXCEPT !.status = "CANCELLED"]
            ELSE bill[c]]
    /\ UNCHANGED <<place, links, day>>

Move(s, section) ==
    /\ place' = [place EXCEPT ![s] = section]
    /\ UNCHANGED <<bill, links, day>>

Relink(parent, s) ==
    /\ links' = IF <<parent, s>> \in links THEN links \ {<<parent, s>>}
                ELSE links \cup {<<parent, s>>}
    /\ UNCHANGED <<bill, place, day>>

NextDay == day < MaxDay /\ day' = day + 1 /\ UNCHANGED <<bill, place, links>>

Next ==
    \/ \E x \in Section, p \in Period : Issue(x, p)
    \/ \E b \in Slot, n \in 0..(Charge * Periods) : SetPaid(b, n)
    \/ \E b \in Slot : CancelBill(b)
    \/ \E s \in Student, x \in Section : Move(s, x)
    \/ \E g \in Parent, s \in Student : Relink(g, s)
    \/ NextDay

Spec == Init /\ [][Next]_vars

-----------------------------------------------------------------------------
(* What every row is shown with *)

Balance(b) == Floor(bill[b].net, bill[b].paid)
Balances(rows) == Total(rows, [b \in rows |-> Balance(b)])
IsOverdue(b) == bill[b].status \notin {"PAID", "CANCELLED"} /\ bill[b].due < day

-----------------------------------------------------------------------------
(* Reports.  The window of a filter is a range, with 0 for an end left     *)
(* open, or a rolling preset of so many days, or nothing.                  *)

NoWindow == [from |-> 0, to |-> 0, preset |-> 0]

\* resolveWindow: a range somebody typed wins over the preset.
HasWindow(q) == q.window # NoWindow
WindowOf(q) ==
    IF q.window.from > 0 \/ q.window.to > 0
    THEN q.window.from..(IF q.window.to > 0 THEN q.window.to ELSE day)
    ELSE (Floor(day, q.window.preset) + 1)..day

\* buildWhere
Where(q) ==
    {b \in Standing : /\ ClassOf[bill[b].section] \in q.classes
                      /\ bill[b].section \in q.sections
                      /\ PeriodOf(b) \in q.periods
                      /\ HasWindow(q) => bill[b].issued \in WindowOf(q)}

\* Overdue as a report counts it.
LateIn(rows) == {b \in rows : bill[b].due < day /\ bill[b].status \in Unsettled}

Summary(q) ==
    LET rows == Where(q) IN
    [expected |-> Nets(rows), collected |-> Payments(rows),
     pending |-> Floor(Nets(rows), Payments(rows)),
     overdue |-> Floor(Nets(LateIn(rows)), Payments(LateIn(rows))),
     count |-> Cardinality(rows), late |-> Cardinality(LateIn(rows))]

\* Overdue is carved out of the two unsettled statuses.
Breakdown(q) ==
    LET rows == Where(q)
        onTime(s) == Cardinality(WithStatus(rows, s))
                        - Cardinality(WithStatus(LateIn(rows), s)) IN
    [paid |-> Cardinality(WithStatus(rows, "PAID")),
     partial |-> onTime("PARTIALLY_PAID"), unpaid |-> onTime("UNPAID"),
     overdue |-> Cardinality(WithStatus(LateIn(rows), "UNPAID"))
                    + Cardinality(WithStatus(LateIn(rows), "PARTIALLY_PAID"))]

ByClass(q) ==
    [c \in {ClassOf[bill[b].section] : b \in Where(q)} |->
        LET rows == {b \in Where(q) : ClassOf[bill[b].section] = c} IN
        [expected |-> Nets(rows), collected |-> Payments(rows)]]

\* Who owes, and how much; the row cap is left out.
Outstanding(q) ==
    LET open == {b \in Where(q) : bill[b].status \in Unsettled}
        owed(s) == LET own == {b \in open : StudentOf(b) = s}
                   IN  Floor(Nets(own), Payments(own)) IN
    [s \in {s \in Student : owed(s) > 0} |-> owed(s)]

\* The conditions of the trend's own SQL, for a window.
TrendRows(q) ==
    {b \in Issued : /\ bill[b].status # "CANCELLED"
                    /\ bill[b].issued \in WindowOf(q)
                    /\ ClassOf[bill[b].section] \in q.classes
                    /\ bill[b].section \in q.sections
                    /\ PeriodOf(b) \in q.periods}

\* By day of issue within a window; else by billing month, whichever month is
\* asked for.
Trend(q) ==
    IF HasWindow(q)
    THEN [d \in {bill[b].issued : b \in TrendRows(q)} |->
            Nets({b \in TrendRows(q) : bill[b].issued = d})]
    ELSE LET rows == Where([q EXCEPT !.periods = Period]) IN
         [p \in {PeriodOf(b) : b \in rows} |-> Nets({b \in rows : PeriodOf(b) = p})]

-----------------------------------------------------------------------------
(* The admin's pages *)

\* list with overdue = true: the status asked for gives way.
ListOverdue == {b \in Issued : bill[b].due < day /\ bill[b].status \in Unsettled}

\* printBatch leaves out what is paid, and nothing else.
Printed == Issued \ WithStatus(Issued, "PAID")

\* A month's challans, by the section stamped on them.
InMonth(p, sections) == {b \in Standing : PeriodOf(b) = p /\ bill[b].section \in sections}

\* coverage, of one class and month.
Coverage(c, p) ==
    LET sections == {x \in Section : ClassOf[x] = c}
        students == Cardinality({s \in Student : place[s] \in sections})
        challans == Cardinality(InMonth(p, sections)) IN
    CASE students = 0 -> "NO_STUDENTS"
      [] students > 0 /\ challans = 0 -> "NOT_CREATED"
      [] students > 0 /\ challans >= students -> "CREATED"
      [] challans > 0 /\ challans < students -> "PARTIAL"

\* batchStatus: the rows come in no order, so of the unsettled statuses either
\* may be the one that is shown.
Badge(s) ==
    LET own == {b \in Standing : StudentOf(b) = s} IN
    [outstanding |-> Balances(own),
     status |-> CASE own = {} -> {"NO_CHALLANS"}
                  [] \E b \in own : IsOverdue(b) -> {"OVERDUE"}
                  [] own # {} /\ \A b \in own : ~IsOverdue(b) ->
                        IF \A b \in own : bill[b].status = "PAID" THEN {"PAID"}
                        ELSE {bill[b].status : b \in own} \ {"PAID"}]

-----------------------------------------------------------------------------
(* The family's pages *)

Totals(rows) ==
    LET active == rows \cap Standing IN
    [billed |-> Nets(active), paid |-> Payments(active), outstanding |-> Balances(active)]

ChildrenOf(parent) == {s \in Student : <<parent, s>> \in links}

\* studentFeeHistory: every challan is shown, the cancelled ones not counted.
HistoryRows(s) == {b \in Issued : StudentOf(b) = s}
History(s) ==
    LET active == HistoryRows(s) \cap Standing
        owed == {b \in active : Balance(b) > 0} IN
    [totals |-> Totals(HistoryRows(s)),
     nextDue |-> IF owed = {} THEN 0 ELSE Min({bill[b].due : b \in owed}),
     overdue |-> Cardinality({b \in active : IsOverdue(b)})]

\* parentStatement, of the children and months asked for.
StatementRows(parent, children, periods) ==
    {b \in Issued : StudentOf(b) \in ChildrenOf(parent) \cap children
                    /\ PeriodOf(b) \in periods}
Statement(parent, children, periods) == Totals(StatementRows(parent, children, periods))

\* assertChallanReadable and assertStudentReadable, for a parent.
MayOpen(parent, b) == <<parent, StudentOf(b)>> \in links

-----------------------------------------------------------------------------
(* Properties *)

SumOver(f) == Total(DOMAIN f, f)

Everything == [classes |-> Class, sections |-> Section, periods |-> Period,
               window |-> NoWindow]

\* Whatever is filtered for, no two figures of the fee reports contradict each
\* other: the cards, the segments, the classes, the chart and the table of who
\* owes add up to the same money and the same number of challans; and what they
\* call collected is every receipt that stands, on whatever challan ("cancelling
\* a part-paid challan would erase money the school actually received").
ReportsAgree ==
    /\ Summary(Everything).collected = Payments(Issued)
    /\ \A q \in Queries :
           LET cards == Summary(q)
               seg == Breakdown(q) IN
           /\ seg.paid + seg.partial + seg.unpaid + seg.overdue = cards.count
           /\ seg.overdue = cards.late
           /\ cards.overdue <= cards.pending
           /\ LET e == [c \in DOMAIN ByClass(q) |-> ByClass(q)[c].expected]
              IN  SumOver(e) = cards.expected
           /\ HasWindow(q) \/ q.periods = Period => SumOver(Trend(q)) = cards.expected
           /\ SumOver(Outstanding(q)) = cards.pending

\* The family, the office and the reports read one debt: a parent's statement
\* adds up its children's own pages, the badge in the office says the same sum
\* and is OVERDUE exactly when a challan of theirs is, a parent is listed
\* exactly the challans they may open, and the challans that are handed out in print
\* ask for the whole of it.
OneDebt ==
    /\ \A g \in Parent, children \in {Student} \cup {{s} : s \in Student} :
        LET owed(s) == History(s).totals.outstanding IN
        /\ Statement(g, children, Period).outstanding
            = SumOver([s \in ChildrenOf(g) \cap children |-> owed(s)])
        /\ StatementRows(g, Student, Period) = {b \in Issued : MayOpen(g, b)}
    /\ \A s \in Student :
        LET page == History(s) IN
        /\ Badge(s).outstanding = page.totals.outstanding
        /\ Badge(s).status = {"OVERDUE"} <=> page.overdue > 0
        /\ page.overdue = Cardinality({b \in ListOverdue : StudentOf(b) = s})
        /\ Badge(s).status \subseteq {"PAID", "NO_CHALLANS"} <=> page.nextDue = 0
        /\ Balances({b \in Printed \cap Standing : StudentOf(b) = s}) = page.totals.outstanding

\* A class is called CREATED only when nobody in it is without a challan for the
\* month, as long as those billed are still where they were billed.
CreatedMeansEverybody ==
    \A c \in Class, p \in Period :
        (/\ Coverage(c, p) = "CREATED"
         /\ \A b \in Standing : PeriodOf(b) = p => bill[b].section = place[StudentOf(b)])
        => \A s \in Student : ClassOf[place[s]] = c => <<s, p>> \in Standing
=============================================================================
