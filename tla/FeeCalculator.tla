--------------------------- MODULE FeeCalculator ---------------------------
(***************************************************************************)
(* The fee arithmetic of fee-calculator.ts: composing a challan, granting a *)
(* discount, allocating receipts to a schedule, splitting an amount and    *)
(* stepping through due dates.  Amounts are whole minor units.             *)
(***************************************************************************)
EXTENDS Money, Sequences, SequencesExt

Least(a, b) == IF a <= b THEN a ELSE b

-----------------------------------------------------------------------------
(* Composing a challan *)

\* roundMinorUnits: to the nearest unit, halves up.
PercentOf(gross, percent) == (gross * percent + 50) \div 100

NoDiscount == [type |-> "NONE", value |-> 0]

DiscountAmount(gross, discount) ==
    LET g == NonNegative(gross)
        v == NonNegative(discount.value) IN
    CASE discount.type = "NONE"    -> 0
      [] discount.type = "PERCENT" -> Least(PercentOf(g, Least(v, 100)), g)
      [] discount.type = "FIXED"   -> Least(v, g)

\* An override keeps the head and changes its amount, or drops it: -1 stands for
\* an excluded head, and a head without an entry keeps its default.
Excluded == -1
StudentFeeHeads(heads, override) ==
    LET kept == SelectSeq(heads, LAMBDA h :
                    h.id \in DOMAIN override => override[h.id] # Excluded) IN
    [i \in DOMAIN kept |->
        IF kept[i].id \in DOMAIN override
        THEN [kept[i] EXCEPT !.amount = NonNegative(override[kept[i].id])]
        ELSE kept[i]]

Lines(kind, amounts) ==
    [i \in DOMAIN amounts |-> [kind |-> kind, amount |-> NonNegative(amounts[i])]]
Amounts(heads) == [i \in DOMAIN heads |-> heads[i].amount]
SumOf(lines, kind) ==
    Total({i \in DOMAIN lines : lines[i].kind = kind},
          [i \in DOMAIN lines |-> lines[i].amount])

\* The lines of this period: the subjects where the class is billed by subject,
\* else the monthly fee and any subjects outside it; then the fee heads.
OwnLines(in) ==
    (IF in.bySubject THEN Lines("FEE", in.subjects)
     ELSE Lines("FEE", <<in.monthlyFee>> \o in.extraSubjects))
    \o Lines("FEE", Amounts(StudentFeeHeads(in.heads, in.override)))

CurrentCharges(in) == SumOf(OwnLines(in), "FEE")

\* One discount line and one arrears line, each only if there is anything on it.
ComputeChallan(in) ==
    LET charges  == CurrentCharges(in)
        discount == DiscountAmount(charges, in.discount)
        arrears  == NonNegative(in.arrears)
        gross    == charges + arrears IN
    [items |-> OwnLines(in)
        \o (IF discount > 0 THEN Lines("DISCOUNT", <<discount>>) ELSE <<>>)
        \o (IF arrears > 0 THEN Lines("FEE", <<arrears>>) ELSE <<>>),
     gross |-> gross, discount |-> discount, net |-> gross - discount,
     charges |-> charges]

-----------------------------------------------------------------------------
(* Allocating receipts *)

Earlier(row, other) == \/ row.due < other.due
                       \/ row.due = other.due /\ row.seq < other.seq

\* Mutant of AllocateInstallments: in the order of the rows, not of their dates.
AllocateInRowOrder(rows, pool) ==
    [i \in DOMAIN rows |->
        LET before == Total(1..(i - 1), [k \in DOMAIN rows |-> rows[k].amount]) IN
        [row |-> rows[i],
         paid |-> Least(NonNegative(NonNegative(pool) - before), rows[i].amount)]]

\* A waterfall: each row, oldest first, takes what it needs of what the rows
\* before it have left of the pool.
AllocateInstallments(rows, pool) ==
    LET ordered == SortSeq(rows, Earlier)
        taken(i, l) == Least(l, NonNegative(ordered[i].amount))
        left[i \in 0..Len(ordered)] ==
            IF i = 0 THEN NonNegative(pool) ELSE left[i - 1] - taken(i, left[i - 1]) IN
    [i \in DOMAIN ordered |-> [row |-> ordered[i], paid |-> taken(i, left[i - 1])]]

\* OVERDUE outranks PARTIALLY_PAID.
InstallmentStatus(paid, amount, due, today) ==
    CASE paid >= amount                               -> "PAID"
      [] paid < amount /\ due < today                 -> "OVERDUE"
      [] paid < amount /\ due >= today /\ paid > 0    -> "PARTIALLY_PAID"
      [] paid < amount /\ due >= today /\ paid <= 0   -> "PENDING"

-----------------------------------------------------------------------------
(* Splitting an amount *)

\* Even parts, and what is left over on the last one.
SplitEvenly(total, n) ==
    LET base == NonNegative(total) \div n IN
    [i \in 1..n |-> IF i = n THEN base + (NonNegative(total) - base * n) ELSE base]

-----------------------------------------------------------------------------
(* Stepping through due dates: a date is a month and a day in it *)

\* The days of each month of a non-leap year, repeating.
DaysInMonth(m) == <<31, 28, 31, 30, 31, 30, 31, 31, 30, 31, 30, 31>>[(m % 12) + 1]

\* The target month's last day where the day does not exist in it.
AddMonths(date, n) ==
    [month |-> date.month + n,
     day |-> Least(date.day, DaysInMonth(date.month + n))]

\* Every date is stepped from the first one, so a short month shortens no other.
DueDates(start, step, count) ==
    [i \in 1..count |-> IF i = 1 THEN start
                        ELSE AddMonths(start, (IF step > 1 THEN step ELSE 1) * (i - 1))]
=============================================================================
