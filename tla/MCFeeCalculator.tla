-------------------------- MODULE MCFeeCalculator --------------------------
(***************************************************************************)
(* The fee arithmetic on small inputs: one step computes the answer to one *)
(* question, and each property compares the answer with what it should be. *)
(***************************************************************************)
EXTENDS FeeCalculator, TLC

CONSTANTS
    MaxAmount,      \* amounts are 0..MaxAmount
    MaxRows         \* rows of a schedule

VARIABLES question, answer

Heads == <<[id |-> "bus", amount |-> 1], [id |-> "lab", amount |-> 2]>>
Overrides == UNION {[D -> {Excluded, 0, 2}] : D \in SUBSET {"bus", "lab"}}
Discounts == {NoDiscount}
    \cup [type : {"PERCENT"}, value : {0, 10, 33, 50, 100, 150}]
    \cup [type : {"FIXED"}, value : {-1, 0, 2, 9}]

Bills == [of : {"bill"}, bySubject : BOOLEAN, monthlyFee : {0, 5},
          subjects : {<<>>, <<2, 1>>}, extraSubjects : {<<>>, <<1>>},
          heads : {<<>>, Heads}, override : Overrides,
          discount : Discounts, arrears : {0, 7}]

Rows == UNION {[1..n -> [seq : 1..n, due : 1..3, amount : 1..MaxAmount]] : n \in 0..MaxRows}
Pools == [of : {"pool"}, pool : 0..(MaxAmount * MaxRows + 1),
          rows : {r \in Rows : \A i \in DOMAIN r : r[i].seq = i}]
Splits == [of : {"split"}, total : -1..(2 * MaxAmount), count : 0..6]
Cadences == [of : {"dates"}, day : {1, 28, 29, 30, 31}, month : 0..11,
             step : 0..3, count : 0..6]

Answer(q) ==
    CASE q.of = "bill"  -> ComputeChallan(q)
      [] q.of = "pool"  -> AllocateInstallments(q.rows, q.pool)
      [] q.of = "split" -> SplitEvenly(q.total, q.count)
      [] q.of = "dates" -> DueDates([month |-> q.month, day |-> q.day], q.step, q.count)

Init == /\ question \in Bills \cup Pools \cup Splits \cup
                {q \in Cadences : q.day <= DaysInMonth(q.month)}
        /\ answer = <<>>

Next == /\ answer = <<>>
        /\ answer' = Answer(question)
        /\ UNCHANGED question

Spec == Init /\ [][Next]_<<question, answer>>

Answered(kind) == question.of = kind /\ answer # <<>>

\* A discount is granted on this month's fees and never on money already billed:
\* what is carried over is asked for in full (computeChallan, arrears).
ArrearsUndiscounted == Answered("bill") =>
    /\ answer.net >= question.arrears
    /\ answer.net = ComputeChallan([question EXCEPT !.arrears = 0]).net
                    + question.arrears

\* A percentage is rounded to the nearest unit, halves up, and never exceeds what
\* it is granted on.
PercentRounded ==
    Answered("bill") /\ question.discount.type = "PERCENT" =>
        LET exact == answer.charges * Least(question.discount.value, 100)
        IN  /\ 100 * answer.discount - exact \in -49..50
            /\ answer.discount <= answer.charges

\* Receipts settle a schedule oldest first: a row gets exactly what the earlier
\* ones leave, none is overfilled, and nothing that is owed is left unallocated.
WaterfallExact == Answered("pool") =>
    LET before(i) == Total(1..(i - 1), [k \in DOMAIN answer |-> answer[k].row.amount])
    IN  \A i \in DOMAIN answer :
        /\ answer[i].paid = Least(NonNegative(question.pool - before(i)),
                                  answer[i].row.amount)
        /\ \A k \in 1..(i - 1) : /\ ~Earlier(answer[i].row, answer[k].row)
                                 /\ answer[i].paid > 0 =>
                                        answer[k].paid = answer[k].row.amount

\* The status a family sees says that the row is settled, late or still open.
StatusTruthful == Answered("pool") =>
    \A i \in DOMAIN answer, today \in 1..4 :
        LET row == answer[i].row
            shown == InstallmentStatus(answer[i].paid, row.amount, row.due, today)
        IN  /\ (shown = "PAID") = (answer[i].paid = row.amount)
            /\ (shown = "OVERDUE") = (answer[i].paid < row.amount /\ row.due < today)

\* The parts of an amount add up to it, so that a plan's sum check can never
\* fail on rounding (splitAmountEvenly).
PartsAddUp == Answered("split") =>
    /\ Total(DOMAIN answer, answer) = NonNegative(question.total)
    /\ \A i, k \in DOMAIN answer : i < k => answer[i] <= answer[k]

\* Due dates run strictly upwards, each a real day, and a short month shortens
\* no later date (addInterval: "31 Jan + 1 month lands on 28/29 Feb").
DatesRunOn == Answered("dates") =>
    \A i \in DOMAIN answer :
        /\ answer[i].day \in 1..DaysInMonth(answer[i].month)
        /\ answer[i].day = Least(question.day, DaysInMonth(answer[i].month))
        /\ i > 1 => answer[i].month = answer[i - 1].month
                        + (IF question.step > 1 THEN question.step ELSE 1)
=============================================================================
