------------------------------- MODULE Money -------------------------------
(***************************************************************************)
(* Money as the fees module keeps it: whole minor units, summed by the     *)
(* database (SELECT SUM) or by a loop.  A sum is counted here unit by unit *)
(* -- the cardinality of the set of units -- because the library proves    *)
(* facts about cardinalities for sets of every size, and a fold would only *)
(* be evaluated.                                                           *)
(***************************************************************************)
EXTENDS Integers, FiniteSets

\* The minor units of x, each with its position: <<x, 1>> .. <<x, amount[x]>>.
UnitsOf(x, amount) == {x} \X (1..amount[x])

Units(S, amount) == UNION {UnitsOf(x, amount) : x \in S}

\* The sum of amount[x] over the x in S, for amounts that are naturals.
Total(S, amount) == Cardinality(Units(S, amount))

\* fee-calculator.ts clamps every amount it is given before it uses it.
NonNegative(n) == IF n > 0 THEN n ELSE 0

\* What is still owed of netAmount once paidAmount has come in, never below 0.
RemainingBalance(netAmount, paidAmount) ==
    NonNegative(NonNegative(netAmount) - NonNegative(paidAmount))

\* The settlement status the ledger implies.  A bill for nothing is born PAID.
ResolveChallanStatus(paidAmount, netAmount) ==
    LET paid == NonNegative(paidAmount)
        net  == NonNegative(netAmount) IN
    CASE paid >= net              -> "PAID"
      [] paid < net /\ paid = 0   -> "UNPAID"
      [] paid < net /\ paid # 0   -> "PARTIALLY_PAID"
=============================================================================
