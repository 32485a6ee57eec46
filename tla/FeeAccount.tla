----------------------------- MODULE FeeAccount -----------------------------
(***************************************************************************)
(* What the fee ledger promises the people who read it: an account in      *)
(* which billing, receiving, returning and writing off happen one at a     *)
(* time.  There are no locks, no handlers, no numbers, no retries and no   *)
(* stored totals here: what is received is always the sum of the receipts, *)
(* and a bill folded into a later one is simply part of it.                *)
(* ChallanLedger is shown to implement this module.                        *)
(***************************************************************************)
EXTENDS Money

CONSTANTS Student, Periods, Payment, Charge, Amount, NoChallan

Bill == Student \X (1..Periods)

VARIABLES
    state,      \* "none", "open", "absorbed" into another bill, "written off"
    asked,      \* what each bill asks for
    into,       \* the bill an absorbed one is part of
    receipts    \* money received and not rewritten afterwards

account == <<state, asked, into, receipts>>

TypeOK ==
    /\ state \in [Bill -> {"none", "open", "absorbed", "written off"}]
    /\ asked \in [Bill -> Nat]
    /\ into \in [Bill -> Bill \cup {NoChallan}]
    /\ receipts \in [Payment -> [of : Bill \cup {NoChallan}, amount : Nat,
                                 voided : BOOLEAN]]

Standing(b) == {p \in Payment : receipts[p].of = b /\ ~receipts[p].voided}
Received(b) == Total(Standing(b), [p \in Payment |-> receipts[p].amount])
Open == {b \in Bill : state[b] = "open"}

Init ==
    /\ state = [b \in Bill |-> "none"]
    /\ asked = [b \in Bill |-> 0]
    /\ into = [b \in Bill |-> NoChallan]
    /\ receipts = [p \in Payment |->
                    [of |-> NoChallan, amount |-> 0, voided |-> FALSE]]

\* One bill per student for the period, each taking over unpaid older bills of
\* that student and asking for exactly what those asked for besides its charge.
Issue(students, period, old, charge) ==
    LET new      == students \X {period}
        taken(s) == {d \in old : d[1] = s} IN
    /\ \A b \in new : state[b] = "none"
    /\ \A d \in old : d[1] \in students /\ d[2] < period /\ Standing(d) = {}
    /\ state' = [b \in Bill |-> IF b \in new THEN "open"
                                ELSE IF b \in old THEN "absorbed" ELSE state[b]]
    /\ asked' = [b \in Bill |-> IF b \in new
                                THEN charge[b[1]] + Total(taken(b[1]), asked)
                                ELSE asked[b]]
    /\ into' = [b \in Bill |-> IF b \in old THEN <<b[1], period>> ELSE into[b]]
    /\ UNCHANGED receipts

\* Money is received only for an open bill and never beyond what it asks for.
Receive(p, b, amount) ==
    /\ receipts[p].of = NoChallan
    /\ b \in Open
    /\ amount <= asked[b] - Received(b)
    /\ receipts' = [receipts EXCEPT ![p] =
                        [of |-> b, amount |-> amount, voided |-> FALSE]]
    /\ UNCHANGED <<state, asked, into>>

\* A receipt is struck out once; it stays in the books.
Strike(p) ==
    /\ receipts[p].of # NoChallan /\ ~receipts[p].voided
    /\ receipts' = [receipts EXCEPT ![p].voided = TRUE]
    /\ UNCHANGED <<state, asked, into>>

\* An open bill without money on it is dropped, and what it had taken over is
\* owed again on the bills it came from.
WriteOff(b) ==
    /\ b \in Open /\ Standing(b) = {}
    /\ state' = [c \in Bill |-> IF c = b THEN "written off"
                                ELSE IF into[c] = b THEN "open" ELSE state[c]]
    /\ into' = [c \in Bill |-> IF into[c] = b THEN NoChallan ELSE into[c]]
    /\ UNCHANGED <<asked, receipts>>

Next ==
    \/ \E students \in SUBSET Student, period \in 1..Periods, old \in SUBSET Open :
          \E charge \in [students -> Charge] : Issue(students, period, old, charge)
    \/ \E p \in Payment, b \in Bill, amount \in Amount : Receive(p, b, amount)
    \/ \E p \in Payment : Strike(p)
    \/ \E b \in Bill : WriteOff(b)

Spec == Init /\ [][Next]_account
=============================================================================
