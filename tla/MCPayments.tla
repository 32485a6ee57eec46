----------------------------- MODULE MCPayments -----------------------------
(***************************************************************************)
(* The review of online receipts, what everybody is shown of the ledger,   *)
(* and the cache in front of the figures.  part is the one a behaviour     *)
(* belongs to; the variables of the others stay as they were initially.    *)
(* The review is the module itself: its properties are checked as they     *)
(* stand there.  Sizes, and the parts a run has, are given by the .cfg;    *)
(* what the module says of views and cache is also proved, for all of      *)
(* them, in PaymentReviewProofs.                                           *)
(***************************************************************************)
EXTENDS PaymentReview, TLC

CONSTANTS
    None, Parts,
    Child, Parent, Class, Section, ClassOf, Months, LastDay, DueIn, MonthCharge, Queries, Mover, Start,
    Reader, Writer, Ttl, MaxWrites

VARIABLES
    part,
    bill, place, links, day,
    data, entry, reader, writer, crossed

\* What the .cfg files give Plan: no plan, or two installments of one unit.
NoPlan == [s \in Student |-> <<>>]
Installments == [s \in Student |-> <<1, 1>>]

\* The bill of the second month stands for the first installment, and falls due first.
Monthly == [c \in Challan |-> 0]
ForFirst == [c \in Challan |-> IF c[2] = 2 THEN 1 ELSE 0]
Latest == [c \in Challan |-> Periods - c[2]]

ASSUME ReviewAssumption

-----------------------------------------------------------------------------
(* Views: Mover may change class, pay in parts and have challans cancelled,  *)
(* the others pay a month at once; the parents are linked to Mover.  Each    *)
(* report is asked for with every kind of filter alone and with some         *)
(* together.                                                                 *)

Grades == "9A" :> "nine" @@ "10A" :> "ten"

All == [classes |-> {"nine", "ten"}, sections |-> {"9A", "10A"}, periods |-> {1, 2},
        window |-> [from |-> 0, to |-> 0, preset |-> 0]]
Within(q, f, t, days) == [q EXCEPT !.window = [from |-> f, to |-> t, preset |-> days]]
OfNine == [All EXCEPT !.classes = {"nine"}]
OfTen == [All EXCEPT !.sections = {"10A"}]
OfFirst == [All EXCEPT !.periods = {1}]
Asked == {All, Within(All, 0, 0, 2), Within(All, 2, 0, 0), Within(All, 0, 1, 0), Within(All, 2, 2, 1),
          OfNine, Within(OfNine, 1, 1, 0), OfTen, Within(OfTen, 0, 0, 1),
          OfFirst, Within(OfFirst, 1, 2, 0)}

Views == INSTANCE FeeViews WITH
    Student <- Child, Periods <- Months, MaxDay <- LastDay, Charge <- MonthCharge

ASSUME Views!ViewsAssumption

ViewsInit == Views!Init /\ \A s \in Child : place[s] = Start

\* Bounds: Mover pays none, half, the whole or both of two months, the others the charge of one.
ViewStep ==
    /\ Views!Next
    /\ \A b \in Views!Standing :
        /\ bill'[b].paid # bill[b].paid =>
                bill'[b].paid \in IF b[1] = Mover THEN {0, 1, 2, 4} ELSE {2}
        /\ b[1] # Mover /\ bill'[b].status = "CANCELLED" => \E p \in 1..Months : bill[b[1], p] = None /\ bill'[b[1], p] # None
    /\ \A s \in Child \ {Mover} : place'[s] = place[s] /\ \A g \in Parent : <<g, s>> \in links' <=> <<g, s>> \in links

-----------------------------------------------------------------------------
Cache == INSTANCE StatsCache

viewVars == <<bill, place, links, day>>
cacheVars == <<data, entry, reader, writer, crossed>>
allVars == <<part, vars, viewVars, cacheVars>>

MCInit == part \in Parts /\ Init /\ ViewsInit /\ Cache!Init

InReview(A) == part = "review" /\ A /\ UNCHANGED <<part, viewVars, cacheVars>>
InViews(A) == part = "views" /\ A /\ UNCHANGED <<part, vars, cacheVars>>
InCache(A) == part = "cache" /\ A /\ UNCHANGED <<part, vars, viewVars>>

MCNext == InReview(Next) \/ InViews(ViewStep) \/ InCache(Cache!Next)

Fairness ==
    /\ \A v \in Reviewer : WF_allVars(InReview(VerifyStep(v)))
    /\ WF_allVars(InCache(Cache!Expire))
    /\ \A r \in Reader : WF_allVars(InCache(Cache!Store(r)))
    /\ \A w \in Writer : WF_allVars(InCache(Cache!Invalidate(w)))

MCSpec == MCInit /\ [][MCNext]_allVars
MCFairSpec == MCSpec /\ Fairness

Symmetry == Permutations(Payment) \cup Permutations(Submission) \cup Permutations(Reviewer)

\* The fee reports contradict neither each other nor the receipts, and a class is
\* called CREATED only when everybody in it is billed; the family, the office and the
\* reports read one debt (fee-reports.service.ts; challans.service.ts, coverage).
FiguresAgree == part = "views" =>
    Views!ReportsAgree /\ Views!CreatedMeansEverybody /\ Views!OneDebt

\* An old value leaves the statistics cache, whatever deletion was lost (cache:
\* "TTL is just a backstop").
StaleEnds == Cache!StaleEnds

\* Once the writers are done, only a figure that was computed across a write, or whose
\* deletion was lost, is stale (cache.service.ts, invalidateSchoolStats).
StaleOnlyAcrossWrite == Cache!StaleOnlyAcrossWrite
=============================================================================
