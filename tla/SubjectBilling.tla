--------------------------- MODULE SubjectBilling ---------------------------
(***************************************************************************)
(* What a student's subjects add to a challan: subjectCharges of           *)
(* challans.service.ts, and the rest of buildPlan that decides whether     *)
(* there is a bill at all.  Who takes what is SubjectTakers'; the amounts  *)
(* are FeeCalculator's.                                                    *)
(***************************************************************************)
EXTENDS SubjectTakers, Naturals, FiniteSetsExt

CONSTANTS CodeOf,       \* a subject's code, NoCode when it has none
          NoCode, NoFee,
          Amounts       \* of money a student or a subject is charged

VARIABLES rows,         \* placements
          picks, electives,
          mode,         \* how each section bills: "MONTHLY" or "SUBJECT"
          fee,          \* [code -> price, or NoFee when none is set]
          monthly       \* [Student -> Monthly Fee and heads]

subject_vars == <<picks, electives>>
price_vars == <<mode, fee, monthly>>
vars == <<rows, picks, electives, mode, fee, monthly>>

Code == {CodeOf[x] : x \in {SubjectOf[o] : o \in Offering}} \ {NoCode}
Coded(o) == CodeOf[SubjectOf[o]]

BySubject(p) == mode[p.section] = "SUBJECT"

\* The subjects that make lines on the bill of the student placed so: all they
\* take, or those the Monthly Fee does not cover.
Charged(p) ==
    {o \in SubjectsOf(picks, electives, p.student, p.section, p.year) :
        BySubject(p) \/ SectionOf[o] # p.section}

\* One line per code.
Codes(p) == {Coded(o) : o \in Charged(p)} \ {NoCode}
Unpriced(p) == {c \in Codes(p) : fee[c] = NoFee}

Blocked(p) ==
    CASE (\E o \in Charged(p) : Coded(o) = NoCode) \/ Unpriced(p) # {} ->
            "SUBJECT_FEE_MISSING"
      [] Charged(p) = {} /\ BySubject(p) -> "NO_SUBJECTS"
      [] OTHER -> "no"

\* The charge of one month, before discount and arrears: priced subjects stand in
\* for the Monthly Fee, or come on top of it.
Price(c) == fee[c]
MonthCharge(p) ==
    MapThenSumSet(Price, Codes(p))
        + monthly[p.student].heads + (IF BySubject(p) THEN 0 ELSE monthly[p.student].fee)

\* buildPlan's toGenerate, of a year's roster: NOTHING_TO_BILL is the last of the
\* reasons to leave a student out.
Billed(y) == {p \in rows : /\ p.status = "ACTIVE" /\ p.year = y
                           /\ Blocked(p) = "no" /\ MonthCharge(p) > 0}

-----------------------------------------------------------------------------
(* What changes it: Roster and FeeSetup have the calls themselves *)

Init ==
    /\ rows = {} /\ picks = {} /\ electives \in SUBSET Offering
    /\ mode = [x \in Section |-> "MONTHLY"]
    /\ fee = [c \in Code |-> NoFee]
    /\ monthly = [s \in Student |-> [fee |-> 0, heads |-> 0]]

\* The rows of one student and year: at most one of them ACTIVE, never two of a
\* section; what they took goes with the last row of the class.
Place(s, y, placed) ==
    LET others == {p \in rows : p.student # s \/ p.year # y} IN
    /\ \A p, q \in placed : p # q =>
            p.section # q.section /\ ~(p.status = "ACTIVE" /\ q.status = "ACTIVE")
    /\ \A p \in placed : p.student = s /\ p.year = y
    /\ rows' = others \cup placed
    /\ picks' = {k \in picks : k.student = s /\ k.year = y =>
                    \E p \in placed : ClassOf[p.section] = ClassFor(k.offering)}
    /\ UNCHANGED <<electives, price_vars>>

\* A subject open to selection, of the class the student is placed in.
Choose(k) ==
    /\ k.offering \in electives
    /\ \E p \in Of(rows, k.student, k.year) :
            p.status = "ACTIVE" /\ ClassOf[p.section] = ClassFor(k.offering)
    /\ picks' = IF k \in picks THEN picks \ {k} ELSE picks \cup {k}
    /\ UNCHANGED <<rows, electives, price_vars>>

\* A section's mode of billing, a code's price, a student's own amounts.
SetMode(x, m) ==
    /\ mode' = [mode EXCEPT ![x] = m]
    /\ UNCHANGED <<rows, subject_vars, fee, monthly>>
SetFee(c, n) ==
    /\ fee' = [fee EXCEPT ![c] = n]
    /\ UNCHANGED <<rows, subject_vars, mode, monthly>>
SetMonthly(s, own) ==
    /\ monthly' = [monthly EXCEPT ![s] = own]
    /\ UNCHANGED <<rows, subject_vars, mode, fee>>

\* The rows a student can have in a session: one a section.
PlacedSo(s, y) ==
    {{[student |-> s, section |-> x, year |-> y, status |-> held[x]] : x \in DOMAIN held} :
        held \in UNION {[D -> Status] : D \in SUBSET Section}}

Next ==
    \/ \E s \in Student, y \in Year : \E placed \in PlacedSo(s, y) : Place(s, y, placed)
    \/ \E k \in Pick : Choose(k)
    \/ \E x \in Section, m \in {"MONTHLY", "SUBJECT"} : SetMode(x, m)
    \/ \E c \in Code, n \in Amounts \union {NoFee} : SetFee(c, n)
    \/ \E s \in Student, own \in [fee : Amounts, heads : Amounts] : SetMonthly(s, own)

Spec == Init /\ [][Next]_vars

-----------------------------------------------------------------------------
(* Properties *)

\* Whoever is billed pays once for everything they take, and for nothing else: a
\* subject of their own section through its code or the Monthly Fee, one of a
\* sibling section through its code exactly when that section's own sheets and
\* registers count them (crossSectionTakers).
TaughtIsPaidFor ==
    \A y \in Year : \A p \in Billed(y) :
        /\ \A o \in SubjectsOf(picks, electives, p.student, p.section, y) :
            Coded(o) \in Codes(p) \/ (SectionOf[o] = p.section /\ ~BySubject(p))
        /\ {o \in Charged(p) : SectionOf[o] # p.section} =
            {o \in Offering : p.student \in
                CrossSectionTakers(rows, picks, {o}, y, {"ACTIVE"})
                    /\ ClassOf[p.section] = ClassFor(o)}
        /\ \A c \in Codes(p) : fee[c] # NoFee
=============================================================================
