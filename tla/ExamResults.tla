---------------------------- MODULE ExamResults ----------------------------
(***************************************************************************)
(* The results of one published examination (exam-results.service.ts):     *)
(* teachers save marks paper by paper, an administrator finalizes the      *)
(* whole sheet and may reopen it.  A save reads the paper and checks its   *)
(* marks first and locks the examination row later; finalizing reads the   *)
(* sheet under that lock.  Enrolments and chosen subjects, which decide    *)
(* who sits what, change at any time.                                      *)
(***************************************************************************)
EXTENDS Money

CONSTANTS
    Student, Paper,
    Totals,         \* total marks a teacher may set
    Entries,        \* what a teacher may enter for a student
    Saver           \* saveMarks calls in flight

ASSUME ResultAssumption ==
    /\ IsFiniteSet(Paper)
    /\ Totals \subseteq Nat \ {0}

\* What an ExamResult row says, or that there is none: a score is a natural.
NoRow == -3
Blank == -2         \* a row without a score, counted as missing
Absent == -1
Mark == {NoRow, Blank, Absent} \cup Nat

ASSUME EntryAssumption == Entries \subseteq Mark \ {NoRow}

VARIABLES
    total,          \* maxScore of each paper, 0 while it is not set
    mark,           \* the ExamResult rows
    sits,           \* who sits each paper by placement and choice
    resultStatus,
    snapshot,       \* the totals frozen in each ExaminationResult row
    call            \* the saves in flight

vars == <<total, mark, sits, resultStatus, snapshot, call>>

NoSnapshot == [final |-> FALSE, obtained |-> 0, max |-> 0]
Idle == [pc |-> "idle"]
Save == [pc : {"read"}, paper : Paper, total : Nat, changed : BOOLEAN,
         ids : SUBSET Student, value : Entries]

Init ==
    /\ total \in [Paper -> Totals \cup {0}]
    /\ mark = [p \in Paper |-> [s \in Student |-> NoRow]]
    /\ sits \in [Paper -> SUBSET Student]
    /\ resultStatus = "NOT_STARTED"
    /\ snapshot = [s \in Student |-> NoSnapshot]
    /\ call = [v \in Saver |-> Idle]

-----------------------------------------------------------------------------
(* buildSheet and result-calculator.ts *)

Marked(p) == {s \in Student : mark[p][s] # NoRow}

\* Whoever holds a mark stays on the sheet.
Sitting(p) == sits[p] \cup Marked(p)
PapersOf(s) == {p \in Paper : s \in Sitting(p)}
OnSheet == {s \in Student : PapersOf(s) # {}}

\* Mutant of Valid: a score above the total passes.
ValidAnyScore(p, s) == total[p] > 0 /\ mark[p][s] >= Absent

\* subjectOutcome: neither MISSING nor INVALID.
Valid(p, s) == total[p] > 0 /\ (mark[p][s] = Absent \/ mark[p][s] \in 0..total[p])

Complete(s) == \A p \in PapersOf(s) : Valid(p, s)

\* totalObtained and totalMax of studentOutcome over these papers.
Obtained(s, papers) ==
    Total(papers, [p \in Paper |-> IF mark[p][s] > 0 THEN mark[p][s] ELSE 0])
MaxOf(papers) == Total(papers, total)

-----------------------------------------------------------------------------
(* saveMarks *)

\* Read, then checked: the total given or the one read, and no mark above it.
ReadPaper(v, p, t, ids, value) ==
    /\ call[v].pc = "idle"
    /\ resultStatus # "FINALIZED"
    /\ t \in Totals \cup ({total[p]} \ {0})
    /\ ids # {}
    /\ value <= t
    /\ call' = [call EXCEPT ![v] = [pc |-> "read", paper |-> p, total |-> t,
            changed |-> t # total[p], ids |-> ids, value |-> value]]
    /\ UNCHANGED <<total, mark, sits, resultStatus, snapshot>>

\* Mutants of Unlocked: finalized results take marks; a total is changed although
\* marks have been entered.
UnlockedFinal(c) ==
    /\ c.ids \subseteq Sitting(c.paper)
    /\ c.changed => Marked(c.paper) = {}

UnlockedRescaling(c) ==
    /\ resultStatus # "FINALIZED"
    /\ c.ids \subseteq Sitting(c.paper)

\* What the transaction checks under the lock: still open, everybody sits this
\* paper, and no marks under a total that changes.
Unlocked(c) ==
    /\ resultStatus # "FINALIZED"
    /\ c.ids \subseteq Sitting(c.paper)
    /\ c.changed => Marked(c.paper) = {}

SaveMarks(v) ==
    LET c == call[v] IN
    /\ c.pc = "read"
    /\ Unlocked(c)
    /\ total' = IF c.changed THEN [total EXCEPT ![c.paper] = c.total] ELSE total
    /\ mark' = [mark EXCEPT ![c.paper] =
            [s \in Student |-> IF s \in c.ids THEN c.value ELSE mark[c.paper][s]]]
    /\ resultStatus' = "IN_PROGRESS"
    /\ call' = [call EXCEPT ![v] = Idle]
    /\ UNCHANGED <<sits, snapshot>>

\* The transaction is refused or fails.
FailSave(v) ==
    /\ call[v].pc = "read"
    /\ call' = [call EXCEPT ![v] = Idle]
    /\ UNCHANGED <<total, mark, sits, resultStatus, snapshot>>

-----------------------------------------------------------------------------
(* finalize and reopen: each one transaction that holds the row *)

MayFinalize == /\ resultStatus # "FINALIZED"
               /\ OnSheet # {} /\ \A s \in OnSheet : Complete(s)

Finalize ==
    /\ MayFinalize
    /\ resultStatus' = "FINALIZED"
    /\ snapshot' = [s \in Student |->
            IF s \in OnSheet
            THEN [final |-> TRUE, obtained |-> Obtained(s, PapersOf(s)),
                  max |-> MaxOf(PapersOf(s))]
            ELSE snapshot[s]]
    /\ UNCHANGED <<total, mark, sits, call>>

\* updateMany finalizedAt: null; the totals stay in the row.
Reopened(row) == [row EXCEPT !.final = FALSE]

Reopen ==
    /\ resultStatus = "FINALIZED"
    /\ resultStatus' = "IN_PROGRESS"
    /\ snapshot' = [s \in Student |-> Reopened(snapshot[s])]
    /\ UNCHANGED <<total, mark, sits, call>>

\* An enrolment opens, closes or moves, or a subject is chosen or dropped.
Enrol(p, s) ==
    /\ sits' = [sits EXCEPT ![p] = IF s \in @ THEN @ \ {s} ELSE @ \cup {s}]
    /\ UNCHANGED <<total, mark, resultStatus, snapshot, call>>

Next ==
    \/ \E v \in Saver :
        \/ \E p \in Paper, t \in Totals \cup {total[q] : q \in Paper},
              ids \in SUBSET Student, value \in Entries :
            ReadPaper(v, p, t, ids, value)
        \/ SaveMarks(v) \/ FailSave(v)
    \/ Finalize \/ Reopen
    \/ \E p \in Paper, s \in Student : Enrol(p, s)

Spec == Init /\ [][Next]_vars

-----------------------------------------------------------------------------
(* Properties *)

TypeOK ==
    /\ total \in [Paper -> Nat]
    /\ mark \in [Paper -> [Student -> Mark]]
    /\ sits \in [Paper -> SUBSET Student]
    /\ resultStatus \in {"NOT_STARTED", "IN_PROGRESS", "FINALIZED"}
    /\ snapshot \in [Student -> [final : BOOLEAN, obtained : Nat, max : Nat]]
    /\ call \in [Saver -> {Idle} \cup Save]

MarkedPapers(s) == {p \in Paper : s \in Marked(p)}

\* What a family reads as final rests on marks that are neither missing nor
\* impossible, and is their sum: no save that was under way slips in between
\* (saveMarks: "a concurrent finalize can't slip between check and write"), also
\* where a stale total let a score above the total through.
FinalRestsOnMarks ==
    \A s \in Student : snapshot[s].final =>
        /\ resultStatus = "FINALIZED"
        /\ \A p \in MarkedPapers(s) : mark[p][s] \in {Absent} \cup 0..total[p]
        /\ snapshot[s].obtained = Obtained(s, MarkedPapers(s))
        /\ snapshot[s].max = MaxOf(MarkedPapers(s))

\* A total never changes under marks (saveMarks: "Rescaling under entered marks
\* would silently change every grade already given").
NeverRescaled ==
    [][\A p \in Paper : Marked(p) # {} => total'[p] = total[p]]_vars

\* Finalized marks stand until the results are reopened, and a mark once entered
\* is never lost from the sheet.
MarksStand ==
    [][/\ resultStatus = "FINALIZED" => mark' = mark /\ total' = total
       /\ \A p \in Paper : Marked(p) \subseteq Marked(p)']_vars
=============================================================================
