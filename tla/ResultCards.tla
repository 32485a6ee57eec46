----------------------------- MODULE ResultCards -----------------------------
(***************************************************************************)
(* What is shown of a term's results (exam-results.service.ts and          *)
(* result-calculator.ts): the sheet of an examination, a student's result  *)
(* card, the cards of a section, and the list a family reads of finalized  *)
(* results.  They are derived each on its own way from the marks, the      *)
(* frozen totals and the placements; the marks are entered, finalized and   *)
(* reopened meanwhile (ExamResults has those steps in detail), and students *)
(* come and go.  One session, one term, all examinations published, one     *)
(* grading scheme.                                                          *)
(***************************************************************************)
EXTENDS SubjectTakers, Integers, SequencesExt, TLC

CONSTANTS
    Exam, ExamSection,          \* each examination's section
    Paper, ExamOf, OfferingOf,  \* each paper's examination and offering
    MaxOf, Marks,               \* total marks of each paper, marks there may be
    PassPercent,                \* the least percentage of a passing band
    Session, Rosters

Unmarked == -3
Blank == -2
Absent == -1

VARIABLES roster,       \* [rows, picks, electives]
          mark,         \* ExamResult rows, by paper and student
          status,       \* resultStatus of each examination
          snapshot      \* ExaminationResult rows, by examination and student

vars == <<roster, mark, status, snapshot>>

SumOver(S, f(_)) == FoldSet(LAMBDA x, acc : acc + f(x), 0, S)
NoSnapshot == [final |-> FALSE]

Init ==
    /\ roster \in Rosters
    /\ mark = [p \in Paper |-> [s \in Student |-> Unmarked]]
    /\ status = [e \in Exam |-> "OPEN"]
    /\ snapshot = [e \in Exam |-> [s \in Student |-> NoSnapshot]]

-----------------------------------------------------------------------------
(* The calculator *)

Passing(obtained, max) == obtained * 100 >= PassPercent * max

\* subjectOutcome
StateOf(m, max) ==
    CASE m \in {Unmarked, Blank} -> "MISSING"
      [] m = Absent           -> "ABSENT"
      [] m > max              -> "INVALID"
      [] m \in 0..max         -> IF Passing(m, max) THEN "PASS" ELSE "FAIL"

\* studentOutcome
Outcome(s, papers) ==
    LET state(p)  == StateOf(mark[p][s], MaxOf[p])
        complete  == papers # {} /\ \A p \in papers : state(p) \notin {"MISSING", "INVALID"}
        obtained  == SumOver(papers, LAMBDA p : IF mark[p][s] > 0 THEN mark[p][s] ELSE 0)
        max       == SumOver(papers, LAMBDA p : MaxOf[p])
    IN  [complete |-> complete, obtained |-> obtained, max |-> max,
         passed |-> /\ complete /\ Passing(obtained, max)
                    /\ \A p \in papers : state(p) = "PASS"]

\* assignPositions: 1, 1, 3, on exact fractions.
Ranks(outcomes) ==
    LET done == {s \in DOMAIN outcomes : outcomes[s].complete /\ outcomes[s].max > 0}
        better(a, b) == outcomes[a].obtained * outcomes[b].max
                            > outcomes[b].obtained * outcomes[a].max
        ranked == SetToSortSeq(done, better)
        place[i \in DOMAIN ranked] ==
            IF i > 1 /\ ~better(ranked[i - 1], ranked[i]) THEN place[i - 1] ELSE i
    IN  [s \in done |-> place[CHOOSE i \in DOMAIN ranked : ranked[i] = s]]

\* termOutcome: the examinations added up; passed when every one is and the sum is.
TermOutcome(cards) ==
    LET obtained == SumOver(DOMAIN cards, LAMBDA e : cards[e].obtained)
        max      == SumOver(DOMAIN cards, LAMBDA e : cards[e].max)
        complete == \A e \in DOMAIN cards : cards[e].complete
    IN  [obtained |-> obtained, max |-> max, complete |-> complete,
         passed |-> /\ complete /\ max > 0 /\ Passing(obtained, max)
                    /\ \A e \in DOMAIN cards : cards[e].passed]

-----------------------------------------------------------------------------
(* The sheet of an examination *)

PapersIn(e) == {p \in Paper : ExamOf[p] = e}
Marked(p) == {s \in Student : mark[p][s] # Unmarked}

Takers(o, students) ==
    TakersOf(roster.rows, roster.picks, roster.electives, o, students, Session)

\* The papers of an examination a student takes, or holds a mark for.
PapersOf(e, s) == {p \in PapersIn(e) : s \in Takers(OfferingOf[p], {s}) \cup Marked(p)}

\* rosterStudentIds, then buildSheet: those of them who sit a paper.
Sheet(e) ==
    LET listed == ExamRoster(roster.rows, roster.picks, ExamSection[e],
                             {OfferingOf[p] : p \in PapersIn(e)}, Session)
                      \cup UNION {Marked(p) : p \in PapersIn(e)}
    IN  {s \in listed : PapersOf(e, s) # {}}

Outcomes(e) == [s \in Sheet(e) |-> Outcome(s, PapersOf(e, s))]

Frozen(e, s) == snapshot[e][s].final

Place(ranks, s) == IF s \in DOMAIN ranks THEN ranks[s] ELSE 0
Totals(outcome, place) == [obtained |-> outcome.obtained, max |-> outcome.max,
                           passed |-> outcome.passed, place |-> place]

\* rowFor: what is frozen, or else what the marks say.
RowFor(e, s) ==
    IF status[e] = "FINALIZED" /\ Frozen(e, s) THEN snapshot[e][s].totals
    ELSE Totals(Outcomes(e)[s], Place(Ranks(Outcomes(e)), s))

-----------------------------------------------------------------------------
(* Result cards *)

\* openSectionsOf
OpenSections(placements) ==
    LET active == {p \in placements : p.status = "ACTIVE"}
    IN  {p.section : p \in IF active # {} THEN active ELSE placements}

Placed(s) == {p \in Of(roster.rows, s, Session) : p.status \in History}

\* crossSectionPlacements
PickedSections(s) ==
    SectionsReached(roster.rows, roster.picks, s, Session, History)
        \ {p.section : p \in Placed(s)}

\* A student's placements and the sections of their picks, which open with a
\* placement of theirs.
Reached(s) ==
    Placed(s) \cup {[section |-> x, status |-> (CHOOSE p \in Placed(s) : TRUE).status] :
                        x \in PickedSections(s)}

\* Mutant of CardData: only what one of the students has a mark in.
CardDataOfMarked(sections, students) ==
    {e \in Exam : ExamSection[e] \in sections /\
        \E p \in PapersIn(e) : Marked(p) \cap students # {}}

\* loadCardData: what one of the students has a mark in, and what is being marked.
CardData(sections, students) ==
    {e \in Exam : ExamSection[e] \in sections /\
        \/ \E p \in PapersIn(e) : Marked(p) \cap students # {}
        \/ status[e] # "FINALIZED" /\ \E p \in PapersIn(e) : Marked(p) # {}}

\* composeCard
Card(s, exams, open) ==
    LET marked(e) == \E p \in PapersOf(e, s) : s \in Marked(p)
        sat == {e \in exams : PapersOf(e, s) # {} /\
                    (marked(e) \/ (status[e] # "FINALIZED" /\ ExamSection[e] \in open))}
        line(e) == IF Frozen(e, s)
                   THEN snapshot[e][s].totals @@ [complete |-> TRUE, papers |-> PapersOf(e, s)]
                   ELSE LET o == Outcome(s, PapersOf(e, s))
                        IN  Totals(o, 0) @@ [complete |-> o.complete, papers |-> PapersOf(e, s)]
    IN  [e \in sat |-> line(e)]

\* studentResultCard
StudentCard(s) ==
    Card(s, CardData({p.section : p \in Reached(s)}, {s}), OpenSections(Reached(s)))

\* sectionResultCards
OnCards(x) == {p.student : p \in {q \in roster.rows : /\ q.section = x /\ q.year = Session
                                                      /\ q.status \in History}}
SectionCards(x) ==
    LET students == OnCards(x)
        data == CardData({x} \cup UNION {PickedSections(s) : s \in students}, students)
    IN  [s \in students |-> Card(s, data, OpenSections(Reached(s)))]

\* finalizedResultsFor: the frozen totals; live ones where nothing was frozen.
FinalizedList(s) ==
    LET mine == {e \in Exam : /\ status[e] = "FINALIZED"
                              /\ ExamSection[e] \in {p.section : p \in Reached(s)}
                              /\ Frozen(e, s) \/ s \in Sheet(e)}
    IN  [e \in mine |-> IF Frozen(e, s) THEN snapshot[e][s].totals ELSE RowFor(e, s)]

\* subjectResult: the register of one paper.
SubjectResult(p) ==
    [s \in {t \in Sheet(ExamOf[p]) : p \in PapersOf(ExamOf[p], t)} |->
        [state |-> StateOf(mark[p][s], MaxOf[p]),
         obtained |-> IF mark[p][s] > 0 THEN mark[p][s] ELSE 0]]

\* results: a row for each of the sheet, and whether the button to finalize is lit.
Results(e) == [s \in Sheet(e) |-> RowFor(e, s)]
ReadyToFinalize(e) ==
    /\ status[e] # "FINALIZED" /\ Sheet(e) # {}
    /\ \A s \in Sheet(e) : Outcomes(e)[s].complete

\* assertAudienceCanView: placed in the section, or with a paper picked from it.
MayView(s, e) ==
    \/ ExamSection[e] \in {p.section : p \in Placed(s)}
    \/ \E k \in roster.picks, p \in Placed(s) :
        /\ k.student = s /\ k.year = Session
        /\ k.offering \in {OfferingOf[q] : q \in PapersIn(e)}
        /\ ClassOf[p.section] = ClassOf[ExamSection[e]]

\* reportCards: the examinations a family may open a report card of.
ReportCards(s) == {e \in Exam : MayView(s, e) /\ status[e] = "FINALIZED" /\ s \in Sheet(e)}

-----------------------------------------------------------------------------
(* The steps between *)

\* saveMarks for one student: of those on the sheet who take the paper.
SaveMark(p, s, m) ==
    LET e == ExamOf[p]
    IN  /\ status[e] # "FINALIZED"
        /\ s \in Sheet(e) /\ p \in PapersOf(e, s)
        /\ m <= MaxOf[p]
        /\ mark' = [mark EXCEPT ![p][s] = m]
        /\ UNCHANGED <<roster, status, snapshot>>

Finalize(e) ==
    LET outcomes == Outcomes(e)
    IN  /\ status[e] # "FINALIZED"
        /\ DOMAIN outcomes # {} /\ \A s \in DOMAIN outcomes : outcomes[s].complete
        /\ status' = [status EXCEPT ![e] = "FINALIZED"]
        /\ snapshot' = [snapshot EXCEPT ![e] = [s \in Student |->
                IF s \in DOMAIN outcomes
                THEN [final |-> TRUE, totals |-> RowFor(e, s)] ELSE @[s]]]
        /\ UNCHANGED <<roster, mark>>

\* reopen: the rows stay and are no longer final.
Reopen(e) ==
    /\ status[e] = "FINALIZED"
    /\ status' = [status EXCEPT ![e] = "OPEN"]
    /\ snapshot' = [snapshot EXCEPT ![e] = [s \in Student |-> NoSnapshot]]
    /\ UNCHANGED <<roster, mark>>

\* A choice the student has been marked under stays (replaceSelections).
Kept == {k \in roster.picks : \E p \in Paper :
            OfferingOf[p] = k.offering /\ k.student \in Marked(p)}

RosterChanges ==
    /\ roster' \in Rosters \ {roster}
    /\ Kept \subseteq roster'.picks
    /\ UNCHANGED <<mark, status, snapshot>>

Next ==
    \/ \E p \in Paper, s \in Student, m \in Marks : SaveMark(p, s, m)
    \/ \E e \in Exam : Finalize(e) \/ Reopen(e)
    \/ RosterChanges

Spec == Init /\ [][Next]_vars

-----------------------------------------------------------------------------
(* Properties *)

\* A student's card is the same whether it is opened alone (studentResultCard) or
\* printed with the section's (sectionResultCards), its term total included, for
\* whoever was placed in one section all session.
CardsAgree ==
    \A x \in Section : LET cards == SectionCards(x) IN
        \A s \in DOMAIN cards : Placed(s) = {p \in Placed(s) : p.section = x} =>
            /\ cards[s] = StudentCard(s)
            /\ TermOutcome(cards[s]) = TermOutcome(StudentCard(s))

\* What a family lists as final (finalizedResultsFor) and what the principal's card
\* says of it are the same totals and the same place, as those on the sheet; what
\* is final on the card is listed; and what is listed beside the card's was never
\* marked for the student.
ListedAsOnCard ==
    \A s \in Student : LET card == StudentCard(s) list == FinalizedList(s) IN
        /\ \A e \in DOMAIN card : status[e] = "FINALIZED" =>
            /\ e \in DOMAIN list /\ s \in Sheet(e)
            /\ \A field \in {"obtained", "max", "passed", "place"} :
                card[e][field] = list[e][field] /\ RowFor(e, s)[field] = list[e][field]
        /\ \A e \in DOMAIN list \ DOMAIN card : \A p \in PapersIn(e) : s \notin Marked(p)

\* What is listed as final opens as a report card.
ListedOpens == \A s \in Student : DOMAIN FinalizedList(s) \subseteq ReportCards(s)

\* The registers of an examination's papers add up to its results, frozen or not
\* (subjectResult, results): they name the same students; a total is the sum of what
\* the registers say; nobody passes who has a failed or missing paper there, but for a
\* subject taken up after the results were final; and it is ready to be finalized when
\* no register has a gap.
RegistersAddUp ==
    \A e \in Exam :
        LET registers == [p \in PapersIn(e) |-> SubjectResult(p)]
            results == Results(e)
            of(s) == {p \in PapersIn(e) : s \in DOMAIN registers[p]}
        IN  /\ DOMAIN results = UNION {DOMAIN registers[p] : p \in PapersIn(e)}
            /\ \A s \in DOMAIN results :
                /\ results[s].obtained = SumOver(of(s), LAMBDA p : registers[p][s].obtained)
                /\ results[s].passed => \A p \in of(s) :
                        \/ registers[p][s].state = "PASS"
                        \/ Frozen(e, s) /\ registers[p][s].state = "MISSING"
            /\ ReadyToFinalize(e) <=>
                /\ status[e] # "FINALIZED" /\ DOMAIN results # {}
                /\ \A p \in PapersIn(e), s \in Student : s \in DOMAIN registers[p] =>
                        registers[p][s].state \in {"PASS", "FAIL", "ABSENT"}

\* A student's place is one more than the number of those on the sheet whose share of
\* the marks they sat for is greater, whoever sits how many papers.
PlacesAreRanks ==
    \A e \in Exam : LET outcomes == Outcomes(e) ranks == Ranks(outcomes) IN
        \A s \in DOMAIN ranks : ranks[s] = 1 + Cardinality({t \in DOMAIN ranks :
            outcomes[t].obtained * outcomes[s].max > outcomes[s].obtained * outcomes[t].max})
=============================================================================
