------------------------------ MODULE Attendance ------------------------------
(***************************************************************************)
(* The register of a subject (attendance.service.ts): the sheet a teacher  *)
(* opens, the entries they may save, the marks that result and the figures *)
(* drawn from them.  A mark is one Attendance row of a student, a subject  *)
(* class, a date and a period; it has no session of its own, so the sheet  *)
(* and the save each derive one from the placements and the date.  A save  *)
(* checks first and writes all its entries in one transaction later.       *)
(***************************************************************************)
EXTENDS SubjectTakers, Money

CONSTANTS
    Teacher, Teaches,   \* each teacher's offerings
    Date, Covering,     \* for each date, the session that covers it
    Period,
    Rosters,            \* the placements, picks and electives there may be
    None

VARIABLES
    roster,     \* [rows, picks, electives]
    marks,      \* by student, offering, date and period: None or a status
    call        \* by teacher: None, or the entries checked and not yet written

vars == <<roster, marks, call>>

MarkStatus == {"PRESENT", "ABSENT", "LATE", "EXCUSED"}

AttendanceAssumption ==
    /\ IsFiniteSet(Student) /\ IsFiniteSet(Offering) /\ IsFiniteSet(Date) /\ IsFiniteSet(Period)
    /\ Teaches \in [Teacher -> SUBSET Offering]
    /\ None \notin MarkStatus
    /\ \A r \in Rosters : IsFiniteSet(r.rows) /\ \A p \in r.rows : p.student \in Student

Cell == Student \X Offering \X Date \X Period

TypeOK ==
    /\ roster \in Rosters
    /\ marks \in [Cell -> MarkStatus \union {None}]

Marked(cells) == {c \in cells : marks[c] # None}

-----------------------------------------------------------------------------
\* sessionFor: the one session of these placements, or the one that covers the date.
SessionFor(placements, date) ==
    LET years == {p.year : p \in placements}
    IN  IF Cardinality(years) = 1 THEN CHOOSE y \in years : TRUE
        ELSE IF Covering[date] = None \/ (years # {} /\ Covering[date] \notin years) THEN None
        ELSE Covering[date]

Here(o) == ActiveIn(roster.rows, SectionOf[o])

\* siblingTakers
SiblingTakers(o, date) ==
    LET y == SessionFor(Here(o), date)
    IN  IF y = None THEN {} ELSE CrossSectionTakers(roster.rows, roster.picks, {o}, y, {"ACTIVE"})

\* narrowToTakers, of the students an elective is narrowed to.
Takers(o, students, y) ==
    IF o \notin roster.electives \/ y = None THEN students
    ELSE TakersOf(roster.rows, roster.picks, roster.electives, o, students, y)

\* Mutant of Sheet: marks of students who left are dropped, as an ACTIVE-only roster did.
SheetOfTakers(o, date, marked) ==
    Takers(o, {p.student : p \in Here(o)}, SessionFor(Here(o), date)) \union SiblingTakers(o, date)

\* rosterFor: whoever takes the subject now, and whoever is marked already.
Sheet(o, date, marked) ==
    Takers(o, {p.student : p \in Here(o)}, SessionFor(Here(o), date))
        \union SiblingTakers(o, date) \union marked

\* mark: whose entries are accepted.  The session is derived once more, from the
\* placements and the sibling takers together.
Accepted(o, date) ==
    LET siblings == SiblingTakers(o, date)
        y == SessionFor(Here(o), date)
        enrolled == {[student |-> p.student, year |-> p.year] : p \in Here(o)}
                        \union {[student |-> s, year |-> y] : s \in siblings}
    IN  Takers(o, {e.student : e \in enrolled}, SessionFor(enrolled, date))

\* resolveTeacherStudentIds: whose history a teacher may read.
Running(sections) ==
    {p.year : p \in {q \in roster.rows : /\ q.status = "ACTIVE"
                                         /\ ClassOf[q.section] \in {ClassOf[s] : s \in sections}}}

StudentsOf(t) ==
    LET sections == {SectionOf[o] : o \in Teaches[t]}
        offerings == {o \in Offering : SectionOf[o] \in sections}
    IN  (UNION {{p.student : p \in ActiveIn(roster.rows, s)} : s \in sections})
            \union (UNION {CrossSectionTakers(roster.rows, roster.picks, offerings, y, {"ACTIVE"}) :
                               y \in Running(sections)})

-----------------------------------------------------------------------------
Init ==
    /\ roster \in Rosters
    /\ marks = [c \in Cell |-> None]
    /\ call = [t \in Teacher |-> None]

RosterChanges == roster' \in Rosters \ {roster} /\ UNCHANGED <<marks, call>>

\* mark, its checks: every entry's student takes the subject, or nothing is saved, even
\* where the sheet lists them for the marks they have.
AskMark(t, o, date, period) ==
    \E students \in (SUBSET Accepted(o, date)) \ {{}} :
    \E status \in [students -> MarkStatus] :
        /\ call[t] = None /\ o \in Teaches[t]
        /\ call' = [call EXCEPT ![t] = [offering |-> o, date |-> date, period |-> period, status |-> status]]
        /\ UNCHANGED <<roster, marks>>

\* Upserts in one transaction.
Mark(t) ==
    /\ call[t] # None
    /\ marks' = [c \in Cell |->
            IF c[1] \in DOMAIN call[t].status /\ <<c[2], c[3], c[4]>> =
                    <<call[t].offering, call[t].date, call[t].period>>
            THEN call[t].status[c[1]] ELSE marks[c]]
    /\ call' = [call EXCEPT ![t] = None]
    /\ UNCHANGED roster

Next ==
    \/ RosterChanges
    \/ \E t \in Teacher :
        \/ Mark(t)
        \/ \E o \in Offering, date \in Date, period \in Period : AskMark(t, o, date, period)

Spec == Init /\ [][Next]_vars

-----------------------------------------------------------------------------
(***************************************************************************)
(* The figures, over a window of dates: how many marks of each status.     *)
(***************************************************************************)
Window(students, offerings, dates) == Marked(students \X offerings \X dates \X Period)

\* tally, tallyGrouped; computeTeacherStats groups by offering, computeStudentStats by
\* date and by subject, computeSchoolSummary by date.
Tally(cells) == [status \in MarkStatus |-> Cardinality({c \in cells : marks[c] = status})]
Add(tallies) ==
    [status \in MarkStatus |->
        Total(DOMAIN tallies, [x \in DOMAIN tallies |-> tallies[x][status]])]

TeacherStats(o, dates) == Tally(Window(Student, {o}, dates))
StudentStats(s, dates) == Add([d \in dates |-> Tally(Window({s}, Offering, {d}))])
SchoolSummary(dates) == Add([d \in dates |-> Tally(Window(Student, Offering, {d}))])

\* getSectionSubjectSummary: a row for each student of the register or with a mark.
Summary(o, dates, asOf) ==
    [s \in Sheet(o, asOf, {c[1] : c \in Window(Student, {o}, dates)}) |->
        Tally(Window({s}, {o}, dates))]

-----------------------------------------------------------------------------
\* Who takes the offering on a date, by the placements and the picks alone.
Takes(s, o, date) ==
    LET y == SessionFor(Here(o), date)
    IN  \/ /\ \E p \in Here(o) : p.student = s
           /\ o \in roster.electives /\ y # None => Picked(roster.picks, s, y, o)
        \/ y # None /\ PicksFromSibling(roster.rows, roster.picks, s, o, y, {"ACTIVE"})

\* The register a teacher opens for a date and a period (rosterFor) lists who takes the
\* subject now and who is marked in it already.  A save (mark, assertAllTakeSubject), which
\* derives the session and the students by itself, accepts exactly those who take it now: a
\* marked student who has since moved, was promoted or dropped the subject stays on the
\* sheet, and a save that names them is refused whole.  The teacher may read the history of
\* all who take it (resolveTeacherStudentIds).
RegisterIsMarkable ==
    \A t \in Teacher : \A o \in Teaches[t], date \in Date, period \in Period :
        LET takers == {s \in Student : Takes(s, o, date)}
            marked == {c[1] : c \in Marked(Student \X {o} \X {date} \X {period})}
        IN  /\ Sheet(o, date, marked) = takers \union marked
            /\ Accepted(o, date) = takers
            /\ takers \subseteq StudentsOf(t)

\* "An ACTIVE-only roster silently dropped a promoted student's existing marks": the
\* rows of a class summary add up to the teacher's figure for the class, and the
\* students' figures to the school's, wherever the students have gone since.
FiguresAgree ==
    \A dates \in (SUBSET Date) \ {{}} :
        /\ \A o \in Offering, asOf \in dates :
            Add(Summary(o, dates, asOf)) = TeacherStats(o, dates)
        /\ Add([s \in Student |-> StudentStats(s, dates)]) = SchoolSummary(dates)
=============================================================================
