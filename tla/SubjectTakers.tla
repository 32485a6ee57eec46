--------------------------- MODULE SubjectTakers ----------------------------
(***************************************************************************)
(* Who takes a subject (subject-takers.ts): pure functions of the          *)
(* placements, the students' picks and the offerings that are open to      *)
(* selection.  A placement is one Enrollment row; a pick is one            *)
(* StudentSubject row.  Everything a register, a sheet or a bill says      *)
(* about a student's subjects goes through one of these.                   *)
(***************************************************************************)
EXTENDS FiniteSets

CONSTANTS
    Student, Year,
    Section, ClassOf,                   \* each section's class
    Offering, SectionOf, SubjectOf      \* each SectionSubject's section and subject

StructureAssumption ==
    /\ DOMAIN ClassOf = Section
    /\ SectionOf \in [Offering -> Section]
    /\ DOMAIN SubjectOf = Offering
    \* @@unique([sectionId, subjectId])
    /\ \A o, p \in Offering :
        SectionOf[o] = SectionOf[p] /\ SubjectOf[o] = SubjectOf[p] => o = p

Status == {"ACTIVE", "COMPLETED", "INACTIVE"}
Placement == [student : Student, section : Section, year : Year, status : Status]
Pick == [student : Student, year : Year, offering : Offering]

\* HISTORY_ENROLLMENT
History == {"ACTIVE", "COMPLETED"}

ClassFor(o) == ClassOf[SectionOf[o]]
Of(rows, s, y) == {p \in rows : p.student = s /\ p.year = y}
PicksOf(picks, s, y, c) ==
    {k \in picks : k.student = s /\ k.year = y /\ ClassFor(k.offering) = c}
Picked(picks, s, y, o) == [student |-> s, year |-> y, offering |-> o] \in picks

\* narrowToTakers, over takersBySubject: the candidates who take one offering.
TakersOf(rows, picks, electives, o, candidates, y) ==
    LET placedHere(s) == \E p \in Of(rows, s, y) : p.section = SectionOf[o]
        placedInSibling(s) == \E p \in Of(rows, s, y) :
            /\ p.section # SectionOf[o] /\ ClassOf[p.section] = ClassFor(o)
            /\ p.status # "INACTIVE"
    IN  {s \in candidates :
            \/ Picked(picks, s, y, o)
            \/ o \notin electives /\ (placedHere(s) \/ ~placedInSibling(s))}

\* Mutant of CrossSectionTakers: a closed placement counts as sitting in the section.
CrossSectionTakersEverPlaced(rows, picks, offerings, y, statuses) ==
    {s \in Student : \E o \in offerings :
        /\ Picked(picks, s, y, o)
        /\ ~\E p \in Of(rows, s, y) : p.section = SectionOf[o]
        /\ \E p \in Of(rows, s, y) :
            p.status \in statuses /\ ClassOf[p.section] = ClassFor(o)}

\* crossSectionTakers: who takes one of `offerings` without sitting in its section.
CrossSectionTakers(rows, picks, offerings, y, statuses) ==
    {s \in Student : \E o \in offerings :
        /\ Picked(picks, s, y, o)
        /\ ~\E p \in Of(rows, s, y) : p.status = "ACTIVE" /\ p.section = SectionOf[o]
        /\ \E p \in Of(rows, s, y) :
            p.status \in statuses /\ ClassOf[p.section] = ClassFor(o)}

\* crossSectionPlacements, with the placements themselves: the sections whose
\* announcements, assignments, papers and timetable are a student's own.
SectionsReached(rows, picks, s, y, statuses) ==
    LET placed == {p \in Of(rows, s, y) : p.status \in statuses}
    IN  {p.section : p \in placed}
            \union {SectionOf[k.offering] : k \in
                        UNION {PicksOf(picks, s, y, ClassOf[p.section]) : p \in placed}}

\* picksFromSibling
PicksFromSibling(rows, picks, s, o, y, statuses) ==
    /\ Picked(picks, s, y, o)
    /\ \E p \in Of(rows, s, y) : p.status \in statuses /\ ClassOf[p.section] = ClassFor(o)

\* subjectsOf: what a student placed in a section takes.
SubjectsOf(picks, electives, s, section, y) ==
    {o \in Offering \ electives : SectionOf[o] = section}
        \union {k.offering : k \in PicksOf(picks, s, y, ClassOf[section])}

\* recordedSubjects: what a student has marks or attendance in.
RecordedSubjects(records, s, y, offerings) == {o \in offerings : Picked(records, s, y, o)}

\* clearSelections: the picks that leave with a placement.
Cleared(picks, p) == picks \ PicksOf(picks, p.student, p.year, ClassOf[p.section])

(***************************************************************************)
(* selectAllElectives: the picks after `opened` have been placed.  A       *)
(* placement that follows another one in its class starts afresh; one that *)
(* is reopened keeps its choices; nobody is ticked into a subject they     *)
(* take from a sibling section.                                            *)
(***************************************************************************)
SelectAllElectives(rows, picks, electives, opened) ==
    LET restarting == {p \in opened : \E e \in Of(rows, p.student, p.year) :
            e.section # p.section /\ ClassOf[e.section] = ClassOf[p.section]}
        kept == {k \in picks : ~\E p \in restarting :
            k \in PicksOf(picks, p.student, p.year, ClassOf[p.section])}
        holds(p) == \E k \in kept : /\ k.student = p.student /\ k.year = p.year
                                    /\ k.offering \in electives
                                    /\ SectionOf[k.offering] = p.section
        fromSibling(p, o) ==
            \E k \in PicksOf(kept, p.student, p.year, ClassOf[p.section]) :
                SubjectOf[k.offering] = SubjectOf[o] /\ SectionOf[k.offering] # p.section
    IN  kept \union {k \in Pick : \E p \in opened :
            /\ k.student = p.student /\ k.year = p.year
            /\ k.offering \in electives /\ SectionOf[k.offering] = p.section
            /\ p \in restarting \/ ~holds(p)
            /\ ~fromSibling(p, k.offering)}

\* The same for one offering that is newly open: nothing restarts and
\* what the students hold already does not count (onlySectionSubjectIds).
SelectNewElective(picks, o, placed) ==
    picks \union {k \in Pick :
        /\ k.offering = o
        /\ \E p \in placed : k.student = p.student /\ k.year = p.year
        /\ ~\E h \in PicksOf(picks, k.student, k.year, ClassFor(o)) :
            SubjectOf[h.offering] = SubjectOf[o] /\ h.offering # o}

(***************************************************************************)
(* The two rosters built on these.                                         *)
(***************************************************************************)
ActiveIn(rows, section) == {p \in rows : p.section = section /\ p.status = "ACTIVE"}

\* AttendanceService.rosterFor, for a section that holds one session: who is listed.
Register(rows, picks, electives, o, y) ==
    LET placed == {p.student : p \in ActiveIn(rows, SectionOf[o])}
    IN  (IF o \in electives THEN TakersOf(rows, picks, electives, o, placed, y) ELSE placed)
            \union CrossSectionTakers(rows, picks, {o}, y, {"ACTIVE"})

\* ExamAccessService.rosterStudentIds, before anybody has a mark.
ExamRoster(rows, picks, section, papers, y) ==
    LET here == {p \in rows : p.section = section /\ p.year = y /\ p.status \in History}
        active == {p.student : p \in {q \in here : q.status = "ACTIVE"}}
        movedOut == {s \in Student : \E p \in Of(rows, s, y) :
                        p.status = "ACTIVE" /\ p.section # section}
    IN  active \union ({p.student : p \in here} \ movedOut)
               \union CrossSectionTakers(rows, picks, papers, y, History)

\* buildSheet: the students an examination of a section has down for a paper.
SitsPaper(rows, picks, electives, section, papers, o, y) ==
    TakersOf(rows, picks, electives, o, ExamRoster(rows, picks, section, papers, y), y)
=============================================================================
