------------------------------- MODULE Roster -------------------------------
(***************************************************************************)
(* Where students sit and what they take: enrollments.service.ts,          *)
(* promotions.service.ts with its planner, student-subjects.service.ts and *)
(* the opening of a subject to selection (section-subjects.service.ts).    *)
(*                                                                         *)
(* An administrator's request reads, decides, and writes in a transaction. *)
(* Two of them, the choice of subjects and the removal of a placement,     *)
(* read inside the transaction but lock nothing, which at READ COMMITTED   *)
(* is the same: `Ask...` is everything up to the last read that decides,   *)
(* and the action that commits is everything after it.  Offerings and      *)
(* sections are there from the start; teachers and dates are left out.     *)
(***************************************************************************)
EXTENDS SubjectTakers, Naturals, Functions

CONSTANTS
    Admin,          \* sessions of administrators and teachers
    MaxRows,        \* bound: Enrollment rows ever created
    Statuses,       \* what a form may set a status to
    NoRow, Gone,    \* an id not handed out yet, and one whose row was deleted
    NoChoice        \* a request without sectionSubjectIds

RosterAssumption ==
    /\ MaxRows \in Nat /\ Statuses \subseteq Status /\ IsFiniteSet(Student)
    /\ NoRow \notin Placement /\ Gone \notin Placement /\ NoRow # Gone

VARIABLES
    rows,           \* Enrollment, by id
    electives,      \* the offerings that are open to selection
    picks,          \* StudentSubject
    records,        \* marks or attendance of a student in an offering
    staffed,        \* the sections with teachers and a running timetable
    call,           \* what each session has read and not yet written
    overlapped      \* history: two requests have been in flight at once

vars == <<rows, electives, picks, records, staffed, call, overlapped>>

RowId == 1..MaxRows

Live(rs) == {r \in RowId : rs[r] \notin {NoRow, Gone}}
Placed(rs) == {rs[r] : r \in Live(rs)}

Keyed(rs, s, section, y) ==
    {r \in Live(rs) : rs[r].student = s /\ rs[r].section = section /\ rs[r].year = y}

ActivePlaces(rs, s, y) ==
    {r \in Live(rs) : rs[r].student = s /\ rs[r].year = y /\ rs[r].status = "ACTIVE"}

\* The two unique indexes: one row per key, one ACTIVE row per student and year.
IndexesHold(rs) ==
    \A r, q \in Live(rs) : r # q /\ rs[r].student = rs[q].student /\ rs[r].year = rs[q].year
        => /\ rs[r].section # rs[q].section
           /\ ~(rs[r].status = "ACTIVE" /\ rs[q].status = "ACTIVE")

TypeOK ==
    /\ rows \in [RowId -> Placement \union {NoRow, Gone}]
    /\ electives \subseteq Offering
    /\ picks \subseteq Pick
    /\ records \subseteq Pick
    /\ staffed \subseteq Section
    /\ \A a \in Admin : call[a].op \in
        {"idle", "create", "batch", "update", "remove", "choose", "open", "close", "mark", "promote"}

Idle == [op |-> "idle"]

Init ==
    /\ rows = [r \in RowId |-> NoRow]
    /\ electives \in SUBSET Offering
    /\ picks = {} /\ records = {} /\ staffed = Section
    /\ call = [a \in Admin |-> Idle]
    /\ overlapped = FALSE

Ask(a, request) ==
    /\ call' = [call EXCEPT ![a] = request]
    /\ overlapped' = (overlapped \/ \E b \in Admin \ {a} : call[b] # Idle)
    /\ UNCHANGED <<rows, electives, picks, records, staffed>>

Answer(a) == call' = [call EXCEPT ![a] = Idle] /\ UNCHANGED overlapped

\* New rows get ids of their own; MaxRows bounds how many there ever are.
Unused(rs) == {r \in RowId : rs[r] = NoRow}
Insert(rs, new) ==
    LET at == CHOOSE f \in Injection(new, Unused(rs)) : TRUE
    IN  [r \in RowId |-> IF \E p \in new : at[p] = r
                         THEN CHOOSE p \in new : at[p] = r ELSE rs[r]]
Fits(rs, n) == Cardinality(Unused(rs)) >= n

-----------------------------------------------------------------------------
(***************************************************************************)
(* Choosing subjects with a placement.                                     *)
(***************************************************************************)

\* resolvePicks: the chosen offerings are of the class, each subject is taken
\* once, the placement's own compulsory subjects included.
Choosable(section, chosen) ==
    LET own == {o \in Offering \ electives : SectionOf[o] = section}
    IN  /\ \A o \in chosen : ClassFor(o) = ClassOf[section]
        /\ \A o, p \in chosen \union own : SubjectOf[o] = SubjectOf[p] => o = p

\* What needs a row: all but the placement's own compulsory subjects.
Resolved(section, chosen) == {o \in chosen : o \in electives \/ SectionOf[o] # section}

\* replacePicks: what the placement would lose, without what a closed
\* placement leaves behind and what it takes anyway.
Lost(rs, p, id, choice) ==
    LET closedIn == {rs[r].section : r \in {q \in Live(rs) \ {id} :
            rs[q].student = p.student /\ rs[q].year = p.year /\ rs[q].status # "ACTIVE"}}
    IN  {k \in PicksOf(picks, p.student, p.year, ClassOf[p.section]) :
            /\ k.offering \notin choice
            /\ k.offering \in electives \/ SectionOf[k.offering] # p.section
            /\ SectionOf[k.offering] \notin closedIn}

MayReplace(rs, id, choice) ==
    RecordedSubjects(records, rs[id].student, rs[id].year,
                     {k.offering : k \in Lost(rs, rs[id], id, choice)}) = {}

Replaced(held, p, choice) ==
    Cleared(held, p)
        \union {[student |-> p.student, year |-> p.year, offering |-> o] : o \in choice}

\* What a section has open to selection.
Selectable(section) == {o \in electives : SectionOf[o] = section}

\* A form that chooses subjects is for an ACTIVE placement.
Choices(section, st) ==
    {NoChoice} \union
        {Resolved(section, chosen) : chosen \in
            {c \in SUBSET Offering : st = "ACTIVE" /\ Choosable(section, c)}}

-----------------------------------------------------------------------------
(***************************************************************************)
(* Enrolling one student.  A closed row under the same key is reopened,    *)
(* for an ACTIVE placement only.                                           *)
(***************************************************************************)
AskCreate(a) ==
    \E p \in Placement : \E choice \in Choices(p.section, p.status) :
        /\ p.status \in Statuses
        /\ p.status = "ACTIVE" => ActivePlaces(rows, p.student, p.year) = {}
        /\ Ask(a, [op |-> "create", place |-> p, choice |-> choice])

Create(a) ==
    LET p == call[a].place
        previous == Keyed(rows, p.student, p.section, p.year)
        reopened == [r \in RowId |-> IF r \in previous THEN p ELSE rows[r]]
    IN  /\ call[a].op = "create"
        /\ \E rs \in {IF p.status = "ACTIVE" /\ previous # {} THEN reopened
                      ELSE IF Fits(rows, 1) THEN Insert(rows, {p}) ELSE rows} :
            /\ Keyed(rs, p.student, p.section, p.year) # {}
            /\ IndexesHold(rs)
            /\ rows' = rs
            /\ IF call[a].choice # NoChoice
               THEN /\ \A id \in Keyed(rs, p.student, p.section, p.year) :
                            MayReplace(rs, id, call[a].choice)
                    /\ picks' = Replaced(picks, p, call[a].choice)
               ELSE picks' = IF p.status = "ACTIVE"
                             THEN SelectAllElectives(Placed(rs), picks, electives, {p})
                             ELSE picks
        /\ Answer(a)
        /\ UNCHANGED <<electives, records, staffed>>

(***************************************************************************)
(* Enrolling several: those who sit elsewhere are left out, rows that      *)
(* closed are reopened, and an insert that meets an index is skipped.      *)
(***************************************************************************)
AskBatch(a) ==
    \E students \in (SUBSET Student) \ {{}}, section \in Section, y \in Year, st \in Statuses :
        LET placed == {s \in students : st = "ACTIVE" /\ ActivePlaces(rows, s, y) # {}}
            blocked == {s \in placed : \E r \in ActivePlaces(rows, s, y) :
                            rows[r].section # section}
            place(s) == [student |-> s, section |-> section, year |-> y, status |-> st]
        IN  /\ students # blocked
            /\ Ask(a, [op |-> "batch",
                       places |-> {place(s) : s \in students \ blocked},
                       fresh |-> {place(s) : s \in students \ placed}])

Batch(a) ==
    LET c == call[a]
        reopened == [r \in RowId |->
            IF r \in Live(rows) /\ \E p \in c.places : /\ p.status = "ACTIVE"
                                                       /\ r \in Keyed(rows, p.student, p.section, p.year)
            THEN [rows[r] EXCEPT !.status = "ACTIVE"] ELSE rows[r]]
        \* ON CONFLICT DO NOTHING
        inserted == {p \in c.places :
            /\ Keyed(reopened, p.student, p.section, p.year) = {}
            /\ p.status = "ACTIVE" => ActivePlaces(reopened, p.student, p.year) = {}}
    IN  /\ c.op = "batch"
        /\ IndexesHold(reopened)
        /\ Fits(rows, Cardinality(inserted))
        /\ \E rs \in {Insert(reopened, inserted)} :
            /\ rows' = rs
            /\ picks' = SelectAllElectives(Placed(rs), picks, electives,
                                           {p \in c.fresh : p.status = "ACTIVE"})
        /\ Answer(a)
        /\ UNCHANGED <<electives, records, staffed>>

(***************************************************************************)
(* Editing a placement: to another student, section, session or status.    *)
(***************************************************************************)
Elsewhere(rs, id, p) == ActivePlaces(rs, p.student, p.year) \ {id}

AskUpdate(a) ==
    \E id \in Live(rows), p \in Placement : \E chosen \in Choices(p.section, p.status) :
        LET was == rows[id]
            moved == [p EXCEPT !.status = was.status] # was
            withinClass == /\ p.student = was.student /\ p.year = was.year
                           /\ ClassOf[p.section] = ClassOf[was.section]
            choice == IF chosen # NoChoice THEN chosen
                      ELSE IF moved /\ withinClass /\ p.status = "ACTIVE"
                      THEN Selectable(p.section) ELSE NoChoice
        IN  /\ p.status \in Statuses \union {was.status}
            /\ p.status = "ACTIVE" => Elsewhere(rows, id, p) = {}
            /\ Ask(a, [op |-> "update", id |-> id, was |-> was, place |-> p,
                       choice |-> choice, keepsStatus |-> p.status = was.status,
                       clears |-> moved /\ ~(choice # NoChoice /\ withinClass),
                       defaults |-> moved \/ was.status # "ACTIVE"])

\* A status the form leaves out is whatever the row has by then.
Update(a) ==
    LET c == call[a]
        left == IF c.clears THEN Cleared(picks, c.was) ELSE picks
    IN  /\ c.op = "update"
        /\ c.id \in Live(rows)
        /\ \E p \in {IF c.keepsStatus THEN [c.place EXCEPT !.status = rows[c.id].status] ELSE c.place} :
           \E rs \in {[rows EXCEPT ![c.id] = p]} :
            /\ IndexesHold(rs)
            /\ rows' = rs
            /\ IF c.choice # NoChoice
               THEN /\ MayReplace(rs, c.id, c.choice)
                    /\ picks' = Replaced(left, p, c.choice)
               ELSE picks' = IF p.status = "ACTIVE" /\ c.defaults
                             THEN SelectAllElectives(Placed(rs), left, electives, {p})
                             ELSE left
        /\ Answer(a)
        /\ UNCHANGED <<electives, records, staffed>>

(***************************************************************************)
(* Removing a placement.  Its picks go with the student's last row in the  *)
(* class, which is counted before the row is deleted.                      *)
(***************************************************************************)
AskRemove(a) ==
    \E id \in Live(rows) :
        LET others == {r \in Live(rows) \ {id} :
                /\ rows[r].student = rows[id].student /\ rows[r].year = rows[id].year
                /\ ClassOf[rows[r].section] = ClassOf[rows[id].section]}
        IN  Ask(a, [op |-> "remove", id |-> id, was |-> rows[id], last |-> others = {}])

\* Mutant of Remove: the picks are left behind.
RemoveKeepingPicks(a) ==
    /\ call[a].op = "remove" /\ call[a].id \in Live(rows)
    /\ rows' = [rows EXCEPT ![call[a].id] = Gone]
    /\ Answer(a)
    /\ UNCHANGED <<electives, records, picks, staffed>>

Remove(a) ==
    LET c == call[a]
    IN  /\ c.op = "remove"
        /\ c.id \in Live(rows)
        /\ rows' = [rows EXCEPT ![c.id] = Gone]
        /\ picks' = IF c.last THEN Cleared(picks, c.was) ELSE picks
        /\ Answer(a)
        /\ UNCHANGED <<electives, records, staffed>>

(***************************************************************************)
(* Promoting students out of a class: the plan for those who have an       *)
(* ACTIVE place there, and one transaction that closes, reopens, inserts   *)
(* and prepares the sections it has emptied for their next intake.         *)
(***************************************************************************)
SourcePlace(s, class, from) ==
    {r \in ActivePlaces(rows, s, from) : ClassOf[rows[r].section] = class}

\* What a student has in the destination session besides the place they leave.
HeldIn(s, class, from, to) ==
    {r \in Live(rows) \ SourcePlace(s, class, from) :
        rows[r].student = s /\ rows[r].year = to}

Movable(s, class, from, to, section) ==
    LET source == SourcePlace(s, class, from)
    IN  /\ source # {}                                                  \* NOT_ENROLLED
        /\ ~(from = to /\ \E r \in source : rows[r].section = section)  \* SAME_PLACEMENT
        /\ \A r \in HeldIn(s, class, from, to) : rows[r].status # "ACTIVE" \* ALREADY_PROMOTED

\* listSourceStudents and listDestination: what the dialog shows before anything is
\* confirmed, whom it flags, and how many already sit in the destination.
Listed(class, from) == {s \in Student : SourcePlace(s, class, from) # {}}
AlreadyPlaced(s, to) == ActivePlaces(rows, s, to) # {}
Seats(rs, section, y) == Cardinality({p \in ActiveIn(Placed(rs), section) : p.year = y})

AskPromote(a) ==
    \E students \in SUBSET Student, class \in {ClassOf[x] : x \in Section},
       from \in Year, to \in Year, section \in Section :
        LET movable == {s \in students : Movable(s, class, from, to, section)}
            dormant(s) == {r \in HeldIn(s, class, from, to) : rows[r].section = section}
        IN  /\ movable # {}
            /\ Ask(a, [op |-> "promote", students |-> movable, section |-> section,
                       year |-> to, from |-> from,
                       closes |-> UNION {SourcePlace(s, class, from) : s \in movable},
                       revives |-> UNION {dormant(s) : s \in movable},
                       creates |-> {[student |-> s, section |-> section, year |-> to,
                                     status |-> "ACTIVE"] :
                                    s \in {t \in movable : dormant(t) = {}}},
                       leaves |-> {rows[r].section :
                                    r \in UNION {SourcePlace(s, class, from) : s \in movable}}])

\* Mutant of Emptied: a section counts as empty while a sibling takes its subjects.
EmptiedOfPlaced(rs, ks, sections, years) == {x \in sections : ActiveIn(Placed(rs), x) = {}}

\* resetEmptiedSections: nobody sits there, in any session, and nobody takes its
\* subjects from a sibling in the session that finished or the one that starts.
Emptied(rs, ks, sections, years) ==
    {x \in sections : /\ ActiveIn(Placed(rs), x) = {}
                      /\ \A y \in years : CrossSectionTakers(Placed(rs), ks,
                              {o \in Offering : SectionOf[o] = x}, y, {"ACTIVE"}) = {}}

Promote(a) ==
    LET c == call[a]
        closed == [r \in RowId |-> IF r \in c.closes \intersect Live(rows)
                                   THEN [rows[r] EXCEPT !.status = "COMPLETED"] ELSE rows[r]]
        revived == [r \in RowId |-> IF r \in c.revives \intersect Live(rows)
                                    THEN [rows[r] EXCEPT !.status = "ACTIVE"] ELSE closed[r]]
    IN  /\ c.op = "promote"
        /\ Fits(rows, Cardinality(c.creates))
        /\ \E rs \in {Insert(revived, c.creates)} :
            /\ IndexesHold(rs)
            /\ rows' = rs
            /\ picks' = SelectAllElectives(Placed(rs), picks, electives,
                            c.creates \union {rs[r] : r \in c.revives \intersect Live(rs)})
        /\ staffed' = staffed \ Emptied(rows', picks', c.leaves, {c.from, c.year})
        /\ Answer(a)
        /\ UNCHANGED <<electives, records>>

-----------------------------------------------------------------------------
(***************************************************************************)
(* The subject grid of a section: students who sit there and have no       *)
(* records of what would go, and do not take from a sibling what would be  *)
(* added, get exactly the change.                                          *)
(***************************************************************************)
\* partitionStudents
Seated(students, section, y) ==
    {s \in students : \E p \in ActiveIn(Placed(rows), section) : p.student = s /\ p.year = y}

WithRecords(students, y, drop) ==
    {s \in students : RecordedSubjects(records, s, y, drop) # {}}

TakenElsewhere(students, section, y, add) ==
    {s \in students : \E k \in PicksOf(picks, s, y, ClassOf[section]) :
        /\ SectionOf[k.offering] # section
        /\ \E o \in add : SubjectOf[o] = SubjectOf[k.offering]}

AskChoose(a) ==
    \E section \in Section, y \in Year, students \in (SUBSET Student) \ {{}} :
    \E add, drop \in SUBSET Selectable(section) :
        LET seated == Seated(students, section, y)
            candidates == seated \ WithRecords(seated, y, drop)
            eligible == candidates \ TakenElsewhere(candidates, section, y, add)
        IN  /\ add \union drop # {} /\ add \intersect drop = {}
            /\ eligible # {}
            /\ Ask(a, [op |-> "choose", year |-> y, add |-> add, drop |-> drop,
                       students |-> eligible])

Choose(a) ==
    LET c == call[a]
        of(offerings) == {k \in Pick : k.student \in c.students /\ k.year = c.year
                                       /\ k.offering \in offerings}
    IN  /\ c.op = "choose"
        /\ picks' = (picks \union of(c.add)) \ of(c.drop)
        /\ Answer(a)
        /\ UNCHANGED <<rows, electives, records, staffed>>

(***************************************************************************)
(* Opening a subject to selection ticks it for those who sit in its        *)
(* section; closing it takes their ticks away, unless one of them takes    *)
(* the subject from a sibling.                                             *)
(***************************************************************************)
AskOpen(a) == \E o \in Offering \ electives : Ask(a, [op |-> "open", offering |-> o])

Open(a) ==
    LET o == call[a].offering
    IN  /\ call[a].op = "open"
        /\ electives' = electives \union {o}
        /\ picks' = SelectNewElective(picks, o, ActiveIn(Placed(rows), SectionOf[o]))
        /\ Answer(a)
        /\ UNCHANGED <<rows, records, staffed>>

\* assertNotTakenFromSibling
AskClose(a) ==
    \E o \in electives :
        /\ ~\E p \in ActiveIn(Placed(rows), SectionOf[o]) :
            \E k \in PicksOf(picks, p.student, p.year, ClassFor(o)) :
                SubjectOf[k.offering] = SubjectOf[o] /\ k.offering # o
        /\ Ask(a, [op |-> "close", offering |-> o])

Close(a) ==
    LET o == call[a].offering
        covered == {k \in picks : k.offering = o /\
            \E p \in ActiveIn(Placed(rows), SectionOf[o]) :
                p.student = k.student /\ p.year = k.year}
    IN  /\ call[a].op = "close"
        /\ electives' = electives \ {o}
        /\ picks' = picks \ covered
        /\ Answer(a)
        /\ UNCHANGED <<rows, records, staffed>>

-----------------------------------------------------------------------------
(***************************************************************************)
(* Attendance or a mark for a student the register lists.                  *)
(***************************************************************************)
OneSession(section, y) == \A p \in ActiveIn(Placed(rows), section) : p.year = y

AskMark(a) ==
    \E o \in Offering, y \in Year :
        /\ OneSession(SectionOf[o], y)
        /\ \E s \in Register(Placed(rows), picks, electives, o, y) :
            Ask(a, [op |-> "mark", pick |-> [student |-> s, year |-> y, offering |-> o]])

Mark(a) ==
    /\ call[a].op = "mark"
    /\ records' = records \union {call[a].pick}
    /\ Answer(a)
    /\ UNCHANGED <<rows, electives, picks, staffed>>

\* An index, a guard inside the transaction or a lost connection: nothing is written.
RolledBack(a) ==
    /\ call[a] # Idle
    /\ Answer(a)
    /\ UNCHANGED <<rows, electives, picks, records, staffed>>

\* A teacher is assigned to a section again.
Staff(x) == staffed' = staffed \union {x} /\ UNCHANGED <<rows, electives, picks, records, call, overlapped>>

Asked(a) ==
    /\ call[a] = Idle
    /\ \/ AskCreate(a) \/ AskBatch(a) \/ AskUpdate(a) \/ AskRemove(a) \/ AskPromote(a)
       \/ AskChoose(a) \/ AskOpen(a) \/ AskClose(a) \/ AskMark(a)

Committed(a) ==
    \/ Create(a) \/ Batch(a) \/ Update(a) \/ Remove(a) \/ Promote(a)
    \/ Choose(a) \/ Open(a) \/ Close(a) \/ Mark(a)

Next ==
    \/ \E a \in Admin : Asked(a) \/ Committed(a) \/ RolledBack(a)
    \/ \E x \in Section : Staff(x)

Spec == Init /\ [][Next]_vars

-----------------------------------------------------------------------------
(***************************************************************************)
(* What is read off the roster.                                            *)
(***************************************************************************)
\* activeSectionFor
ActiveSection(s, y) ==
    {p.section : p \in {q \in Of(Placed(rows), s, y) : q.status = "ACTIVE"}}

\* forStudent: the combination a student and their guardians are shown, which is also
\* what their timetable is made of.
OwnSubjects(s, y) ==
    UNION {SubjectsOf(picks, electives, s, x, y) : x \in ActiveSection(s, y)}

OfferedIn(section) == {o \in Offering : SectionOf[o] = section}

\* matrix: the subject grid of a section, a row of ticks for everybody who sits there or
\* takes one of its subjects from a sibling.
Matrix(section, y) ==
    LET own == {p.student : p \in {q \in ActiveIn(Placed(rows), section) : q.year = y}}
        siblings == CrossSectionTakers(Placed(rows), picks, OfferedIn(section), y, {"ACTIVE"})
        chosen(s) == {o \in OfferedIn(section) : Picked(picks, s, y, o)}
    IN  [s \in own \union siblings |-> IF s \in own THEN chosen(s) \intersect electives ELSE chosen(s)]

\* notifyChanges: the students whose subjects a grid changes as it commits.
Changed(c) ==
    {s \in c.students : \/ \E o \in c.add : ~Picked(picks, s, c.year, o)
                        \/ \E o \in c.drop : Picked(picks, s, c.year, o)}

\* notifyPublished of the timetable does not look at the session of a placement;
\* that of an examination does.
TimetableTold(section, y) ==
    {p.student : p \in ActiveIn(Placed(rows), section)}
        \union CrossSectionTakers(Placed(rows), picks, OfferedIn(section), y, {"ACTIVE"})
ExamTold(section, papers, y) ==
    {p.student : p \in {q \in ActiveIn(Placed(rows), section) : q.year = y}}
        \union CrossSectionTakers(Placed(rows), picks, papers, y, {"ACTIVE"})

\* listForAudience: whose list of examinations shows those of a section.
ExamAudience(section, y) ==
    {s \in Student : section \in SectionsReached(Placed(rows), picks, s, y, History)}

\* Until two requests overlap, a pick belongs to a student who has a placement in
\* the class that teaches it: no roster lists, and no bill counts, a subject of
\* somebody who never sat there.
PicksBacked ==
    ~overlapped => \A k \in picks : \E p \in Of(Placed(rows), k.student, k.year) :
        ClassOf[p.section] = ClassFor(k.offering)

\* Until two requests overlap, nobody has picked a subject from two sections.
PickedOnce ==
    ~overlapped => \A k, h \in picks :
        /\ k.student = h.student /\ k.year = h.year
        /\ ClassFor(k.offering) = ClassFor(h.offering)
        /\ SubjectOf[k.offering] = SubjectOf[h.offering]
        => k = h

\* The students a register lists, the students an examination has down for a
\* paper, and the subjects a student is shown are three computations of one
\* relation.  The sheet is excused for students who also hold a closed row in the
\* class: it counts that row as a place (see SitsPaper).
Taking(s, o, y) == o \in OwnSubjects(s, y)

RegisterAgrees ==
    \A o \in Offering, y \in Year : OneSession(SectionOf[o], y) =>
        Register(Placed(rows), picks, electives, o, y) = {s \in Student : Taking(s, o, y)}

SheetAgrees ==
    \A o \in Offering, y \in Year :
        LET papers == {p \in Offering : SectionOf[p] = SectionOf[o]}
            sits == SitsPaper(Placed(rows), picks, electives, SectionOf[o], papers, o, y)
        IN  \A s \in Student :
            (\A p \in Of(Placed(rows), s, y) : p.status = "ACTIVE") =>
                (s \in sits <=> Taking(s, o, y))

\* The grid "never disagrees" with the registers: whom it lists are those who sit in the
\* section and those its registers list from a sibling, and its ticks are the register of
\* an elective and the siblings in that of a compulsory subject.
GridAgrees ==
    \A section \in Section, y \in Year : OneSession(section, y) =>
        LET grid == Matrix(section, y)
            own == {p.student : p \in ActiveIn(Placed(rows), section)}
            listed(o) == Register(Placed(rows), picks, electives, o, y)
            ticked(o) == {s \in DOMAIN grid : o \in grid[s]}
        IN  /\ DOMAIN grid = own \union UNION {listed(o) : o \in OfferedIn(section)}
            /\ \A o \in OfferedIn(section) :
                listed(o) = IF o \in electives THEN ticked(o) ELSE own \union ticked(o)

\* Whoever takes a subject may open what its section posts; the check for one
\* subject and the list of sections do not contradict each other.
AccessAgrees ==
    \A s \in Student, o \in Offering, y \in Year :
        LET reached == SectionsReached(Placed(rows), picks, s, y, {"ACTIVE"})
        IN  /\ Taking(s, o, y) => SectionOf[o] \in reached
            /\ PicksFromSibling(Placed(rows), picks, s, o, y, {"ACTIVE"}) =>
                    Taking(s, o, y) /\ SectionOf[o] \in reached

\* Whoever takes a subject is told when its section publishes a timetable or an
\* examination with its paper, and finds in their list what they were told of.
NoticesReach ==
    \A section \in Section, y \in Year :
        LET offered == OfferedIn(section)
            toldOfHours == TimetableTold(section, y)
        IN  /\ ExamTold(section, offered, y) \subseteq ExamAudience(section, y)
            /\ \A o \in offered : {s \in Student : Taking(s, o, y)} \subseteq
                    ExamTold(section, {o}, y) \intersect toldOfHours

RostersAgree == RegisterAgrees /\ SheetAgrees /\ GridAgrees /\ AccessAgrees /\ NoticesReach

\* A subject with marks or attendance is dropped neither by the subject grid nor
\* by an edit that stays in the class, while the student has an open place there
\* and never closed one where the subject is taught.
Committing(a, op) == call[a].op = op /\ call'[a] = Idle

RecordedStep ==
    ~overlapped' =>
        \A a \in Admin : Committing(a, "choose") \/ (Committing(a, "update") /\ ~call[a].clears) =>
            \A k \in picks \intersect records, p \in Placed(rows) \intersect Placed(rows') :
                /\ p.status = "ACTIVE" /\ k \in PicksOf(picks, p.student, p.year, ClassOf[p.section])
                /\ ~\E q \in Of(Placed(rows), k.student, k.year) :
                        q.status # "ACTIVE" /\ q.section = SectionOf[k.offering]
                => k.offering \in SubjectsOf(picks', electives', k.student, p.section, k.year)

\* A change of the grid is told to exactly the students whose own subjects it changes,
\* while nobody has left the section since it was read.
ToldStep ==
    ~overlapped' => \A a \in Admin : Committing(a, "choose") /\ picks' # picks =>
        \A s \in Student, y \in Year :
            (s \in Changed(call[a]) /\ y = call[a].year) <=> OwnSubjects(s, y)' # OwnSubjects(s, y)

\* A promotion leaves everybody it names in exactly one place of the session they
\* are promoted to, or does nothing at all, whatever else was written since it was
\* planned -- unless a row it was to reopen has been deleted or moved.
PromotedStep ==
    \A a \in Admin : Committing(a, "promote") /\ rows' # rows =>
        LET c == call[a]
            known == \A r \in c.revives : /\ r \in Live(rows)
                                          /\ rows[r].section = c.section /\ rows[r].year = c.year
                                          /\ rows[r].student \in c.students
        IN  known => \A s \in c.students :
            /\ Cardinality(ActivePlaces(rows', s, c.year)) = 1
            /\ \E r \in ActivePlaces(rows', s, c.year) : rows'[r].section = c.section
            /\ \A r \in c.closes : rows[r] # Gone => rows'[r].status # "ACTIVE"

\* Whom the dialog lists without a flag is whom the plan moves, to any section of another
\* session.
PreviewHolds ==
    \A class \in {ClassOf[x] : x \in Section}, from, to \in Year : from # to =>
        LET listed == {s \in Listed(class, from) : ~AlreadyPlaced(s, to)} IN
        \A section \in Section :
            listed = {s \in Student : Movable(s, class, from, to, section)}

\* Until two requests overlap, a promotion takes as many seats as it has students.
SeatsStep ==
    ~overlapped' => \A a \in Admin : Committing(a, "promote") /\ rows' # rows =>
        LET c == call[a] IN
        Seats(rows', c.section, c.year) = Seats(rows, c.section, c.year) + Cardinality(c.students)

\* "So half-promoting a class never strips teachers from the students still sitting in
\* it": until two requests overlap, no section loses its teachers that a student still
\* reaches in those sessions.
StaffStep ==
    ~overlapped' => \A a \in Admin : Committing(a, "promote") =>
        \A s \in Student, y \in {call[a].from, call[a].year} :
            (staffed \ staffed') \intersect
                SectionsReached(Placed(rows'), picks', s, y, {"ACTIVE"}) = {}

-----------------------------------------------------------------------------
\* Whoever has picked a subject has a place in the class that teaches it, and takes it
\* from one section, until two requests overlap (enrollments.service.ts,
\* student-subjects.service.ts).
PicksHeld == TypeOK /\ PicksBacked /\ PickedOnce

\* The register, the sheet of marks, the grid, the doors, the notices and the student's
\* own subjects are one relation (attendance.service.ts, exam-access.service.ts,
\* student-subjects.service.ts), and the promotion dialog lists whom the plan moves
\* (promotions.service.ts).
RostersOfOneMind == RostersAgree /\ PreviewHolds

\* A subject with marks or attendance is not dropped by an edit, a change of subjects is
\* told to whom it changes, and a promotion leaves everybody in exactly one place and no
\* student without their teachers (student-subjects.service.ts, promotions.service.ts).
PlacesStep == RecordedStep /\ ToldStep /\ PromotedStep /\ SeatsStep /\ StaffStep
PlacesKept == [][PlacesStep]_vars

-----------------------------------------------------------------------------
(***************************************************************************)
(* The inductive invariant behind PicksBacked, PickedOnce and the steps    *)
(* above.                                                                  *)
(***************************************************************************)
InFlight(a) == call[a].op # "idle"

\* At most one place for a student.
OneEach(places) == \A p, q \in places : p.student = q.student => p = q

CallTyped(c) ==
    /\ c.op = "idle" => c = Idle
    /\ c.op \in {"create", "update"} =>
          c.place \in Placement /\ (c.choice # NoChoice => c.choice \subseteq Offering)
    /\ c.op \in {"update", "remove"} => c.id \in RowId /\ c.was \in Placement
    /\ c.op = "batch" => c.places \subseteq Placement /\ c.fresh \subseteq c.places /\ OneEach(c.places)
    /\ c.op = "promote" =>
          /\ c.students \subseteq Student /\ c.closes \subseteq RowId /\ c.revives \subseteq RowId \ c.closes
          /\ c.creates \subseteq {p \in Placement : /\ p.student \in c.students /\ p.section = c.section
                                                    /\ p.year = c.year /\ p.status = "ACTIVE"}
          /\ OneEach(c.creates)
          /\ ExistsBijection(c.revives, c.students \ {p.student : p \in c.creates})
    /\ c.op = "choose" => c.year \in Year /\ c.students \subseteq Student /\ c.add \subseteq Offering
    /\ c.op \in {"open", "close"} => c.offering \in Offering
    /\ c.op = "mark" => c.pick \in Pick

\* Nothing stands for a subject twice.
Apart(offerings) == \A o, p \in offerings : SubjectOf[o] = SubjectOf[p] => o = p

\* A place behind a pick.
Backs(p, s, y, o) == p.student = s /\ p.year = y /\ ClassOf[p.section] = ClassFor(o)
SameClass(p, q) ==
    /\ p.student = q.student /\ p.year = q.year
    /\ ClassOf[p.section] = ClassOf[q.section]

\* What a request has found, and is still so if no other came between.
CallSound(c) ==
    /\ c.op \in {"create", "update"} /\ c.choice # NoChoice =>
          Apart(c.choice) /\ \A o \in c.choice : ClassFor(o) = ClassOf[c.place.section]
    /\ c.op \in {"update", "remove"} => c.id \in Live(rows) /\ rows[c.id] = c.was
    /\ c.op = "update" =>
          /\ ~c.clears => SameClass(c.place, c.was)
          /\ c.choice # NoChoice => c.place.status = "ACTIVE"
          /\ c.keepsStatus => c.place.status = c.was.status
          /\ c.choice = NoChoice /\ ~c.clears /\ c.defaults => c.was.status # "ACTIVE"
    /\ c.op = "remove" /\ ~c.last =>
          \E r \in Live(rows) \ {c.id} : SameClass(rows[r], c.was)
    /\ c.op = "batch" =>
          \A p \in c.fresh : p.status = "ACTIVE" => ActivePlaces(rows, p.student, p.year) = {}
    /\ c.op = "promote" =>
          /\ \A r \in c.revives :
                /\ r \in Live(rows) /\ rows[r].student \in c.students
                /\ rows[r].section = c.section /\ rows[r].year = c.year
          /\ \A r \in c.closes : r \in Live(rows) /\ ~(rows[r].section = c.section /\ rows[r].year = c.year)
          /\ \A s \in c.students : \A r \in ActivePlaces(rows, s, c.year) : rows[r].section # c.section
    /\ c.op = "choose" =>
          /\ Apart(c.add) /\ c.add \intersect c.drop = {}
          /\ \A s \in c.students, o \in c.add : \A k \in PicksOf(picks, s, c.year, ClassFor(o)) :
                SubjectOf[k.offering] = SubjectOf[o] => k.offering = o
          /\ \A s \in c.students, o \in c.add \union c.drop :
                /\ o \in electives
                /\ \E p \in Placed(rows) : /\ p.student = s /\ p.year = c.year
                                           /\ p.status = "ACTIVE" /\ p.section = SectionOf[o]
          /\ \A s \in c.students : RecordedSubjects(records, s, c.year, c.drop) = {}

\* No id is handed out again: the rows a promotion is to close are still theirs, or gone.
RowsKnown(c) == c.op = "promote" => \A r \in c.closes : rows[r] # NoRow

RosterInvariant ==
    /\ TypeOK
    /\ DOMAIN call = Admin
    /\ IndexesHold(rows)
    /\ \A a \in Admin : CallTyped(call[a]) /\ RowsKnown(call[a])
    /\ PicksBacked /\ PickedOnce
    /\ ~overlapped =>
          /\ \A a, b \in Admin : InFlight(a) /\ InFlight(b) => a = b
          /\ \A a \in Admin : CallSound(call[a])
=============================================================================
