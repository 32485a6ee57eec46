----------------------------- MODULE Assignments -----------------------------
(***************************************************************************)
(* One assignment of a teacher and the work handed in for it               *)
(* (assignments.service.ts).  A student may upload first (requestUpload    *)
(* hands out a storage key) or hand a file in directly; both work on the   *)
(* one AssignmentSubmission row the student has.  A request reads, then    *)
(* writes; storage is written before the row that names the file.          *)
(* Titles, attachments and pages are left out.                             *)
(***************************************************************************)
EXTENDS SubjectTakers, Integers

CONSTANTS
    Teacher,            \* sessions of the teacher who set the assignment
    Tab, Owner,         \* sessions of students, and whose each is
    Offered, Session,   \* the offerings it may be set for, and its academic year
    Rosters,            \* the placements, picks and electives there may be
    MaxScore, MaxKeys,  \* bound: storage keys handed out
    None

VARIABLES
    roster,             \* [rows, picks, electives]
    assignment,         \* its status and offering
    submissions,        \* by student: None, or status, file and score
    keys,               \* storage keys handed out so far
    call,               \* what each session has read and not yet written
    marked,             \* history: by student, the file the last mark was given for
    crossed             \* history: a mark was in flight beside a student's request

vars == <<roster, assignment, submissions, keys, call, marked, crossed>>

Visible == {"PUBLISHED", "CLOSED"}
Statuses == {"UPLOADING", "SUBMITTED", "MARKED"}

TypeOK ==
    /\ roster \in Rosters
    /\ assignment \in [status : Visible \union {"DRAFT"}, offering : Offered]
    /\ \A s \in Student : submissions[s] # None =>
        /\ submissions[s].status \in Statuses
        /\ submissions[s].file \in 1..keys /\ submissions[s].score \in 0..MaxScore \union {None}

\* What a row of the database and an id are not.
WorkAssumption ==
    /\ Owner \in [Tab -> Student] /\ Teacher \intersect Tab = {}
    /\ MaxScore \in Nat
    /\ None \notin Nat \union [status : Statuses, file : Nat, score : 0..MaxScore \union {None}]

\* One open place a session (Enrollment_one_active_per_year).
RosterAssumption ==
    /\ Offered \subseteq Offering
    /\ \A r \in Rosters :
        /\ IsFiniteSet(r.rows) /\ r.rows \subseteq Placement /\ r.picks \subseteq Pick
        /\ \A p, q \in r.rows :
            p.status = "ACTIVE" /\ q.status = "ACTIVE" /\ p.student = q.student /\ p.year = q.year
                => p = q

Idle == [op |-> "idle"]

Init ==
    /\ roster \in Rosters
    /\ assignment \in [status : {"DRAFT"}, offering : Offered]
    /\ submissions = [s \in Student |-> None]
    /\ keys = 0
    /\ call = [x \in Teacher \union Tab |-> Idle]
    /\ marked = [s \in Student |-> None]
    /\ crossed = FALSE

Crosses(x) ==
    \/ x \in Teacher /\ \E t \in Tab : call[t] # Idle
    \/ x \in Tab /\ \E t \in Teacher : call[t] # Idle

Ask(x, request) ==
    /\ call[x] = Idle
    /\ call' = [call EXCEPT ![x] = request]
    /\ crossed' = (crossed \/ Crosses(x))
    /\ UNCHANGED <<roster, assignment, submissions, marked>>

Answer(x) == call' = [call EXCEPT ![x] = Idle] /\ UNCHANGED <<roster, assignment, keys, crossed>>

RosterChanges ==
    /\ roster' \in Rosters \ {roster}
    /\ UNCHANGED <<assignment, submissions, keys, call, marked, crossed>>

\* update, publish and close: any status, and another of the teacher's offerings.
Update(x) ==
    /\ call[x] = Idle
    /\ assignment' \in [status : Visible \union {"DRAFT"}, offering : Offered]
    /\ UNCHANGED <<roster, submissions, keys, call, marked, crossed>>

-----------------------------------------------------------------------------
(***************************************************************************)
(* Whose work it is: four answers to the same question.                    *)
(***************************************************************************)
Placements(r, s, y, statuses) == {p \in Of(r.rows, s, y) : p.status \in statuses}

\* enrolledFor
EnrolledFor(r, s, o, y, statuses) ==
    \/ \E p \in Placements(r, s, y, statuses) : p.section = SectionOf[o]
    \/ PicksFromSibling(r.rows, r.picks, s, o, y, statuses)

\* assignmentScopeForStudent: what a list of these sessions shows, whatever is due.
Listed(r, s, o, years) ==
    \E y \in years : \E p \in Placements(r, s, y, {"ACTIVE"}) :
        o \in SubjectsOf(r.picks, r.electives, s, p.section, y)

\* list, enforceAssignmentAccess and results, for a student or their guardian: what
\* their list shows, what opens, and whose mark may be read.
Shown(s) == assignment.status \in Visible /\ Listed(roster, s, assignment.offering, {Session})
Opens(s) ==
    /\ assignment.status \in Visible
    /\ EnrolledFor(roster, s, assignment.offering, Session, {"ACTIVE"})
ResultRead(s, byGuardian) ==
    /\ byGuardian \/ assignment.status \in Visible
    /\ EnrolledFor(roster, s, assignment.offering, Session, History)

\* notifyAssignmentPublished
Notified(r, o, y) ==
    TakersOf(r.rows, r.picks, r.electives, o,
             {p.student : p \in ActiveIn(r.rows, SectionOf[o])}
                \union CrossSectionTakers(r.rows, r.picks, {o}, y, {"ACTIVE"}), y)

\* remindAssignments, the day before it is due.
Reminded(r, o, y) ==
    LET placed == {p.student : p \in ActiveIn(r.rows, SectionOf[o])}
    IN  TakersOf(r.rows, r.picks, r.electives, o,
                 placed \union CrossSectionTakers(r.rows, r.picks, {o}, y, {"ACTIVE"}), y)

\* remindExams, the day before a paper of the same offering: the section's students
\* of the exam's own session.
RemindedOfPaper(r, o, y) ==
    LET placed == {p.student : p \in {q \in ActiveIn(r.rows, SectionOf[o]) : q.year = y}}
    IN  TakersOf(r.rows, r.picks, r.electives, o,
                 placed \union CrossSectionTakers(r.rows, r.picks, {o}, y, {"ACTIVE"}), y)

\* computeSchoolStats: how many submissions the completion rate expects.
Expected(r, o, y) ==
    IF o \notin r.electives THEN Cardinality(ActiveIn(r.rows, SectionOf[o]))
    ELSE Cardinality(UNION {{k} \X {p \in Placements(r, k.student, y, {"ACTIVE"}) :
                                        ClassOf[p.section] = ClassFor(o)} :
                                k \in {i \in r.picks : i.offering = o /\ i.year = y}})

-----------------------------------------------------------------------------
(***************************************************************************)
(* Handing work in.                                                        *)
(***************************************************************************)
Admitted(t) == EnrolledFor(roster, Owner[t], assignment.offering, Session, {"ACTIVE"})
StatusOf(s) == IF submissions[s] = None THEN "NONE" ELSE submissions[s].status

\* Mutant of AskUpload: a key is handed out for marked work too.
AskUploadAny(t) ==
    /\ assignment.status \in Visible /\ Admitted(t)
    /\ \E typed \in BOOLEAN : Ask(t, [op |-> "upload", typed |-> typed])
    /\ UNCHANGED keys

\* requestUpload; the type of the file may be left out of the request.
AskUpload(t) ==
    /\ assignment.status \in Visible /\ Admitted(t)
    /\ StatusOf(Owner[t]) # "MARKED"
    /\ \E typed \in BOOLEAN : Ask(t, [op |-> "upload", typed |-> typed])
    /\ UNCHANGED keys

Opened(file) == [status |-> "UPLOADING", file |-> file, score |-> None]

Upload(t) ==
    LET s == Owner[t]
    IN  /\ call[t].op = "upload" /\ keys < MaxKeys
        /\ keys' = keys + 1
        /\ submissions' = [submissions EXCEPT ![s] =
                IF submissions[s] = None THEN Opened(keys + 1)
                ELSE [status |-> IF call[t].typed THEN "UPLOADING" ELSE submissions[s].status,
                      file |-> keys + 1, score |-> submissions[s].score]]
        /\ call' = [call EXCEPT ![t] = Idle]
        /\ UNCHANGED <<roster, assignment, marked, crossed>>

\* submit: with no row one is made first, in whatever state the assignment is.  The
\* key of a file sent along is new, otherwise the one read is kept.
AskSubmit(t) ==
    LET s == Owner[t]
    IN  /\ Admitted(t) /\ StatusOf(s) # "MARKED"
        /\ \E sent \in BOOLEAN :
            IF submissions[s] = None
            THEN Ask(t, [op |-> "open", sent |-> sent]) /\ UNCHANGED keys
            ELSE /\ sent => keys < MaxKeys
                 /\ keys' = IF sent THEN keys + 1 ELSE keys
                 /\ Ask(t, [op |-> "submit", file |-> IF sent THEN keys + 1 ELSE submissions[s].file])

\* A second row for the student is refused by the unique index.
Open(t) ==
    LET s == Owner[t]
    IN  /\ call[t].op = "open"
        /\ IF submissions[s] # None
           THEN Answer(t) /\ UNCHANGED <<submissions, marked>>
           ELSE /\ keys + 2 <= MaxKeys
                /\ keys' = IF call[t].sent THEN keys + 2 ELSE keys + 1
                /\ submissions' = [submissions EXCEPT ![s] = Opened(keys + 1)]
                /\ call' = [call EXCEPT ![t] = [op |-> "submit", file |-> keys']]
                /\ UNCHANGED <<roster, assignment, marked, crossed>>

Submit(t) ==
    /\ call[t].op = "submit"
    /\ submissions' = [submissions EXCEPT ![Owner[t]].status = "SUBMITTED",
                                          ![Owner[t]].file = call[t].file]
    /\ Answer(t) /\ UNCHANGED marked

\* Storage refuses the file, or the server stops: what was written before stays.
Fail(t) ==
    /\ call[t] # Idle
    /\ Answer(t) /\ UNCHANGED <<submissions, marked>>

-----------------------------------------------------------------------------
(***************************************************************************)
(* Marking it.                                                             *)
(***************************************************************************)
AskMark(x) ==
    \E s \in Student, score \in 0..MaxScore \union {None} :
        /\ StatusOf(s) \in {"SUBMITTED", "MARKED"} /\ assignment.status \in Visible
        /\ Ask(x, [op |-> "mark", student |-> s, score |-> score, seen |-> submissions[s].file])
        /\ UNCHANGED keys

\* Remarks alone leave the score as it is.
Mark(x) ==
    LET c == call[x]
    IN  /\ c.op = "mark"
        /\ submissions' = [submissions EXCEPT ![c.student].status = "MARKED",
                              ![c.student].score = IF c.score = None THEN @ ELSE c.score]
        /\ marked' = [marked EXCEPT ![c.student] = c.seen]
        /\ Answer(x)

Next ==
    \/ RosterChanges
    \/ \E x \in Teacher : Update(x) \/ AskMark(x) \/ Mark(x)
    \/ \E t \in Tab :
        AskUpload(t) \/ Upload(t) \/ AskSubmit(t) \/ Open(t) \/ Submit(t) \/ Fail(t)

Spec == Init /\ [][Next]_vars

-----------------------------------------------------------------------------
\* Marked work stays marked, and shows the file the mark was given for, whatever a
\* student's tabs do at once (requestUpload, submit), while no mark is being given
\* beside them.
MarkStands ==
    ~crossed => \A s \in Student : marked[s] # None =>
        submissions[s].status = "MARKED" /\ submissions[s].file = marked[s]

\* A student's list, the door of an assignment, the audience of its announcement and
\* of its reminder, and the size of the class its completion rate is out of agree with
\* each other, while its section holds one session, the last while no student of a
\* sibling section kept a compulsory subject; whatever sessions it holds, what a list
\* shows opens and so does its mark, and the reminder of a paper goes to those of its
\* own session whose list has the subject.
AudienceAgrees ==
    LET o == assignment.offering
        listed == {s \in Student : Listed(roster, s, o, {Session})}
    IN  /\ \A s \in Student : Shown(s) => Opens(s) /\ ResultRead(s, TRUE) /\ ResultRead(s, FALSE)
        /\ RemindedOfPaper(roster, o, Session) = listed
        /\ (\A p \in ActiveIn(roster.rows, SectionOf[o]) : p.year = Session) =>
            /\ listed = Notified(roster, o, Session)
            /\ listed = Reminded(roster, o, Session)
            /\ o \in roster.electives \/ CrossSectionTakers(roster.rows, roster.picks, {o}, Session, {"ACTIVE"}) = {}
                => Cardinality(listed) = Expected(roster, o, Session)

=============================================================================
