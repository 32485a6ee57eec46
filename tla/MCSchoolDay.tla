---------------------------- MODULE MCSchoolDay ----------------------------
(***************************************************************************)
(* What teachers, students and families do all day: quizzes, assignments,  *)
(* messages, announcements and notifications, and what they are reminded   *)
(* of.  part is the one a behaviour belongs to.  The reminders of          *)
(* installments are the module itself, and stay as they were initially in  *)
(* the other parts; the variables of the others hold Off outside their own.*)
(* Sizes are given by the .cfg, and what SchoolDayProofs proves of a part   *)
(* it proves for all of them.                                               *)
(***************************************************************************)
EXTENDS InstallmentReminders, TLC

CONSTANTS
    Off, None, Keep, s1, s2, y1, y2, a, b, artA, chemA, chemB,
    t1, t2, t3,                 \* sessions of students
    q1, q2,                     \* questions
    u1, u2, u3, bill1, bill2, essay

CONSTANTS
    Student, Year, Section, ClassOf, Offering, SectionOf, SubjectOf,    \* as in SubjectTakers
    Author, QuizTab, QuestionIds, Options, Points, QuizSection,
        Subject, NoSubject, QuizRoster,                     \* as in Quizzes
    Teacher, WorkTab, Owner, Offered, ThisYear, WorkRoster,
        MaxScore, MaxKeys,                                  \* as in Assignments
    Talker, TalkerRole, Screen, ScreenOf, MaxMessages, MaxClock,    \* as in Messaging
    Writer, WriterRole, WriterSchool, NoSchool, Classmates, Lecturers, Request,    \* as in Correspondents
    Pupil, Guardian, Instructor, Admin, Room, RoomClass, Cron, Editor,
        MaxTargets, MaxTime                                 \* as in Announcements

VARIABLES
    part,
    roster, call, crossed,      \* of more than one part
    quiz, questions, attempts, coauthored,
    assignment, submissions, keys, marked,
    type, members, messages, deletions, clock, seen, raced,
    open, links, threads,
    time, placed, children, assigned, taught, post, readBy, dismissedBy, tick, edit,
        arms, claims, overwritten,
    users, inApp, bell, jobs, today, ran, due, told

ASSUME ReminderAssumption

\* An installment due tomorrow and one two days later.
DueDays == <<1, 3>>

-----------------------------------------------------------------------------
(* Two sections of a class, an offering for everybody and two electives.   *)
Sections == artA :> a @@ chemA :> a @@ chemB :> b
Subjects == artA :> "art" @@ chemA :> "chem" @@ chemB :> "chem"
Classes == a :> "five" @@ b :> "five"

Row(s, x, y, st) == [student |-> s, section |-> x, year |-> y, status |-> st]
PickOf(s, y, o) == [student |-> s, year |-> y, offering |-> o]
Roll(rows, picks) == [rows |-> rows, picks |-> picks, electives |-> {chemA, chemB}]

-----------------------------------------------------------------------------
(* A quiz of section a: one student with two tabs, two questions.          *)
QuizRosters ==
    {Roll(rows, picks) :
        rows \in {{}, {Row(s1, a, y1, "ACTIVE")}, {Row(s1, b, y1, "ACTIVE")},
                  {Row(s1, a, y1, "COMPLETED")},
                  {Row(s1, b, y1, "ACTIVE"), Row(s1, a, y2, "ACTIVE")},
                  {Row(s1, a, y1, "ACTIVE"), Row(s1, a, y2, "ACTIVE")}},
        picks \in SUBSET {PickOf(s1, y1, chemA), PickOf(s1, y2, chemA)} \union {{PickOf(s1, y1, chemB)}}}

QuizTabs == t1 :> s1 @@ t2 :> s1

Quizzes == INSTANCE Quizzes WITH Tab <- QuizTab, Rosters <- QuizRoster

\* Bounds: the roster changes while no request is in flight, and a quiz of two
\* questions is drafted under one roster only; a question is worth one, until a patch of
\* its own makes the first worth two.
QuizPlain == Roll({Row(s1, a, y1, "ACTIVE")}, {PickOf(s1, y1, chemA)})
QuizStep ==
    /\ Quizzes!Next
    /\ roster' # roster => /\ Cardinality(Quizzes!Asked) <= 1
                           /\ \A x \in Quizzes!Session : call[x] = Quizzes!Idle
    /\ \A x \in Author : LET c == call'[x] IN
        /\ c.op = "addQuestion" => c.question.points = 1
        /\ c.op = "updateQuestion" /\ c.patch.points # None =>
            c.id = q1 /\ c.patch = [options |-> None, key |-> None, points |-> 2]
    /\ \A x \in Author : call'[x].op = "addQuestion" /\ Quizzes!Asked # {} => roster = QuizPlain

-----------------------------------------------------------------------------
(* An assignment of one session: two students, one of them with two tabs;  *)
(* one open place a session, and picks of a class one has, the compulsory  *)
(* subject from the sibling section only.                                  *)
RowSets(s) ==
    {{}} \union {{Row(s, x, y1, st)} : x \in {a, b}, st \in {"ACTIVE", "COMPLETED"}}
         \union {{Row(s, x, y1, "COMPLETED"), Row(s, a, y, "ACTIVE")} : x \in {a, b}, y \in {y1, y2}}
PickSets(s) == {{}} \union {{PickOf(s, y, o)} : y \in {y1, y2}, o \in {artA, chemA, chemB}}
Lives(s) == {l \in RowSets(s) \X PickSets(s) : \A k \in l[2] :
                /\ \E p \in l[1] : p.year = k.year
                /\ k.offering = artA => \A p \in l[1] : p.year = k.year => p.section = b}
WorkRosters ==
    {Roll(l[1] \union m[1], l[2] \union m[2]) :
        l \in Lives(s1), m \in {n \in Lives(s2) : \A p \in n[1] : p.status = "ACTIVE" /\ p.section = b}}
WorkOwners == t1 :> s1 @@ t2 :> s1 @@ t3 :> s2

Assignments == INSTANCE Assignments WITH
    Tab <- WorkTab, Rosters <- WorkRoster, Session <- ThisYear

\* Bounds: rosters change from and to the plain one, while nothing is in flight and
\* nothing was handed in; work is handed in under the plain one, by one student.
WorkPlain == Roll({Row(s1, a, y1, "ACTIVE")}, {})
Quiet == \A x \in Teacher \union WorkTab : call[x] = Assignments!Idle
WorkStep ==
    /\ Assignments!Next
    /\ roster' # roster => keys = 0 /\ Quiet /\ WorkPlain \in {roster, roster'}
    /\ ~Quiet' => roster = WorkPlain /\ assignment.offering = artA
    /\ assignment' # assignment => Quiet \/ assignment'.offering = assignment.offering
    /\ assignment'.offering # artA => keys = 0

-----------------------------------------------------------------------------
(* A thread of a student, an admin and a teacher.                          *)
TalkerRoles == "stu" :> "STUDENT" @@ "adm" :> "SCHOOL_ADMIN" @@ "tea" :> "TEACHER"
ScreenOwners == "s1" :> "stu" @@ "a1" :> "adm" @@ "t1" :> "tea"

Messaging == INSTANCE Messaging WITH
    User <- Talker, RoleOf <- TalkerRole, Tab <- Screen, Owner <- ScreenOf, MaxTime <- MaxClock

\* Bounds: two requests in flight, and those that can still be written; nothing after
\* a race; one message deleted, by the admin, at rest; only the student joins and leaves,
\* and the teacher does not hide the thread.
MessageStep ==
    /\ ~raced
    /\ Messaging!Next
    /\ Cardinality({t \in Screen : call'[t] # Messaging!Idle}) <= 2
    /\ LET sending == Cardinality({t \in Screen : call'[t].op = "send"})
       IN  sending + Len(messages') <= MaxMessages /\ sending + clock' <= MaxClock
    /\ deletions' # deletions =>
        deletions' = {<<1, "adm">>} /\ type = "DIRECT" /\ \A t \in Screen : call[t] = Messaging!Idle
    /\ \A r \in members'["tea"] : ~r.hidden
    /\ \A u \in {"adm", "tea"} : (members[u] = {}) = (members'[u] = {})

-----------------------------------------------------------------------------
(* Eight users of two schools, and whom each may write to.                 *)
WriterRoles == "sup" :> "SUPER_ADMIN" @@ "adm" :> "SCHOOL_ADMIN" @@ "tea" :> "TEACHER"
         @@ "par" :> "PARENT" @@ "stu" :> "STUDENT" @@ "sib" :> "STUDENT"
         @@ "adm2" :> "SCHOOL_ADMIN" @@ "par2" :> "PARENT"
WriterSchools == [u \in DOMAIN WriterRoles |-> IF u = "sup" THEN "none"
                                              ELSE IF u \in {"adm2", "par2"} THEN "two" ELSE "one"]

Correspondents == INSTANCE Correspondents WITH
    User <- Writer, RoleOf <- WriterRole, SchoolOf <- WriterSchool,
    Section <- Classmates, Staff <- Lecturers, active <- open

\* Bounds: two accounts closed at once, three threads, two requests to open them, the
\* second beside the first.
Opening == {r \in Request : call'[r] # Correspondents!Nobody}
WriterStep ==
    /\ Correspondents!Next
    /\ Cardinality(Writer \ open') <= 2
    /\ Cardinality(DOMAIN threads') + Cardinality(Opening) <= 3
    /\ threads' # threads \/ call' # call => open = Writer /\ Cardinality(links) = 1
    /\ \A r \in Opening : Correspondents!Between(r)' \subseteq {"sup", "adm", "stu"}
    /\ "back" \in Opening => "front" \in Opening \/ call["back"] # Correspondents!Nobody

-----------------------------------------------------------------------------
(* Announcements: one of each role, two classes, two ticks of the cron.    *)
RoomClasses == a :> "five" @@ b :> "six"

Announcements == INSTANCE Announcements WITH
    Staff <- Instructor, Section <- Room, ClassOf <- RoomClass, now <- time

\* Bounds: families and classes vary for announcements that are out at once; the clock,
\* the edits and the ticks run for an announcement of one family, to one section, and
\* nothing after an edit wrote over a flag; the second of two edits starts beside the
\* first, before anybody has read it; one pupil reads it.
OneFamily == {<<"pupil", a>>} = placed /\ taught = {<<"teacher", a>>} /\ children = {} /\ assigned = {}
Sent == [kind |-> "SECTION", ref |-> a]
NoEdit == \A e \in Editor : edit[e] = None
AnnouncementStep ==
    /\ ~overwritten
    /\ Announcements!Next
    /\ edit'["two"] # None => edit'["one"] # None \/ edit["two"] # None
    /\ edit'["two"] # None => readBy = {} /\ dismissedBy = {} /\ arms <= 1
    /\ post' # None /\ (post'.targets # {Sent} \/ ~OneFamily) =>
        post'.at = None /\ time' = 0 /\ NoEdit' /\ readBy' = {} /\ dismissedBy' = {}
    /\ <<placed, children, assigned, taught>>' # <<placed, children, assigned, taught>> =>
        post # None /\ time = 0 /\ NoEdit /\ arms = 0
            /\ readBy = {} /\ dismissedBy = {} /\ post.at = None
    /\ readBy' \union dismissedBy' \subseteq {"pupil"}
    /\ <<readBy, dismissedBy>>' # <<readBy, dismissedBy>> =>
        NoEdit /\ ~tick["first"] /\ ~tick["second"]
    /\ time' # time => OneFamily /\ post # None
    /\ ~NoEdit' /\ NoEdit => claims <= 1
    /\ arms' <= 2

-----------------------------------------------------------------------------
(* Notifications: a batch of two children's bills, a parent of both, and   *)
(* one named twice; an essay due for two.                                  *)
Notifications == INSTANCE Notifications WITH
    User <- {u1, u2, u3},
    Events <- {<<[item |-> bill1, users |-> <<u1, u2, u1>>], [item |-> bill2, users |-> <<u1, u3>>]>>},
    Task <- {essay}, Audience <- essay :> <<u2, u3>>, Chunk <- 2, LastDay <- 3

\* Bounds: one account goes, one recipient switches the bell off, one reads and
\* dismisses, on the last day with nothing in flight.
Delivered == \A j \in jobs : j.state \notin {"emitted", "writing"}
NotificationStep ==
    /\ Notifications!Next
    /\ inApp' # inApp => inApp' = {u1, u3}
    /\ users' # users => users' = {u1, u2}
    /\ bell' # bell /\ told' = told /\ users' = users =>
            Delivered /\ today = 3 /\ {r \in bell : r.user = u1}' # {r \in bell : r.user = u1}

-----------------------------------------------------------------------------
(* What the .cfg gives the constants; TLC evaluates each of the above once. *)
MCDue == DueDays
MCSectionOf == Sections
MCSubjectOf == Subjects
MCClassOf == Classes
MCQuizTab == QuizTabs
MCQuizRoster == QuizRosters
MCOwner == WorkOwners
MCWorkRoster == WorkRosters
MCTalkerRole == TalkerRoles
MCScreenOf == ScreenOwners
MCWriterRole == WriterRoles
MCWriterSchool == WriterSchools
MCRoomClass == RoomClasses

-----------------------------------------------------------------------------
quizVars == <<quiz, questions, attempts, coauthored>>
workVars == <<assignment, submissions, keys, marked>>
messageVars == <<type, members, messages, deletions, clock, seen, raced>>
writerVars == <<open, links, threads>>
announcementVars == <<time, placed, children, assigned, taught, post, readBy, dismissedBy,
                      tick, edit, arms, claims, overwritten>>
notificationVars == <<users, inApp, bell, jobs, today, ran, due, told>>
allVars == <<part, vars, roster, call, crossed, quizVars, workVars, messageVars, writerVars,
          announcementVars, notificationVars>>

MCInit ==
    /\ Init
    /\ part \in {"reminders", "quiz", "assignment", "messages", "writers", "announcement", "bell"}
    /\ IF part = "quiz" THEN Quizzes!Init
       ELSE quiz = Off /\ questions = Off /\ attempts = Off /\ coauthored = Off
    /\ IF part = "assignment" THEN Assignments!Init
       ELSE assignment = Off /\ submissions = Off /\ keys = Off /\ marked = Off
    /\ IF part = "messages" THEN Messaging!Init
       ELSE /\ type = Off /\ members = Off /\ messages = Off /\ deletions = Off
            /\ clock = Off /\ seen = Off /\ raced = Off
    /\ IF part = "writers" THEN Correspondents!Init
       ELSE open = Off /\ links = Off /\ threads = Off
    /\ IF part = "announcement" THEN Announcements!Init
       ELSE /\ time = Off /\ placed = Off /\ children = Off /\ assigned = Off /\ taught = Off
            /\ post = Off /\ readBy = Off /\ dismissedBy = Off /\ tick = Off /\ edit = Off
            /\ arms = Off /\ claims = Off /\ overwritten = Off
    /\ IF part = "bell" THEN Notifications!Init /\ inApp = {u1, u2, u3}
       ELSE /\ users = Off /\ inApp = Off /\ bell = Off /\ jobs = Off
            /\ today = Off /\ ran = Off /\ due = Off /\ told = Off
    /\ part \notin {"quiz", "assignment"} => roster = Off
    /\ part \in {"reminders", "announcement", "bell"} => call = Off
    /\ part \notin {"assignment", "writers"} => crossed = Off

OthersRest ==
    /\ UNCHANGED part
    /\ part # "reminders" => UNCHANGED vars
    /\ part # "quiz" => UNCHANGED quizVars
    /\ part # "assignment" => UNCHANGED workVars
    /\ part # "messages" => UNCHANGED messageVars
    /\ part # "writers" => UNCHANGED writerVars
    /\ part # "announcement" => UNCHANGED announcementVars
    /\ part # "bell" => UNCHANGED notificationVars
    /\ part \notin {"quiz", "assignment"} => UNCHANGED roster
    /\ part \in {"reminders", "announcement", "bell"} => UNCHANGED call
    /\ part \notin {"assignment", "writers"} => UNCHANGED crossed

MCNext ==
    \/ part = "reminders" /\ Next /\ OthersRest
    \/ part = "quiz" /\ QuizStep /\ OthersRest
    \/ part = "assignment" /\ WorkStep /\ OthersRest
    \/ part = "messages" /\ MessageStep /\ OthersRest
    \/ part = "writers" /\ WriterStep /\ OthersRest
    \/ part = "announcement" /\ AnnouncementStep /\ OthersRest
    \/ part = "bell" /\ NotificationStep /\ OthersRest

MCSpec == MCInit /\ [][MCNext]_allVars

Symmetry == Permutations(Sweep)

ASSUME DayAssumption ==
    /\ Correspondents!SchoolAssumption /\ Messaging!MessagingAssumption
    /\ Quizzes!QuizAssumption /\ Assignments!WorkAssumption /\ Assignments!RosterAssumption
    /\ Announcements!PeopleAssumption

\* Graded work stands: a quiz is graded against the questions its taker saw and the
\* grade is not lost, and neither is the mark of an assignment, unless an upload
\* crossed the grading (quizzes.service.ts, assignments.service.ts).
WorkStands ==
    /\ part = "quiz" => Quizzes!GradeStands
    /\ part = "assignment" => Assignments!MarkStands

\* A published quiz can be answered, and is listed for those who may take it.
QuizOpen == part = "quiz" => Quizzes!PublishedAnswerable /\ Quizzes!ListedIffAdmitted

\* Whoever an assignment is for is told of it and may open it, an announcement is listed
\* for and opened by those it is addressed to, and people write to exactly those they are
\* offered, in one thread unless two requests for it overlapped (assignments.service.ts,
\* announcements.service.ts, messaging.service.ts).
AudiencesAgree ==
    /\ part = "assignment" => Assignments!AudienceAgrees
    /\ part = "announcement" => Announcements!AudienceAgrees
    /\ part = "writers" => Correspondents!RecipientsExact /\ Correspondents!RosterReachable
                           /\ Correspondents!OneThreadPerPair

\* An announcement is claimed once, nobody is told twice of the rest, and everybody whose
\* account stands is told (announcements.service.ts, the cron; notifications.service.ts).
ToldOnce ==
    /\ part = "announcement" => Announcements!NotifiedOnce
    /\ part = "bell" => Notifications!ToldOnceEach

\* No message is missed and a student speaks in turn (messaging.service.ts).
ThreadsKept == part = "messages" => Messaging!NothingMissed /\ Messaging!ThreadOrderly
=============================================================================
