---------------------------- MODULE MCSchoolYear ----------------------------
(***************************************************************************)
(* Who sits where in a session and what is read off it: the roster, the    *)
(* registers, the result cards, the families, the numbers handed out and   *)
(* the hours of the day.                                                   *)
(* part is the one a behaviour belongs to.  The roster is the module       *)
(* itself, and stays as it was initially in the other parts; the variables *)
(* of the others hold Off outside their own.                               *)
(***************************************************************************)
EXTENDS Roster, Integers, Sequences, TLC

CONSTANTS
    Off, None, s1, s2, y1, y2, fiveA, fiveB, sixA, artA, chemA, chemB, grade5, grade6,
    ea, eb, art, chem, lab,     \* two examinations, their papers
    \* Registers and families, of which SchoolYearProofs takes any number.
    Attendee, Form, FormClass, Lesson, LessonForm, LessonSubject, Instructor, Lessons, Day, CoveredBy,
        Hour, Rolls,
    Pupil, Guardian, School, Desk

VARIABLES
    part,
    roster,                     \* of registers and cards
    marks, mark, status, snapshot,
    gone, account, links, kept, moved, bereft,
    used, refusals,
    question, answer,           \* of the hours
    request                     \* in flight: registers, families, numbers

-----------------------------------------------------------------------------
(* The roster: one student, two sections of a class and one of the next.   *)
MCClassOf == fiveA :> grade5 @@ fiveB :> grade5 @@ sixA :> grade6
MCSectionOf == chemA :> fiveA @@ chemB :> fiveB
MCSubjectOf == chemA :> "chemistry" @@ chemB :> "chemistry"

ASSUME StructureAssumption /\ RosterAssumption

\* Bounds: one record is enough to hold a pick, requests overlap only while nobody
\* chooses subjects, and only a promotion, with no other request beside it, leads
\* to the second session, after which no form is filled in beside a record.  Emptied
\* sections get teachers again before the next request is made, and none is made after
\* two have overlapped.
InFirst == \A r \in Live(rows) : rows[r].year = y1
MayAsk ==
    /\ ~overlapped /\ staffed = {fiveA, fiveB, sixA}
    /\ \/ \A x \in Admin : call[x] = Idle
       \/ /\ electives = {} /\ picks = {} /\ records = {} /\ InFirst

RosterStep ==
    /\ \/ MayAsk /\ \E x \in Admin : Asked(x)
       \/ \E x \in Admin : Committed(x) \/ RolledBack(x)
       \/ (\A x \in Admin : call[x] = Idle) /\ \E x \in {fiveA, fiveB, sixA} \ staffed : Staff(x)
    /\ Cardinality(records') <= 1
    /\ overlapped' => /\ electives' = {} /\ picks' = {} /\ records' = {} /\ InFirst'
    /\ \A x \in Admin : CASE call'[x].op = "batch" -> \A p \in call'[x].places : p.year = y1
                         [] call'[x].op \in {"create", "update"} -> call'[x].place.year = y1
                         [] OTHER -> TRUE
    /\ (\E x \in Admin : call'[x].op \in {"batch", "create", "update"}) => records = {} \/ InFirst

-----------------------------------------------------------------------------
(* Two sections of a class, an offering for everybody and two electives.   *)
Two == {s1, s2}
Class5Sections == {fiveA, fiveB}
Taught == {artA, chemA, chemB}
Class5 == fiveA :> "five" @@ fiveB :> "five"
InSection == artA :> fiveA @@ chemA :> fiveA @@ chemB :> fiveB
Teaching == artA :> "art" @@ chemA :> "chem" @@ chemB :> "chem"

Row(s, x, y, st) == [student |-> s, section |-> x, year |-> y, status |-> st]
PickOf(s, y, o) == [student |-> s, year |-> y, offering |-> o]

-----------------------------------------------------------------------------
(* Registers: s1 may have moved or been promoted, s2 sits in fiveB.        *)
RowSets(s) ==
    {{}} \union {{Row(s, x, y1, st)} : x \in {fiveA, fiveB}, st \in {"ACTIVE", "COMPLETED"}}
         \union {{Row(s, x, y1, "COMPLETED"), Row(s, fiveA, y, "ACTIVE")} : x \in {fiveA, fiveB}, y \in {y1, y2}}
PickSets(s) == {{}} \union {{PickOf(s, y, o)} : y \in {y1, y2}, o \in {chemA, chemB}}
Lives(s) == {l \in RowSets(s) \X PickSets(s) : \A k \in l[2] : \E p \in l[1] : p.year = k.year}
Registers ==
    {[rows |-> l[1] \union m[1], picks |-> l[2] \union m[2], electives |-> {chemA, chemB}] :
        l \in Lives(s1), m \in {n \in Lives(s2) : \A p \in n[1] : p.status = "ACTIVE" /\ p.section = fiveB}}

Classes == "ann" :> {artA, chemA} @@ "bob" :> {chemB}
Calendar == "autumn" :> y1 @@ "summer" :> None

\* What the .cfg gives the constants.
MCFormClass == Class5
MCLessonForm == InSection
MCLessonSubject == Teaching
MCLessons == Classes
MCCoveredBy == Calendar
MCRolls == Registers

Attendance == INSTANCE Attendance WITH
    Student <- Attendee, Section <- Form, ClassOf <- FormClass,
    Offering <- Lesson, SectionOf <- LessonForm, SubjectOf <- LessonSubject,
    Teacher <- Instructor, Teaches <- Lessons, Date <- Day, Covering <- CoveredBy,
    Period <- Hour, Rosters <- Rolls, call <- request

ASSUME Attendance!AttendanceAssumption

\* Bounds: the placements vary before anything is marked, and once after; two entries
\* are present or absent.
InRoll == [rows |-> {Row(s1, fiveA, y1, "ACTIVE"), Row(s2, fiveB, y1, "ACTIVE")},
           picks |-> {PickOf(s2, y1, chemA)}, electives |-> {chemA, chemB}]
Filled == Cardinality(Attendance!Marked(Attendance!Cell))
RegisterStep ==
    /\ Attendance!Next
    /\ roster' # roster => InRoll \in {roster, roster'}
    /\ \A t \in Instructor : request'[t] # None =>
        LET entries == request'[t].status
        IN  /\ roster = InRoll
            /\ Filled + Cardinality(DOMAIN entries) <= 2
            /\ \A s \in DOMAIN entries : entries[s] \in {"PRESENT", "ABSENT"}

-----------------------------------------------------------------------------
(* Result cards: s1 in fiveA may move to fiveB or have finished there, s2  *)
(* is in either; each with no elective, their own section's, or a sibling's.*)
Rows1 == {{Row(s1, fiveA, y1, "ACTIVE")}, {Row(s1, fiveA, y1, "COMPLETED")},
          {Row(s1, fiveA, y1, "COMPLETED"), Row(s1, fiveB, y1, "ACTIVE")}}
Rows2 == {{Row(s2, fiveA, y1, "ACTIVE")}, {Row(s2, fiveB, y1, "ACTIVE")}}
Electing(s) == {{}, {PickOf(s, y1, chemA)}, {PickOf(s, y1, chemB)}}
CardRosters == {[rows |-> r1 \cup r2, picks |-> k1 \cup k2, electives |-> {chemA, chemB}] :
                    r1 \in Rows1, r2 \in Rows2, k1 \in Electing(s1), k2 \in Electing(s2)}

Exam == {ea, eb}
ExamSection == ea :> fiveA @@ eb :> fiveB
Paper == {art, chem, lab}
ExamOf == art :> ea @@ chem :> ea @@ lab :> eb
OfferingOf == art :> artA @@ chem :> chemA @@ lab :> chemB
MaxOf == art :> 2 @@ chem :> 4 @@ lab :> 2
Cards == INSTANCE ResultCards WITH
    Student <- Two, Year <- {y1}, Section <- Class5Sections, ClassOf <- Class5,
    Offering <- Taught, SectionOf <- InSection, SubjectOf <- Teaching, Marks <- {-1, 1, 2},
    PassPercent <- 50, Session <- y1, Rosters <- CardRosters

\* Bounds: a mark is entered once and not corrected, the roster changes once marks
\* are final somewhere, and results are reopened from the first roster alone.
First == [rows |-> {Row(s1, fiveA, y1, "ACTIVE"), Row(s2, fiveA, y1, "ACTIVE")},
          picks |-> {PickOf(s2, y1, chemA)}, electives |-> {chemA, chemB}]
CardStep ==
    /\ Cards!Next
    /\ \A p \in {art, chem, lab}, s \in {s1, s2} :
        mark[p][s] # Cards!Unmarked => mark'[p][s] = mark[p][s]
    /\ roster' # roster => First \in {roster, roster'} /\ \E e \in {ea, eb} : status[e] = "FINALIZED"
    /\ (\E e \in {ea, eb} : status[e] = "FINALIZED" /\ status'[e] = "OPEN") => roster = First

-----------------------------------------------------------------------------
(* Families: a pupil, two guardians, two schools, two requests at once.    *)
Families == INSTANCE Families WITH
    records <- kept, call <- request

ASSUME Families!FamilyAssumption

\* Bounds: one account is moved, one pupil gets records, a guardian and a pupil are
\* deleted, and three are there at once.
FamilyStep ==
    /\ Families!Next
    /\ Cardinality(moved') <= 1
    /\ Cardinality(kept') <= 1
    /\ LET going == gone \union UNION {IF request'[x].op = "remove" THEN {request'[x].person} ELSE {} :
                                           x \in Desk}
       IN  Cardinality(going \ Pupil) <= 1
    /\ Cardinality({p \in Families!Person : account'[p] # None}) <= 3

-----------------------------------------------------------------------------
(* Roll numbers: digits 0 and 1, two places, two clerks, one retry, and    *)
(* two texts that are typed in: a short number and one with a letter.      *)
Typed == {<<1>>, <<0, 2>>}
Numbers == INSTANCE Numbering WITH
    Clerk <- {"c1", "c2"}, Scheme <- "roll", Base <- 2, Width <- 2, MaxRetries <- 1,
    call <- request

\* Bounds: four forms saved or in flight, and numbers of three places when one is chosen.
Room == Cardinality(used) + Cardinality({c \in {"c1", "c2"} : request[c] # None}) < 4
            /\ Len(Numbers!NextNumber) <= 3
TakesNumber == \/ \E c \in {"c1", "c2"} : request[c] = None /\ request'[c] # None
           \/ Typed \cap (used' \ used) # {}
NumberStep == Numbers!Next /\ (TakesNumber => Room)

-----------------------------------------------------------------------------
(* The hours: a day of six, up to three classes merged onto one grid.      *)
Hours == INSTANCE MCTimetableTime WITH DayEnd <- 6, MaxClasses <- 3

-----------------------------------------------------------------------------
cardVars == <<mark, status, snapshot>>
familyVars == <<gone, account, links, kept, moved, bereft>>
numberVars == <<used, refusals>>
hourVars == <<question, answer>>
allVars == <<part, vars, roster, marks, cardVars, familyVars, numberVars, hourVars,
             request>>

MCInit ==
    /\ part \in {"roster", "registers", "cards", "families", "numbers", "hours"}
    /\ Init /\ (part # "roster" => electives = {})
    /\ IF part = "registers" THEN Attendance!Init ELSE marks = Off
    /\ IF part = "cards" THEN Cards!Init ELSE mark = Off /\ status = Off /\ snapshot = Off
    /\ part \notin {"registers", "cards"} => roster = Off
    /\ IF part = "families" THEN Families!Init
       ELSE /\ gone = Off /\ account = Off /\ links = Off /\ kept = Off
            /\ moved = Off /\ bereft = Off
    /\ IF part = "numbers" THEN Numbers!Init ELSE used = Off /\ refusals = Off
    /\ IF part = "hours" THEN Hours!Init ELSE question = Off /\ answer = Off
    /\ part \notin {"registers", "families", "numbers"} => request = Off

OthersRest ==
    /\ UNCHANGED part
    /\ part # "roster" => UNCHANGED vars
    /\ part # "registers" => UNCHANGED marks
    /\ part # "cards" => UNCHANGED cardVars
    /\ part \notin {"registers", "cards"} => UNCHANGED roster
    /\ part # "families" => UNCHANGED familyVars
    /\ part # "numbers" => UNCHANGED numberVars
    /\ part # "hours" => UNCHANGED hourVars
    /\ part \notin {"registers", "families", "numbers"} => UNCHANGED request

MCNext ==
    \/ part = "roster" /\ RosterStep /\ OthersRest
    \/ part = "registers" /\ RegisterStep /\ OthersRest
    \/ part = "cards" /\ CardStep /\ OthersRest
    \/ part = "families" /\ FamilyStep /\ OthersRest
    \/ part = "numbers" /\ NumberStep /\ OthersRest
    \/ part = "hours" /\ Hours!Next /\ OthersRest

MCSpec == MCInit /\ [][MCNext]_allVars

Symmetry == Permutations(Admin)

\* The register lists who takes the subject and who is marked in it, a save accepts the
\* former, also where the latter have moved since, and the figures of a class, a student
\* and the school count the same marks (attendance.service.ts).
RegistersAgree == part = "registers" =>
    Attendance!TypeOK /\ Attendance!RegisterIsMarkable /\ Attendance!FiguresAgree

\* One student's card, the section's cards, the ranked list, the registers of single
\* papers and the report cards a family may open say the same (exam-results.service.ts).
CardsOfOneMind == part = "cards" =>
    /\ Cards!CardsAgree /\ Cards!ListedAsOnCard /\ Cards!PlacesAreRanks
    /\ Cards!RegistersAddUp /\ Cards!ListedOpens

\* A pupil keeps a guardian and families stay within a school, unless an account was
\* deleted or moved, or two requests crossed (users.service.ts, linkParent).
FamiliesWhole == part = "families" =>
    Families!TypeOK /\ Families!GuardianKept /\ Families!LinkedWithinSchool

\* A form without a number of its own is refused only when others took every number
\* it tried (users.service.ts, generateRollNo).
RefusedOnlyByRivals == part = "numbers" => Numbers!RefusedOnlyByRivals

\* A generated grid fits its day and its breaks, and a student's own timetable shows
\* every class they have (timetable-time.ts, mergeStudentRows).
HoursStand == part = "hours" => Hours!GridStands /\ Hours!StudentGridComplete
=============================================================================
