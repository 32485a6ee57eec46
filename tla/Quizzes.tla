------------------------------ MODULE Quizzes -------------------------------
(***************************************************************************)
(* One quiz of a section (quizzes.service.ts): its authors draft and       *)
(* publish it, the students who take its subject attempt it, and an        *)
(* attempt is scored against the stored questions when it is handed in.    *)
(*                                                                         *)
(* Every request reads, decides and then writes one row; nothing is held   *)
(* in between.  The order of questions, texts and pages are left out.      *)
(***************************************************************************)
EXTENDS SubjectTakers, Integers, FiniteSetsExt, TLC

CONSTANTS
    Author,             \* sessions of the teachers who may edit the quiz
    Tab,                \* sessions of students: [Tab -> Student]
    QuestionIds,        \* bound: questions there may be at once
    Options,            \* the sets of options a question may offer; {} is true/false
    Points,
    QuizSection,
    Subject, NoSubject, \* what a quiz may be about
    Rosters,            \* the placements, picks and electives there may be
    None

VARIABLES
    roster,             \* [rows, picks, electives]
    quiz,               \* isPublished and subjectId
    questions,          \* by id: None, or options, correctAnswer and points
    attempts,           \* by student: None, or one QuizAttempt
    call,               \* what each session has read and not yet written
    coauthored          \* history: two authors' requests have been in flight at once

vars == <<roster, quiz, questions, attempts, call, coauthored>>

Asked == {q \in QuestionIds : questions[q] # None}

\* validateQuestionShape
Answers(options) == IF options = {} THEN {"true", "false"} ELSE options
WellShaped(q) == Cardinality(q.options) # 1 /\ q.key \in Answers(q.options)

TypeOK ==
    /\ roster \in Rosters
    /\ quiz.published \in BOOLEAN /\ quiz.subject \in Subject \union {NoSubject}
    /\ \A q \in Asked : questions[q].points \in Points
    /\ \A s \in Student : attempts[s] # None =>
        attempts[s].status \in {"IN_PROGRESS", "GRADED"}

QuizAssumption ==
    /\ StructureAssumption
    /\ Author \intersect DOMAIN Tab = {} /\ Tab \in [DOMAIN Tab -> Student]
    /\ \A r \in Rosters : r.rows \subseteq Placement /\ IsFiniteSet(r.rows) /\ r.picks \subseteq Pick

Idle == [op |-> "idle"]
Session == Author \union DOMAIN Tab

Init ==
    /\ roster \in Rosters
    /\ quiz \in [published : {FALSE}, subject : Subject \union {NoSubject}]
    /\ questions = [q \in QuestionIds |-> None]
    /\ attempts = [s \in Student |-> None]
    /\ call = [x \in Session |-> Idle]
    /\ coauthored = FALSE

Ask(x, request) ==
    /\ call[x] = Idle
    /\ call' = [call EXCEPT ![x] = request]
    /\ coauthored' = (coauthored \/ (x \in Author /\ \E y \in Author \ {x} : call[y] # Idle))
    /\ UNCHANGED <<roster, quiz, questions, attempts>>

Answer(x) == call' = [call EXCEPT ![x] = Idle] /\ UNCHANGED <<roster, coauthored>>
Refused(x) == Answer(x) /\ UNCHANGED <<quiz, questions, attempts>>

\* Placements and choices of subjects change under a quiz (see Roster).
RosterChanges ==
    /\ roster' \in Rosters \ {roster}
    /\ UNCHANGED <<quiz, questions, attempts, call, coauthored>>

-----------------------------------------------------------------------------
(***************************************************************************)
(* Authoring.                                                              *)
(***************************************************************************)

Editable == ~quiz.published /\ \A s \in Student : attempts[s] = None

Question == {q \in [options : Options, key : UNION {Answers(o) : o \in Options}, points : Points] :
                WellShaped(q)}

AskAddQuestion(x) ==
    /\ Editable
    /\ \E q \in Question : Ask(x, [op |-> "addQuestion", question |-> q])

\* The bound on questions is the guard.
AddQuestion(x) ==
    /\ call[x].op = "addQuestion"
    /\ IF Asked = QuestionIds THEN Refused(x)
       ELSE /\ \E q \in QuestionIds \ Asked :
                questions' = [questions EXCEPT ![q] = call[x].question]
            /\ Answer(x) /\ UNCHANGED <<quiz, attempts>>

\* A patch names some fields; the question it would make of the stored one is checked.
Patches == [options : Options \union {None}, key : {None} \union UNION {Answers(o) : o \in Options},
            points : Points \union {None}]
Patched(q, patch) ==
    [q EXCEPT !.options = IF patch.options = None THEN @ ELSE patch.options,
              !.key = IF patch.key = None THEN @ ELSE patch.key,
              !.points = IF patch.points = None THEN @ ELSE patch.points]

AskUpdateQuestion(x) ==
    \E q \in Asked, patch \in Patches :
        /\ Editable
        /\ Patched(questions[q], patch) # questions[q] /\ WellShaped(Patched(questions[q], patch))
        /\ Ask(x, [op |-> "updateQuestion", id |-> q, patch |-> patch])

UpdateQuestion(x) ==
    /\ call[x].op = "updateQuestion"
    /\ IF questions[call[x].id] = None THEN Refused(x)
       ELSE /\ questions' = [questions EXCEPT ![call[x].id] = Patched(@, call[x].patch)]
            /\ Answer(x) /\ UNCHANGED <<quiz, attempts>>

AskDeleteQuestion(x) ==
    \E q \in Asked : Editable /\ Ask(x, [op |-> "deleteQuestion", id |-> q])

DeleteQuestion(x) ==
    /\ call[x].op = "deleteQuestion"
    /\ questions' = [questions EXCEPT ![call[x].id] = None]
    /\ Answer(x) /\ UNCHANGED <<quiz, attempts>>

\* A null subject clears it.
AskUpdateQuiz(x) ==
    \E subject \in Subject \union {NoSubject} : Editable /\ Ask(x, [op |-> "updateQuiz", subject |-> subject])

UpdateQuiz(x) ==
    /\ call[x].op = "updateQuiz"
    /\ quiz' = [quiz EXCEPT !.subject = call[x].subject]
    /\ Answer(x) /\ UNCHANGED <<questions, attempts>>

AskPublish(x) == Asked # {} /\ Ask(x, [op |-> "publish"])

Publish(x) ==
    /\ call[x].op = "publish"
    /\ quiz' = [quiz EXCEPT !.published = TRUE]
    /\ Answer(x) /\ UNCHANGED <<questions, attempts>>

-----------------------------------------------------------------------------
(***************************************************************************)
(* Who may attempt it.  A quiz names a section and a subject, not an       *)
(* offering; a subject its section does not offer makes it section-wide.   *)
(***************************************************************************)
OfferingOf(section, subject) ==
    {o \in Offering : SectionOf[o] = section /\ SubjectOf[o] = subject}

Active(r, s) == {p \in r.rows : p.student = s /\ p.status = "ACTIVE"}
TakenIn(r, s, section, y) == SubjectsOf(r.picks, r.electives, s, section, y)

\* available(): what a student's list shows.
Available(r, s, subject) ==
    LET placements == Active(r, s)
        taken == UNION {TakenIn(r, s, p.section, p.year) : p \in placements}
        offering == OfferingOf(QuizSection, subject)
    IN  IF \E p \in placements : p.section = QuizSection
        THEN offering = {} \/ offering \subseteq taken
        ELSE offering # {} /\ offering \subseteq taken

\* siblingPlacementFor, when the student has no place in the section itself.
SiblingPlacements(r, s, subject) ==
    {p \in Active(r, s) :
        /\ ClassOf[p.section] = ClassOf[QuizSection]
        /\ \E o \in OfferingOf(QuizSection, subject) :
            PicksFromSibling(r.rows, r.picks, s, o, p.year, {"ACTIVE"})}

\* Mutant of Entrances: only the section's own students get in.
EntrancesHere(r, s, subject) == {p \in Active(r, s) : p.section = QuizSection}

\* The placements startAttempt may go by: it takes the first it finds.
Entrances(r, s, subject) ==
    LET here == {p \in Active(r, s) : p.section = QuizSection}
    IN  IF here # {} THEN here ELSE SiblingPlacements(r, s, subject)

Admits(r, s, subject, place) ==
    OfferingOf(QuizSection, subject) \subseteq TakenIn(r, s, QuizSection, place.year)

\* notifyQuizPublished: the section's students and those who pick the subject in it,
\* in every session that has students in the class.
NotifiedOf(r, subject) ==
    {s \in Student : \E p \in Active(r, s) : p.section = QuizSection}
        \union UNION {CrossSectionTakers(r.rows, r.picks, OfferingOf(QuizSection, subject), y, {"ACTIVE"}) :
                        y \in {p.year : p \in {q \in r.rows : /\ q.status = "ACTIVE"
                                             /\ ClassOf[q.section] = ClassOf[QuizSection]}}}

AskStart(t) ==
    LET s == Tab[t]
    IN  /\ quiz.published
        /\ \E place \in Entrances(roster, s, quiz.subject) : Admits(roster, s, quiz.subject, place)
        /\ attempts[s] # None => attempts[s].status = "IN_PROGRESS"
        /\ Ask(t, [op |-> "start", found |-> attempts[s] # None])

Fresh == [status |-> "IN_PROGRESS", answers |-> <<>>, score |-> 0, outOf |-> 0]

\* A second row for the student is refused by the unique index.
Start(t) ==
    LET s == Tab[t]
    IN  /\ call[t].op = "start"
        /\ IF call[t].found \/ attempts[s] # None THEN Refused(t)
           ELSE /\ attempts' = [attempts EXCEPT ![s] = Fresh]
                /\ Answer(t) /\ UNCHANGED <<quiz, questions>>

-----------------------------------------------------------------------------
(***************************************************************************)
(* Handing in: the questions are read with the attempt, and the score is   *)
(* written in whatever state the attempt is by then.                       *)
(***************************************************************************)
Correct(q, id, answers) == id \in DOMAIN answers /\ answers[id] = q.key
Marks(qs, ids, answers) ==
    [id \in ids |-> IF Correct(qs[id], id, answers) THEN qs[id].points ELSE 0]
Score(qs, ids, answers) ==
    LET marks == Marks(qs, ids, answers) IN MapThenSumSet(LAMBDA id : marks[id], ids)
OutOf(qs, ids) == MapThenSumSet(LAMBDA id : qs[id].points, ids)

AskSubmit(t) ==
    LET s == Tab[t]
    IN  /\ attempts[s] # None /\ attempts[s].status = "IN_PROGRESS"
        /\ \E D \in SUBSET Asked : \E answers \in [D -> UNION {Answers(o) : o \in Options}] :
            /\ \A q \in D : answers[q] \in Answers(questions[q].options)
            /\ Ask(t, [op |-> "submit", answers |-> answers,
                       score |-> Score(questions, Asked, answers),
                       outOf |-> OutOf(questions, Asked)])

Submit(t) ==
    /\ call[t].op = "submit"
    /\ attempts' = [attempts EXCEPT ![Tab[t]] =
            [status |-> "GRADED", answers |-> call[t].answers,
             score |-> call[t].score, outOf |-> call[t].outOf]]
    /\ Answer(t) /\ UNCHANGED <<quiz, questions>>

\* getAttempt, once graded: each question as it is stored now, with its mark.
ShownMarks(attempt) == Marks(questions, Asked, attempt.answers)

Next ==
    \/ RosterChanges
    \/ \E x \in Author :
        \/ AskAddQuestion(x) \/ AddQuestion(x)
        \/ AskUpdateQuestion(x) \/ UpdateQuestion(x)
        \/ AskDeleteQuestion(x) \/ DeleteQuestion(x)
        \/ AskUpdateQuiz(x) \/ UpdateQuiz(x)
        \/ AskPublish(x) \/ Publish(x)
    \/ \E t \in DOMAIN Tab :
        \/ AskStart(t) \/ Start(t)
        \/ AskSubmit(t) \/ Submit(t)

Spec == Init /\ [][Next]_vars

-----------------------------------------------------------------------------
\* The marks a graded attempt shows, question by question, add up to the score it
\* was given: nobody's work is rescored by a later edit (assertEditable), whatever
\* the tabs of a student and the requests of an author do at once.
GradeStands ==
    ~coauthored => \A s \in Student : attempts[s] # None /\ attempts[s].status = "GRADED" =>
        LET shown == ShownMarks(attempts[s])
        IN  /\ attempts[s].score = MapThenSumSet(LAMBDA q : shown[q], Asked)
            /\ attempts[s].outOf = OutOf(questions, Asked)

\* What reaches students has questions, and each of them has a right answer among
\* its options, through every sequence of patches (updateQuestion, publish).
PublishedAnswerable ==
    ~coauthored /\ quiz.published => Asked # {} /\ \A q \in Asked : WellShaped(questions[q])

\* A quiz is started by exactly the students whose list shows it, while they have
\* one placement ("gated in available()/startAttempt()"), and everybody whose list
\* shows it is told of its publication, whatever their placements.
ListedIffAdmitted ==
    \A s \in Student :
        /\ Cardinality(Active(roster, s)) <= 1 =>
            (Available(roster, s, quiz.subject) =
                \E p \in Entrances(roster, s, quiz.subject) : Admits(roster, s, quiz.subject, p))
        /\ Available(roster, s, quiz.subject) => s \in NotifiedOf(roster, quiz.subject)

=============================================================================
