----------------------------- MODULE ExamSheets -----------------------------
(***************************************************************************)
(* Examinations up to publication (exams.service.ts, exam-status.ts): a    *)
(* teacher proposes a date sheet, administrators correct and review it,    *)
(* and publish it.  Every operation reads the examination, decides, and    *)
(* writes in a later transaction whose guard is the status it has read, so *)
(* sessions that work on one examination at once meet only there.          *)
(***************************************************************************)
EXTENDS Naturals, FiniteSets

CONSTANTS
    Exam,           \* examinations
    Subject,        \* the offerings of the class that sits it
    Slot,           \* a time and a place: papers in one slot clash
    Teacher,        \* sessions of the teacher who proposes
    Admin,          \* sessions of the school's administrators
    Unset,          \* a paper without a date, time and venue
    InFlight        \* bound: calls in flight at once

ASSUME SheetAssumption ==
    /\ Unset \notin Slot /\ Teacher \cap Admin = {}
    /\ IsFiniteSet(Subject) /\ InFlight \in Nat

Session == Teacher \cup Admin

VARIABLES
    status,         \* of each examination; NONE before it is created
    author,         \* who created it
    term,           \* whether it has a term
    terms,          \* whether the session has any to choose from
    sheet,          \* the papers of each examination
    call            \* what each session is doing

exams == <<status, author, term, terms, sheet>>
vars == <<status, author, term, terms, sheet, call>>

Status == {"NONE", "DRAFT", "PENDING_REVIEW", "CHANGES_REQUESTED", "PUBLISHED",
           "REJECTED", "DELETED"}

Paper == [given : BOOLEAN, at : Slot \cup {Unset}, watched : BOOLEAN]
NoPaper == [given |-> FALSE, at |-> Unset, watched |-> FALSE]

Papers(e) == {m \in Subject : sheet[e][m].given}

Idle == [op |-> "none"]

Init ==
    /\ status = [e \in Exam |-> "NONE"]
    /\ author = [e \in Exam |-> "admin"]
    /\ term = [e \in Exam |-> FALSE] /\ terms \in BOOLEAN
    /\ sheet = [e \in Exam |-> [m \in Subject |-> NoPaper]]
    /\ call = [u \in Session |-> Idle]

Read(u, c) ==
    /\ Cardinality({w \in Session : call[w] # Idle}) < InFlight
    /\ call' = [call EXCEPT ![u] = c]
    /\ UNCHANGED exams

Return(u) == call' = [call EXCEPT ![u] = Idle]

-----------------------------------------------------------------------------
(* exam-status.ts *)

\* Mutant of TeacherCanEdit: the teacher's proposal stays editable in review.
TeacherCanEditInReview == {"DRAFT", "PENDING_REVIEW", "CHANGES_REQUESTED"}

TeacherCanEdit == {"DRAFT", "CHANGES_REQUESTED"}
AdminCanEdit == {"DRAFT", "PENDING_REVIEW", "CHANGES_REQUESTED"}

\* TRANSITIONS: action, from, to.
Transitions ==
    {<<"SUBMIT", "DRAFT", "PENDING_REVIEW">>,
     <<"SUBMIT", "CHANGES_REQUESTED", "PENDING_REVIEW">>,
     <<"REQUEST_CHANGES", "PENDING_REVIEW", "CHANGES_REQUESTED">>,
     <<"REJECT", "PENDING_REVIEW", "REJECTED">>,
     <<"PUBLISH", "PENDING_REVIEW", "PUBLISHED">>,
     <<"PUBLISH", "DRAFT", "PUBLISHED">>}

\* nextStatus: a draft is published only if no teacher wrote it.
NextStatus(from, action, by) ==
    {to \in Status : /\ <<action, from, to>> \in Transitions
                     /\ ~(action = "PUBLISH" /\ from = "DRAFT" /\ by = "teacher")}

\* submissionProblems for a teacher: a term where one is required, and a date for every
\* paper.
Complete(e, requireTerm) ==
    /\ requireTerm => term[e]
    /\ Papers(e) # {}
    /\ \A m \in Papers(e) : sheet[e][m].at # Unset

\* Mutant of Booked: only the examination's own papers are compared.
BookedNowhere(e) == {}

\* scheduleConflicts: no two papers in one slot, and none in a slot that a
\* published examination has taken.
Booked(e) == UNION {{sheet[f][m].at : m \in Papers(f)} :
                      f \in {x \in Exam \ {e} : status[x] = "PUBLISHED"}}

NoConflicts(e) ==
    \A m \in Papers(e) : sheet[e][m].at # Unset =>
        /\ sheet[e][m].at \notin Booked(e)
        /\ \A k \in Papers(e) \ {m} : sheet[e][k].at # sheet[e][m].at

\* readinessIssues for publication.
Ready(e) == /\ Complete(e, TRUE) /\ NoConflicts(e)
            /\ \A m \in Papers(e) : sheet[e][m].watched

-----------------------------------------------------------------------------
(* Creating and editing *)

\* assertCanEditDetails: administrators, and the teacher who created it.
MayEdit(u, e) ==
    \/ u \in Admin /\ status[e] \in AdminCanEdit
    \/ u \in Teacher /\ author[e] = "teacher" /\ status[e] \in TeacherCanEdit

\* One transaction: the examination and the papers it is given.
Create(u, e, t, write, at, watched) ==
    /\ status[e] = "NONE"
    /\ u \in Admin => t
    /\ t => terms                               \* resolveTerm
    /\ watched => u \in Admin                   \* assertInvigilators
    /\ status' = [status EXCEPT ![e] = "DRAFT"]
    /\ author' = [author EXCEPT ![e] = IF u \in Admin THEN "admin" ELSE "teacher"]
    /\ term' = [term EXCEPT ![e] = t]
    /\ sheet' = [sheet EXCEPT ![e] = [m \in Subject |->
            IF m \in write THEN [given |-> TRUE, at |-> at, watched |-> watched]
            ELSE NoPaper]]
    /\ UNCHANGED <<terms, call>>

\* update, which writes nothing when nothing changed.
ReadDetails(u, e, t) ==
    /\ MayEdit(u, e)
    /\ t # term[e]
    /\ t => terms
    /\ Read(u, [op |-> "details", exam |-> e, seen |-> status[e], term |-> t])

\* addSubject, updateSubject, removeSubject and replaceSubjects: papers to
\* write, papers to drop, and those the examination had when it was read.
ReadSheet(u, e, write, drop, at, watched) ==
    /\ MayEdit(u, e)
    /\ write \cup drop # {} /\ write \cap drop = {}
    /\ drop \subseteq Papers(e)
    /\ \/ drop = Papers(e) \ write              \* replaceSubjects
       \/ Cardinality(write \cup drop) = 1      \* one paper
    /\ watched => u \in Admin                   \* assertInvigilators
    /\ write = {} => at = Unset /\ ~watched     \* nothing to say
    /\ Read(u, [op |-> "sheet", exam |-> e, seen |-> status[e],
                write |-> write, drop |-> drop, had |-> Papers(e),
                at |-> at, watched |-> watched])

\* guardStatus: the conditional update every transaction begins with.
GuardStatus(u) == status[call[u].exam] = call[u].seen

\* The fields a save names; a teacher's save leaves the invigilator alone.
Written(u, old) ==
    [given |-> TRUE, at |-> call[u].at,
     watched |-> IF u \in Admin THEN call[u].watched ELSE old.given /\ old.watched]

\* A paper to update must still be there, a paper to create not yet: a missing
\* row or the unique index (examinationId, sectionSubjectId) fails the rest.  A
\* paper dropped and added again counts as the same row.
Applies(u) ==
    LET c == call[u] IN
    /\ c.write \cap c.had \subseteq Papers(c.exam)
    /\ (c.write \ c.had) \cap Papers(c.exam) = {}

\* A term that has been deleted since fails the foreign key.
CommitDetails(u) ==
    LET e == call[u].exam IN
    /\ call[u].op = "details"
    /\ GuardStatus(u)
    /\ call[u].term => terms
    /\ term' = [term EXCEPT ![e] = call[u].term]
    /\ Return(u)
    /\ UNCHANGED <<status, author, terms, sheet>>

CommitSheet(u) ==
    LET e == call[u].exam IN
    /\ call[u].op = "sheet"
    /\ GuardStatus(u) /\ Applies(u)
    /\ sheet' = [sheet EXCEPT ![e] = [m \in Subject |->
            IF m \in call[u].write THEN Written(u, sheet[e][m])
            ELSE IF m \in call[u].drop THEN NoPaper ELSE sheet[e][m]]]
    /\ Return(u)
    /\ UNCHANGED <<status, author, term, terms>>

-----------------------------------------------------------------------------
(* Review and publication *)

\* What each transition demands before its transaction: a teacher must choose a term
\* only once the session has terms to choose from.
Permitted(u, e, action) ==
    IF action = "SUBMIT" THEN u \in Teacher /\ author[e] = "teacher" /\ Complete(e, terms)
    ELSE u \in Admin /\ (action = "PUBLISH" => Ready(e))

\* submit, publish, requestChanges and reject up to their transaction.
ReadTransition(u, e, action) ==
    \E to \in NextStatus(status[e], action, author[e]) :
        /\ Permitted(u, e, action)
        /\ Read(u, [op |-> "transition", exam |-> e, seen |-> status[e], to |-> to])

CommitTransition(u) ==
    /\ call[u].op = "transition"
    /\ GuardStatus(u)
    /\ status' = [status EXCEPT ![call[u].exam] = call[u].to]
    /\ Return(u)
    /\ UNCHANGED <<author, term, terms, sheet>>

\* The guard or a constraint refuses, or the call fails: nothing is written.
Refuse(u) ==
    /\ call[u] # Idle
    /\ Return(u)
    /\ UNCHANGED exams

\* remove: a conditional delete that takes the papers along; the unlocked checks
\* before it decide nothing the delete does not decide again.
Remove(u, e) ==
    /\ status[e] = "DRAFT"
    /\ u \in Teacher => author[e] = "teacher"
    /\ status' = [status EXCEPT ![e] = "DELETED"]
    /\ author' = [author EXCEPT ![e] = "admin"]
    /\ term' = [term EXCEPT ![e] = FALSE]
    /\ sheet' = [sheet EXCEPT ![e] = [m \in Subject |-> NoPaper]]
    /\ UNCHANGED <<terms, call>>

CreateTerm(u) ==
    /\ u \in Admin /\ call[u] = Idle
    /\ ~terms /\ terms' = TRUE
    /\ UNCHANGED <<status, author, term, sheet, call>>

\* deleteTerm: every examination of the term loses it, published ones too.
DeleteTerm(u, of, others) ==
    /\ u \in Admin /\ call[u] = Idle
    /\ terms /\ \A e \in of : term[e]
    /\ (\E e \in Exam \ of : term[e]) => others
    /\ term' = [e \in Exam |-> term[e] /\ e \notin of]
    /\ terms' = others
    /\ UNCHANGED <<status, author, sheet, call>>

Next ==
    \E u \in Session :
        \/ call[u] = Idle /\ \E e \in Exam :
            \/ \E t \in BOOLEAN : ReadDetails(u, e, t)
            \/ \E write \in SUBSET Subject, at \in Slot \cup {Unset},
                  watched \in BOOLEAN :
                \/ \E t \in BOOLEAN : Create(u, e, t, write, at, watched)
                \/ \E drop \in SUBSET Subject :
                    ReadSheet(u, e, write, drop, at, watched)
            \/ \E action \in {"SUBMIT", "REQUEST_CHANGES", "REJECT", "PUBLISH"} :
                ReadTransition(u, e, action)
            \/ Remove(u, e)
        \/ CommitDetails(u) \/ CommitSheet(u) \/ CommitTransition(u)
        \/ Refuse(u)
        \/ CreateTerm(u)
        \/ \E of \in SUBSET Exam, others \in BOOLEAN : DeleteTerm(u, of, others)

Spec == Init /\ [][Next]_vars

-----------------------------------------------------------------------------
(* Properties *)

TypeOK ==
    /\ status \in [Exam -> Status]
    /\ author \in [Exam -> {"teacher", "admin"}]
    /\ term \in [Exam -> BOOLEAN] /\ terms \in BOOLEAN
    /\ sheet \in [Exam -> [Subject -> Paper]]

\* Nothing changes an examination that is published or rejected, not even a save
\* that was read while it could still be edited (assertCanEditDetails: "A
\* published or rejected examination can no longer be edited").
FinalStep ==
    \A e \in Exam : status[e] \in {"PUBLISHED", "REJECTED", "DELETED"} =>
        /\ status'[e] = status[e]
        /\ sheet'[e] = sheet[e]

\* While an examination waits for review no teacher changes what is reviewed
\* (assertCanEditDetails: "waiting for review and cannot be edited").
ReviewedStep ==
    \A e \in Exam, u \in Teacher :
        status[e] = "PENDING_REVIEW" /\ call'[u] # call[u] =>
            sheet'[e] = sheet[e] /\ status'[e] = status[e]

\* Every step keeps both: what was decided stays, and what is under review is reviewed.
ReviewBinds == [][FinalStep /\ ReviewedStep]_vars

\* No two published papers are in one slot, and every one of them has a slot and
\* an invigilator, as long as no two administrators have requests in flight at once.
PublishedWhole ==
    \A e, f \in Exam : status[e] = "PUBLISHED" /\ status[f] = "PUBLISHED" =>
        \A m \in Papers(e), k \in Papers(f) :
            /\ sheet[e][m].at # Unset /\ sheet[e][m].watched
            /\ sheet[e][m].at = sheet[f][k].at => e = f /\ m = k
=============================================================================
