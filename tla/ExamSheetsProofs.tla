-------------------------- MODULE ExamSheetsProofs --------------------------
(***************************************************************************)
(* Review and publication for any number of examinations, papers, teachers *)
(* and administrators.  A call in flight remembers the status it has seen; *)
(* what it found out besides stays true as long as that status does, for   *)
(* teachers always, for a publication while administrators take turns.     *)
(***************************************************************************)
EXTENDS ExamSheets, TLAPS

DetailsCall == [op : {"details"}, exam : Exam, seen : AdminCanEdit, term : BOOLEAN]
SheetCall == [op : {"sheet"}, exam : Exam, seen : AdminCanEdit, write : SUBSET Subject,
              drop : SUBSET Subject, had : SUBSET Subject, at : Slot \cup {Unset},
              watched : BOOLEAN]
TransitionCall == [op : {"transition"}, exam : Exam, seen : AdminCanEdit, to : Status]
Call == {Idle} \cup DetailsCall \cup SheetCall \cup TransitionCall

Action == {"SUBMIT", "REQUEST_CHANGES", "REJECT", "PUBLISH"}

\* An examination that a teacher created, unless it is deleted.
OfTeacher(e) == author[e] = "teacher" \/ status[e] = "DELETED"

\* What is known of call c of session u: its examination was created; a teacher's
\* save has seen a status teachers may edit, a teacher's transition submits, and
\* both are about a teacher's examination.
Decided(u, c) ==
    c # Idle =>
        /\ status[c.exam] # "NONE"
        /\ u \in Teacher => OfTeacher(c.exam)
        /\ IF c.op = "transition"
           THEN /\ \E action \in Action : <<action, c.seen, c.to>> \in Transitions
                /\ u \in Teacher => c.to = "PENDING_REVIEW"
           ELSE u \in Teacher => c.seen \in TeacherCanEdit

ReviewInvariant ==
    /\ TypeOK
    /\ call \in [Session -> Call]
    /\ \A u \in Session : Decided(u, call[u])

\* No two administrators have requests in flight at once.
OneAtWork == \A a, b \in Admin : call[a] # Idle /\ call[b] # Idle => a = b

Whole(e) == \A m \in Papers(e) : sheet[e][m].at # Unset /\ sheet[e][m].watched

\* A publication in flight would publish the sheet that was checked: its guard
\* holds, unless the draft was deleted.
PublicationsStand ==
    \A u \in Admin : call[u].op = "transition" /\ call[u].to = "PUBLISHED" =>
        \/ status[call[u].exam] = "DELETED"
        \/ /\ GuardStatus(u)
           /\ Whole(call[u].exam) /\ NoConflicts(call[u].exam)
           /\ call[u].seen = "DRAFT" => author[call[u].exam] = "admin"

PublicationInvariant == ReviewInvariant /\ PublicationsStand /\ PublishedWhole

-----------------------------------------------------------------------------
(* Calls and what they know *)

\* What a call in flight is, by what it does.
LEMMA CallKinds ==
    ASSUME NEW c \in Call
    PROVE  /\ c.op = "details" => c \in DetailsCall
           /\ c.op = "sheet" => c \in SheetCall
           /\ c.op = "transition" => c \in TransitionCall
           /\ c = Idle <=> c.op = "none"
           /\ c # Idle => c.exam \in Exam /\ c.seen \in AdminCanEdit
BY DEF Call, DetailsCall, SheetCall, TransitionCall, Idle

\* Examinations only move on: created ones stay created, deleted ones deleted, and
\* the author changes only with the deletion.
Onward ==
    \A e \in Exam : status[e] # "NONE" =>
        /\ status'[e] # "NONE"
        /\ status[e] = "DELETED" => status'[e] = "DELETED"
        /\ author'[e] = author[e] \/ status'[e] = "DELETED"

\* What a call knows outlives every step that moves on.
LEMMA KnowledgeLasts ==
    ASSUME Onward, NEW u \in Session, NEW c \in Call, Decided(u, c)
    PROVE  Decided(u, c)'
<1> SUFFICES ASSUME c # Idle PROVE Decided(u, c)'
    BY DEF Decided
<1>1. c.exam \in Exam
    BY CallKinds
<1>2. status[c.exam] # "NONE" /\ (u \in Teacher => OfTeacher(c.exam))
    BY DEF Decided
<1>3. status'[c.exam] # "NONE" /\ (u \in Teacher => OfTeacher(c.exam)')
    BY <1>1, <1>2 DEF Onward, OfTeacher
<1> QED BY <1>3 DEF Decided

\* A step that ends calls and starts none.
LEMMA EndingKeeps ==
    ASSUME ReviewInvariant, TypeOK', Onward, call' \in [Session -> Call],
           \A u \in Session : call'[u] \in {call[u], Idle}
    PROVE  ReviewInvariant'
<1>1. ASSUME NEW u \in Session PROVE Decided(u, call[u])'
    <2>1. call[u] \in Call /\ Decided(u, call[u])
        BY DEF ReviewInvariant
    <2>2. CASE call'[u] = Idle
        BY <2>2 DEF Decided
    <2>3. CASE call'[u] = call[u]
        <3> DEFINE c == call[u]
        <3>1. c \in Call /\ Decided(u, c)
            BY <2>1
        <3> HIDE DEF c
        <3> QED BY <2>3, <3>1, KnowledgeLasts DEF Decided, c
    <2> QED BY <2>2, <2>3
<1> QED BY <1>1 DEF ReviewInvariant

\* A call that starts and knows what it has read.
LEMMA ReadKeeps ==
    ASSUME ReviewInvariant, NEW u \in Session, NEW c \in Call, Decided(u, c), Read(u, c)
    PROVE  ReviewInvariant' /\ UNCHANGED exams
<1>1. UNCHANGED <<status, author, term, terms, sheet>> /\ call' = [call EXCEPT ![u] = c]
    BY DEF Read, exams
<1>2. TypeOK' /\ call' \in [Session -> Call]
    BY <1>1 DEF ReviewInvariant, TypeOK
<1>3. ASSUME NEW w \in Session PROVE Decided(w, call[w])'
    <2>1. Decided(w, call[w]) /\ call'[w] = IF w = u THEN c ELSE call[w]
        BY <1>1 DEF ReviewInvariant
    <2> QED BY <1>1, <2>1 DEF Decided, OfTeacher
<1> QED BY <1>1, <1>2, <1>3 DEF ReviewInvariant, exams

\* Whoever may edit an examination knows what a save has to know.
LEMMA EditorKnows ==
    ASSUME TypeOK, NEW u \in Session, NEW e \in Exam, MayEdit(u, e)
    PROVE  /\ status[e] \in AdminCanEdit
           /\ u \in Teacher => author[e] = "teacher" /\ status[e] \in TeacherCanEdit
BY SheetAssumption DEF MayEdit, Session, AdminCanEdit, TeacherCanEdit

\* A save starts with what it has read.
LEMMA SaveStarts ==
    ASSUME ReviewInvariant, NEW u \in Session, NEW e \in Exam,
           \/ \E t \in BOOLEAN : ReadDetails(u, e, t)
           \/ \E write, drop \in SUBSET Subject, at \in Slot \cup {Unset}, watched \in BOOLEAN :
                  ReadSheet(u, e, write, drop, at, watched)
    PROVE  \E c \in Call : Read(u, c) /\ Decided(u, c) /\ c.op # "transition"
<1>1. ASSUME MayEdit(u, e)
      PROVE  /\ status[e] \in AdminCanEdit
             /\ u \in Teacher => author[e] = "teacher" /\ status[e] \in TeacherCanEdit
    BY <1>1, EditorKnows DEF ReviewInvariant
<1>2. ASSUME NEW t \in BOOLEAN, ReadDetails(u, e, t)
      PROVE  \E c \in Call : Read(u, c) /\ Decided(u, c) /\ c.op # "transition"
    <2> DEFINE c == [op |-> "details", exam |-> e, seen |-> status[e], term |-> t]
    <2>1. c \in Call
        BY <1>1, <1>2 DEF ReadDetails, Call, DetailsCall
    <2>2. Decided(u, c)
        BY <1>1, <1>2 DEF ReadDetails, Decided, OfTeacher, AdminCanEdit
    <2>3. Read(u, c) /\ c.op = "details"
        BY <1>2 DEF ReadDetails
    <2> HIDE DEF c
    <2> QED BY <2>1, <2>2, <2>3
<1>3. ASSUME NEW write \in SUBSET Subject, NEW drop \in SUBSET Subject,
             NEW at \in Slot \cup {Unset}, NEW watched \in BOOLEAN,
             ReadSheet(u, e, write, drop, at, watched)
      PROVE  \E c \in Call : Read(u, c) /\ Decided(u, c) /\ c.op # "transition"
    <2> DEFINE c == [op |-> "sheet", exam |-> e, seen |-> status[e], write |-> write,
                     drop |-> drop, had |-> Papers(e), at |-> at, watched |-> watched]
    <2>1. Papers(e) \in SUBSET Subject
        BY DEF Papers
    <2>2. c \in Call
        BY <1>1, <1>3, <2>1 DEF ReadSheet, Call, SheetCall
    <2>3. Decided(u, c)
        BY <1>1, <1>3 DEF ReadSheet, Decided, OfTeacher, AdminCanEdit
    <2>4. Read(u, c) /\ c.op = "sheet"
        BY <1>3 DEF ReadSheet
    <2> HIDE DEF c
    <2> QED BY <2>2, <2>3, <2>4
<1> QED BY <1>2, <1>3

LEMMA ReadSaveKeeps ==
    ASSUME ReviewInvariant, NEW u \in Session, NEW e \in Exam,
           \/ \E t \in BOOLEAN : ReadDetails(u, e, t)
           \/ \E write, drop \in SUBSET Subject, at \in Slot \cup {Unset}, watched \in BOOLEAN :
                  ReadSheet(u, e, write, drop, at, watched)
    PROVE  ReviewInvariant' /\ UNCHANGED exams
BY SaveStarts, ReadKeeps

LEMMA ReadTransitionKeeps ==
    ASSUME ReviewInvariant, NEW u \in Session, NEW e \in Exam, NEW action \in Action,
           ReadTransition(u, e, action)
    PROVE  ReviewInvariant' /\ UNCHANGED exams
<1>1. PICK to \in NextStatus(status[e], action, author[e]) :
        /\ Permitted(u, e, action)
        /\ Read(u, [op |-> "transition", exam |-> e, seen |-> status[e], to |-> to])
    BY DEF ReadTransition
<1> DEFINE c == [op |-> "transition", exam |-> e, seen |-> status[e], to |-> to]
<1>2. to \in Status /\ <<action, status[e], to>> \in Transitions
    BY <1>1 DEF NextStatus
<1>3. status[e] \in AdminCanEdit
    BY <1>2 DEF Transitions, AdminCanEdit
<1>4. u \in Teacher => action = "SUBMIT" /\ author[e] = "teacher"
    BY <1>1, SheetAssumption DEF Permitted
<1>5. action = "SUBMIT" => to = "PENDING_REVIEW"
    BY <1>2 DEF Transitions
<1>6. c \in Call
    BY <1>2, <1>3 DEF Call, TransitionCall
<1>7. Decided(u, c)
    BY <1>2, <1>3, <1>4, <1>5 DEF Decided, OfTeacher, AdminCanEdit
<1>8. Read(u, c)
    BY <1>1
<1> HIDE DEF c
<1> QED BY <1>6, <1>7, <1>8, ReadKeeps

\* Returning ends one call and leaves the others.
LEMMA ReturnEnds ==
    ASSUME ReviewInvariant, NEW u \in Session, Return(u)
    PROVE  /\ call' \in [Session -> Call]
           /\ \A w \in Session : call'[w] = IF w = u THEN Idle ELSE call[w]
BY DEF ReviewInvariant, Return, Call

LEMMA CreateKeeps ==
    ASSUME ReviewInvariant, NEW u \in Session, NEW e \in Exam, NEW t \in BOOLEAN,
           NEW write \in SUBSET Subject, NEW at \in Slot \cup {Unset},
           NEW watched \in BOOLEAN, Create(u, e, t, write, at, watched)
    PROVE  ReviewInvariant'
<1>1. TypeOK'
    BY DEF Create, ReviewInvariant, TypeOK, Status, Paper, NoPaper
<1>2. Onward
    BY DEF Create, ReviewInvariant, TypeOK, Onward
<1> QED BY <1>1, <1>2, EndingKeeps DEF Create, ReviewInvariant

LEMMA RemoveKeeps ==
    ASSUME ReviewInvariant, NEW u \in Session, NEW e \in Exam, Remove(u, e)
    PROVE  ReviewInvariant'
<1>1. TypeOK'
    BY DEF Remove, ReviewInvariant, TypeOK, Status, Paper, NoPaper
<1>2. Onward
    BY DEF Remove, ReviewInvariant, TypeOK, Onward
<1> QED BY <1>1, <1>2, EndingKeeps DEF Remove, ReviewInvariant

LEMMA TermsKeep ==
    ASSUME ReviewInvariant, NEW u \in Session,
           CreateTerm(u) \/ \E of \in SUBSET Exam, others \in BOOLEAN : DeleteTerm(u, of, others)
    PROVE  ReviewInvariant'
<1>1. TypeOK' /\ Onward
    BY DEF CreateTerm, DeleteTerm, ReviewInvariant, TypeOK, Onward
<1> QED BY <1>1, EndingKeeps DEF CreateTerm, DeleteTerm, ReviewInvariant

LEMMA RefuseKeeps ==
    ASSUME ReviewInvariant, NEW u \in Session, Refuse(u)
    PROVE  ReviewInvariant'
<1>1. TypeOK' /\ Onward
    BY DEF Refuse, exams, ReviewInvariant, TypeOK, Onward
<1> QED BY <1>1, ReturnEnds, EndingKeeps DEF Refuse

LEMMA CommitDetailsKeeps ==
    ASSUME ReviewInvariant, NEW u \in Session, CommitDetails(u)
    PROVE  ReviewInvariant'
<1>1. call[u] \in DetailsCall
    BY CallKinds DEF CommitDetails, ReviewInvariant
<1>2. TypeOK' /\ Onward
    BY <1>1 DEF CommitDetails, ReviewInvariant, TypeOK, Onward, DetailsCall
<1> QED BY <1>2, ReturnEnds, EndingKeeps DEF CommitDetails

LEMMA CommitSheetKeeps ==
    ASSUME ReviewInvariant, NEW u \in Session, CommitSheet(u)
    PROVE  ReviewInvariant'
<1>1. call[u] \in SheetCall
    BY CallKinds DEF CommitSheet, ReviewInvariant
<1>2. ASSUME NEW m \in Subject
      PROVE  (IF m \in call[u].write THEN Written(u, sheet[call[u].exam][m])
              ELSE IF m \in call[u].drop THEN NoPaper ELSE sheet[call[u].exam][m]) \in Paper
    <2>1. sheet[call[u].exam][m] \in Paper
        BY <1>1 DEF ReviewInvariant, TypeOK, SheetCall
    <2>2. NoPaper \in Paper
        BY DEF NoPaper, Paper
    <2>3. call[u].at \in Slot \cup {Unset} /\ call[u].watched \in BOOLEAN
        BY <1>1 DEF SheetCall
    <2>4. Written(u, sheet[call[u].exam][m]) \in Paper
        BY <2>1, <2>3 DEF Written, Paper
    <2> QED BY <2>1, <2>2, <2>4
<1>3. sheet' \in [Exam -> [Subject -> Paper]]
    BY <1>1, <1>2 DEF CommitSheet, ReviewInvariant, TypeOK
<1>4. TypeOK' /\ Onward
    BY <1>3 DEF CommitSheet, ReviewInvariant, TypeOK, Onward
<1> QED BY <1>4, ReturnEnds, EndingKeeps DEF CommitSheet

\* No transition leads out of a final status or back to none.
LEMMA TransitionTable ==
    ASSUME NEW action, NEW from, NEW to, <<action, from, to>> \in Transitions
    PROVE  /\ from \in AdminCanEdit
           /\ to \in {"PENDING_REVIEW", "CHANGES_REQUESTED", "REJECTED", "PUBLISHED"}
           /\ to = "PUBLISHED" => from \in {"PENDING_REVIEW", "DRAFT"}
           /\ to = "PENDING_REVIEW" => from \in TeacherCanEdit
BY DEF Transitions, AdminCanEdit, TeacherCanEdit

LEMMA CommitTransitionKeeps ==
    ASSUME ReviewInvariant, NEW u \in Session, CommitTransition(u)
    PROVE  ReviewInvariant'
<1>1. call[u] \in TransitionCall
    BY CallKinds DEF CommitTransition, ReviewInvariant
<1>2. call[u].exam \in Exam /\ call[u].to \in Status /\ call[u] # Idle
    BY <1>1 DEF TransitionCall, Idle
<1>3. PICK action \in Action : <<action, call[u].seen, call[u].to>> \in Transitions
    BY <1>2 DEF CommitTransition, ReviewInvariant, Decided
<1>4. call[u].to # "NONE" /\ call[u].seen # "DELETED"
    BY <1>3, TransitionTable DEF AdminCanEdit
<1>5. TypeOK'
    BY <1>2 DEF CommitTransition, ReviewInvariant, TypeOK
<1>6. Onward
    BY <1>2, <1>4 DEF CommitTransition, GuardStatus, ReviewInvariant, TypeOK, Onward
<1> QED BY <1>5, <1>6, ReturnEnds, EndingKeeps DEF CommitTransition

LEMMA InitEstablishes == ASSUME Init PROVE ReviewInvariant
<1>1. NoPaper \in Paper
    BY DEF NoPaper, Paper
<1>2. TypeOK /\ call \in [Session -> Call]
    BY <1>1 DEF Init, TypeOK, Status, Call
<1>3. \A u \in Session : Decided(u, call[u])
    BY DEF Init, Decided
<1> QED BY <1>2, <1>3 DEF ReviewInvariant

LEMMA StepKeeps == ASSUME ReviewInvariant, [Next]_vars PROVE ReviewInvariant'
<1>1. CASE UNCHANGED vars
    BY <1>1 DEF vars, ReviewInvariant, TypeOK, Decided, OfTeacher
<1>2. ASSUME Next PROVE ReviewInvariant'
    <2>1. PICK u \in Session :
            \/ \E e \in Exam :
                \/ \E t \in BOOLEAN : ReadDetails(u, e, t)
                \/ \E write \in SUBSET Subject, at \in Slot \cup {Unset}, watched \in BOOLEAN :
                    \/ \E t \in BOOLEAN : Create(u, e, t, write, at, watched)
                    \/ \E drop \in SUBSET Subject : ReadSheet(u, e, write, drop, at, watched)
                \/ \E action \in Action : ReadTransition(u, e, action)
                \/ Remove(u, e)
            \/ CommitDetails(u) \/ CommitSheet(u) \/ CommitTransition(u)
            \/ Refuse(u) \/ CreateTerm(u)
            \/ \E of \in SUBSET Exam, others \in BOOLEAN : DeleteTerm(u, of, others)
        BY <1>2 DEF Next, Action
    <2> QED
        BY <2>1, ReadSaveKeeps, CreateKeeps, ReadTransitionKeeps, RemoveKeeps,
           CommitDetailsKeeps, CommitSheetKeeps, CommitTransitionKeeps, RefuseKeeps,
           TermsKeep
<1> QED BY <1>1, <1>2

-----------------------------------------------------------------------------
(* Review *)

\* What the transactions may change, and who changes it.
LEMMA WritersBind ==
    ASSUME ReviewInvariant, NEW u \in Session, CommitSheet(u) \/ CommitTransition(u)
    PROVE  FinalStep /\ ReviewedStep
<1> DEFINE e == call[u].exam
<1>1. call[u] \in SheetCall \cup TransitionCall /\ call[u] # Idle
    BY CallKinds DEF CommitSheet, CommitTransition, ReviewInvariant, Idle
<1>2. e \in Exam /\ status[e] = call[u].seen /\ status[e] \in AdminCanEdit
    BY <1>1 DEF SheetCall, TransitionCall, CommitSheet, CommitTransition, GuardStatus
<1>3. \A f \in Exam \ {e} : sheet'[f] = sheet[f] /\ status'[f] = status[f]
    BY DEF CommitSheet, CommitTransition, ReviewInvariant, TypeOK
<1>4. u \in Teacher => status[e] # "PENDING_REVIEW"
    <2>1. Decided(u, call[u])
        BY DEF ReviewInvariant
    <2>2. CASE CommitSheet(u)
        BY <1>1, <1>2, <2>1, <2>2 DEF Decided, CommitSheet, TeacherCanEdit
    <2>3. CASE CommitTransition(u)
        BY <1>1, <1>2, <2>1, <2>3, TransitionTable DEF Decided, CommitTransition, TeacherCanEdit
    <2> QED BY <2>2, <2>3
<1>5. FinalStep
    BY <1>2, <1>3 DEF FinalStep, AdminCanEdit
<1>6. \A w \in Session : call'[w] # call[w] => w = u
    BY ReturnEnds DEF CommitSheet, CommitTransition
<1>7. ReviewedStep
    BY <1>3, <1>4, <1>6 DEF ReviewedStep, Session
<1> QED BY <1>5, <1>7

LEMMA StepBinds == ASSUME ReviewInvariant, [Next]_vars PROVE FinalStep /\ ReviewedStep
<1>1. CASE UNCHANGED <<status, sheet>>
    BY <1>1 DEF FinalStep, ReviewedStep
<1>2. ASSUME NEW u \in Session, NEW e \in Exam, NEW t \in BOOLEAN,
             NEW write \in SUBSET Subject, NEW at \in Slot \cup {Unset},
             NEW watched \in BOOLEAN, Create(u, e, t, write, at, watched)
      PROVE  FinalStep /\ ReviewedStep
    BY <1>2 DEF Create, FinalStep, ReviewedStep, ReviewInvariant, TypeOK
<1>3. ASSUME NEW u \in Session, NEW e \in Exam, Remove(u, e)
      PROVE  FinalStep /\ ReviewedStep
    BY <1>3 DEF Remove, FinalStep, ReviewedStep, ReviewInvariant, TypeOK
<1> QED
    BY <1>1, <1>2, <1>3, WritersBind, ReadSaveKeeps, ReadTransitionKeeps
       DEF Next, vars, exams, Action, CommitDetails, Refuse, CreateTerm, DeleteTerm

-----------------------------------------------------------------------------
(* Publication *)

\* A step that publishes nothing and leaves published sheets alone.
Settled ==
    \A e \in Exam : /\ status'[e] = "PUBLISHED" <=> status[e] = "PUBLISHED"
                    /\ status[e] = "PUBLISHED" => sheet'[e] = sheet[e]

LEMMA SettledKeepsWhole == ASSUME PublishedWhole, Settled PROVE PublishedWhole'
BY DEF PublishedWhole, Settled, Papers

LEMMA SettledKeepsFit ==
    ASSUME Settled, NEW e \in Exam, sheet'[e] = sheet[e], Whole(e), NoConflicts(e)
    PROVE  Whole(e)' /\ NoConflicts(e)'
<1>1. Papers(e)' = Papers(e)
    BY DEF Papers
<1>2. \A f \in Exam : status'[f] = "PUBLISHED" => Papers(f)' = Papers(f) /\ sheet'[f] = sheet[f]
    BY DEF Settled, Papers
<1>3. Booked(e)' \subseteq Booked(e)
    BY <1>2 DEF Booked, Settled
<1>4. Whole(e)'
    BY <1>1 DEF Whole
<1>5. NoConflicts(e)'
    BY <1>1, <1>3 DEF NoConflicts
<1> QED BY <1>4, <1>5

\* A publication in flight stands if the step leaves its examination alone.
LEMMA BystanderKeeps ==
    ASSUME ReviewInvariant, PublicationsStand, Settled,
           \A u \in Session : call'[u] \in {call[u], Idle},
           \A u \in Admin : call[u].op = "transition" /\ call[u].to = "PUBLISHED"
                            /\ call'[u] = call[u] =>
               LET e == call[u].exam
               IN  \/ status'[e] = "DELETED"
                   \/ status'[e] = status[e] /\ sheet'[e] = sheet[e] /\ author'[e] = author[e]
    PROVE  PublicationsStand'
<1> SUFFICES ASSUME NEW u \in Admin, call'[u].op = "transition", call'[u].to = "PUBLISHED",
                    status'[call'[u].exam] # "DELETED"
             PROVE  /\ GuardStatus(u)'
                    /\ Whole(call[u].exam)' /\ NoConflicts(call[u].exam)'
                    /\ call'[u].seen = "DRAFT" => author'[call'[u].exam] = "admin"
    BY DEF PublicationsStand
<1>1. call'[u] = call[u] /\ u \in Session
    BY DEF Idle, Session
<1> DEFINE e == call[u].exam
<1>2. e \in Exam
    BY <1>1, CallKinds DEF ReviewInvariant, Idle
<1>3. status'[e] = status[e] /\ sheet'[e] = sheet[e] /\ author'[e] = author[e]
    BY <1>1
<1>4. /\ GuardStatus(u) /\ Whole(e) /\ NoConflicts(e)
      /\ call[u].seen = "DRAFT" => author[e] = "admin"
    BY <1>1, <1>3 DEF PublicationsStand
<1>5. Whole(e)' /\ NoConflicts(e)'
    <2>1. call'[u].exam = e
        BY <1>1
    <2>2. \A f \in Exam : sheet'[f] = sheet[f] /\ Whole(f) /\ NoConflicts(f)
                            => Whole(f)' /\ NoConflicts(f)'
        BY SettledKeepsFit
    <2> QED BY <1>2, <1>3, <1>4, <2>1, <2>2
<1> QED BY <1>1, <1>3, <1>4, <1>5 DEF GuardStatus

LEMMA InitPublishesNothing == ASSUME Init PROVE PublicationsStand /\ PublishedWhole
BY DEF Init, PublicationsStand, PublishedWhole, Idle, Session

\* A call that starts: a publication has just been checked.
LEMMA ReadStands ==
    ASSUME PublicationInvariant, NEW u \in Session, NEW c \in Call, Read(u, c),
           u \in Admin /\ c.op = "transition" /\ c.to = "PUBLISHED" =>
               /\ c.seen = status[c.exam]
               /\ Whole(c.exam) /\ NoConflicts(c.exam)
               /\ c.seen = "DRAFT" => author[c.exam] = "admin"
    PROVE  PublicationsStand' /\ PublishedWhole'
<1>1. UNCHANGED <<status, author, term, terms, sheet>> /\ call' = [call EXCEPT ![u] = c]
    BY DEF Read, exams
<1>2. \A w \in Session : call'[w] = IF w = u THEN c ELSE call[w]
    BY <1>1 DEF PublicationInvariant, ReviewInvariant
<1>3. PublishedWhole'
    BY <1>1 DEF PublicationInvariant, PublishedWhole, Papers
<1>4. \A e : Whole(e) /\ NoConflicts(e) => Whole(e)' /\ NoConflicts(e)'
    BY <1>1 DEF Whole, NoConflicts, Booked, Papers
<1>5. PublicationsStand'
    BY <1>1, <1>2, <1>4 DEF PublicationInvariant, PublicationsStand, GuardStatus, Session
<1> QED BY <1>3, <1>5

LEMMA ReadTransitionStands ==
    ASSUME PublicationInvariant, NEW u \in Session, NEW e \in Exam, NEW action \in Action,
           ReadTransition(u, e, action)
    PROVE  PublicationsStand' /\ PublishedWhole'
<1>1. PICK to \in NextStatus(status[e], action, author[e]) :
        /\ Permitted(u, e, action)
        /\ Read(u, [op |-> "transition", exam |-> e, seen |-> status[e], to |-> to])
    BY DEF ReadTransition
<1> DEFINE c == [op |-> "transition", exam |-> e, seen |-> status[e], to |-> to]
<1>2. to \in Status /\ <<action, status[e], to>> \in Transitions
      /\ ~(action = "PUBLISH" /\ status[e] = "DRAFT" /\ author[e] = "teacher")
    BY <1>1 DEF NextStatus
<1>3. c \in Call
    BY <1>2, TransitionTable DEF Call, TransitionCall
<1>4. to = "PUBLISHED" => action = "PUBLISH"
    BY <1>2 DEF Transitions
<1>5. to = "PUBLISHED" => Ready(e)
    BY <1>1, <1>4 DEF Permitted
<1>6. author[e] \in {"teacher", "admin"}
    BY DEF PublicationInvariant, ReviewInvariant, TypeOK
<1>7. to = "PUBLISHED" => /\ Whole(e) /\ NoConflicts(e)
                          /\ status[e] = "DRAFT" => author[e] = "admin"
    BY <1>2, <1>4, <1>5, <1>6 DEF Ready, Complete, Whole
<1>8. c.exam = e /\ c.seen = status[e] /\ c.to = to /\ Read(u, c)
    BY <1>1
<1> HIDE DEF c
<1> QED BY <1>3, <1>7, <1>8, ReadStands

LEMMA ReadSaveStands ==
    ASSUME PublicationInvariant, NEW u \in Session, NEW e \in Exam,
           \/ \E t \in BOOLEAN : ReadDetails(u, e, t)
           \/ \E write, drop \in SUBSET Subject, at \in Slot \cup {Unset}, watched \in BOOLEAN :
                  ReadSheet(u, e, write, drop, at, watched)
    PROVE  PublicationsStand' /\ PublishedWhole'
BY SaveStarts, ReadStands DEF PublicationInvariant

\* Neither a new examination nor a deleted one is one that a publication is about.
LEMMA CreateStands ==
    ASSUME PublicationInvariant, NEW u \in Session, NEW e \in Exam, NEW t \in BOOLEAN,
           NEW write \in SUBSET Subject, NEW at \in Slot \cup {Unset},
           NEW watched \in BOOLEAN, Create(u, e, t, write, at, watched)
    PROVE  PublicationsStand' /\ PublishedWhole'
<1>1. Settled
    BY DEF Create, PublicationInvariant, ReviewInvariant, TypeOK, Settled
<1>2. ASSUME NEW w \in Admin, call[w].op = "transition"
      PROVE  /\ status'[call[w].exam] = status[call[w].exam]
             /\ sheet'[call[w].exam] = sheet[call[w].exam]
             /\ author'[call[w].exam] = author[call[w].exam]
    <2>1. call[w] \in Call /\ Decided(w, call[w]) /\ call[w] # Idle
        BY <1>2 DEF PublicationInvariant, ReviewInvariant, Session, Idle
    <2>2. call[w].exam \in Exam \ {e}
        BY <2>1, CallKinds DEF Decided, Create
    <2> QED BY <2>2 DEF Create, PublicationInvariant, ReviewInvariant, TypeOK
<1>3. UNCHANGED call
    BY DEF Create
<1>4. PublicationsStand'
    BY <1>1, <1>2, <1>3, BystanderKeeps DEF PublicationInvariant
<1> QED BY <1>1, <1>4, SettledKeepsWhole DEF PublicationInvariant

LEMMA RemoveStands ==
    ASSUME PublicationInvariant, NEW u \in Session, NEW e \in Exam, Remove(u, e)
    PROVE  PublicationsStand' /\ PublishedWhole'
<1>1. Settled
    BY DEF Remove, PublicationInvariant, ReviewInvariant, TypeOK, Settled
<1>2. ASSUME NEW w \in Admin, call[w].op = "transition"
      PROVE  \/ status'[call[w].exam] = "DELETED"
             \/ /\ status'[call[w].exam] = status[call[w].exam]
                /\ sheet'[call[w].exam] = sheet[call[w].exam]
                /\ author'[call[w].exam] = author[call[w].exam]
    <2>1. call[w] \in Call /\ call[w] # Idle
        BY <1>2 DEF PublicationInvariant, ReviewInvariant, Session, Idle
    <2>2. call[w].exam \in Exam
        BY <2>1, CallKinds
    <2> QED BY <2>2 DEF Remove, PublicationInvariant, ReviewInvariant, TypeOK
<1>3. UNCHANGED call
    BY DEF Remove
<1>4. PublicationsStand'
    BY <1>1, <1>2, <1>3, BystanderKeeps DEF PublicationInvariant
<1> QED BY <1>1, <1>4, SettledKeepsWhole DEF PublicationInvariant

\* A teacher commits to another examination than the one a publication is about:
\* a publication has seen a review, which binds teachers, or an administrator's draft.
LEMMA TeacherElsewhere ==
    ASSUME PublicationInvariant, NEW u \in Teacher, call[u] # Idle, GuardStatus(u),
           call[u].seen \in TeacherCanEdit,
           NEW w \in Admin, call[w].op = "transition", call[w].to = "PUBLISHED"
    PROVE  call[w].exam \in Exam \ {call[u].exam}
<1> DEFINE e == call[u].exam
<1>1. w \in Session /\ call[w] # Idle /\ u \in Session
    BY DEF Session, Idle
<1>2. call[w].exam \in Exam
    BY <1>1, CallKinds DEF PublicationInvariant, ReviewInvariant
<1>3. SUFFICES ASSUME call[w].exam = e PROVE FALSE
    BY <1>2
<1>4. status[e] \in TeacherCanEdit
    BY DEF GuardStatus
<1>5. author[e] = "teacher"
    BY <1>1, <1>4
       DEF PublicationInvariant, ReviewInvariant, Decided, OfTeacher, TeacherCanEdit
<1>6. \E action \in Action : <<action, call[w].seen, call[w].to>> \in Transitions
    BY <1>1 DEF PublicationInvariant, ReviewInvariant, Decided
<1>7. call[w].seen \in {"PENDING_REVIEW", "DRAFT"}
    BY <1>6, TransitionTable
<1>8. GuardStatus(w) /\ (call[w].seen = "DRAFT" => author[e] = "admin")
    BY <1>3, <1>4 DEF PublicationInvariant, PublicationsStand, TeacherCanEdit
<1> QED BY <1>3, <1>4, <1>5, <1>7, <1>8 DEF GuardStatus, TeacherCanEdit

\* A save of an administrator is the only request of one, and a teacher's is about
\* another examination than those that are being published.
LEMMA CommitSheetStands ==
    ASSUME PublicationInvariant, OneAtWork, NEW u \in Session, CommitSheet(u)
    PROVE  PublicationsStand' /\ PublishedWhole'
<1> DEFINE e == call[u].exam
<1>1. call[u] \in SheetCall /\ call[u] # Idle
    BY CallKinds DEF CommitSheet, PublicationInvariant, ReviewInvariant, Idle
<1>2. e \in Exam /\ status[e] = call[u].seen /\ status[e] \in AdminCanEdit
    BY <1>1 DEF SheetCall, CommitSheet, GuardStatus
<1>3. \A f \in Exam \ {e} : sheet'[f] = sheet[f]
    BY DEF CommitSheet, PublicationInvariant, ReviewInvariant, TypeOK
<1>4. Settled
    BY <1>2, <1>3 DEF Settled, CommitSheet, AdminCanEdit
<1>5. ASSUME NEW w \in Admin, call[w].op = "transition", call[w].to = "PUBLISHED",
             call'[w] = call[w]
      PROVE  call[w].exam \in Exam \ {e}
    <2>1. w \in Session /\ call[w] # Idle /\ w # u
        BY <1>5 DEF Session, Idle, CommitSheet
    <2>2. u \in Teacher
        BY <1>1, <2>1 DEF OneAtWork, Session
    <2>3. call[u].seen \in TeacherCanEdit
        BY <1>1, <2>2 DEF PublicationInvariant, ReviewInvariant, Decided, CommitSheet
    <2> QED BY <1>1, <1>5, <2>2, <2>3, TeacherElsewhere DEF CommitSheet
<1>6. PublicationsStand'
    BY <1>3, <1>4, <1>5, BystanderKeeps, ReturnEnds DEF PublicationInvariant, CommitSheet
<1> QED BY <1>4, <1>6, SettledKeepsWhole DEF PublicationInvariant

\* A transition that publishes is the only request of an administrator, and what it
\* has checked stands; any other transition publishes nothing.
LEMMA CommitTransitionStands ==
    ASSUME PublicationInvariant, OneAtWork, NEW u \in Session, CommitTransition(u)
    PROVE  PublicationsStand' /\ PublishedWhole'
<1> DEFINE e == call[u].exam
<1>1. call[u] \in TransitionCall /\ call[u] # Idle
    BY CallKinds DEF CommitTransition, PublicationInvariant, ReviewInvariant, Idle
<1>2. e \in Exam /\ status[e] = call[u].seen /\ status[e] \in AdminCanEdit
    BY <1>1 DEF TransitionCall, CommitTransition, GuardStatus
<1>3. /\ status' = [status EXCEPT ![e] = call[u].to]
      /\ UNCHANGED <<author, sheet>>
    BY DEF CommitTransition
<1>4. /\ \E action \in Action : <<action, call[u].seen, call[u].to>> \in Transitions
      /\ u \in Teacher => call[u].to = "PENDING_REVIEW" /\ OfTeacher(e)
    BY <1>1 DEF PublicationInvariant, ReviewInvariant, Decided, CommitTransition
<1>5. status'[e] = call[u].to /\ \A f \in Exam \ {e} : status'[f] = status[f]
    BY <1>2, <1>3 DEF PublicationInvariant, ReviewInvariant, TypeOK
<1>6. CASE u \in Admin
    <2>1. \A w \in Admin : call[w] # Idle => w = u
        BY <1>1, <1>6 DEF OneAtWork
    <2>2. \A w \in Admin : call'[w] = Idle
        BY <2>1, ReturnEnds DEF CommitTransition, PublicationInvariant, Session
    <2>3. PublicationsStand'
        BY <2>2 DEF PublicationsStand, Idle
    <2>4. CASE call[u].to # "PUBLISHED"
        <3>1. Settled
            BY <1>2, <1>3, <1>5, <2>4 DEF Settled, AdminCanEdit
        <3> QED BY <2>3, <3>1, SettledKeepsWhole DEF PublicationInvariant
    <2>5. CASE call[u].to = "PUBLISHED"
        <3>1. Whole(e) /\ NoConflicts(e)
            BY <1>2, <1>6, <2>5
               DEF PublicationInvariant, PublicationsStand, CommitTransition, AdminCanEdit
        <3>2. \A f \in Exam : Papers(f)' = Papers(f)
            BY <1>3 DEF Papers
        <3>3. ASSUME NEW f \in Exam \ {e}, status[f] = "PUBLISHED",
                     NEW m \in Papers(e), NEW k \in Papers(f)
              PROVE  sheet[e][m].at # sheet[f][k].at
            <4>1. sheet[f][k].at \in Booked(e)
                BY <3>3 DEF Booked
            <4> QED BY <3>1, <4>1 DEF Whole, NoConflicts
        <3>4. ASSUME NEW m \in Papers(e), NEW k \in Papers(e), sheet[e][m].at = sheet[e][k].at
              PROVE  m = k
            BY <3>1, <3>4 DEF Whole, NoConflicts
        <3>5. PublishedWhole'
            <4> SUFFICES ASSUME NEW f \in Exam, NEW g \in Exam,
                                status'[f] = "PUBLISHED", status'[g] = "PUBLISHED",
                                NEW m \in Papers(f), NEW k \in Papers(g)
                         PROVE  /\ sheet[f][m].at # Unset /\ sheet[f][m].watched
                                /\ sheet[f][m].at = sheet[g][k].at => f = g /\ m = k
                BY <1>3, <3>2 DEF PublishedWhole
            <4>1. sheet[f][m].at # Unset /\ sheet[f][m].watched
                BY <1>5, <3>1 DEF Whole, PublicationInvariant, PublishedWhole
            <4>2. CASE f = e /\ g = e
                BY <3>4, <4>1, <4>2
            <4>3. CASE f = e /\ g # e
                BY <1>5, <3>3, <4>1, <4>3
            <4>4. CASE f # e /\ g = e
                BY <1>5, <3>3, <4>1, <4>4
            <4>5. CASE f # e /\ g # e
                BY <1>5, <4>5 DEF PublicationInvariant, PublishedWhole
            <4> QED BY <4>2, <4>3, <4>4, <4>5
        <3> QED BY <2>3, <3>5
    <2> QED BY <2>4, <2>5
<1>7. CASE u \in Teacher
    <2>1. Settled
        BY <1>2, <1>3, <1>4, <1>5, <1>7 DEF Settled, AdminCanEdit
    <2>2. call[u].seen \in TeacherCanEdit
        BY <1>4, <1>7, TransitionTable
    <2>3. ASSUME NEW w \in Admin, call[w].op = "transition", call[w].to = "PUBLISHED"
          PROVE  call[w].exam \in Exam \ {e}
        BY <1>1, <1>7, <2>2, <2>3, TeacherElsewhere DEF CommitTransition
    <2>4. PublicationsStand'
        BY <1>3, <1>5, <2>1, <2>3, BystanderKeeps, ReturnEnds
           DEF PublicationInvariant, CommitTransition
    <2> QED BY <2>1, <2>4, SettledKeepsWhole DEF PublicationInvariant
<1> QED BY <1>6, <1>7 DEF Session

LEMMA RestStands ==
    ASSUME PublicationInvariant, NEW u \in Session,
           \/ CommitDetails(u) \/ Refuse(u) \/ CreateTerm(u)
           \/ \E of \in SUBSET Exam, others \in BOOLEAN : DeleteTerm(u, of, others)
    PROVE  PublicationsStand' /\ PublishedWhole'
<1>1. UNCHANGED <<status, author, sheet>>
    BY DEF CommitDetails, Refuse, exams, CreateTerm, DeleteTerm
<1>2. Settled
    BY <1>1 DEF Settled
<1>3. \A w \in Session : call'[w] \in {call[w], Idle}
    BY ReturnEnds DEF CommitDetails, Refuse, CreateTerm, DeleteTerm, PublicationInvariant
<1>4. PublicationsStand'
    BY <1>1, <1>2, <1>3, BystanderKeeps DEF PublicationInvariant
<1> QED BY <1>2, <1>4, SettledKeepsWhole DEF PublicationInvariant

LEMMA StepStands ==
    ASSUME PublicationInvariant, OneAtWork, [Next]_vars
    PROVE  PublicationInvariant'
<1>1. ReviewInvariant'
    BY StepKeeps DEF PublicationInvariant
<1>2. CASE UNCHANGED vars
    <2>1. PublicationsStand' /\ PublishedWhole'
        BY <1>2 DEF vars, PublicationInvariant, PublicationsStand, PublishedWhole, GuardStatus,
                    Whole, NoConflicts, Booked, Papers
    <2> QED BY <1>1, <2>1 DEF PublicationInvariant
<1>3. CASE Next
    <2>1. PublicationsStand' /\ PublishedWhole'
        BY <1>3, ReadSaveStands, ReadTransitionStands, CreateStands, RemoveStands,
           CommitSheetStands, CommitTransitionStands, RestStands DEF Next, Action
    <2> QED BY <1>1, <2>1 DEF PublicationInvariant
<1> QED BY <1>2, <1>3

-----------------------------------------------------------------------------
(* The theorems *)

\* The types, and what every call in flight knows of its examination.
THEOREM ReviewInOrder == Spec => []ReviewInvariant
BY InitEstablishes, StepKeeps, PTL DEF Spec

\* A decision is final and a review binds the teachers, for any number of sessions
\* and calls in flight (exams.service.ts, guardStatus in every transaction).
THEOREM DecisionsBind == Spec => ReviewBinds
<1>1. ReviewInvariant /\ [Next]_vars => [FinalStep /\ ReviewedStep]_vars
    BY StepBinds
<1> QED BY <1>1, ReviewInOrder, PTL DEF Spec, ReviewBinds

\* No two published papers clash and every one has a slot and an invigilator, for any
\* number of sessions, as long as no two administrators have requests in flight at
\* once (exams.service.ts, publish).
THEOREM PublicationsStayWhole == Spec /\ []OneAtWork => []PublishedWhole
<1>1. Init => PublicationInvariant
    BY InitEstablishes, InitPublishesNothing DEF PublicationInvariant
<1>2. PublicationInvariant /\ OneAtWork /\ [Next]_vars => PublicationInvariant'
    BY StepStands
<1>3. PublicationInvariant => PublishedWhole
    BY DEF PublicationInvariant
<1> QED BY <1>1, <1>2, <1>3, PTL DEF Spec

\* With one administrator session that needs no assumption on the behaviour.
THEOREM OneAdministratorSuffices ==
    ASSUME \A a, b \in Admin : a = b
    PROVE  Spec => []PublishedWhole
<1>1. OneAtWork
    BY DEF OneAtWork
<1> QED BY <1>1, PublicationsStayWhole, PTL
=============================================================================
