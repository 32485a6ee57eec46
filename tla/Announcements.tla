---------------------------- MODULE Announcements ----------------------------
(***************************************************************************)
(* One announcement of a school (announcements.service.ts): who lists it,  *)
(* who may open it, and the cron that marks a scheduled one as notified    *)
(* when its time comes; nobody is sent anything, then or at once           *)
(* (emitAnnouncementNotification is called by nobody).  The cron reads the *)
(* announcements that are due and claims them one at a time; an edit reads *)
(* the announcement and writes it back.  Text, attachments and paging are  *)
(* left out.                                                               *)
(***************************************************************************)
EXTENDS Integers, FiniteSets

CONSTANTS
    Pupil, Guardian, Staff, Admin,  \* users by role, all active, of one school
    Section, ClassOf,               \* each section's class
    Cron,                           \* ticks of the scheduler that may overlap
    Editor,                         \* edits that may overlap
    MaxTime, MaxTargets,            \* bounds: the clock, and what one is addressed to
    None, Keep          \* no date; an edit that leaves the date alone

User == Pupil \union Guardian \union Staff \union Admin

VARIABLES
    now,
    placed,     \* ACTIVE enrolments: pairs of a pupil and a section
    children,   \* ParentStudent: pairs of a guardian and a pupil
    assigned,   \* SectionTeacher: pairs of a teacher and a section
    taught,     \* SectionSubject.teacherId: pairs of a teacher and a section
    post,       \* None, or author, targets, publishAt and publishedNotified
    readBy, dismissedBy,    \* AnnouncementRead: whose row has the one or the other date
    tick,       \* by tick of the cron: it has found the announcement due
    edit,       \* by edit: None, or the flag it has read and the new publishAt
    arms, claims, overwritten   \* history: times the cron was armed and claimed, and
                                \* whether an edit wrote back a flag a tick had changed

vars == <<now, placed, children, assigned, taught, post, readBy, dismissedBy, tick, edit,
          arms, claims, overwritten>>

people == <<placed, children, assigned, taught>>

Kinds == {"SCHOOL", "ALL_STUDENTS", "ALL_TEACHERS", "ALL_PARENTS"}
Class == {ClassOf[s] : s \in Section}
Target == [kind : Kinds, ref : {None}] \union [kind : {"SECTION"}, ref : Section]
                                       \union [kind : {"CLASS"}, ref : Class]
TargetSets == {ts \in SUBSET Target : Cardinality(ts) \in 1..MaxTargets}
Times == 0..MaxTime

\* A user has one role, and no announcement or edit is the absence of one.
PeopleAssumption ==
    /\ Pupil \intersect (Guardian \union Staff \union Admin) = {}
    /\ Guardian \intersect (Staff \union Admin) = {} /\ Staff \intersect Admin = {}
    /\ None \notin [author : User, targets : SUBSET Target, at : Times \union {None}, notified : BOOLEAN]
                  \union [at : Times \union {None, Keep}, seen : BOOLEAN, flag : BOOLEAN, arming : BOOLEAN]

-----------------------------------------------------------------------------
(***************************************************************************)
(* Whom it is for, as a query over announcements and as a door of one.     *)
(***************************************************************************)
\* actorSectionIds
SectionsOf(u) ==
    {s \in Section :
        \/ <<u, s>> \in assigned \union taught \union placed
        \/ \E c \in Pupil : <<u, c>> \in children /\ <<c, s>> \in placed}

\* roleAllKind
RoleAllKind(u) ==
    CASE u \in Pupil -> "ALL_STUDENTS" [] u \in Staff -> "ALL_TEACHERS"
      [] u \in Guardian -> "ALL_PARENTS" [] OTHER -> "none"

Future == post.at # None /\ post.at > now

\* visibilityWhere, of a reader who is no administrator: the targets that match.
TargetOr(u) ==
    {t \in Target :
        \/ t.kind \in {"SCHOOL", RoleAllKind(u)}
        \/ t.kind = "SECTION" /\ t.ref \in SectionsOf(u)
        \/ t.kind = "CLASS" /\ t.ref \in {ClassOf[s] : s \in SectionsOf(u)}}

Visible(u) ==
    /\ post # None /\ ~Future
    /\ u \in Admin \/ post.targets \intersect TargetOr(u) # {}

\* With notDismissedFilter: what list and unreadCount show.
Listed(u) == Visible(u) /\ u \notin dismissedBy

\* assertCanView
CanView(u) ==
    /\ post # None
    /\ \/ u \in Admin \union {post.author}
       \/ /\ ~Future
          /\ \E t \in post.targets :
                \/ t.kind = "SCHOOL" \/ t.kind = RoleAllKind(u)
                \/ t.kind = "SECTION" /\ t.ref \in SectionsOf(u)
                \/ t.kind = "CLASS" /\ \E s \in SectionsOf(u) : t.ref = ClassOf[s]

-----------------------------------------------------------------------------
Init ==
    /\ now = 0
    /\ placed \in SUBSET (Pupil \X Section) /\ children \in SUBSET (Guardian \X Pupil)
    /\ assigned \in SUBSET (Staff \X Section) /\ taught \in SUBSET (Staff \X Section)
    /\ post = None /\ readBy = {} /\ dismissedBy = {}
    /\ tick = [c \in Cron |-> FALSE] /\ edit = [e \in Editor |-> None]
    /\ arms = 0 /\ claims = 0 /\ overwritten = FALSE

Clock ==
    /\ now < MaxTime /\ now' = now + 1
    /\ UNCHANGED <<people, post, readBy, dismissedBy, tick, edit, arms, claims, overwritten>>

\* Placements and teachers change under an announcement.
Move(u, s) ==
    /\ u \in Pupil \union Staff
    /\ IF u \in Pupil
       THEN /\ placed' = IF <<u, s>> \in placed THEN placed \ {<<u, s>>} ELSE placed \union {<<u, s>>}
            /\ UNCHANGED taught
       ELSE /\ taught' = IF <<u, s>> \in taught THEN taught \ {<<u, s>>} ELSE taught \union {<<u, s>>}
            /\ UNCHANGED placed
    /\ UNCHANGED <<now, children, assigned, post, readBy, dismissedBy, tick, edit, arms, claims, overwritten>>

\* validateTargets: teachers post to their own sections only.
MayTarget(u, targets) ==
    \/ u \in Admin
    \/ u \in Staff /\ \A t \in targets : t.kind = "SECTION" /\ t.ref \in SectionsOf(u)

Immediate(at) == at = None \/ at <= now

Create(u) ==
    /\ post = None
    /\ \E targets \in TargetSets, at \in Times \union {None} :
        /\ MayTarget(u, targets)
        /\ post' = [author |-> u, targets |-> targets, at |-> at, notified |-> Immediate(at)]
        /\ arms' = IF Immediate(at) THEN arms ELSE arms + 1
    /\ UNCHANGED <<now, people, readBy, dismissedBy, tick, edit, claims, overwritten>>

\* loadForManage
MayManage(u) == u \in Admin \union {post.author}

\* `at` is Keep when the edit leaves the date alone.
AskUpdate(e, u, at) ==
    /\ edit[e] = None /\ post # None /\ MayManage(u)
    /\ edit' = [edit EXCEPT ![e] =
                    [at |-> at,
                     seen |-> post.notified,
                     flag |-> post.notified /\ (at = Keep \/ Immediate(at)),
                     arming |-> at # Keep /\ ~Immediate(at)]]
    /\ UNCHANGED <<now, people, post, readBy, dismissedBy, tick, arms, claims, overwritten>>

\* The flag is written back whatever was edited, the date only if it was.
Update(e) ==
    /\ edit[e] # None /\ edit' = [edit EXCEPT ![e] = None]
    /\ post' = [post EXCEPT !.at = IF edit[e].at = Keep THEN @ ELSE edit[e].at, !.notified = edit[e].flag]
    /\ arms' = IF edit[e].arming THEN arms + 1 ELSE arms
    /\ overwritten' = (overwritten \/ post.notified # edit[e].seen)
    /\ UNCHANGED <<now, people, readBy, dismissedBy, tick, claims>>

\* The row goes, and the read rows with it; what is in flight finds no row to write.
Remove(u) ==
    /\ post # None /\ MayManage(u)
    /\ post' = None /\ readBy' = {} /\ dismissedBy' = {} /\ arms' = 0 /\ claims' = 0
    /\ overwritten' = FALSE
    /\ edit' = [e \in Editor |-> None] /\ tick' = [c \in Cron |-> FALSE]
    /\ UNCHANGED <<now, people>>

\* markRead and bulkMarkRead, by whoever opens it or finds it in a list.
MarkRead(u) ==
    /\ CanView(u) /\ readBy' = readBy \union {u}
    /\ UNCHANGED <<now, people, post, dismissedBy, tick, edit, arms, claims, overwritten>>

\* bulkDismiss asks visibilityWhere only, dismissed already or not.
Dismiss(u) ==
    /\ Visible(u)
    /\ dismissedBy' = dismissedBy \union {u}
    /\ UNCHANGED <<now, people, post, readBy, tick, edit, arms, claims, overwritten>>

\* markAllRead
MarkAllRead(u) ==
    /\ Listed(u) /\ u \notin readBy /\ readBy' = readBy \union {u}
    /\ UNCHANGED <<now, people, post, dismissedBy, tick, edit, arms, claims, overwritten>>

\* publishDueScheduledAnnouncements, up to its first claim.
DueNow == post # None /\ ~post.notified /\ post.at # None /\ post.at <= now

Tick(c) ==
    /\ ~tick[c] /\ DueNow
    /\ tick' = [tick EXCEPT ![c] = TRUE]
    /\ UNCHANGED <<now, people, post, readBy, dismissedBy, edit, arms, claims, overwritten>>

\* Mutant of Claim: what was found due is claimed without a second look.
ClaimFound(c) ==
    /\ tick[c]
    /\ tick' = [tick EXCEPT ![c] = FALSE]
    /\ post' = [post EXCEPT !.notified = TRUE] /\ claims' = claims + 1
    /\ UNCHANGED <<now, people, readBy, dismissedBy, edit, arms, overwritten>>

\* updateMany where publishedNotified is still false.
Claim(c) ==
    /\ tick[c]
    /\ tick' = [tick EXCEPT ![c] = FALSE]
    /\ IF ~post.notified
       THEN post' = [post EXCEPT !.notified = TRUE] /\ claims' = claims + 1
       ELSE UNCHANGED <<post, claims>>
    /\ UNCHANGED <<now, people, readBy, dismissedBy, edit, arms, overwritten>>

Next ==
    \/ Clock
    \/ \E e \in Editor : Update(e)
    \/ \E u \in User :
        \/ \E s \in Section : Move(u, s)
        \/ \E e \in Editor, at \in Times \union {Keep, None} : AskUpdate(e, u, at)
        \/ Create(u) \/ Remove(u) \/ MarkRead(u) \/ Dismiss(u) \/ MarkAllRead(u)
    \/ \E c \in Cron : Tick(c) \/ Claim(c)

Spec == Init /\ [][Next]_vars

-----------------------------------------------------------------------------
\* Whom a target names, from the target's side: the people of its role, or the pupils of
\* the section, their guardians and its teachers.
PeopleOf(s) ==
    LET here == {p \in Pupil : <<p, s>> \in placed}
    IN  here \union {g \in Guardian : \E c \in here : <<g, c>> \in children}
             \union {t \in Staff : <<t, s>> \in assigned \union taught}

Addressed(t) ==
    CASE t.kind = "SCHOOL" -> User
      [] t.kind = "ALL_STUDENTS" -> Pupil
      [] t.kind = "ALL_TEACHERS" -> Staff
      [] t.kind = "ALL_PARENTS" -> Guardian
      [] t.kind = "SECTION" -> PeopleOf(t.ref)
      [] t.kind = "CLASS" -> UNION {PeopleOf(s) : s \in {x \in Section : ClassOf[x] = t.ref}}

\* The list and the unread count (visibilityWhere) and the door of a single announcement
\* (assertCanView), each of which starts from the reader's own sections, give it to exactly
\* those its targets name, once it is out and wherever they have moved; its author, who may
\* no longer teach the section, keeps the door and not the list.
AudienceAgrees ==
    post # None =>
        \A u \in User \ Admin :
            LET due == ~Future /\ \E t \in post.targets : u \in Addressed(t)
            IN  /\ Visible(u) <=> due
                /\ CanView(u) <=> due \/ u = post.author

\* "Flips publishedNotified BEFORE emitting so a second tick can't double-notify": a
\* scheduled announcement is claimed once each time it is scheduled, however ticks and
\* edits overlap, unless an edit wrote back a flag that had changed since it read it.
\* Nothing is emitted after the claim as yet.
NotifiedOnce == overwritten \/ claims <= arms
=============================================================================
