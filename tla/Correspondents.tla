---------------------------- MODULE Correspondents ----------------------------
(***************************************************************************)
(* Who may write to whom (permission-matrix.ts, assertCanReach), whom the  *)
(* picker of a new message offers (listRecipients), and the direct         *)
(* thread of two users (createDirectThread, which broadcast opens one      *)
(* after the other).  What is said in a thread is in Messaging.            *)
(***************************************************************************)
EXTENDS Sequences, FiniteSets

CONSTANTS
    User, RoleOf, SchoolOf,     \* each user's role and school
    NoSchool,                   \* the super-admin's
    Section, Staff,             \* one section: its students, and who teaches in it
    Request                     \* requests that may overlap, of one user or of several

WithinSchool == {"SCHOOL_ADMIN", "TEACHER", "PARENT", "STUDENT"}

SchoolAssumption ==
    /\ RoleOf \in [User -> WithinSchool \union {"SUPER_ADMIN"}] /\ DOMAIN SchoolOf = User
    /\ Section \union Staff \subseteq User
    /\ \A u, v \in Section \union Staff : SchoolOf[u] = SchoolOf[v]
    /\ \A u \in Section : RoleOf[u] = "STUDENT"
    /\ \A u \in Staff : RoleOf[u] = "TEACHER"
    /\ \A u \in User : (SchoolOf[u] = NoSchool) = (RoleOf[u] = "SUPER_ADMIN")

VARIABLES
    active,     \* the users whose account is active
    links,      \* ParentStudent: pairs of a parent and a student
    threads,    \* direct threads: their school and their two members
    call,       \* by request: Nobody, or who opens a thread with whom, having found none
    crossed     \* history: the pairs for which two requests overlapped

vars == <<active, links, threads, call, crossed>>

\* ALLOW
Allow(role) ==
    IF role = "SUPER_ADMIN" THEN {"SCHOOL_ADMIN"}
    ELSE WithinSchool \union IF role = "SCHOOL_ADMIN" THEN {"SUPER_ADMIN"} ELSE {}

Linked(a, b) == <<a, b>> \in links \/ <<b, a>> \in links

\* assertCanReach
CanReach(a, b) ==
    /\ RoleOf[b] \in Allow(RoleOf[a])
    /\ \/ "SUPER_ADMIN" \in {RoleOf[a], RoleOf[b]}
       \/ /\ SchoolOf[a] = SchoolOf[b]
          /\ {RoleOf[a], RoleOf[b]} = {"STUDENT", "PARENT"} => Linked(a, b)

\* Mutant of LinkedTo: a guardian is offered every student of the school.
LinkedToAny(a) == {b \in User : RoleOf[b] \in {"STUDENT", "PARENT"}}

LinkedTo(a) == {b \in User : Linked(a, b)}

\* listRecipients
ListRecipients(a) ==
    LET here == {b \in User : SchoolOf[b] = SchoolOf[a]}
        listed ==
            CASE RoleOf[a] = "SUPER_ADMIN" -> {b \in User : RoleOf[b] = "SCHOOL_ADMIN"}
              [] RoleOf[a] = "TEACHER" -> here
              [] RoleOf[a] = "SCHOOL_ADMIN" -> here \union {b \in User : RoleOf[b] = "SUPER_ADMIN"}
              [] OTHER -> here \intersect (LinkedTo(a) \union
                    {b \in User : RoleOf[b] \in {RoleOf[a], "TEACHER", "SCHOOL_ADMIN"}})
    IN  (listed \intersect active) \ {a}

\* listMessagingSections, and the door of getSectionRoster, which lets the super-admin
\* in as well: who may write to the section.
MayAddress(a) ==
    \/ a \in Staff
    \/ RoleOf[a] = "SCHOOL_ADMIN" /\ \A u \in Section \union Staff : SchoolOf[a] = SchoolOf[u]
    \/ RoleOf[a] = "SUPER_ADMIN"

Guardians == {p \in User : \E s \in Section : <<p, s>> \in links}

\* getSectionRoster: whom the composer of a group has ticked to begin with.
SectionRoster(a) == ((Section \union Guardians \union Staff) \intersect active) \ {a}

\* createGroupThread: all of them, or none.
GroupAllowed(a, ids) ==
    /\ RoleOf[a] \in {"TEACHER", "SCHOOL_ADMIN", "SUPER_ADMIN"}
    /\ ids \ {a} # {}
    /\ \A b \in ids \ {a} : b \in active /\ CanReach(a, b)

\* deriveClassParticipants and their creator: who is in the section's own thread.
ClassParticipants(a) == Section \union Guardians \union Staff \union {a}

-----------------------------------------------------------------------------
Nobody == <<>>

Init ==
    /\ active = User
    /\ links \in SUBSET {l \in User \X User :
            RoleOf[l[1]] = "PARENT" /\ RoleOf[l[2]] = "STUDENT" /\ SchoolOf[l[1]] = SchoolOf[l[2]]}
    /\ threads = <<>>
    /\ call = [r \in Request |-> Nobody]
    /\ crossed = {}

\* Accounts are closed and reopened by administrators.
SetActive(u) ==
    /\ active' = IF u \in active THEN active \ {u} ELSE active \union {u}
    /\ UNCHANGED <<links, threads, call, crossed>>

\* The school a thread is kept, and looked for, under.
ThreadSchool(a, b) == IF SchoolOf[a] # NoSchool THEN SchoolOf[a] ELSE SchoolOf[b]

Existing(a, b) ==
    {i \in DOMAIN threads : /\ threads[i].members = {a, b}
                            /\ threads[i].school = ThreadSchool(a, b)}

Between(r) == {call[r][i] : i \in DOMAIN call[r]}

\* An existing thread is opened as it is.  Nothing keeps two requests, from two users or
\* from two tabs of one, from both finding none.
AskDirectThread(r) ==
    \E a \in active : \E b \in active \ {a} :
        /\ call[r] = Nobody /\ CanReach(a, b) /\ Existing(a, b) = {}
        /\ call' = [call EXCEPT ![r] = <<a, b>>]
        /\ crossed' = crossed \union {pair \in {{a, b}} : \E q \in Request : Between(q) = pair}
        /\ UNCHANGED <<active, links, threads>>

CreateDirectThread(r) ==
    /\ call[r] # Nobody
    /\ threads' = Append(threads, [school |-> ThreadSchool(call[r][1], call[r][2]),
                                   members |-> Between(r)])
    /\ call' = [call EXCEPT ![r] = Nobody]
    /\ UNCHANGED <<active, links, crossed>>

Next ==
    \/ \E u \in User : SetActive(u)
    \/ \E r \in Request : AskDirectThread(r) \/ CreateDirectThread(r)

Spec == Init /\ [][Next]_vars

-----------------------------------------------------------------------------
\* The picker offers "exactly the set assertCanReach accepts", over every role, two
\* schools and every family.
RecipientsExact ==
    \A a \in User : ListRecipients(a) = {b \in active \ {a} : CanReach(a, b)}

\* The group the composer has ticked for a teacher or an administrator of the section is
\* not refused, as any group of a section would be to the super-admin, and the thread of
\* the section is for the same users, but for closed accounts.
RosterReachable ==
    \A a \in User : MayAddress(a) =>
        LET ticked == SectionRoster(a)
        IN  /\ ticked # {} => (GroupAllowed(a, ticked) <=> RoleOf[a] # "SUPER_ADMIN")
            /\ (ClassParticipants(a) \intersect active) \ {a} = ticked

\* "Reuse an existing 1:1 thread between exactly these two users": a pair has one direct
\* thread, whichever of them opens it, from whichever school, unless two requests for this
\* very pair overlapped, be they of both or of one of them.
OneThreadPerPair ==
    \A i, j \in DOMAIN threads :
        threads[i].members = threads[j].members /\ threads[i].members \notin crossed => i = j

=============================================================================
