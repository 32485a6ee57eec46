------------------------------- MODULE Families -------------------------------
(***************************************************************************)
(* The accounts of pupils and guardians and the links between them         *)
(* (users.service.ts): a pupil is admitted with exactly one guardian, who  *)
(* exists already or is created along; links are added and removed; the    *)
(* super-admin may move an account to another school; accounts without     *)
(* records are deleted.  Each request checks first and writes later, in    *)
(* one transaction.  A person is the User row and the profile it has; a    *)
(* deleted one never comes back, since ids are not used again.             *)
(***************************************************************************)
EXTENDS FiniteSets, Integers

CONSTANTS
    Pupil, Guardian, School,
    Desk,           \* requests of administrators in flight at once
    None

Person == Pupil \union Guardian

FamilyAssumption ==
    /\ Pupil \intersect Guardian = {}
    /\ None \notin [school : School, profile : School]

VARIABLES
    gone,       \* deleted people
    account,    \* by person: None, or the user's school and that of the profile
    links,      \* ParentStudent: pairs of a guardian and a pupil
    records,    \* pupils with challans or examination results
    call,       \* by desk: what has been checked and not yet written
    moved,      \* history: people whose account went to another school
    bereft      \* history: pupils whose guardian was deleted, or lost two at once

vars == <<gone, account, links, records, call, moved, bereft>>

TypeOK ==
    /\ account \in [Person -> {None} \union [school : School, profile : School]]
    /\ links \subseteq Guardian \X Pupil
    /\ records \subseteq Pupil /\ moved \subseteq Person /\ bereft \subseteq Pupil

Idle == [op |-> "idle"]
There(p) == account[p] # None
GuardiansOf(s) == {g \in Guardian : <<g, s>> \in links}

Init ==
    /\ gone = {} /\ account = [p \in Person |-> None] /\ links = {} /\ records = {}
    /\ call = [d \in Desk |-> Idle]
    /\ moved = {} /\ bereft = {}

Ask(d, request) ==
    /\ call[d] = Idle
    /\ call' = [call EXCEPT ![d] = request]
    /\ UNCHANGED <<gone, account, links, records, moved, bereft>>

Done(d) == call' = [call EXCEPT ![d] = Idle]
Refused(d) == Done(d) /\ UNCHANGED <<gone, account, links, records, moved, bereft>>

New(school) == [school |-> school, profile |-> school]

\* create, for a guardian.
CreateGuardian(g, school) ==
    /\ ~There(g) /\ g \notin gone
    /\ account' = [account EXCEPT ![g] = New(school)]
    /\ UNCHANGED <<gone, links, records, call, moved, bereft>>

\* create, for a pupil: the guardian is of the same school, or created along.
AskCreate(d, s, school) ==
    /\ ~There(s) /\ s \notin gone
    /\ \E g \in Guardian \ gone :
        /\ There(g) => account[g].school = school
        /\ Ask(d, [op |-> "create", pupil |-> s, guardian |-> g, school |-> school,
                   new |-> ~There(g)])

\* One transaction; an email taken or a guardian gone meanwhile rolls all of it back.
Create(d) ==
    LET c == call[d]
    IN  /\ c.op = "create"
        /\ IF There(c.pupil) \/ c.new = There(c.guardian) \/ {c.pupil, c.guardian} \intersect gone # {}
           THEN Refused(d)
           ELSE /\ account' = [p \in Person |->
                        IF p = c.pupil \/ (c.new /\ p = c.guardian) THEN New(c.school) ELSE account[p]]
                /\ links' = links \union {<<c.guardian, c.pupil>>}
                /\ Done(d) /\ UNCHANGED <<gone, records, moved, bereft>>

\* update, by the super-admin: the user's school changes, the profile's does not.
Move(p, school) ==
    /\ There(p) /\ account[p].school # school
    /\ account' = [account EXCEPT ![p].school = school]
    /\ moved' = moved \union {p}
    /\ UNCHANGED <<gone, links, records, call, bereft>>

\* linkParentStudent: both are of the administrator's school.
AskLink(d, g, s) ==
    /\ There(g) /\ There(s) /\ account[g].school = account[s].school
    /\ Ask(d, [op |-> "link", guardian |-> g, pupil |-> s])

Link(d) ==
    LET c == call[d]
    IN  /\ c.op = "link"
        /\ IF There(c.guardian) /\ There(c.pupil)
           THEN /\ links' = links \union {<<c.guardian, c.pupil>>}
                /\ Done(d) /\ UNCHANGED <<gone, account, records, moved, bereft>>
           ELSE Refused(d)

\* Mutant of AskUnlink: the number of guardians is left to the page.
AskUnlinkAny(d, g, s) ==
    /\ <<g, s>> \in links
    /\ Ask(d, [op |-> "unlink", guardian |-> g, pupil |-> s])

\* unlinkParentStudent
AskUnlink(d, g, s) ==
    /\ <<g, s>> \in links /\ Cardinality(GuardiansOf(s)) > 1
    /\ Ask(d, [op |-> "unlink", guardian |-> g, pupil |-> s])

Unlinking(d, s) == call[d].op = "unlink" /\ call[d].pupil = s

Unlink(d) ==
    LET c == call[d]
    IN  /\ c.op = "unlink"
        /\ links' = links \ {<<c.guardian, c.pupil>>}
        /\ bereft' = IF \E e \in Desk \ {d} : Unlinking(e, c.pupil)
                     THEN bereft \union {c.pupil} ELSE bereft
        /\ Done(d) /\ UNCHANGED <<gone, account, records, moved>>

\* A bill or a result is written for a pupil.
Record(s) ==
    /\ There(s) /\ records' = records \union {s}
    /\ UNCHANGED <<gone, account, links, call, moved, bereft>>

\* remove: a pupil with records stays.
AskRemove(d, p) ==
    /\ There(p) /\ p \notin records
    /\ Ask(d, [op |-> "remove", person |-> p])

\* The links go with either end; records written meanwhile hold the pupil back.
Remove(d) ==
    LET p == call[d].person
    IN  /\ call[d].op = "remove"
        /\ IF ~There(p) \/ p \in records THEN Refused(d)
           ELSE /\ account' = [account EXCEPT ![p] = None]
                /\ links' = {l \in links : p \notin {l[1], l[2]}}
                /\ moved' = moved \ {p}
                /\ bereft' = (bereft \union {s \in Pupil : <<p, s>> \in links}) \ {p}
                /\ gone' = gone \union {p}
                /\ Done(d) /\ UNCHANGED records

Next ==
    \/ \E g \in Guardian, school \in School : CreateGuardian(g, school)
    \/ \E p \in Person, school \in School : Move(p, school)
    \/ \E s \in Pupil : Record(s)
    \/ \E d \in Desk :
        \/ \E s \in Pupil, school \in School : AskCreate(d, s, school)
        \/ \E g \in Guardian, s \in Pupil : AskLink(d, g, s) \/ AskUnlink(d, g, s)
        \/ \E p \in Person : AskRemove(d, p)
        \/ Create(d) \/ Link(d) \/ Unlink(d) \/ Remove(d)

Spec == Init /\ [][Next]_vars

-----------------------------------------------------------------------------
\* "A student must always keep at least one guardian": one is never taken from them by
\* a request that crosses an admission, a link or a deletion, except by two that
\* unlink both guardians at once and by the deletion of the guardian's own account.
GuardianKept == \A s \in Pupil : There(s) /\ s \notin bereft => GuardiansOf(s) # {}

\* "Cross-school linking denied": guardian and pupil are of one school, unless the
\* super-admin has moved the one or the other.
LinkedWithinSchool ==
    \A l \in links : moved \intersect {l[1], l[2]} = {} =>
        account[l[1]].school = account[l[2]].school

=============================================================================
