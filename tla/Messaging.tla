------------------------------ MODULE Messaging ------------------------------
(***************************************************************************)
(* One conversation (messaging.service.ts): who is in it, what was said,   *)
(* and what each of them has read, cleared or hidden.  A message carries   *)
(* the time its request was made or any later one up to its commit.        *)
(* Attachments, reactions, titles and the order of threads are left out.   *)
(***************************************************************************)
EXTENDS Integers, Sequences, FiniteSets

CONSTANTS
    User, RoleOf,       \* each user's role
    Tab, Owner,         \* sessions, and whose each is
    MaxMessages, MaxTime    \* bounds

VARIABLES
    type,               \* DIRECT or GROUP
    members,            \* by user: {} or the ThreadParticipant row
    messages,           \* in the order of their commits
    deletions,          \* the messages users deleted for themselves
    clock,
    call,               \* what each session has read and not yet written
    seen,               \* history: by user, the messages there were when they last read or wrote
    raced               \* history: what was read beside a write in flight

vars == <<type, members, messages, deletions, clock, call, seen, raced>>

Staff == {"TEACHER", "SCHOOL_ADMIN", "SUPER_ADMIN"}
In == {u \in User : members[u] # {}}
Row(u) == CHOOSE r \in members[u] : TRUE
Fresh == [read |-> 0, cleared |-> 0, hidden |-> FALSE]
Is(u, row) == members' = [members EXCEPT ![u] = {row}]

TypeOK ==
    /\ type \in {"DIRECT", "GROUP"} /\ clock \in 0..MaxTime
    /\ \A u \in User : Cardinality(members[u]) <= 1
    /\ \A u \in In : Row(u).read <= clock /\ Row(u).cleared <= clock
    /\ \A i \in DOMAIN messages : messages[i].at \in 1..clock /\ messages[i].sender \in User

MessagingAssumption == IsFiniteSet(User) /\ Owner \in [Tab -> User]

Idle == [op |-> "idle"]

Init ==
    /\ type \in {"DIRECT", "GROUP"}
    /\ \E joined \in SUBSET User :
        /\ IF type = "DIRECT" THEN Cardinality(joined) = 2
           ELSE Cardinality(joined) >= 2 /\ \E u \in joined : RoleOf[u] \in Staff
        /\ members = [u \in User |-> IF u \in joined THEN {Fresh} ELSE {}]
    /\ messages = <<>> /\ deletions = {} /\ clock = 0
    /\ call = [t \in Tab |-> Idle]
    /\ seen = [u \in User |-> {}]
    /\ raced = FALSE

InFlight(ops) == {t \in Tab : call[t].op \in ops}
Ask(t, request) ==
    /\ call[t] = Idle
    /\ call' = [call EXCEPT ![t] = request]
    /\ UNCHANGED <<type, members, messages, deletions, clock, seen>>
Answer(t) == call' = [call EXCEPT ![t] = Idle] /\ UNCHANGED <<type, deletions>>
Refused(t) == Answer(t) /\ UNCHANGED <<members, messages, clock, seen, raced>>
Tick == clock < MaxTime /\ clock' = clock + 1

-----------------------------------------------------------------------------
(***************************************************************************)
(* What a user is shown.                                                   *)
(***************************************************************************)
\* getMessages
View(u) == {i \in DOMAIN messages : messages[i].at > Row(u).cleared /\ <<i, u>> \notin deletions}

\* `orderBy createdAt desc, take 1`, without what the user cleared.
Newest == {i \in DOMAIN messages : \A j \in DOMAIN messages : messages[j].at <= messages[i].at}
Latest(u) == {i \in Newest : messages[i].at > Row(u).cleared}

\* presentThread, and getUnreadCount of a thread that is listed.
Unread(u) ==
    \E i \in Latest(u) : messages[i].sender # u /\ messages[i].at > Row(u).read

-----------------------------------------------------------------------------
(***************************************************************************)
(* Speaking.                                                               *)
(***************************************************************************)
\* In a direct thread with a school admin.
ToAdmin(u) == type = "DIRECT" /\ \E v \in In \ {u} : RoleOf[v] = "SCHOOL_ADMIN"

\* A student writes to an admin when they open the thread or were answered.
OnTurn(u) ==
    RoleOf[u] = "STUDENT" /\ ToAdmin(u) => \A i \in Newest : messages[i].sender # u

\* Two sessions of a user may both be told it is their turn.
AskSend(t) ==
    LET u == Owner[t]
    IN  /\ u \in In /\ OnTurn(u)
        /\ Ask(t, [op |-> "send", since |-> clock])
        /\ raced' = (raced \/ \E o \in InFlight({"send"}) : Owner[o] = u)

\* Mutant of Resurfaced: who hid the thread is not shown the new message.
StaysHidden(ms, u) == ms

\* Everybody who hid the thread gets it back.
Resurfaced(ms, u) ==
    [v \in User |-> IF v = u THEN ms[v] ELSE {[r EXCEPT !.hidden = FALSE] : r \in ms[v]}]

\* The transaction updates the sender's own row and fails when it is gone.
Send(t) ==
    LET u == Owner[t]
        at == clock + 1
    IN  /\ call[t].op = "send"
        /\ IF u \notin In THEN Refused(t)
           ELSE /\ Len(messages) < MaxMessages /\ Tick
                /\ \E stamp \in (call[t].since + 1)..at :
                    /\ messages' = Append(messages, [at |-> stamp, sender |-> u, body |-> TRUE,
                                                     unsent |-> FALSE])
                    /\ members' = Resurfaced([members EXCEPT ![u] =
                            {[Row(u) EXCEPT !.read = stamp, !.hidden = FALSE]}], u)
                    /\ raced' = (raced \/ stamp # at)
                /\ seen' = [seen EXCEPT ![u] = DOMAIN messages']
                /\ Answer(t)

Own(u) == {i \in DOMAIN messages : messages[i].sender = u}

AskEdit(t) ==
    \E i \in Own(Owner[t]) :
        /\ Owner[t] \in In /\ ~messages[i].unsent
        /\ Ask(t, [op |-> "edit", message |-> i]) /\ UNCHANGED raced

Edit(t) ==
    /\ call[t].op = "edit"
    /\ messages' = [messages EXCEPT ![call[t].message].body = TRUE]
    /\ Answer(t) /\ UNCHANGED <<members, clock, seen, raced>>

\* Unsending leaves a tombstone; one that is there already is left alone.
Unsend(t) ==
    \E i \in Own(Owner[t]) :
        /\ call[t] = Idle /\ Owner[t] \in In /\ ~messages[i].unsent
        /\ messages' = [messages EXCEPT ![i].unsent = TRUE, ![i].body = FALSE]
        /\ raced' = (raced \/ \E o \in InFlight({"edit"}) : call[o].message = i)
        /\ UNCHANGED <<type, members, deletions, clock, call, seen>>

-----------------------------------------------------------------------------
(***************************************************************************)
(* Reading and hiding.                                                     *)
(***************************************************************************)
MarkRead(t) ==
    LET u == Owner[t]
    IN  /\ call[t] = Idle /\ u \in In /\ Tick
        /\ Is(u, [Row(u) EXCEPT !.read = clock'])
        /\ seen' = [seen EXCEPT ![u] = DOMAIN messages]
        /\ UNCHANGED <<type, messages, deletions, call, raced>>

\* leaveThread: the chat is deleted for its caller only.
LeaveThread(t) ==
    LET u == Owner[t]
    IN  /\ call[t] = Idle /\ u \in In /\ Tick
        /\ Is(u, [Row(u) EXCEPT !.hidden = TRUE, !.cleared = clock'])
        /\ UNCHANGED <<type, messages, deletions, call, seen, raced>>

DeleteMessageForMe(t) ==
    LET u == Owner[t]
    IN  \E i \in DOMAIN messages :
            /\ call[t] = Idle /\ u \in In /\ <<i, u>> \notin deletions
            /\ deletions' = deletions \union {<<i, u>>}
            /\ UNCHANGED <<type, members, messages, clock, call, seen, raced>>

-----------------------------------------------------------------------------
(***************************************************************************)
(* The members of a group.                                                 *)
(***************************************************************************)
Manages(u) == type = "GROUP" /\ u \in In /\ RoleOf[u] \in Staff

\* Who comes back has read nothing; what they deleted for themselves stays deleted.
AddGroupParticipant(t) ==
    \E v \in User \ In :
        /\ call[t] = Idle /\ Manages(Owner[t])
        /\ Is(v, Fresh)
        /\ UNCHANGED <<type, messages, deletions, clock, call, seen, raced>>

Removable(v) == v \in In /\ Cardinality(In) > 2

AskRemove(t) ==
    \E v \in User :
        /\ Manages(Owner[t]) /\ Removable(v)
        /\ Ask(t, [op |-> "remove", user |-> v])
        /\ raced' = (raced \/ InFlight({"remove"}) # {})

RemoveGroupParticipant(t) ==
    /\ call[t].op = "remove"
    /\ IF call[t].user \notin In THEN Refused(t)
       ELSE /\ members' = [members EXCEPT ![call[t].user] = {}]
            /\ Answer(t) /\ UNCHANGED <<messages, clock, seen, raced>>

Next == \E t \in Tab :
    \/ AskSend(t) \/ Send(t) \/ AskEdit(t) \/ Edit(t) \/ Unsend(t)
    \/ MarkRead(t) \/ LeaveThread(t) \/ DeleteMessageForMe(t)
    \/ AddGroupParticipant(t) \/ AskRemove(t) \/ RemoveGroupParticipant(t)

Spec == Init /\ [][Next]_vars

-----------------------------------------------------------------------------
\* No message goes unnoticed: one a member's chat holds and they were not there to
\* see lists their thread, as unread (getMessages, sendMessage, presentThread, getUnreadCount).
NothingMissed ==
    ~raced => \A u \in In : \A i \in View(u) \ seen[u] :
        messages[i].sender # u => ~Row(u).hidden /\ Unread(u)

\* A student waits for the admin's answer ("only on their turn"), a group keeps two
\* members, and what was unsent is gone for everyone, while no two requests race.
ThreadOrderly ==
    ~raced =>
        /\ \A i \in 2..Len(messages) : LET u == messages[i].sender IN
            RoleOf[u] = "STUDENT" /\ ToAdmin(u) => messages[i - 1].sender # u
        /\ Cardinality(In) >= 2
        /\ \A i \in DOMAIN messages : messages[i].unsent => ~messages[i].body

=============================================================================
