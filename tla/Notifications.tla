---------------------------- MODULE Notifications ----------------------------
(***************************************************************************)
(* The bell (notifications.service.ts) and the reminders of what is due    *)
(* tomorrow (reminders.scheduler.ts).  A producer emits and goes on; the    *)
(* listener reads the recipients' settings and writes their rows in        *)
(* chunks.  What is in flight lives in memory alone.  An event carries one *)
(* item for all its recipients, or one item for each; an item is what it   *)
(* tells of.  Mail goes out after the rows, behind a flag, and is left out. *)
(***************************************************************************)
EXTENDS Naturals, SequencesExt

CONSTANTS
    User,
    Events,          \* what producers emit: sequences of [item, users]
    Task, Audience,  \* assignments and papers, and whom each concerns, as a sequence
    Chunk,           \* CREATE_CHUNK
    LastDay          \* bound: the days of a behaviour

VARIABLES
    users,       \* accounts there are
    inApp,       \* who has the bell and this category on
    bell,        \* rows: [user, item, read]
    jobs,        \* deliveries: the event, and how far it is; kept when it is over
    today, ran,  \* the day, and whether the 8 o'clock run has been made
    due,         \* the day a task is due
    told         \* history: rows written, by user and item

accounts == <<users, inApp>>
days == <<today, ran, due>>
vars == <<accounts, bell, jobs, days, told>>

Items == UNION {{e[i].item : i \in DOMAIN e} : e \in Events}
         \cup (Task \X (1..LastDay))

\* [...new Set(ids)]
Distinct(seq) ==
    LET firsts == {i \in DOMAIN seq : \A j \in 1..(i - 1) : seq[j] # seq[i]}
        at == SetToSortSeq(firsts, <)
    IN  [k \in DOMAIN at |-> seq[at[k]]]

\* One row for each recipient of each item who has the bell on.
RowsFor(event, on) ==
    FlattenSeq([i \in DOMAIN event |->
        LET to == SelectSeq(Distinct(event[i].users), LAMBDA u : u \in on)
        IN  [k \in DOMAIN to |-> [user |-> to[k], item |-> event[i].item]]])

\* rows.slice(i, i + CREATE_CHUNK)
Slice(rows, i) == SubSeq(rows, i, (IF i + Chunk - 1 < Len(rows) THEN i + Chunk - 1
                                   ELSE Len(rows)))

Init ==
    /\ users = User /\ inApp \in SUBSET User
    /\ bell = {} /\ jobs = {}
    /\ today = 1 /\ ran = FALSE /\ due \in [Task -> 1..LastDay]
    /\ told = [p \in User \X Items |-> 0]

-----------------------------------------------------------------------------
(* Emitting *)

Job(event) == [event |-> event, state |-> "emitted", on |-> {}, rows |-> <<>>, at |-> 1]

Emit(event) ==
    /\ \A j \in jobs : j.event # event
    /\ jobs' = jobs \cup {Job(event)}
    /\ UNCHANGED <<accounts, bell, days, told>>

\* tomorrowWindow
Tomorrow == {t \in Task : due[t] = today + 1}

\* sendDueReminders, once a day, whoever is in school that morning.
Remind ==
    /\ ~ran /\ ran' = TRUE
    /\ jobs' = jobs \cup {Job(<<[item |-> <<t, due[t]>>, users |-> Audience[t]]>>) : t \in Tomorrow}
    /\ UNCHANGED <<accounts, bell, today, due, told>>

-----------------------------------------------------------------------------
(* Delivering *)

Becomes(j, k) == jobs' = (jobs \ {j}) \cup {k}

\* The settings, read once; a recipient who has none has everything on.
ReadSettings(j) ==
    /\ j.state = "emitted"
    /\ Becomes(j, [j EXCEPT !.state = "writing", !.on = inApp, !.rows = RowsFor(j.event, inApp)])
    /\ UNCHANGED <<accounts, bell, days, told>>

\* One createMany: with a recipient gone it is refused whole, and no more is tried.
WriteChunk(j) ==
    LET chunk == Slice(j.rows, j.at)
        to == {chunk[i].user : i \in DOMAIN chunk}
    IN  /\ j.state = "writing" /\ j.at <= Len(j.rows)
        /\ IF to \subseteq users
           THEN /\ bell' = bell \cup {[user |-> chunk[i].user, item |-> chunk[i].item,
                                       read |-> FALSE] : i \in DOMAIN chunk}
                /\ told' = [p \in DOMAIN told |-> told[p] +
                        Len(SelectSeq(chunk, LAMBDA r : <<r.user, r.item>> = p))]
                /\ Becomes(j, [j EXCEPT !.at = j.at + Chunk])
           ELSE Becomes(j, [j EXCEPT !.state = "cut"]) /\ UNCHANGED <<bell, told>>
        /\ UNCHANGED <<accounts, days>>

Finish(j) ==
    /\ j.state = "writing" /\ j.at > Len(j.rows)
    /\ Becomes(j, [j EXCEPT !.state = "done"])
    /\ UNCHANGED <<accounts, bell, days, told>>

-----------------------------------------------------------------------------
(* The recipients *)

Own(u) == {r \in bell : r.user = u}

\* markRead, markManyRead, markAllRead
MarkRead(u, rows) ==
    /\ rows \subseteq {r \in Own(u) : ~r.read} /\ rows # {}
    /\ bell' = (bell \ rows) \cup {[r EXCEPT !.read = TRUE] : r \in rows}
    /\ UNCHANGED <<accounts, jobs, days, told>>

Dismiss(u, rows) ==
    /\ rows \subseteq Own(u) /\ rows # {}
    /\ bell' = bell \ rows
    /\ UNCHANGED <<accounts, jobs, days, told>>

\* External: settings and accounts change, and a teacher moves a due day.
Switch(u) ==
    /\ inApp' = IF u \in inApp THEN inApp \ {u} ELSE inApp \cup {u}
    /\ UNCHANGED <<users, bell, jobs, days, told>>

Leave(u) ==
    /\ users' = users \ {u} /\ bell' = bell \ Own(u)
    /\ UNCHANGED <<inApp, jobs, days, told>>

MoveDue(t, d) ==
    /\ due[t] # d /\ due' = [due EXCEPT ![t] = d]
    /\ UNCHANGED <<accounts, bell, jobs, today, ran, told>>

NextDay ==
    /\ today < LastDay /\ today' = today + 1 /\ ran' = FALSE
    /\ UNCHANGED <<accounts, bell, jobs, due, told>>

\* The server stops: what was being delivered is forgotten.
Crash ==
    /\ \E j \in jobs : j.state \in {"emitted", "writing"}
    /\ jobs' = {IF j.state \in {"emitted", "writing"} THEN [j EXCEPT !.state = "lost"] ELSE j
                    : j \in jobs}
    /\ UNCHANGED <<accounts, bell, days, told>>

Next ==
    \/ \E e \in Events : Emit(e)
    \/ Remind \/ NextDay \/ Crash
    \/ \E t \in Task, d \in 1..LastDay : MoveDue(t, d)
    \/ \E j \in jobs : ReadSettings(j) \/ WriteChunk(j) \/ Finish(j)
    \/ \E u \in User : Switch(u) \/ Leave(u)
    \/ \E u \in User : \E rows \in SUBSET Own(u) : MarkRead(u, rows) \/ Dismiss(u, rows)

Spec == Init /\ [][Next]_vars

-----------------------------------------------------------------------------
(* Properties *)

Owed(j, u, item) ==
    u \in j.on /\ \E i \in DOMAIN j.event :
        j.event[i].item = item /\ u \in ToSet(j.event[i].users)

\* A delivery that ran its course told each recipient who had the bell on of each
\* item once, however often an item names them and wherever its chunks fall, and of
\* a task once for the day it is due, however its due day moves; one
\* that met a recipient who is gone, or was forgotten, told nobody else or twice.
ToldOnceEach ==
    \A j \in jobs, u \in User : \A item \in {j.event[i].item : i \in DOMAIN j.event} :
        LET n == told[<<u, item>>]
        IN  /\ n <= 1 /\ (n = 1 => Owed(j, u, item))
            /\ j.state = "done" /\ Owed(j, u, item) => n = 1
=============================================================================
