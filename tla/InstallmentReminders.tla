------------------------ MODULE InstallmentReminders ------------------------
(***************************************************************************)
(* "Your installment is due soon": the daily sweep of                      *)
(* installment-reminders.service.ts over the rows of one plan, run by the  *)
(* scheduler of every server instance, while administrators save the plan  *)
(* and families pay.  The sweep reads, claims, reads back what it claimed  *)
(* and sends, in separate statements; a crash may end it anywhere.         *)
(***************************************************************************)
EXTENDS Integers, Sequences, FiniteSets

CONSTANTS
    Sweep,          \* sweeps that may overlap
    Due,            \* the due day of each installment: a sequence of days
    Window,         \* installmentReminderDaysBefore
    Instants,       \* clock readings in one day
    LastDay,        \* bound: days simulated
    Saves           \* bound: how often the plan is saved again

ReminderAssumption ==
    /\ IsFiniteSet(Sweep)
    /\ Due \in Seq(Nat) /\ Window \in Nat
    /\ Instants \in Nat \ {0} /\ LastDay \in Nat /\ Saves \in Nat

Seqs == DOMAIN Due
Never == -1         \* reminderSentAt is null

VARIABLES
    now,            \* the clock, in instants
    version,        \* how often the rows were recreated
    active,         \* the plan's switch
    settled,        \* installments the waterfall has settled
    sentAt,         \* reminderSentAt of the rows that exist now
    sweep,          \* the sweeps in flight
    sent            \* history: the stamps of the messages about each row

vars == <<now, version, active, settled, sentAt, sweep, sent>>

Today == now \div Instants

Asleep == [pc |-> "idle", runAt |-> 0, version |-> 0, rows |-> {}]

Init ==
    /\ now = 0 /\ version = 0 /\ active = TRUE /\ settled = {}
    /\ sentAt = [i \in Seqs |-> Never]
    /\ sweep = [g \in Sweep |-> Asleep]
    /\ sent = [x \in Seqs \X (0..Saves) |-> <<>>]

-----------------------------------------------------------------------------
InWindow(i) == Due[i] >= Today /\ Due[i] <= Today + Window

Candidates == {i \in Seqs \ settled : active /\ sentAt[i] = Never /\ InWindow(i)}

\* Everything the sweep reads before it claims: the rows due soon and not yet
\* reminded, less those the payments have settled.
ReadDue(g) ==
    /\ sweep[g].pc = "idle"
    /\ Candidates # {}
    /\ sweep' = [sweep EXCEPT ![g] = [pc |-> "read", runAt |-> now,
                                      version |-> version, rows |-> Candidates]]
    /\ UNCHANGED <<now, version, active, settled, sentAt, sent>>

\* The rows that still exist: saving the plan replaced all others.
Alive(g) == IF sweep[g].version = version THEN sweep[g].rows ELSE {}

\* Mutant of Claim: the update takes rows another sweep has claimed.
ClaimTaken(g) ==
    /\ sweep[g].pc = "read"
    /\ sentAt' = [i \in Seqs |-> IF i \in Alive(g) THEN sweep[g].runAt ELSE sentAt[i]]
    /\ sweep' = [sweep EXCEPT ![g].pc = "claimed"]
    /\ UNCHANGED <<now, version, active, settled, sent>>

\* updateMany WHERE reminderSentAt IS NULL.
Claim(g) ==
    /\ sweep[g].pc = "read"
    /\ sentAt' = [i \in Seqs |-> IF i \in Alive(g) /\ sentAt[i] = Never
                                 THEN sweep[g].runAt ELSE sentAt[i]]
    /\ sweep' = [sweep EXCEPT ![g].pc = "claimed"]
    /\ UNCHANGED <<now, version, active, settled, sent>>

\* Which rows carry this run's stamp.
ReadClaimed(g) ==
    LET won == {i \in Alive(g) : sentAt[i] = sweep[g].runAt} IN
    /\ sweep[g].pc = "claimed"
    /\ sweep' = [sweep EXCEPT ![g] = IF won = {} THEN Asleep
                    ELSE [sweep[g] EXCEPT !.pc = "won", !.rows = won]]
    /\ UNCHANGED <<now, version, active, settled, sentAt, sent>>

\* One batched notification.
Emit(g) ==
    /\ sweep[g].pc = "won"
    /\ sent' = [x \in DOMAIN sent |->
            IF x[1] \in sweep[g].rows /\ x[2] = sweep[g].version
            THEN Append(sent[x], sweep[g].runAt) ELSE sent[x]]
    /\ sweep' = [sweep EXCEPT ![g] = Asleep]
    /\ UNCHANGED <<now, version, active, settled, sentAt>>

Crash(g) ==
    /\ sweep[g].pc # "idle"
    /\ sweep' = [sweep EXCEPT ![g] = Asleep]
    /\ UNCHANGED <<now, version, active, settled, sentAt, sent>>

\* Saving the plan, changed or not, recreates its rows; none of the new ones
\* has been reminded.
SavePlan(switch) ==
    /\ version < Saves
    /\ version' = version + 1
    /\ active' = switch
    /\ sentAt' = [i \in Seqs |-> Never]
    /\ UNCHANGED <<now, settled, sweep, sent>>

\* A receipt or a void moves what the waterfall has settled.
MoveMoney ==
    /\ \E n \in 0..Len(Due) : settled' = 1..n
    /\ UNCHANGED <<now, version, active, sentAt, sweep, sent>>

Tick ==
    /\ now + 1 < Instants * (LastDay + 1)
    /\ now' = now + 1
    /\ UNCHANGED <<version, active, settled, sentAt, sweep, sent>>

Next ==
    \/ \E g \in Sweep : ReadDue(g) \/ Claim(g) \/ ReadClaimed(g) \/ Emit(g) \/ Crash(g)
    \/ \E switch \in BOOLEAN : SavePlan(switch)
    \/ MoveMoney
    \/ Tick

Spec == Init /\ [][Next]_vars

-----------------------------------------------------------------------------
(* Properties *)

Job == [pc : {"idle", "read", "claimed", "won"}, runAt : 0..now, version : 0..version,
        rows : SUBSET Seqs]

TypeOK ==
    /\ now \in Nat /\ version \in 0..Saves
    /\ active \in BOOLEAN /\ settled \subseteq Seqs
    /\ sentAt \in [Seqs -> Never..now]
    /\ sweep \in [Sweep -> Job]
    /\ sent \in [Seqs \X (0..Saves) -> Seq(0..now)]

\* However many sweeps overlap and wherever they crash, no row is announced by
\* two sweeps that carry different stamps, at once or days apart, and by no
\* sweep twice (sweep: "Two overlapping sweeps carry different `runAt` stamps,
\* so neither double-sends").  Two instances that read the same millisecond
\* share a stamp, and then both send.
RemindedUnderOneStamp ==
    \A x \in DOMAIN sent :
        /\ \A i, j \in DOMAIN sent[x] : sent[x][i] = sent[x][j]
        /\ Len(sent[x]) <= Cardinality(Sweep)

-----------------------------------------------------------------------------
(* The inductive invariant behind it. *)

\* The sweeps that may still announce row x[1] as it was after the save x[2].
AtWork(x) == {g \in Sweep : /\ sweep[g].pc # "idle"
                            /\ sweep[g].version = x[2] /\ x[1] \in sweep[g].rows}

\* Every announcement of row x, made or about to be made, carries the stamp t, and as
\* long as the row exists that is the stamp in the table.
Stamped(x, t) ==
    /\ x[2] = version => sentAt[x[1]] = t
    /\ \A i \in DOMAIN sent[x] : sent[x][i] = t
    /\ \A g \in AtWork(x) : sweep[g].pc = "won" => sweep[g].runAt = t

\* A row has one stamp; no row is announced before it exists; and whoever has announced
\* it is not at work on it any more.
StampsInOrder ==
    /\ TypeOK
    /\ \A x \in DOMAIN sent :
        /\ \E t \in Never..now : Stamped(x, t)
        /\ x[2] > version => sent[x] = <<>>
        /\ Len(sent[x]) + Cardinality(AtWork(x)) <= Cardinality(Sweep)
=============================================================================
