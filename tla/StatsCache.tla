------------------------------ MODULE StatsCache ------------------------------
(***************************************************************************)
(* The cache in front of the dashboards, the statistics and the lists of a *)
(* school (cache.service.ts): one key, what it is computed from, readers   *)
(* that compute it when they miss (wrap) and writers that delete it after  *)
(* their transaction commits (invalidateSchoolStats, invalidateRoleCache). *)
(* The backend may be out of reach for any call: it is then as if the key  *)
(* were not there, and what should be stored or deleted is not.            *)
(***************************************************************************)
EXTENDS Integers

CONSTANTS
    Reader, Writer,
    Ttl,            \* how long an entry lives
    MaxWrites,      \* bound: how often the data changes
    None

VARIABLES
    data,       \* the version of the rows the value is computed from
    entry,      \* None, or the version held and the time it has left
    reader,     \* by reader: None, or the version it has computed and not stored
    writer,     \* by writer: it has committed and not yet deleted the key
    crossed     \* history: the entry was computed before a write and stored after it,
                \* or the deletion did not get through

vars == <<data, entry, reader, writer, crossed>>

TypeOK ==
    /\ data \in 0..MaxWrites
    /\ entry \in {None} \union [version : 0..MaxWrites, left : 1..Ttl]
    /\ reader \in [Reader -> {None} \union 0..MaxWrites]
    /\ writer \in [Writer -> BOOLEAN] /\ crossed \in BOOLEAN

Init ==
    /\ data = 0 /\ entry = None
    /\ reader = [r \in Reader |-> None]
    /\ writer = [w \in Writer |-> FALSE]
    /\ crossed = FALSE

Lapsed(left) == IF entry = None \/ left = 0 THEN None ELSE [entry EXCEPT !.left = left]

\* Mutant of Expire: an entry lives on from tick to tick.
ExpireNever == entry # None /\ entry' = Lapsed(entry.left) /\ UNCHANGED <<data, reader, writer, crossed>>

\* Time passes: the backend drops the entry at its expiry, or get does.
Expire == entry # None /\ entry' = Lapsed(entry.left - 1) /\ UNCHANGED <<data, reader, writer, crossed>>

\* wrap, on a miss or while the backend does not answer: the value is computed.
Compute(r) ==
    /\ reader[r] = None
    /\ reader' = [reader EXCEPT ![r] = data]
    /\ UNCHANGED <<data, entry, writer, crossed>>

\* wrap, set: whatever is there by now is overwritten, and the time starts again.
Store(r) ==
    /\ reader[r] # None
    /\ \E answered \in BOOLEAN :
        IF answered
        THEN /\ entry' = [version |-> reader[r], left |-> Ttl]
             /\ crossed' = (reader[r] # data)
        ELSE UNCHANGED <<entry, crossed>>
    /\ reader' = [reader EXCEPT ![r] = None]
    /\ UNCHANGED <<data, writer>>

\* Mutant of Commit: the service writes and deletes nothing afterwards.
CommitForgetting(w) ==
    /\ ~writer[w] /\ data < MaxWrites
    /\ data' = data + 1
    /\ UNCHANGED <<entry, reader, writer, crossed>>

\* A service writes rows the value depends on.
Commit(w) ==
    /\ ~writer[w] /\ data < MaxWrites
    /\ data' = data + 1
    /\ writer' = [writer EXCEPT ![w] = TRUE]
    /\ UNCHANGED <<entry, reader, crossed>>

\* del and delByPrefixes: a failure is logged and forgotten.
Invalidate(w) ==
    /\ writer[w]
    /\ writer' = [writer EXCEPT ![w] = FALSE]
    /\ \E answered \in BOOLEAN :
        IF answered THEN entry' = None /\ crossed' = FALSE
        ELSE crossed' = (entry # None) /\ UNCHANGED entry
    /\ UNCHANGED <<data, reader>>

\* The writer's process stops between the commit and the deletion.
Crash(w) ==
    /\ writer[w]
    /\ writer' = [writer EXCEPT ![w] = FALSE]
    /\ crossed' = (entry # None)
    /\ UNCHANGED <<data, entry, reader>>

Next ==
    \/ Expire
    \/ \E r \in Reader : Compute(r) \/ Store(r)
    \/ \E w \in Writer : Commit(w) \/ Invalidate(w) \/ Crash(w)

\* Time passes, and what a request has computed it stores or gives up.
Fairness ==
    /\ WF_vars(Expire)
    /\ \A r \in Reader : WF_vars(Store(r))
    /\ \A w \in Writer : WF_vars(Invalidate(w))

Spec == Init /\ [][Next]_vars /\ Fairness

-----------------------------------------------------------------------------
Stale == entry # None /\ entry.version # data

\* "Call AFTER the write's $transaction commits": with no write on its way, the cache
\* holds the current value, unless it was computed before a write and stored after
\* it, or a deletion was lost.
StaleOnlyAcrossWrite == Stale /\ (\A w \in Writer : ~writer[w]) => crossed

\* "TTL is just a backstop": whatever is lost and however readers and writers cross,
\* once the writes are over no old value is served for ever.
StaleEnds == Stale ~> ~Stale
=============================================================================
