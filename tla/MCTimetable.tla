---------------------------- MODULE MCTimetable ----------------------------
EXTENDS Timetable

CONSTANTS admin1, admin2, a, b, mon, tue, t1, t2, r1, p1, p2, p3, e1, e2, e3

MCGrids ==
    { <<[index |-> 1, startMin |-> 0, endMin |-> 1, kind |-> "CLASS"]>>,
      <<[index |-> 1, startMin |-> 0, endMin |-> 1, kind |-> "CLASS"],
        [index |-> 2, startMin |-> 1, endMin |-> 2, kind |-> "CLASS"]>> }
MCSchoolDay == [startMin |-> 0, endMin |-> 2]

MCQualified == a :> {t1} @@ b :> {t1, t2}
MCRooms == a :> {NoRoom} @@ b :> {r1}
MCHomes == {NoRoom, r1}

\* Bounds: the second section has one period, kept as it was set up, and both days;
\* it is there for its classes, its publication as a whole and its deletion.  A
\* batch of the first either retimes a period or has two classes, and none names a
\* blank room; the classes of the first name no room, and its own is another once both
\* sections have classes.
Allowed(c) ==
    /\ c.op = "setup" => c.days = Day /\ (c.section = b => Len(c.grid) = 1)
    /\ c.op \in {"replacePeriods", "createPeriod", "applyTemplate", "publish"} => c.section = a
    /\ c.op = "createPeriod" => c.new.kind = "CLASS"
    /\ c.op = "deletePeriod" => periods[c.period].section = a
    /\ c.op = "updatePeriod" => c.new.section = a
    /\ c.op = "publishBatch" /\ DOMAIN c.retimes # {} =>
            c.section = a /\ Cardinality(c.classes) = 1
    /\ c.op = "publishBatch" => \A x \in c.classes : x.room # NoRoom
    /\ c.op \in {"createEntry", "updateEntry"} => c.new.section = a \/ c.new.room = r1
MCNext ==
    /\ Next
    /\ timetables'[b] # Free => timetables'[b].status # "ARCHIVED"
    /\ homeRoom' # homeRoom => homeRoom'[b] = homeRoom[b] /\ \A s \in Section : EntriesOf(entries, s) # {}
    /\ \A x \in Admin : call'[x] # call[x] => Allowed(call'[x])
MCInit == Init /\ homeRoom = (a :> r1 @@ b :> NoRoom)
MCSpec == MCInit /\ [][MCNext]_vars
Symmetric == Permutations(Admin) \union Permutations(Day) \union Permutations(PeriodIds) \union Permutations(EntryIds)
=============================================================================
