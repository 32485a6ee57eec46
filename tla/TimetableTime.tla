---------------------------- MODULE TimetableTime ----------------------------
(***************************************************************************)
(* The clock arithmetic of timetables (timetable-time.ts): minutes are     *)
(* integers from midnight, a period is a record with its two ends.         *)
(***************************************************************************)
EXTENDS Integers, Sequences, SequencesExt

Overlaps(aStart, aEnd, bStart, bEnd) == aStart < bEnd /\ aEnd > bStart

\* `sort` keeps ranges that start together as they came; each range is compared with
\* the one sorted just before it.
HasOverlap(ranges) ==
    LET Before(i, j) == \/ ranges[i].startMin < ranges[j].startMin
                        \/ ranges[i].startMin = ranges[j].startMin /\ i < j
    IN  \E i, j \in DOMAIN ranges :
            /\ Before(i, j) /\ ~\E k \in DOMAIN ranges : Before(i, k) /\ Before(k, j)
            /\ ranges[j].startMin < ranges[i].endMin

\* validatePeriodSet returns no error.
ValidPeriods(periods, day) ==
    /\ periods # <<>>
    /\ \A i \in DOMAIN periods :
        /\ \A j \in 1..(i - 1) : periods[j].index # periods[i].index
        /\ periods[i].startMin < periods[i].endMin
        /\ periods[i].startMin >= day.startMin /\ periods[i].endMin <= day.endMin
    /\ ~HasOverlap(periods)

PeriodMinutesForCount(day, breaks, count) ==
    LET taken == FoldLeft(LAMBDA sum, b : sum + b.minutes, 0, breaks)
    IN  (day.endMin - day.startMin - taken) \div count

Earlier(a, b) == IF a < b THEN a ELSE b

\* Mutant of SlotEnd: a class runs on into the break.
SlotEndIgnoringBreak(c, next, minutes, day) == Earlier(c + minutes, day.endMin)

\* A class ends with its minutes, at the next break, or with the day.
SlotEnd(c, next, minutes, day) ==
    Earlier(c + minutes,
            IF next = <<>> THEN day.endMin ELSE Earlier(Head(next).startMin, day.endMin))

\* The loop of generatePeriodSlots, from minute c on with the breaks left.
GeneratePeriodSlots(day, minutes, breaks) ==
    LET ordered == SortSeq(breaks, LAMBDA a, b : a.startMin < b.startMin)
        From[c \in Nat, k \in Nat] ==
            LET next == SubSeq(ordered, k, Len(ordered))
                due == next # <<>> /\ c >= Head(next).startMin
                end == IF due THEN Earlier(Head(next).startMin + Head(next).minutes, day.endMin)
                       ELSE SlotEnd(c, next, minutes, day)
            IN  IF c >= day.endMin THEN <<>>
                ELSE << [startMin |-> IF due THEN Head(next).startMin ELSE c,
                         endMin |-> end, kind |-> IF due THEN "BREAK" ELSE "CLASS"] >>
                     \o From[end, IF due THEN k + 1 ELSE k]
        slots == From[day.startMin, 1]
    IN  [i \in DOMAIN slots |->
            [index |-> i, startMin |-> slots[i].startMin, endMin |-> slots[i].endMin,
             kind |-> slots[i].kind]]

-----------------------------------------------------------------------------
(***************************************************************************)
(* mergeStudentRows: the classes a student takes, from several sections,   *)
(* on one set of rows.  A period has an `id` besides its times; a class    *)
(* has the day and the period it is held in.  The result is the rows and   *)
(* the row each class was put on.                                          *)
(***************************************************************************)
SlotOf(p) == <<p.startMin, p.endMin>>

\* The rows a class may join: its period's own row, else the first with its times.
RowsWithSlot(merged, class) ==
    LET own == {p \in merged.periods : p.id = class.period.id}
    IN  IF own # {} THEN own
        ELSE {merged.rowAt[s] : s \in {SlotOf(class.period)} \intersect DOMAIN merged.rowAt}

FreeRow(merged, class) ==
    {p \in RowsWithSlot(merged, class) : <<class.day, p.id>> \notin merged.used}

\* With no free row a class is put on its own period, even when that row is used.
Place(merged, class) ==
    LET joined == FreeRow(merged, class)
        row == IF joined # {} THEN CHOOSE p \in joined : TRUE ELSE class.period
        slot == SlotOf(row)
    IN  [periods |-> IF \E p \in merged.periods : p.id = row.id THEN merged.periods
                     ELSE merged.periods \union {row},
         rowAt |-> IF joined # {} \/ slot \in DOMAIN merged.rowAt THEN merged.rowAt
                   ELSE [s \in DOMAIN merged.rowAt \union {slot} |->
                            IF s = slot THEN row ELSE merged.rowAt[s]],
         used |-> merged.used \union {<<class.day, row.id>>},
         cells |-> Append(merged.cells, [day |-> class.day, row |-> row, class |-> class])]

MergeStudentRows(base, classes) ==
    LET inBase(class) == \E i \in DOMAIN base : base[i].id = class.period.id
        teaching == SelectSeq(base, LAMBDA p : p.kind = "CLASS")
        FirstAt(s) == CHOOSE i \in DOMAIN teaching :
            /\ SlotOf(teaching[i]) = s
            /\ \A j \in 1..(i - 1) : SlotOf(teaching[j]) # s
        start == [periods |-> ToSet(base),
                  rowAt |-> [s \in {SlotOf(p) : p \in ToSet(teaching)} |-> teaching[FirstAt(s)]],
                  used |-> {}, cells |-> <<>>]
        ordered == SelectSeq(classes, inBase)
                    \o SelectSeq(classes, LAMBDA e : ~inBase(e))
    IN  FoldLeft(Place, start, ordered)
=============================================================================
