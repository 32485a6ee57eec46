-------------------------- MODULE MCTimetableTime --------------------------
(***************************************************************************)
(* The timetable arithmetic on small inputs: one step answers a question.  *)
(***************************************************************************)
EXTENDS TimetableTime, TLC

CONSTANTS
    DayEnd,         \* the school day is 1..DayEnd
    MaxClasses      \* classes merged onto one grid

VARIABLES question, answer

SchoolDay == [startMin |-> 1, endMin |-> DayEnd]
Breaks == UNION {[1..n -> [startMin : 0..DayEnd, minutes : 1..3]] : n \in 0..2}
WellFormed(breaks) ==
    /\ \A i \in DOMAIN breaks : /\ breaks[i].startMin >= 1
                                /\ breaks[i].startMin + breaks[i].minutes <= DayEnd
    /\ ~HasOverlap([i \in DOMAIN breaks |->
            [startMin |-> breaks[i].startMin,
             endMin |-> breaks[i].startMin + breaks[i].minutes]])

\* setupTimetable, by the number of periods asked for.
Setups == {q \in [of : {"setup"}, breaks : Breaks, count : 1..4] :
            PeriodMinutesForCount(SchoolDay, q.breaks, q.count) > 0}

\* Three sections of a class: the student's own (base) and two siblings whose
\* subjects they picked.  Each has one or two periods.
Times == {<<1, 2>>, <<2, 3>>}
PeriodAt(of, t) == [id |-> <<of, t>>, startMin |-> t[1], endMin |-> t[2], kind |-> "CLASS"]
Classes == [day : {"mon", "tue"}, period : {PeriodAt(of, t) : of \in {"a", "b", "c"}, t \in Times}]
\* A section holds one class in a cell.
Held == UNION {{f \in [1..n -> Classes] : \A i, j \in 1..n : f[i] = f[j] => i = j} : n \in 0..MaxClasses}
Merges == {[of |-> "merge", base |-> base, classes |-> classes] :
            base \in {<<>>, <<PeriodAt("a", <<1, 2>>), PeriodAt("a", <<2, 3>>)>>},
            classes \in Held}

Answer(q) ==
    CASE q.of = "setup" -> GeneratePeriodSlots(SchoolDay,
                                PeriodMinutesForCount(SchoolDay, q.breaks, q.count), q.breaks)
      [] q.of = "merge" -> MergeStudentRows(q.base, q.classes)

Init == question \in Setups \union Merges /\ answer = <<>>
Next == answer = <<>> /\ answer' = Answer(question) /\ UNCHANGED question
Spec == Init /\ [][Next]_<<question, answer>>

Answered(kind) == question.of = kind /\ answer # <<>>

\* A grid generated around breaks that lie in the day, apart from each other, passes
\* the check every later edit and the publication make, no class straddles a break,
\* and there are at least the periods that were asked for.
GridStands ==
    Answered("setup") /\ WellFormed(question.breaks) =>
        /\ ValidPeriods(answer, SchoolDay)
        /\ \A i \in DOMAIN answer, k \in DOMAIN question.breaks :
            answer[i].kind = "CLASS" =>
                ~Overlaps(answer[i].startMin, answer[i].endMin, question.breaks[k].startMin,
                          question.breaks[k].startMin + question.breaks[k].minutes)
        /\ Len(SelectSeq(answer, LAMBDA p : p.kind = "CLASS")) >= question.count

\* Two classes that clash are both seen: no cell holds more than one
\* (mergeStudentRows: "so a clash shows instead of one class hiding the other").
ClashShows ==
    Answered("merge") =>
        \A i, j \in DOMAIN answer.cells :
            i # j => <<answer.cells[i].day, answer.cells[i].row>>
                        # <<answer.cells[j].day, answer.cells[j].row>>

\* Every class of a student is shown, at its own times, on a row of the grid; and
\* where every section keeps the hours of the student's own, clashing classes are
\* both seen.
StudentGridComplete ==
    Answered("merge") =>
        /\ Len(answer.cells) = Len(question.classes)
        /\ \A i \in DOMAIN answer.cells :
            LET c == answer.cells[i]
            IN  SlotOf(c.row) = SlotOf(c.class.period) /\ c.row \in answer.periods
        /\ question.base # <<>> => ClashShows
=============================================================================
