------------------------------ MODULE Timetable ------------------------------
(***************************************************************************)
(* The timetables of the sections of a school in one session               *)
(* (timetable.service.ts): the periods of each, the classes held in them,  *)
(* and the life of a grid from draft to published to archived.             *)
(*                                                                         *)
(* An administrator's request reads (`Ask...`) and then writes in one      *)
(* statement or transaction.  The conflict check reads inside that         *)
(* transaction and locks nothing, so at READ COMMITTED two of them may     *)
(* each miss what the other writes; the model lets a commit see all that   *)
(* was committed before it, which is the kindest schedule, and the         *)
(* properties speak of requests that do not overlap.                       *)
(***************************************************************************)
EXTENDS TimetableTime, TLC

CONSTANTS
    Admin, Section, Day,
    Qualified, Rooms,   \* by section: who may teach there, and the rooms a request may name
    Homes,              \* what the room of a section may be
    Free,               \* what a row is before it is created or after it is deleted
    NoRoom, Inherited,  \* a room left blank, and none at all: the section's own is meant
    Grids,              \* the grids an administrator may set up or replace one with
    SchoolDay,          \* dayStartMin and dayEndMin of the day
    PeriodIds, EntryIds,    \* bounds: rows that exist at once
    MaxRetimed          \* bound: periods that one batch changes

VARIABLES
    timetables,         \* by section: Free, or its status, working days and id
    periods,            \* TimetablePeriod, by id
    entries,            \* TimetableEntry, by id
    homeRoom,           \* Section.room
    call,               \* what each administrator has read and not yet written
    overlapped          \* history: two requests have been in flight at once

vars == <<timetables, periods, entries, homeRoom, call, overlapped>>

Status == {"DRAFT", "PUBLISHED", "ARCHIVED"}
Span == {r \in (SchoolDay.startMin..SchoolDay.endMin) \X (SchoolDay.startMin..SchoolDay.endMin) :
            r[1] < r[2]}
Kind == {"CLASS", "BREAK"}

PeriodsOf(ps, s) == {p \in PeriodIds : ps[p] # Free /\ ps[p].section = s}
EntriesOf(es, s) == {e \in EntryIds : es[e] # Free /\ es[e].section = s}
EntriesIn(es, p) == {e \in EntryIds : es[e] # Free /\ es[e].period = p}

TimetableRow == [status : Status, days : SUBSET Day, id : 0..1]
PeriodRow == [section : Section, index : Nat, startMin : Int, endMin : Int, kind : Kind]
EntryRow == [section : Section, day : Day, period : PeriodIds, startMin : Int, endMin : Int,
             teacher : UNION {Qualified[s] : s \in Section},
             room : {Inherited} \union UNION {Rooms[s] : s \in Section}]

\* A grid is numbered and its periods run forwards: what validatePeriodSet accepts and
\* what generatePeriodSlots produces, which may overlap when breaks do.
Slot == [index : Nat, startMin : Int, endMin : Int, kind : Kind]
ASSUME TimetableAssumption ==
    /\ IsFiniteSet(PeriodIds) /\ IsFiniteSet(EntryIds)
    /\ Free \notin TimetableRow \union PeriodRow \union EntryRow \union EntryIds
    /\ SchoolDay.startMin \in Int /\ SchoolDay.endMin \in Int /\ NoRoom # Inherited
    /\ \A grid \in Grids :
        /\ grid \in Seq(Slot)
        /\ \A i, j \in DOMAIN grid : grid[i].index = grid[j].index => i = j
        /\ \A i \in DOMAIN grid : grid[i].startMin < grid[i].endMin

TypeOK ==
    /\ timetables \in [Section -> {Free} \union TimetableRow]
    /\ periods \in [PeriodIds -> {Free} \union PeriodRow]
    /\ entries \in [EntryIds -> {Free} \union EntryRow]
    /\ homeRoom \in [Section -> Homes]
    /\ \A p \in PeriodIds : periods[p] # Free =>
        /\ timetables[periods[p].section] # Free
        /\ periods[p].startMin < periods[p].endMin
        /\ \A q \in PeriodsOf(periods, periods[p].section) \ {p} : periods[q].index # periods[p].index
    /\ \A e \in EntryIds : entries[e] # Free =>
        /\ periods[entries[e].period] # Free
        /\ periods[entries[e].period].section = entries[e].section
        /\ \A f \in EntryIds \ {e} : entries[f] # Free =>
            <<entries[e].day, entries[e].period>> # <<entries[f].day, entries[f].period>>

Idle == [op |-> "idle"]

Init ==
    /\ timetables = [s \in Section |-> Free]
    /\ periods = [p \in PeriodIds |-> Free]
    /\ entries = [e \in EntryIds |-> Free]
    /\ homeRoom \in [Section -> Homes]
    /\ call = [a \in Admin |-> Idle]
    /\ overlapped = FALSE

\* Whether another request is in flight is on record from then on.
Noted(a) == overlapped' = (overlapped \/ \E b \in Admin \ {a} : call[b] # Idle)
Ask(a, request) ==
    /\ call' = [call EXCEPT ![a] = request]
    /\ Noted(a)
    /\ UNCHANGED <<timetables, periods, entries, homeRoom>>

\* A request that ends; with what it wrote, or refused by the database.
Answer(a) == call' = [call EXCEPT ![a] = Idle] /\ UNCHANGED <<overlapped, homeRoom>>
Write(a, tts, ps, es) == Answer(a) /\ timetables' = tts /\ periods' = ps /\ entries' = es
Refused(a) == Write(a, timetables, periods, entries)

\* Ids are not handed out twice: an id a request in flight still holds is not free.
\* A write for which no row is left is refused; that is the bound on rows.
Held(ops) == {a \in Admin : call[a].op \in ops}
HeldPeriods == UNION {call[a].periods : a \in Held({"updatePeriod", "deletePeriod",
                    "createEntry", "updateEntry", "applyTemplate", "publishBatch"})}
HeldEntries == {call[a].entry : a \in Held({"updateEntry"})}
HeldTimetables(s) ==
    {call[a].id : a \in {b \in Held({"replacePeriods", "createPeriod", "createEntry",
        "applyTemplate", "publish", "publishBatch", "deleteTimetable"}) : call[b].section = s}}
FreshPeriods == {p \in PeriodIds \ HeldPeriods : periods[p] = Free}
FreshIn(es) == {e \in EntryIds \ HeldEntries : es[e] = Free}
FreshEntries == FreshIn(entries)

\* The timetable that was read is still there (the foreign keys, and `where: { id }`).
Stands(c) == timetables[c.section] # Free /\ timetables[c.section].id = c.id

\* Rows of a section's grid, without the entries of a period that goes (cascade).
WithoutPeriods(ps, gone) == [p \in PeriodIds |-> IF p \in gone THEN Free ELSE ps[p]]
WithoutEntries(es, gone) == [e \in EntryIds |-> IF e \in gone THEN Free ELSE es[e]]
Cascade(es, gone) ==
    WithoutEntries(es, {e \in EntryIds : es[e] # Free /\ es[e].period \in gone})

\* createMany: new rows under fresh ids.
Created(rows, fresh, table) ==
    LET at == CHOOSE f \in [DOMAIN rows -> fresh] : \A i, j \in DOMAIN rows : f[i] = f[j] => i = j
    IN  [id \in DOMAIN table |->
            IF \E i \in DOMAIN rows : at[i] = id
            THEN rows[CHOOSE i \in DOMAIN rows : at[i] = id] ELSE table[id]]

ValidSet(rows) == ValidPeriods(SetToSeq(rows), SchoolDay)
RowsOf(ps, ids) == {ps[p] : p \in ids}
-----------------------------------------------------------------------------
(***************************************************************************)
(* The conflict engine: findConflicts, by class, by teacher and by room.   *)
(***************************************************************************)
Meets(e, f) == e.day = f.day /\ Overlaps(e.startMin, e.endMin, f.startMin, f.endMin)

TeacherClash(es, e, others) ==
    \E f \in others : es[f].teacher = e.teacher /\ Meets(e, es[f])

\* A class that names no room is held in its section's.
RoomIn(home, room) == IF room = Inherited THEN home ELSE room
EffectiveRoom(e) == RoomIn(homeRoom[e.section], e.room)

\* Mutant of RoomClash: the other classes are looked at by the room they name.
RoomClashNamed(es, e, room, others) ==
    room # NoRoom /\ \E f \in others : es[f].room = room /\ Meets(e, es[f])

\* The room asked for was worked out by whoever asks, before the transaction.
RoomClash(es, e, room, others) ==
    room # NoRoom /\ \E f \in others : EffectiveRoom(es[f]) = room /\ Meets(e, es[f])

Conflict(es, e, room, self) ==
    LET others == {f \in EntryIds : es[f] # Free} \ {self}
    IN  \/ \E f \in others : es[f].section = e.section /\ Meets(e, es[f])
        \/ TeacherClash(es, e, others)
        \/ RoomClash(es, e, room, others)

\* computeValidation blocks nothing: each class is compared with any one that meets
\* it to judge the room, so a clash may hide behind another class.
Passes(s) ==
    /\ ValidSet(RowsOf(periods, PeriodsOf(periods, s)))
    /\ \A e \in EntriesOf(entries, s) :
        LET others == {f \in EntryIds : entries[f] # Free} \ {e}
            meeting == {f \in others : Meets(entries[e], entries[f])}
        IN  /\ ~TeacherClash(entries, entries[e], others)
            /\ meeting = {} \/ \E f \in meeting :
                    EffectiveRoom(entries[e]) = NoRoom
                        \/ EffectiveRoom(entries[f]) # EffectiveRoom(entries[e])

-----------------------------------------------------------------------------
(***************************************************************************)
(* Grids: setting one up, replacing, adding, changing and removing         *)
(* periods.                                                                *)
(***************************************************************************)
AskSetup(a) ==
    \E s \in Section, grid \in Grids, days \in (SUBSET Day) \ {{}} :
        /\ PeriodsOf(periods, s) = {}
        /\ Ask(a, [op |-> "setup", section |-> s, grid |-> grid, days |-> days])

NewPeriods(s, grid) ==
    [i \in DOMAIN grid |-> [section |-> s, index |-> grid[i].index,
        startMin |-> grid[i].startMin, endMin |-> grid[i].endMin, kind |-> grid[i].kind]]

\* A timetable that was deleted meanwhile is created anew, under an id no request holds.
Setup(a) ==
    LET s == call[a].section
        gone == PeriodsOf(periods, s)
        held == HeldTimetables(s)
        fresh == CHOOSE i \in 0..1 : i \notin held \/ held = 0..1
        bare == WithoutPeriods(periods, gone)
    IN  /\ call[a].op = "setup"
        /\ IF Cardinality(FreshPeriods) < Len(call[a].grid) THEN Refused(a) ELSE
           Write(a, [timetables EXCEPT ![s] =
                        IF @ # Free THEN [@ EXCEPT !.days = call[a].days]
                        ELSE [status |-> "DRAFT", days |-> call[a].days, id |-> fresh]],
                 Created(NewPeriods(s, call[a].grid), FreshPeriods, bare),
                 Cascade(entries, gone))

\* The draft a structural change is made to.
Draft(s) == timetables[s] # Free /\ timetables[s].status = "DRAFT"
Unarchived(s) == timetables[s] # Free /\ timetables[s].status # "ARCHIVED"

AskReplacePeriods(a) ==
    \E s \in Section, grid \in Grids :
        /\ Draft(s) /\ ValidPeriods(grid, SchoolDay)
        /\ Ask(a, [op |-> "replacePeriods", section |-> s, id |-> timetables[s].id, grid |-> grid])

ReplacePeriods(a) ==
    LET c == call[a]
        gone == PeriodsOf(periods, c.section)
    IN  /\ c.op = "replacePeriods"
        /\ IF ~Stands(c) \/ Cardinality(FreshPeriods) < Len(c.grid) THEN Refused(a)
           ELSE Write(a, timetables,
                      Created(NewPeriods(c.section, c.grid), FreshPeriods,
                              WithoutPeriods(periods, gone)),
                      Cascade(entries, gone))

AskCreatePeriod(a) ==
    \E s \in Section, r \in Span, kind \in Kind, index \in 1..2 :
        LET new == [section |-> s, index |-> index, startMin |-> r[1], endMin |-> r[2], kind |-> kind]
        IN  /\ Draft(s)
            /\ ValidSet(RowsOf(periods, PeriodsOf(periods, s)) \union {new})
            /\ \A p \in PeriodsOf(periods, s) : periods[p].index # index
            /\ Ask(a, [op |-> "createPeriod", section |-> s, id |-> timetables[s].id, new |-> new])

\* Only the index is unique in the database.
CreatePeriod(a) ==
    LET c == call[a]
    IN  /\ c.op = "createPeriod"
        /\ IF \/ ~Stands(c) \/ FreshPeriods = {}
              \/ \E p \in PeriodsOf(periods, c.section) : periods[p].index = c.new.index
           THEN Refused(a)
           ELSE Write(a, timetables, Created(<<c.new>>, FreshPeriods, periods), entries)

PeriodAs(row, r, kind) == [row EXCEPT !.startMin = r[1], !.endMin = r[2], !.kind = kind]

AskUpdatePeriod(a) ==
    \E p \in PeriodIds, r \in Span, kind \in Kind :
        /\ periods[p] # Free
        /\ LET s == periods[p].section
               new == PeriodAs(periods[p], r, kind)
           IN  /\ Unarchived(s)
               /\ ValidSet(RowsOf(periods, PeriodsOf(periods, s) \ {p}) \union {new})
               /\ kind # "CLASS" => EntriesIn(entries, p) = {}
               /\ Ask(a, [op |-> "updatePeriod", period |-> p, periods |-> {p}, new |-> new,
                          moves |-> SlotOf(new) # SlotOf(periods[p])])

\* The entries of the period at its new times, one after the other.
Retimed(es, p, new) ==
    [e \in EntryIds |-> IF e \in EntriesIn(es, p)
        THEN [es[e] EXCEPT !.startMin = new.startMin, !.endMin = new.endMin] ELSE es[e]]

\* Mutant of UpdatePeriod: the classes keep their times.
UpdatePeriodAlone(a) ==
    LET c == call[a]
    IN  /\ c.op = "updatePeriod"
        /\ Write(a, timetables, [periods EXCEPT ![c.period] = c.new], entries)

\* effectiveRoomOf, which takes a blank room for the section's.
HeldIn(e) == IF e.room = NoRoom THEN homeRoom[e.section] ELSE EffectiveRoom(e)

\* Its entries move when the times differ from those read; a conflict undoes it all.
UpdatePeriod(a) ==
    LET c == call[a]
        moved == IF c.moves THEN Retimed(entries, c.period, c.new) ELSE entries
    IN  /\ c.op = "updatePeriod"
        /\ IF \/ periods[c.period] = Free
              \/ c.moves /\ \E e \in EntriesIn(entries, c.period) :
                    Conflict(moved, moved[e], HeldIn(moved[e]), e)
           THEN Refused(a)
           ELSE Write(a, timetables, [periods EXCEPT ![c.period] = c.new], moved)

AskDeletePeriod(a) ==
    \E p \in PeriodIds, force \in BOOLEAN :
        /\ periods[p] # Free /\ Draft(periods[p].section)
        /\ EntriesIn(entries, p) # {} => force
        /\ Ask(a, [op |-> "deletePeriod", period |-> p, periods |-> {p}])

DeletePeriod(a) ==
    LET p == call[a].period
    IN  /\ call[a].op = "deletePeriod"
        /\ Write(a, timetables, WithoutPeriods(periods, {p}), Cascade(entries, {p}))

-----------------------------------------------------------------------------
(***************************************************************************)
(* Classes in the grid.                                                    *)
(***************************************************************************)
ClassPeriods(s) == {p \in PeriodsOf(periods, s) : periods[p].kind = "CLASS"}

Class(s, p, day, teacher, room) ==
    [section |-> s, day |-> day, period |-> p, startMin |-> periods[p].startMin,
     endMin |-> periods[p].endMin, teacher |-> teacher, room |-> room]

\* What is stored of a room that is trimmed: a blank one is none at all.
Trimmed(r) == IF r = NoRoom THEN Inherited ELSE r

\* The room is checked as it was sent, and stored as it is trimmed.
AskCreateEntry(a) ==
    \E s \in Section : Unarchived(s) /\
        \E p \in ClassPeriods(s), day \in timetables[s].days, t \in Qualified[s],
           r \in Rooms[s] \union {Inherited} :
            Ask(a, [op |-> "createEntry", section |-> s, id |-> timetables[s].id,
                    periods |-> {p}, new |-> Class(s, p, day, t, Trimmed(r)),
                    room |-> RoomIn(homeRoom[s], r)])

\* The period must still be there (foreign key) and the cell be free (unique).
Lands(es, e, self) ==
    /\ periods[e.period] # Free
    /\ \A f \in EntriesIn(es, e.period) \ {self} : es[f].day # e.day

CreateEntry(a) ==
    LET c == call[a]
    IN  /\ c.op = "createEntry"
        /\ IF /\ Stands(c) /\ FreshEntries # {}
              /\ ~Conflict(entries, c.new, c.room, Free) /\ Lands(entries, c.new, Free)
           THEN Write(a, timetables, periods, Created(<<c.new>>, FreshEntries, entries))
           ELSE Refused(a)

\* Without a new period the class keeps the times it was read with.  "" is stored as
\* none at all, blanks as they are.
Edited(e, p, day, t, r) ==
    IF p # entries[e].period THEN Class(entries[e].section, p, day, t, r)
    ELSE [entries[e] EXCEPT !.day = day, !.teacher = t, !.room = r]

AskUpdateEntry(a) ==
    \E e \in EntryIds : entries[e] # Free /\
        \E s \in {entries[e].section} :
        \E p \in ClassPeriods(s) \union {entries[e].period}, day \in timetables[s].days,
           t \in Qualified[s], r \in Rooms[s] \union {Inherited} :
            /\ Unarchived(s) /\ Edited(e, p, day, t, r) # entries[e]
            /\ Ask(a, [op |-> "updateEntry", entry |-> e, periods |-> {p},
                       new |-> Edited(e, p, day, t, r), room |-> RoomIn(homeRoom[s], r)])

UpdateEntry(a) ==
    LET c == call[a]
    IN  /\ c.op = "updateEntry"
        /\ IF entries[c.entry] # Free /\ ~Conflict(entries, c.new, c.room, c.entry)
              /\ Lands(entries, c.new, c.entry)
           THEN Write(a, timetables, periods, [entries EXCEPT ![c.entry] = c.new])
           ELSE Refused(a)

\* One statement, on a grid of any status.
DeleteEntry(a) ==
    \E e \in EntryIds :
        /\ entries[e] # Free
        /\ Write(a, timetables, periods, WithoutEntries(entries, {e}))

\* The classes of a payload: no more than the bound has rows for.
Payloads(classes) ==
    LET ids == 1..Cardinality(EntryIds)
    IN  {{f[i] : i \in ids} : f \in [ids -> classes]}

\* Every way to hold a class of the section in some of its periods.
ClassesIn(s, ps) ==
    {Class(s, p, day, t, r) : p \in ps, day \in timetables[s].days,
        t \in Qualified[s], r \in Rooms[s] \union {Inherited}}

\* The same classes on every working day, in place of all there is; the conflict
\* check runs before each is created and sees the ones created before.
AskApplyTemplate(a) ==
    \E s \in Section : Draft(s) /\
        \E classes \in Payloads(ClassesIn(s, ClassPeriods(s))) :
            /\ \A x \in classes : x.room # NoRoom
            /\ \A x \in classes, day \in timetables[s].days : [x EXCEPT !.day = day] \in classes
            /\ Ask(a, [op |-> "applyTemplate", section |-> s, id |-> timetables[s].id,
                       periods |-> {x.period : x \in classes}, classes |-> classes,
                       home |-> homeRoom[s]])

Bare(s) == WithoutEntries(entries, EntriesOf(entries, s))
Fits(s, classes) == Cardinality(FreshIn(Bare(s))) >= Cardinality(classes)
Replaced(s, classes) ==
    LET bare == Bare(s)
        fresh == FreshIn(bare)
    IN  Created(SetToSeq(classes), fresh, bare)

ApplyTemplate(a) ==
    LET c == call[a]
        clear == Bare(c.section)
        clash == \E x \in c.classes :
            Conflict(clear, x, RoomIn(c.home, x.room), Free)
                \/ \E y \in c.classes \ {x} : Meets(x, y)
    IN  /\ c.op = "applyTemplate"
        /\ IF \/ ~Stands(c) \/ clash \/ ~Fits(c.section, c.classes)
              \/ \E x \in c.classes : periods[x.period] = Free
           THEN Refused(a)
           ELSE Write(a, timetables, periods, Replaced(c.section, c.classes))

-----------------------------------------------------------------------------
(***************************************************************************)
(* Publication: of what is saved, or of the whole grid an editor sends.    *)
(***************************************************************************)
AskPublish(a) ==
    \E s \in Section :
        /\ timetables[s] # Free /\ EntriesOf(entries, s) # {} /\ Passes(s)
        /\ Ask(a, [op |-> "publish", section |-> s, id |-> timetables[s].id])

Published(s) == [timetables EXCEPT ![s].status = "PUBLISHED"]

Publish(a) ==
    LET c == call[a]
    IN  /\ c.op = "publish"
        /\ IF Stands(c) THEN Write(a, Published(c.section), periods, entries) ELSE Refused(a)

\* publishBatch looks at classes in one cell and at teachers, not at rooms.
BatchClear(s, classes) ==
    /\ \A x, y \in classes : x # y =>
        /\ <<x.day, x.period>> # <<y.day, y.period>>
        /\ ~(x.teacher = y.teacher /\ Meets(x, y))
    /\ \A x \in classes :
        ~TeacherClash(entries, x, {e \in EntryIds : entries[e] # Free /\ entries[e].section # s})

\* The stored periods with the ones of the payload in their place.
Reshaped(ps, retimes) == [p \in PeriodIds |-> IF p \in DOMAIN retimes THEN retimes[p] ELSE ps[p]]

\* The new times and kinds of some of a section's periods.
Retimes(s) ==
    UNION {[qs -> Span \X Kind] :
        qs \in {x \in SUBSET PeriodsOf(periods, s) : Cardinality(x) <= MaxRetimed}}

AskPublishBatch(a) ==
    \E s \in Section : Unarchived(s) /\ PeriodsOf(periods, s) # {} /\
        \E sent \in Retimes(s) :
            LET retimes == [p \in DOMAIN sent |-> PeriodAs(periods[p], sent[p][1], sent[p][2])]
                effective == Reshaped(periods, retimes)
                At(x) == [x EXCEPT !.startMin = effective[x.period].startMin,
                                   !.endMin = effective[x.period].endMin]
                teaching == {q \in PeriodsOf(periods, s) : effective[q].kind = "CLASS"}
            IN  /\ ValidSet(RowsOf(effective, PeriodsOf(periods, s)))
                /\ \E classes \in Payloads({At(x) : x \in ClassesIn(s, teaching)}) :
                    /\ BatchClear(s, classes)
                    /\ Ask(a, [op |-> "publishBatch", section |-> s, id |-> timetables[s].id,
                               periods |-> DOMAIN retimes \union {x.period : x \in classes},
                               retimes |-> retimes, classes |-> classes])

PublishBatch(a) ==
    LET c == call[a]
    IN  /\ c.op = "publishBatch"
        /\ IF Stands(c) /\ Fits(c.section, c.classes) /\ \A p \in c.periods : periods[p] # Free
           THEN Write(a, Published(c.section), Reshaped(periods, c.retimes),
                      Replaced(c.section, c.classes))
           ELSE Refused(a)

\* One statement, whatever the status.
Archive(a) ==
    \E s \in Section :
        /\ timetables[s] # Free
        /\ Write(a, [timetables EXCEPT ![s].status = "ARCHIVED"], periods, entries)

AskDeleteTimetable(a) ==
    \E s \in Section, force \in BOOLEAN :
        /\ timetables[s] # Free
        /\ timetables[s].status = "PUBLISHED" => force
        /\ Ask(a, [op |-> "deleteTimetable", section |-> s, id |-> timetables[s].id])

DeleteTimetable(a) ==
    LET c == call[a]
        gone == PeriodsOf(periods, c.section)
    IN  /\ c.op = "deleteTimetable"
        /\ IF Stands(c)
           THEN Write(a, [timetables EXCEPT ![c.section] = Free],
                      WithoutPeriods(periods, gone), Cascade(entries, gone))
           ELSE Refused(a)

\* SectionsService.update: the room of a section, on its own page and without a look
\* at the classes held there.
SetRoom(a) ==
    \E s \in Section, r \in Homes :
        /\ r # homeRoom[s]
        /\ homeRoom' = [homeRoom EXCEPT ![s] = r]
        /\ Noted(a) /\ UNCHANGED <<timetables, periods, entries, call>>

(***************************************************************************)
(* What is read off the grids: the editor of a section, and the timetables *)
(* a class and a teacher see.                                              *)
(***************************************************************************)
\* getTeacherOptions: the teachers free for a class, the one being edited aside.
TeacherOptions(s, p, day, self) ==
    LET others == {f \in EntryIds : entries[f] # Free} \ {self}
    IN  {t \in Qualified[s] : ~TeacherClash(entries, Class(s, p, day, t, NoRoom), others)}

\* getSectionTimetable, teacherBusy: where its teachers are booked in other sections.
\* The editor judges clashes by it without asking again.
TeacherBusy(s) ==
    {[teacher |-> entries[f].teacher, day |-> entries[f].day,
      startMin |-> entries[f].startMin, endMin |-> entries[f].endMin] :
        f \in {g \in EntryIds : /\ entries[g] # Free /\ entries[g].section # s
                                /\ entries[g].teacher \in Qualified[s]}}

Live(s) == timetables[s] # Free /\ timetables[s].status = "PUBLISHED"
ClassTimetable(s) == IF Live(s) THEN EntriesOf(entries, s) ELSE {}
TeacherTimetable(t) == {e \in EntryIds : /\ entries[e] # Free /\ entries[e].teacher = t
                                         /\ Live(entries[e].section)}
\* periodsFromEntries: the rows of a teacher's grid are the times of the periods.
RowOf(e) == SlotOf(periods[entries[e].period])

\* What comes in, and requests of a single statement.
Asked(a) ==
    /\ call[a] = Idle
    /\ \/ AskSetup(a) \/ AskReplacePeriods(a)
       \/ AskCreatePeriod(a) \/ AskUpdatePeriod(a) \/ AskDeletePeriod(a)
       \/ AskCreateEntry(a) \/ AskUpdateEntry(a) \/ DeleteEntry(a)
       \/ AskApplyTemplate(a) \/ AskPublish(a) \/ AskPublishBatch(a)
       \/ Archive(a) \/ AskDeleteTimetable(a) \/ SetRoom(a)

Committed(a) ==
    \/ Setup(a) \/ ReplacePeriods(a)
    \/ CreatePeriod(a) \/ UpdatePeriod(a) \/ DeletePeriod(a)
    \/ CreateEntry(a) \/ UpdateEntry(a)
    \/ ApplyTemplate(a) \/ Publish(a) \/ PublishBatch(a) \/ DeleteTimetable(a)

Next == \E a \in Admin : Asked(a) \/ Committed(a)

Spec == Init /\ [][Next]_vars

-----------------------------------------------------------------------------
\* A class carries the times of its period in columns of its own, and stands on a
\* working day in a period for classes, however the grid was edited in between
\* (updatePeriod's reconciliation, publishBatch, replacePeriods).
ClassesMatchGrid ==
    ~overlapped => \A e \in EntryIds : entries[e] # Free =>
        LET p == periods[entries[e].period]
        IN  /\ SlotOf(entries[e]) = SlotOf(p) /\ p.kind = "CLASS"
            /\ entries[e].day \in timetables[entries[e].section].days

\* A teacher gives one class at a time in the whole school, and a section attends
\* one, through creation, moving, retiming, templates and both publications.
OneClassAtATime ==
    ~overlapped => \A e, f \in EntryIds :
        e # f /\ entries[e] # Free /\ entries[f] # Free /\ Meets(entries[e], entries[f]) =>
            /\ entries[e].teacher # entries[f].teacher
            /\ entries[e].section # entries[f].section

\* The class a section sees is on its teacher's own timetable, where no class hides
\* behind another: the rows of several sections' periods are merged by their times
\* (getClassTimetable, getTeacherTimetable, periodsFromEntries).
ViewsAgree ==
    ~overlapped => \A s \in Section : \A e \in ClassTimetable(s) :
        LET own == TeacherTimetable(entries[e].teacher)
        IN  /\ e \in own
            /\ \A f \in own \ {e} : <<entries[e].day, RowOf(e)>> # <<entries[f].day, RowOf(f)>>

\* A teacher the server offers for a cell is one the editor shows as free there, and
\* a batch that moves a class to them is not refused for it (getTeacherOptions,
\* teacherBusy, publishBatch).
EditorAgrees ==
    \A s \in Section : timetables[s] # Free =>
        \A p \in ClassPeriods(s), day \in timetables[s].days, t \in Qualified[s] :
            LET x == Class(s, p, day, t, NoRoom)
                booked == \E b \in TeacherBusy(s) : b.teacher = t /\ Meets(x, b)
                here == \E f \in EntriesOf(entries, s) : entries[f].teacher = t /\ Meets(x, entries[f])
            IN  /\ t \in TeacherOptions(s, p, day, Free) <=> ~booked /\ ~here
                /\ BatchClear(s, {x}) <=> ~booked

\* Classes stand where the grid has room for them and teach nobody twice at once,
\* while no two requests overlap, and the timetables and the editors drawn from
\* them agree (timetable.service.ts).
ClassesStand == TypeOK /\ ClassesMatchGrid /\ OneClassAtATime /\ ViewsAgree /\ EditorAgrees

SharesRoom(e, f) ==
    /\ e # f /\ entries[e] # Free /\ entries[f] # Free /\ Meets(entries[e], entries[f])
    /\ EffectiveRoom(entries[e]) = EffectiveRoom(entries[f])
    /\ EffectiveRoom(entries[e]) # NoRoom

Done(a, op) == call[a] # Idle /\ call[a].op = op /\ call'[a] = Idle

\* Two classes come to be held in one room at one time by three doors only: the
\* publication of a whole grid, which does not look at rooms (publishBatch); another
\* room for a section, which moves every class that names none (SectionsService); and
\* a class created with a blank room, which is checked as one without a room and then
\* held in its section's (createEntry).  Creating with a room or none, editing,
\* retiming, templates and publishing what is saved keep rooms apart.
RoomsStep ==
    (\E e, f \in EntryIds : SharesRoom(e, f)' /\ ~SharesRoom(e, f)) /\ ~overlapped'
        => \/ homeRoom' # homeRoom
           \/ \E a \in Admin : Done(a, "publishBatch")
           \/ \E a \in Admin : Done(a, "createEntry") /\ call[a].room = NoRoom

\* A live grid is not reshaped under its viewers: while it is published its periods
\* stay the same rows (assertDraft), and it is not emptied by a template or a set-up.
ShapeStep ==
    ~overlapped' => \A s \in Section :
        timetables[s] # Free /\ timetables'[s] # Free /\ timetables[s].status = "PUBLISHED"
            => PeriodsOf(periods, s) = PeriodsOf(periods', s)

\* Every edit of a grid or a class keeps to both (timetable.service.ts).
EditsHoldBack == [][RoomsStep /\ ShapeStep]_vars

=============================================================================
