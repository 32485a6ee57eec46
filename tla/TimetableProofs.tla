-------------------------- MODULE TimetableProofs --------------------------
(***************************************************************************)
(* The timetables for every number of sections, administrators, days,      *)
(* periods and classes, and for every length of the day.  The argument is  *)
(* TimetableInvariant: what a request that reads and then writes still     *)
(* knows of the grid when it writes.  A request never takes hold of a row  *)
(* of another section; while requests do not overlap it also finds the     *)
(* rows as it read them, but for the classes deleted and the grids         *)
(* archived in a single statement.                                         *)
(***************************************************************************)
EXTENDS Timetable, FiniteSetTheorems, FunctionTheorems, TLAPS

-----------------------------------------------------------------------------
(* The invariant *)

OnTimetable == {"replacePeriods", "createPeriod", "createEntry", "applyTemplate",
                "publish", "publishBatch", "deleteTimetable"}
OnClasses == {"applyTemplate", "publishBatch"}
OnClass == {"createEntry", "updateEntry"}

\* What a request brings, whatever is written meanwhile.
Brought(c) ==
    /\ c.op = "setup" => c.section \in Section /\ c.grid \in Grids /\ c.days \in SUBSET Day
    /\ c.op \in OnTimetable => c.section \in Section /\ c.id \in 0..1
    /\ c.op = "replacePeriods" => c.grid \in Grids
    /\ c.op = "createPeriod" =>
        c.new \in PeriodRow /\ c.new.section = c.section /\ c.new.startMin < c.new.endMin
    /\ c.op = "updatePeriod" =>
        /\ c.period \in PeriodIds /\ c.period \in c.periods
        /\ c.new \in PeriodRow /\ c.new.startMin < c.new.endMin
    /\ c.op = "publishBatch" =>
        /\ DOMAIN c.retimes \subseteq PeriodIds /\ DOMAIN c.retimes \subseteq c.periods
        /\ \A p \in DOMAIN c.retimes :
            c.retimes[p] \in PeriodRow /\ c.retimes[p].startMin < c.retimes[p].endMin
    /\ c.op = "deletePeriod" => c.period \in PeriodIds /\ c.period \in c.periods
    /\ c.op = "createEntry" => c.new.section = c.section
    /\ c.op = "updateEntry" => c.entry \in EntryIds
    /\ c.op \in OnClass => c.new \in EntryRow /\ c.new.period \in c.periods
    /\ c.op \in OnClasses =>
        /\ IsFiniteSet(c.classes)
        /\ \A x \in c.classes : /\ x \in EntryRow /\ x.section = c.section
                                /\ x.period \in c.periods /\ x.startMin < x.endMin
    /\ c.op = "applyTemplate" =>
        \A x, y \in c.classes : x.period = y.period => SlotOf(x) = SlotOf(y)
    /\ c.op = "publishBatch" =>
        \A x, y \in c.classes : x # y =>
            <<x.day, x.period>> # <<y.day, y.period>> /\ ~Meets(x, y)

\* The periods a request holds are rows of its own section while they are there.
Owns(c) ==
    /\ c.op = "updatePeriod" /\ periods[c.period] # Free =>
        /\ periods[c.period].section = c.new.section
        /\ periods[c.period].index = c.new.index
    /\ c.op = "publishBatch" => \A p \in DOMAIN c.retimes : periods[p] # Free =>
        /\ periods[p].section = c.retimes[p].section
        /\ periods[p].index = c.retimes[p].index
    /\ c.op \in OnClass /\ periods[c.new.period] # Free =>
        periods[c.new.period].section = c.new.section
    /\ c.op \in OnClasses => \A x \in c.classes :
        periods[x.period] # Free => periods[x.period].section = c.section

\* A class stands in a period for classes, at its times, on a working day.
Fitting(x) ==
    /\ periods[x.period] # Free
    /\ SlotOf(x) = SlotOf(periods[x.period]) /\ periods[x.period].kind = "CLASS"
    /\ x.day \in timetables[x.section].days

\* Where a class of a whole grid will stand once the periods are changed.
WillFit(c, x) ==
    /\ periods[x.period] # Free
    /\ x.day \in timetables[x.section].days
    /\ \E p \in {Reshaped(periods, c.retimes)[x.period]} :
        SlotOf(x) = SlotOf(p) /\ p.kind = "CLASS"

Elsewhere(s) == {e \in EntryIds : entries[e] # Free /\ entries[e].section # s}
Reshapeable(s) == timetables[s] # Free => timetables[s].status # "PUBLISHED"

\* What a request still knows of the grid, when no other has been in flight with it.
Knows(c) ==
    /\ c.op = "setup" => PeriodsOf(periods, c.section) = {}
    /\ c.op \in {"replacePeriods", "createPeriod"} => Reshapeable(c.section)
    /\ c.op = "deletePeriod" /\ periods[c.period] # Free =>
        Reshapeable(periods[c.period].section)
    /\ c.op = "updatePeriod" =>
        /\ periods[c.period] # Free
        /\ c.moves <=> SlotOf(c.new) # SlotOf(periods[c.period])
        /\ c.new.kind # "CLASS" => EntriesIn(entries, c.period) = {}
    /\ c.op \in OnClass => Fitting(c.new)
    /\ c.op = "createEntry" => c.room = NoRoom \/ c.room = EffectiveRoom(c.new)
    /\ c.op = "updateEntry" => c.room = EffectiveRoom(c.new)
    /\ c.op = "applyTemplate" =>
        c.home = homeRoom[c.section] /\ \A x \in c.classes : Fitting(x)
    /\ c.op = "publish" => PeriodsOf(periods, c.section) # {}
    /\ c.op = "publishBatch" =>
        /\ PeriodsOf(periods, c.section) # {}
        /\ \A p \in DOMAIN c.retimes : periods[p] # Free /\ c.retimes[p].section = c.section
        /\ \A x \in c.classes :
            WillFit(c, x) /\ ~TeacherClash(entries, x, Elsewhere(c.section))

Alone == \A a, b \in Admin : call[a] # Idle /\ call[b] # Idle => a = b
AllFitting == \A e \in EntryIds : entries[e] # Free => Fitting(entries[e])
NoneMeet ==
    \A e, f \in EntryIds :
        e # f /\ entries[e] # Free /\ entries[f] # Free /\ Meets(entries[e], entries[f]) =>
            entries[e].teacher # entries[f].teacher /\ entries[e].section # entries[f].section
LiveHavePeriods ==
    \A s \in Section : timetables[s] # Free /\ timetables[s].status = "PUBLISHED" =>
        PeriodsOf(periods, s) # {}

GridsKept == AllFitting /\ NoneMeet /\ LiveHavePeriods

RequestsTyped ==
    /\ DOMAIN call = Admin /\ overlapped \in BOOLEAN
    /\ \A a \in Admin : Brought(call[a]) /\ Owns(call[a])

TimetableInvariant ==
    /\ TypeOK /\ RequestsTyped
    /\ ~overlapped => Alone /\ GridsKept /\ \A a \in Admin : Knows(call[a])

-----------------------------------------------------------------------------
(* Rows *)

LEMMA RowsAreNotFree ==
    /\ \A r \in TimetableRow : r # Free
    /\ \A r \in PeriodRow : r # Free
    /\ \A r \in EntryRow : r # Free
BY TimetableAssumption

\* The rows of a set, one after the other.
LEMMA SeqOfSet ==
    ASSUME NEW S, IsFiniteSet(S)
    PROVE  /\ Cardinality(S) \in Nat
           /\ SetToSeq(S) \in [1..Cardinality(S) -> S]
           /\ \A i, j \in 1..Cardinality(S) : SetToSeq(S)[i] = SetToSeq(S)[j] => i = j
           /\ \A x \in S : \E i \in 1..Cardinality(S) : SetToSeq(S)[i] = x
<1> DEFINE n == Cardinality(S)
<1>1. n \in Nat /\ ExistsBijection(1..n, S)
    BY FS_CardinalityType
<1>2. PICK g \in [1..n -> S] : IsInjective(g)
    BY <1>1 DEF ExistsBijection, Bijection, Injection
<1>3. SetToSeq(S) \in [1..n -> S] /\ IsInjective(SetToSeq(S))
    BY <1>2 DEF SetToSeq
<1>4. SetToSeq(S) \in Injection(1..n, S)
    BY <1>3 DEF Injection
<1>5. Cardinality(1..n) = n
    BY <1>1, FS_Interval
<1>6. SetToSeq(S) \in Surjection(1..n, S)
    BY <1>4, <1>5, FS_Injection
<1>7. \A i, j \in 1..n : SetToSeq(S)[i] = SetToSeq(S)[j] => i = j
    BY <1>3 DEF IsInjective
<1>8. \A x \in S : \E i \in 1..n : SetToSeq(S)[i] = x
    BY <1>6 DEF Surjection
<1> QED BY <1>1, <1>3, <1>7, <1>8

\* Some rows have been put under ids that were free, each at most once.
Placed(table, result, rows, fresh) ==
    \E N \in SUBSET fresh : \E g \in [N -> DOMAIN rows] :
        /\ \A x, y \in N : g[x] = g[y] => x = y
        /\ result = [id \in DOMAIN table |-> IF id \in N THEN rows[g[id]] ELSE table[id]]

\* createMany puts each row under an id that was free, and leaves the others.
LEMMA CreatedRows ==
    ASSUME NEW n \in Nat, NEW rows, DOMAIN rows = 1..n,
           NEW fresh, IsFiniteSet(fresh), n <= Cardinality(fresh), NEW table
    PROVE  Placed(table, Created(rows, fresh, table), rows, fresh)
<1> DEFINE Apart(f) == \A i, j \in DOMAIN rows : f[i] = f[j] => i = j
           at == CHOOSE f \in [DOMAIN rows -> fresh] : Apart(f)
           m == Cardinality(fresh)
<1>1. m \in Nat /\ ExistsBijection(1..m, fresh)
    BY FS_CardinalityType
<1>2. PICK h \in [1..m -> fresh] : IsInjective(h)
    BY <1>1 DEF ExistsBijection, Bijection, Injection
<1>3. \E f \in [DOMAIN rows -> fresh] : Apart(f)
    <2> DEFINE f == [i \in 1..n |-> h[i]]
    <2>1. \A i \in 1..n : i \in 1..m
        BY <1>1
    <2>2. f \in [DOMAIN rows -> fresh]
        BY <1>2, <2>1
    <2>3. Apart(f)
        BY <1>2, <2>1 DEF IsInjective
    <2> QED BY <2>2, <2>3
<1>4. at \in [1..n -> fresh] /\ \A i, j \in 1..n : at[i] = at[j] => i = j
    BY <1>3
<1> HIDE DEF at
<1> DEFINE N == {at[i] : i \in 1..n}
           g == [id \in N |-> CHOOSE i \in 1..n : at[i] = id]
<1>5. N \in SUBSET fresh
    BY <1>4
<1>6. \A id \in N : g[id] \in 1..n /\ at[g[id]] = id
    OBVIOUS
<1>7. g \in [N -> 1..n] /\ \A x, y \in N : g[x] = g[y] => x = y
    BY <1>6
<1>8. Created(rows, fresh, table) =
        [id \in DOMAIN table |->
            IF \E i \in 1..n : at[i] = id
            THEN rows[CHOOSE i \in 1..n : at[i] = id] ELSE table[id]]
    BY DEF Created, at
<1>9. \A id : (\E i \in 1..n : at[i] = id) <=> id \in N
    OBVIOUS
<1>10. Created(rows, fresh, table) =
        [id \in DOMAIN table |-> IF id \in N THEN rows[g[id]] ELSE table[id]]
    BY <1>8, <1>9
<1> HIDE DEF g, N
<1> QED BY <1>5, <1>7, <1>10 DEF Placed

\* A single row has been put under an id that was free.
PlacedOne(table, result, new, fresh) ==
    \E N \in SUBSET fresh :
        /\ \A x, y \in N : x = y
        /\ result = [id \in DOMAIN table |-> IF id \in N THEN new ELSE table[id]]

LEMMA CreatedOne ==
    ASSUME NEW new, NEW fresh, IsFiniteSet(fresh), fresh # {}, NEW table
    PROVE  PlacedOne(table, Created(<<new>>, fresh, table), new, fresh)
<1> DEFINE rows == <<new>>
<1>1. Cardinality(fresh) \in Nat /\ Cardinality(fresh) # 0
    BY FS_CardinalityType, FS_EmptySet
<1>2. DOMAIN rows = 1..1 /\ rows[1] = new
    OBVIOUS
<1> HIDE DEF rows
<1>3. Placed(table, Created(rows, fresh, table), rows, fresh)
    <2> DEFINE n == 1
    <2>1. n \in Nat /\ n <= Cardinality(fresh) /\ DOMAIN rows = 1..n
        BY <1>1, <1>2
    <2> HIDE DEF n
    <2> QED BY <2>1, CreatedRows
<1>4. PICK N \in SUBSET fresh : \E g \in [N -> DOMAIN rows] :
        /\ \A x, y \in N : g[x] = g[y] => x = y
        /\ Created(rows, fresh, table) =
            [id \in DOMAIN table |-> IF id \in N THEN rows[g[id]] ELSE table[id]]
    BY <1>3 DEF Placed
<1>5. PICK g \in [N -> DOMAIN rows] :
        /\ \A x, y \in N : g[x] = g[y] => x = y
        /\ Created(rows, fresh, table) =
            [id \in DOMAIN table |-> IF id \in N THEN rows[g[id]] ELSE table[id]]
    BY <1>4
<1>6. \A x \in N : g[x] = 1
    BY <1>2
<1>7. Created(rows, fresh, table) = [id \in DOMAIN table |-> IF id \in N THEN new ELSE table[id]]
    BY <1>2, <1>5, <1>6
<1> QED BY <1>5, <1>6, <1>7 DEF rows, PlacedOne

-----------------------------------------------------------------------------
(* The clock: ranges sorted by their start, each compared with its neighbour *)

\* A non-empty set of natural numbers has a least one.
LEMMA LeastNat ==
    ASSUME NEW T \in SUBSET Nat, T # {} PROVE \E x \in T : \A y \in T : x <= y
<1> DEFINE R == OpToRel(<, Nat)
<1>1. IsWellFoundedOn(R, Nat)
    BY NatLessThanWellFounded
<1>2. \A y, x \in Nat : y < x => <<y, x>> \in R
    BY DEF OpToRel
<1> HIDE DEF R
<1>3. PICK x \in T : \A y \in T : ~(<<y, x>> \in R)
    BY <1>1, WFMin
<1>4. x \in Nat /\ \A y \in T : y \in Nat
    OBVIOUS
<1>5. \A y \in T : ~(y < x)
    BY <1>2, <1>3, <1>4
<1> QED BY <1>4, <1>5

\* Where each range keeps clear of the next in the order of their starts, any two
\* keep clear of each other: comparing neighbours is enough.
LEMMA NeighboursSuffice ==
    ASSUME NEW n \in Nat, NEW ranges, DOMAIN ranges = 1..n,
           \A i \in 1..n : ranges[i].startMin \in Int /\ ranges[i].endMin \in Int,
           ~HasOverlap(ranges), NEW i \in 1..n, NEW j \in 1..n,
           i # j, ranges[i].startMin <= ranges[j].startMin,
           ranges[i].startMin = ranges[j].startMin => i < j
    PROVE  ranges[i].endMin <= ranges[j].startMin
<1> DEFINE at(k) == ranges[k].startMin
           Before(k, l) == at(k) < at(l) \/ (at(k) = at(l) /\ k < l)
           Later == {k \in 1..n : Before(i, k)}
           Gaps == {at(k) - at(i) : k \in Later}
<1>1. \A k \in 1..n : at(k) \in Int
    OBVIOUS
<1>2. j \in Later
    BY <1>1
<1>3. Gaps \in SUBSET Nat /\ Gaps # {}
    BY <1>1, <1>2
<1>4. PICK v \in Gaps : \A w \in Gaps : v <= w
    <2> HIDE DEF Gaps
    <2> QED BY <1>3, LeastNat
<1> DEFINE First == {k \in Later : at(k) - at(i) = v}
<1>5. First \in SUBSET Nat /\ First # {}
    <2>1. PICK k \in Later : v = at(k) - at(i)
        OBVIOUS
    <2>2. k \in First
        BY <2>1
    <2>3. Later \subseteq Nat
        OBVIOUS
    <2>4. First \subseteq Later
        OBVIOUS
    <2> HIDE DEF First, Later
    <2> QED BY <2>2, <2>3, <2>4
<1>6. PICK k \in First : \A l \in First : k <= l
    <2> HIDE DEF First
    <2> QED BY <1>5, LeastNat
<1>7. k \in 1..n /\ Before(i, k) /\ v = at(k) - at(i)
    BY <1>6
<1>8. \A l \in Later : at(k) <= at(l) /\ (at(k) = at(l) => k <= l)
    <2> SUFFICES ASSUME NEW l \in Later PROVE at(k) <= at(l) /\ (at(k) = at(l) => k <= l)
        OBVIOUS
    <2>1. at(l) - at(i) \in Gaps
        OBVIOUS
    <2>2. v <= at(l) - at(i)
        BY <1>4, <2>1
    <2>3. at(k) = at(l) => l \in First
        BY <1>7
    <2> HIDE DEF First, Gaps
    <2>4. at(k) \in Int /\ at(l) \in Int /\ at(i) \in Int
        BY <1>1, <1>7
    <2> QED BY <1>6, <1>7, <2>2, <2>3, <2>4
<1>9. ~\E l \in 1..n : Before(i, l) /\ Before(l, k)
    <2> SUFFICES ASSUME NEW l \in 1..n, Before(i, l), Before(l, k) PROVE FALSE
        OBVIOUS
    <2>1. l \in Later
        OBVIOUS
    <2>2. at(k) <= at(l) /\ (at(k) = at(l) => k <= l)
        BY <1>8, <2>1
    <2>3. at(l) \in Int /\ at(k) \in Int /\ k \in Int /\ l \in Int
        BY <1>1, <1>7
    <2>4. at(l) < at(k) \/ (at(l) = at(k) /\ l < k)
        OBVIOUS
    <2> QED BY <2>2, <2>3, <2>4
<1>10. ~(ranges[k].startMin < ranges[i].endMin)
    BY <1>7, <1>9 DEF HasOverlap
<1>11. at(k) <= at(j)
    BY <1>2, <1>8
<1>12. at(k) \in Int /\ at(j) \in Int /\ ranges[i].endMin \in Int
    BY <1>1, <1>7
<1> QED BY <1>10, <1>11, <1>12

\* Two periods of a set that validatePeriodSet accepts do not overlap.
LEMMA ValidApart ==
    ASSUME NEW rows \in SUBSET PeriodRow, IsFiniteSet(rows), ValidSet(rows),
           NEW x \in rows, NEW y \in rows, x # y
    PROVE  ~Overlaps(x.startMin, x.endMin, y.startMin, y.endMin)
<1> DEFINE n == Cardinality(rows)
           s == SetToSeq(rows)
<1>1. /\ n \in Nat /\ s \in [1..n -> rows]
      /\ \A i, j \in 1..n : s[i] = s[j] => i = j
      /\ \A z \in rows : \E i \in 1..n : s[i] = z
    BY SeqOfSet
<1>2. ValidPeriods(s, SchoolDay)
    BY DEF ValidSet
<1> HIDE DEF s, n
<1>3. PICK i \in 1..n, j \in 1..n : s[i] = x /\ s[j] = y
    BY <1>1
<1>4. i # j
    BY <1>3
<1>5. DOMAIN s = 1..n /\ \A k \in 1..n : s[k].startMin \in Int /\ s[k].endMin \in Int
    BY <1>1 DEF PeriodRow
<1>6. ~HasOverlap(s)
    BY <1>2 DEF ValidPeriods
<1>7. CASE s[i].startMin < s[j].startMin \/ (s[i].startMin = s[j].startMin /\ i < j)
    <2>1. s[i].startMin <= s[j].startMin /\ (s[i].startMin = s[j].startMin => i < j)
        BY <1>1, <1>5, <1>7
    <2>2. s[i].endMin <= s[j].startMin
        BY <1>1, <1>4, <1>5, <1>6, <2>1, NeighboursSuffice
    <2> QED BY <1>3, <1>5, <2>2 DEF Overlaps
<1>8. CASE s[j].startMin < s[i].startMin \/ (s[j].startMin = s[i].startMin /\ j < i)
    <2>1. s[j].startMin <= s[i].startMin /\ (s[j].startMin = s[i].startMin => j < i)
        BY <1>1, <1>5, <1>8
    <2>2. s[j].endMin <= s[i].startMin
        BY <1>1, <1>4, <1>5, <1>6, <2>1, NeighboursSuffice
    <2> QED BY <1>3, <1>5, <2>2 DEF Overlaps
<1>9. \/ s[i].startMin < s[j].startMin \/ (s[i].startMin = s[j].startMin /\ i < j)
      \/ s[j].startMin < s[i].startMin \/ (s[j].startMin = s[i].startMin /\ j < i)
    BY <1>1, <1>4, <1>5
<1> QED BY <1>7, <1>8, <1>9

-----------------------------------------------------------------------------
(* How a step keeps the invariant, whatever it writes *)

\* The periods that requests hold are not given to another section or number.
HeldStay ==
    \A p \in HeldPeriods \intersect PeriodIds : periods'[p] # Free =>
        /\ periods[p] # Free
        /\ periods'[p].section = periods[p].section /\ periods'[p].index = periods[p].index

LEMMA HeldAre ==
    ASSUME NEW b \in Admin, NEW p \in call[b].periods,
           call[b].op \in {"updatePeriod", "deletePeriod"} \union OnClass \union OnClasses
    PROVE  p \in HeldPeriods
BY DEF HeldPeriods, Held, OnClass, OnClasses

LEMMA OwnsKept ==
    ASSUME HeldStay, NEW b \in Admin, Brought(call[b]), Owns(call[b]), call'[b] = call[b]
    PROVE  Owns(call[b])'
<1> DEFINE c == call[b]
<1>1. \A p \in c.periods \intersect PeriodIds :
        c.op \in {"updatePeriod", "deletePeriod"} \union OnClass \union OnClasses
        /\ periods'[p] # Free =>
            /\ periods[p] # Free
            /\ periods'[p].section = periods[p].section /\ periods'[p].index = periods[p].index
    BY HeldAre DEF HeldStay
<1>2. c.op = "updatePeriod" /\ periods'[c.period] # Free =>
        periods'[c.period].section = c.new.section /\ periods'[c.period].index = c.new.index
    BY <1>1 DEF Brought, Owns
<1>5. c.op = "publishBatch" => \A p \in DOMAIN c.retimes : periods'[p] # Free =>
        periods'[p].section = c.retimes[p].section /\ periods'[p].index = c.retimes[p].index
    BY <1>1 DEF Brought, Owns, OnClasses
<1>3. c.op \in OnClass /\ periods'[c.new.period] # Free =>
        periods'[c.new.period].section = c.new.section
    BY <1>1 DEF Brought, Owns, EntryRow
<1>4. c.op \in OnClasses => \A x \in c.classes :
        periods'[x.period] # Free => periods'[x.period].section = c.section
    BY <1>1 DEF Brought, Owns, EntryRow
<1> QED BY <1>2, <1>3, <1>4, <1>5 DEF Owns

LEMMA IdleIsFree == Brought(Idle) /\ Owns(Idle) /\ Knows(Idle)
BY DEF Idle, Brought, Owns, Knows, OnTimetable, OnClass, OnClasses

\* A commit answers its request; alone, it leaves none behind.
LEMMA CommitStep ==
    ASSUME TimetableInvariant, NEW a \in Admin, call[a].op # "idle", Answer(a),
           TypeOK', HeldStay, ~overlapped => GridsKept'
    PROVE  TimetableInvariant'
<1>1. /\ DOMAIN call = Admin /\ overlapped \in BOOLEAN
      /\ \A b \in Admin : Brought(call[b]) /\ Owns(call[b])
    BY DEF TimetableInvariant, RequestsTyped
<1>2. call' = [call EXCEPT ![a] = Idle] /\ overlapped' = overlapped
    BY DEF Answer
<1>3. call'[a] = Idle /\ \A b \in Admin \ {a} : call'[b] = call[b]
    BY <1>1, <1>2
<1>4. RequestsTyped'
    <2>1. ASSUME NEW b \in Admin PROVE (Brought(call[b]) /\ Owns(call[b]))'
        <3>1. CASE b = a
            BY <1>3, <3>1, IdleIsFree DEF Idle, Brought, Owns, OnTimetable, OnClass, OnClasses
        <3>2. CASE b # a
            <4>1. call'[b] = call[b]
                BY <1>3, <3>2
            <4>2. Owns(call[b])'
                BY <1>1, <4>1, OwnsKept
            <4> QED BY <1>1, <4>1, <4>2
        <3> QED BY <3>1, <3>2
    <2>2. DOMAIN call' = Admin
        BY <1>1, <1>2
    <2> QED BY <1>1, <1>2, <2>1, <2>2 DEF RequestsTyped
<1>5. ASSUME ~overlapped' PROVE Alone' /\ GridsKept' /\ \A b \in Admin : Knows(call[b])'
    <2>1. Alone
        BY <1>2, <1>5 DEF TimetableInvariant
    <2>2. call[a] # Idle
        BY DEF Idle
    <2>3. \A b \in Admin : call'[b] = Idle
        BY <1>3, <2>1, <2>2 DEF Alone
    <2>4. \A b \in Admin : Knows(call[b])'
        BY <2>3 DEF Idle, Knows, OnClass
    <2>5. Alone'
        BY <2>3 DEF Alone
    <2> QED BY <1>2, <1>5, <2>4, <2>5
<1> QED BY <1>4, <1>5 DEF TimetableInvariant

\* A request that reads finds the grids as they are; another in flight is noticed.
Reads(a) ==
    /\ call' = [call EXCEPT ![a] = call'[a]]
    /\ overlapped' = (overlapped \/ \E b \in Admin \ {a} : call[b] # Idle)
    /\ timetables' = timetables /\ periods' = periods /\ entries' = entries
    /\ homeRoom' = homeRoom

LEMMA AskReads ==
    ASSUME NEW a \in Admin, DOMAIN call = Admin, NEW STATE r, Ask(a, r)
    PROVE  Reads(a) /\ call'[a] = r
BY DEF Ask, Noted, Reads

StepHolds == TimetableInvariant' /\ RoomsStep /\ ShapeStep

LEMMA AskStep ==
    ASSUME TimetableInvariant, NEW a \in Admin, call[a] = Idle, Reads(a),
           Brought(call'[a]), Owns(call'[a]), ~overlapped => Knows(call'[a])
    PROVE  StepHolds
<1>1. /\ DOMAIN call = Admin /\ overlapped \in BOOLEAN
      /\ \A b \in Admin : Brought(call[b]) /\ Owns(call[b])
    BY DEF TimetableInvariant, RequestsTyped
<1>2. \A b \in Admin \ {a} : call'[b] = call[b]
    BY <1>1 DEF Reads
<1>3. /\ timetables' = timetables /\ periods' = periods /\ entries' = entries
      /\ homeRoom' = homeRoom
    BY DEF Reads
<1>4. TypeOK'
    BY <1>3 DEF TimetableInvariant, TypeOK, PeriodsOf
<1>5. RequestsTyped'
    <2>1. ASSUME NEW b \in Admin PROVE (Brought(call[b]) /\ Owns(call[b]))'
        <3>1. Brought(call'[b]) /\ Owns(call'[b])
            BY <1>1, <1>2
        <3> QED BY <1>3, <3>1 DEF Owns
    <2>2. DOMAIN call' = Admin /\ overlapped' \in BOOLEAN
        BY <1>1 DEF Reads
    <2> QED BY <2>1, <2>2 DEF RequestsTyped
<1>6. ASSUME ~overlapped' PROVE Alone' /\ GridsKept' /\ \A b \in Admin : Knows(call[b])'
    <2>1. ~overlapped /\ \A b \in Admin \ {a} : call[b] = Idle
        BY <1>1, <1>6 DEF Reads
    <2>2. \A b \in Admin \ {a} : call'[b] = Idle
        BY <1>2, <2>1
    <2>3. Alone'
        BY <2>2 DEF Alone
    <2>4. GridsKept'
        BY <1>3, <2>1 DEF TimetableInvariant, GridsKept, AllFitting, Fitting, NoneMeet,
            LiveHavePeriods, PeriodsOf
    <2>5. ASSUME NEW b \in Admin PROVE Knows(call[b])'
        <3>1. Knows(call'[b])
            BY <2>1, <2>2, IdleIsFree
        <3> QED BY <1>3, <3>1 DEF Knows, PeriodsOf, Reshapeable, EntriesIn, Fitting, WillFit,
                TeacherClash, Elsewhere, EffectiveRoom
    <2> QED BY <2>3, <2>4, <2>5
<1>7. RoomsStep /\ ShapeStep
    BY <1>3 DEF RoomsStep, ShapeStep, SharesRoom, EffectiveRoom
<1> QED BY <1>4, <1>5, <1>6, <1>7 DEF TimetableInvariant, StepHolds

-----------------------------------------------------------------------------
(* The requests, as they read *)

LEMMA RowsRead ==
    ASSUME TypeOK
    PROVE  /\ \A s \in Section : timetables[s] # Free =>
                /\ timetables[s] \in TimetableRow /\ timetables[s].status \in Status
                /\ timetables[s].days \in SUBSET Day /\ timetables[s].id \in 0..1
           /\ \A p \in PeriodIds : periods[p] # Free =>
                /\ periods[p] \in PeriodRow /\ periods[p].section \in Section
                /\ periods[p].index \in Nat /\ periods[p].kind \in Kind
                /\ periods[p].startMin \in Int /\ periods[p].endMin \in Int
                /\ periods[p].startMin < periods[p].endMin
                /\ timetables[periods[p].section] # Free
           /\ \A e \in EntryIds : entries[e] # Free =>
                /\ entries[e] \in EntryRow /\ entries[e].section \in Section
                /\ entries[e].period \in PeriodIds /\ entries[e].day \in Day
                /\ entries[e].startMin \in Int /\ entries[e].endMin \in Int
                /\ periods[entries[e].period] # Free
                /\ periods[entries[e].period].section = entries[e].section
<1>1. /\ timetables \in [Section -> {Free} \union TimetableRow]
      /\ periods \in [PeriodIds -> {Free} \union PeriodRow]
      /\ entries \in [EntryIds -> {Free} \union EntryRow]
    BY DEF TypeOK
<1>2. \A s \in Section : timetables[s] # Free => timetables[s] \in TimetableRow
    BY <1>1
<1>3. \A p \in PeriodIds : periods[p] # Free => periods[p] \in PeriodRow
    BY <1>1
<1>4. \A e \in EntryIds : entries[e] # Free => entries[e] \in EntryRow
    BY <1>1
<1>5. \A r \in TimetableRow : r.status \in Status /\ r.days \in SUBSET Day /\ r.id \in 0..1
    BY DEF TimetableRow
<1>6. \A r \in PeriodRow : /\ r.section \in Section /\ r.index \in Nat /\ r.kind \in Kind
                           /\ r.startMin \in Int /\ r.endMin \in Int
    BY DEF PeriodRow
<1>7. \A r \in EntryRow : /\ r.section \in Section /\ r.period \in PeriodIds /\ r.day \in Day
                          /\ r.startMin \in Int /\ r.endMin \in Int
    BY DEF EntryRow
<1>8. \A p \in PeriodIds : periods[p] # Free =>
        timetables[periods[p].section] # Free /\ periods[p].startMin < periods[p].endMin
    BY DEF TypeOK
<1>9. \A e \in EntryIds : entries[e] # Free =>
        periods[entries[e].period] # Free /\ periods[entries[e].period].section = entries[e].section
    BY DEF TypeOK
<1> QED BY <1>2, <1>3, <1>4, <1>5, <1>6, <1>7, <1>8, <1>9

LEMMA Begun ==
    ASSUME TimetableInvariant, NEW a \in Admin, NEW STATE r, Ask(a, r)
    PROVE  Reads(a) /\ call'[a] = r
BY AskReads DEF TimetableInvariant, RequestsTyped

LEMMA AskSetupStep ==
    ASSUME TimetableInvariant, NEW a \in Admin, call[a] = Idle, AskSetup(a)
    PROVE  StepHolds
<1>1. PICK s \in Section, grid \in Grids, days \in (SUBSET Day) \ {{}} :
        /\ PeriodsOf(periods, s) = {}
        /\ Ask(a, [op |-> "setup", section |-> s, grid |-> grid, days |-> days])
    BY DEF AskSetup
<1>2. Reads(a) /\ call'[a] = [op |-> "setup", section |-> s, grid |-> grid, days |-> days]
    BY <1>1, Begun
<1>3. Brought(call'[a]) /\ Owns(call'[a])
    BY <1>2 DEF Brought, Owns, OnTimetable, OnClass, OnClasses
<1>4. Knows(call'[a])
    BY <1>1, <1>2 DEF Knows, OnClass
<1> QED BY <1>2, <1>3, <1>4, AskStep

LEMMA AskReplacePeriodsStep ==
    ASSUME TimetableInvariant, NEW a \in Admin, call[a] = Idle, AskReplacePeriods(a)
    PROVE  StepHolds
<1>1. PICK s \in Section, grid \in Grids :
        /\ Draft(s)
        /\ Ask(a, [op |-> "replacePeriods", section |-> s, id |-> timetables[s].id, grid |-> grid])
    BY DEF AskReplacePeriods
<1>2. /\ Reads(a)
      /\ call'[a] = [op |-> "replacePeriods", section |-> s, id |-> timetables[s].id, grid |-> grid]
    BY <1>1, Begun
<1>3. timetables[s].id \in 0..1
    BY <1>1, RowsRead DEF Draft, TimetableInvariant
<1>4. Brought(call'[a]) /\ Owns(call'[a])
    BY <1>2, <1>3 DEF Brought, Owns, OnTimetable, OnClass, OnClasses
<1>5. Knows(call'[a])
    BY <1>1, <1>2 DEF Knows, OnClass, Draft, Reshapeable
<1> QED BY <1>2, <1>4, <1>5, AskStep

LEMMA AskCreatePeriodStep ==
    ASSUME TimetableInvariant, NEW a \in Admin, call[a] = Idle, AskCreatePeriod(a)
    PROVE  StepHolds
<1>1. PICK s \in Section, r \in Span, kind \in Kind, index \in 1..2 :
        LET new == [section |-> s, index |-> index, startMin |-> r[1], endMin |-> r[2], kind |-> kind]
        IN  /\ Draft(s)
            /\ Ask(a, [op |-> "createPeriod", section |-> s, id |-> timetables[s].id, new |-> new])
    BY DEF AskCreatePeriod
<1> DEFINE new == [section |-> s, index |-> index, startMin |-> r[1], endMin |-> r[2], kind |-> kind]
<1>2. /\ Reads(a)
      /\ call'[a] = [op |-> "createPeriod", section |-> s, id |-> timetables[s].id, new |-> new]
    BY <1>1, Begun
<1>3. timetables[s].id \in 0..1
    BY <1>1, RowsRead DEF Draft, TimetableInvariant
<1>4. new \in PeriodRow /\ new.section = s /\ new.startMin < new.endMin
    BY TimetableAssumption DEF Span, PeriodRow
<1> HIDE DEF new
<1>5. Brought(call'[a]) /\ Owns(call'[a])
    BY <1>2, <1>3, <1>4 DEF Brought, Owns, OnTimetable, OnClass, OnClasses
<1>6. Knows(call'[a])
    BY <1>1, <1>2 DEF Knows, OnClass, Draft, Reshapeable
<1> QED BY <1>2, <1>5, <1>6, AskStep

\* A period at other times, or of another kind, is the same row.
LEMMA RetimedPeriod ==
    ASSUME NEW row \in PeriodRow, NEW r \in Span, NEW kind \in Kind
    PROVE  LET new == PeriodAs(row, r, kind)
           IN  /\ new \in PeriodRow /\ new.startMin < new.endMin /\ new.kind = kind
               /\ new.section = row.section /\ new.index = row.index
               /\ new.startMin = r[1] /\ new.endMin = r[2]
<1>1. r[1] \in Int /\ r[2] \in Int /\ r[1] < r[2]
    BY TimetableAssumption DEF Span
<1> DEFINE x == r[1]
           y == r[2]
           new == [row EXCEPT !.startMin = x, !.endMin = y, !.kind = kind]
<1>2. PeriodAs(row, r, kind) = new
    BY DEF PeriodAs
<1>3. x \in Int /\ y \in Int /\ x < y
    BY <1>1
<1> HIDE DEF x, y
<1>4. /\ new \in PeriodRow /\ new.kind = kind
      /\ new.section = row.section /\ new.index = row.index
      /\ new.startMin = x /\ new.endMin = y
    BY <1>3 DEF PeriodRow
<1> HIDE DEF new
<1> QED BY <1>2, <1>3, <1>4 DEF x, y

LEMMA AskUpdatePeriodStep ==
    ASSUME TimetableInvariant, NEW a \in Admin, call[a] = Idle, AskUpdatePeriod(a)
    PROVE  StepHolds
<1>1. PICK p \in PeriodIds, r \in Span, kind \in Kind :
        /\ periods[p] # Free
        /\ LET new == PeriodAs(periods[p], r, kind)
           IN  /\ kind # "CLASS" => EntriesIn(entries, p) = {}
               /\ Ask(a, [op |-> "updatePeriod", period |-> p, periods |-> {p}, new |-> new,
                          moves |-> SlotOf(new) # SlotOf(periods[p])])
    BY DEF AskUpdatePeriod
<1> DEFINE new == PeriodAs(periods[p], r, kind)
           moves == SlotOf(new) # SlotOf(periods[p])
<1>2. /\ Reads(a)
      /\ call'[a] = [op |-> "updatePeriod", period |-> p, periods |-> {p}, new |-> new,
                     moves |-> moves]
    BY <1>1, Begun
<1>3. periods[p] \in PeriodRow
    BY <1>1, RowsRead DEF TimetableInvariant
<1>4. /\ new \in PeriodRow /\ new.startMin < new.endMin /\ new.kind = kind
      /\ new.section = periods[p].section /\ new.index = periods[p].index
    BY <1>3, RetimedPeriod
<1>5. kind # "CLASS" => EntriesIn(entries, p) = {}
    BY <1>1
<1>6. moves <=> SlotOf(new) # SlotOf(periods[p])
    OBVIOUS
<1> HIDE DEF new, moves
<1>7. Brought(call'[a]) /\ Owns(call'[a])
    BY <1>2, <1>4 DEF Brought, Owns, OnTimetable, OnClass, OnClasses
<1>8. Knows(call'[a])
    BY <1>1, <1>2, <1>4, <1>5, <1>6 DEF Knows, OnClass
<1> QED BY <1>2, <1>7, <1>8, AskStep

LEMMA AskDeletePeriodStep ==
    ASSUME TimetableInvariant, NEW a \in Admin, call[a] = Idle, AskDeletePeriod(a)
    PROVE  StepHolds
<1>1. PICK p \in PeriodIds :
        /\ periods[p] # Free /\ Draft(periods[p].section)
        /\ Ask(a, [op |-> "deletePeriod", period |-> p, periods |-> {p}])
    BY DEF AskDeletePeriod
<1>2. Reads(a) /\ call'[a] = [op |-> "deletePeriod", period |-> p, periods |-> {p}]
    BY <1>1, Begun
<1>3. Brought(call'[a]) /\ Owns(call'[a])
    BY <1>2 DEF Brought, Owns, OnTimetable, OnClass, OnClasses
<1>4. Knows(call'[a])
    BY <1>1, <1>2 DEF Knows, OnClass, Draft, Reshapeable
<1> QED BY <1>2, <1>3, <1>4, AskStep

\* A class as it is read with its period.
LEMMA ClassIs ==
    ASSUME TypeOK, NEW s \in Section, timetables[s] # Free, NEW p \in ClassPeriods(s),
           NEW day \in timetables[s].days, NEW t \in Qualified[s],
           NEW r \in Rooms[s] \union {Inherited}
    PROVE  LET x == Class(s, p, day, t, r)
           IN  /\ x \in EntryRow /\ x.section = s /\ x.period = p /\ x.day = day /\ x.room = r
               /\ p \in PeriodIds /\ periods[p] # Free /\ periods[p].section = s
               /\ x.startMin = periods[p].startMin /\ x.endMin = periods[p].endMin
               /\ x.startMin < x.endMin /\ Fitting(x)
<1> DEFINE x == Class(s, p, day, t, r)
<1>1. /\ p \in PeriodIds /\ periods[p] # Free /\ periods[p].section = s
      /\ periods[p].kind = "CLASS"
    BY DEF ClassPeriods, PeriodsOf
<1>2. /\ periods[p].startMin \in Int /\ periods[p].endMin \in Int
      /\ periods[p].startMin < periods[p].endMin /\ day \in Day
    BY <1>1, RowsRead
<1>3. /\ x.section = s /\ x.period = p /\ x.day = day /\ x.room = r
      /\ x.startMin = periods[p].startMin /\ x.endMin = periods[p].endMin
    BY DEF Class
<1>4. x \in EntryRow
    BY <1>1, <1>2 DEF Class, EntryRow
<1>5. Fitting(x)
    BY <1>1, <1>3 DEF Fitting, SlotOf
<1> QED BY <1>1, <1>2, <1>3, <1>4, <1>5

LEMMA PayloadIs ==
    ASSUME NEW classes, NEW payload \in Payloads(classes)
    PROVE  payload \subseteq classes /\ IsFiniteSet(payload)
<1> DEFINE ids == 1..Cardinality(EntryIds)
<1>1. Cardinality(EntryIds) \in Nat
    BY TimetableAssumption, FS_CardinalityType
<1>2. IsFiniteSet(ids)
    BY <1>1, FS_Interval
<1>3. PICK f \in [ids -> classes] : payload = {f[i] : i \in ids}
    BY DEF Payloads
<1> HIDE DEF ids
<1>4. f \in Surjection(ids, payload)
    BY <1>3 DEF Surjection
<1>5. IsFiniteSet(payload)
    BY <1>2, <1>4, FS_Surjection
<1> QED BY <1>3, <1>5

LEMMA AskCreateEntryStep ==
    ASSUME TimetableInvariant, NEW a \in Admin, call[a] = Idle, AskCreateEntry(a)
    PROVE  StepHolds
<1>1. PICK s \in Section : Unarchived(s) /\
        \E p \in ClassPeriods(s), day \in timetables[s].days, t \in Qualified[s],
           r \in Rooms[s] \union {Inherited} :
            Ask(a, [op |-> "createEntry", section |-> s, id |-> timetables[s].id,
                    periods |-> {p}, new |-> Class(s, p, day, t, Trimmed(r)),
                    room |-> RoomIn(homeRoom[s], r)])
    BY DEF AskCreateEntry
<1>2. PICK p \in ClassPeriods(s), day \in timetables[s].days, t \in Qualified[s],
           r \in Rooms[s] \union {Inherited} :
        Ask(a, [op |-> "createEntry", section |-> s, id |-> timetables[s].id,
                periods |-> {p}, new |-> Class(s, p, day, t, Trimmed(r)),
                room |-> RoomIn(homeRoom[s], r)])
    BY <1>1
<1> DEFINE new == Class(s, p, day, t, Trimmed(r))
           room == RoomIn(homeRoom[s], r)
<1>3. /\ Reads(a)
      /\ call'[a] = [op |-> "createEntry", section |-> s, id |-> timetables[s].id,
                     periods |-> {p}, new |-> new, room |-> room]
    BY <1>2, Begun
<1>4. timetables[s] # Free /\ timetables[s].id \in 0..1
    BY <1>1, RowsRead DEF Unarchived, TimetableInvariant
<1>5. Trimmed(r) \in Rooms[s] \union {Inherited}
    BY DEF Trimmed
<1>6. /\ new \in EntryRow /\ new.section = s /\ new.period = p /\ new.room = Trimmed(r)
      /\ periods[p].section = s /\ Fitting(new)
    BY <1>4, <1>5, ClassIs DEF TimetableInvariant
<1> HIDE DEF new
<1>7. room = NoRoom \/ room = EffectiveRoom(new)
    BY <1>6, TimetableAssumption DEF EffectiveRoom, RoomIn, Trimmed
<1> HIDE DEF room
<1>8. Brought(call'[a]) /\ Owns(call'[a])
    BY <1>3, <1>4, <1>6 DEF Brought, Owns, OnTimetable, OnClass, OnClasses
<1>9. Knows(call'[a])
    BY <1>3, <1>6, <1>7 DEF Knows, OnClass
<1> QED BY <1>3, <1>8, <1>9, AskStep

LEMMA AskUpdateEntryStep ==
    ASSUME TimetableInvariant, NEW a \in Admin, call[a] = Idle, AskUpdateEntry(a)
    PROVE  StepHolds
<1>1. PICK e \in EntryIds : entries[e] # Free /\
        \E s \in {entries[e].section} :
        \E p \in ClassPeriods(s) \union {entries[e].period}, day \in timetables[s].days,
           t \in Qualified[s], r \in Rooms[s] \union {Inherited} :
            /\ Unarchived(s) /\ Edited(e, p, day, t, r) # entries[e]
            /\ Ask(a, [op |-> "updateEntry", entry |-> e, periods |-> {p},
                       new |-> Edited(e, p, day, t, r), room |-> RoomIn(homeRoom[s], r)])
    BY DEF AskUpdateEntry
<1>10. PICK s \in {entries[e].section} :
        \E p \in ClassPeriods(s) \union {entries[e].period}, day \in timetables[s].days,
           t \in Qualified[s], r \in Rooms[s] \union {Inherited} :
            /\ Unarchived(s) /\ Edited(e, p, day, t, r) # entries[e]
            /\ Ask(a, [op |-> "updateEntry", entry |-> e, periods |-> {p},
                       new |-> Edited(e, p, day, t, r), room |-> RoomIn(homeRoom[s], r)])
    BY <1>1
<1>2. PICK p \in ClassPeriods(s) \union {entries[e].period}, day \in timetables[s].days,
           t \in Qualified[s], r \in Rooms[s] \union {Inherited} :
        Ask(a, [op |-> "updateEntry", entry |-> e, periods |-> {p},
                new |-> Edited(e, p, day, t, r), room |-> RoomIn(homeRoom[s], r)])
    BY <1>10
<1> DEFINE new == Edited(e, p, day, t, r)
           room == RoomIn(homeRoom[s], r)
<1>3. /\ Reads(a)
      /\ call'[a] = [op |-> "updateEntry", entry |-> e, periods |-> {p}, new |-> new,
                     room |-> room]
    BY <1>2, Begun
<1>4. TypeOK
    BY DEF TimetableInvariant
<1>5. /\ s \in Section /\ entries[e] \in EntryRow /\ periods[entries[e].period] # Free
      /\ periods[entries[e].period].section = s /\ s = entries[e].section
    BY <1>1, <1>4, <1>10, RowsRead
<1>6. timetables[s] # Free
    BY <1>1, <1>4, <1>5, RowsRead
<1>7. day \in Day
    BY <1>4, <1>5, <1>6, RowsRead
<1>8. CASE p # entries[e].period
    <2>1. new = Class(s, p, day, t, r) /\ p \in ClassPeriods(s)
        BY <1>8, <1>10 DEF Edited
    <2>2. /\ new \in EntryRow /\ new.period = p /\ new.section = s /\ new.room = r
          /\ periods[p].section = s /\ Fitting(new)
        BY <1>4, <1>5, <1>6, <2>1, ClassIs
    <2> HIDE DEF new
    <2>4. room = EffectiveRoom(new)
        BY <2>2 DEF EffectiveRoom
    <2> HIDE DEF room
    <2>3. Brought(call'[a]) /\ Owns(call'[a]) /\ Knows(call'[a])
        BY <1>3, <2>2, <2>4 DEF Brought, Owns, Knows, OnTimetable, OnClass, OnClasses
    <2> QED BY <1>3, <2>3, AskStep
<1>9. CASE p = entries[e].period
    <2>1. new = [entries[e] EXCEPT !.day = day, !.teacher = t, !.room = r]
        BY <1>9 DEF Edited
    <2>2. /\ t \in UNION {Qualified[x] : x \in Section} /\ r \in {Inherited} \union UNION {Rooms[x] : x \in Section}
        BY <1>5
    <2>3. /\ new \in EntryRow /\ new.period = entries[e].period /\ new.section = entries[e].section
          /\ new.startMin = entries[e].startMin /\ new.endMin = entries[e].endMin
          /\ new.day = day /\ new.room = r
        BY <1>5, <1>7, <2>1, <2>2 DEF EntryRow
    <2>4. Brought(call'[a]) /\ Owns(call'[a])
        <3> HIDE DEF new, room
        <3> QED BY <1>3, <1>5, <1>9, <2>3 DEF Brought, Owns, OnTimetable, OnClass, OnClasses
    <2>5. ~overlapped => Fitting(entries[e])
        BY <1>1 DEF TimetableInvariant, GridsKept, AllFitting
    <2>6. ~overlapped => Fitting(new)
        <3> HIDE DEF new
        <3> QED BY <1>5, <2>3, <2>5 DEF Fitting, SlotOf
    <2> HIDE DEF new
    <2>8. room = EffectiveRoom(new)
        BY <1>5, <2>3 DEF EffectiveRoom
    <2> HIDE DEF room
    <2>7. ~overlapped => Knows(call'[a])
        BY <1>3, <2>6, <2>8 DEF Knows, OnClass
    <2> QED BY <1>3, <2>4, <2>7, AskStep
<1> QED BY <1>8, <1>9

LEMMA AskApplyTemplateStep ==
    ASSUME TimetableInvariant, NEW a \in Admin, call[a] = Idle, AskApplyTemplate(a)
    PROVE  StepHolds
<1>1. PICK s \in Section : Draft(s) /\
        \E classes \in Payloads(ClassesIn(s, ClassPeriods(s))) :
            Ask(a, [op |-> "applyTemplate", section |-> s, id |-> timetables[s].id,
                    periods |-> {x.period : x \in classes}, classes |-> classes,
                       home |-> homeRoom[s]])
    BY DEF AskApplyTemplate
<1>2. PICK classes \in Payloads(ClassesIn(s, ClassPeriods(s))) :
        Ask(a, [op |-> "applyTemplate", section |-> s, id |-> timetables[s].id,
                periods |-> {x.period : x \in classes}, classes |-> classes,
                       home |-> homeRoom[s]])
    BY <1>1
<1>3. /\ Reads(a)
      /\ call'[a] = [op |-> "applyTemplate", section |-> s, id |-> timetables[s].id,
                     periods |-> {x.period : x \in classes}, classes |-> classes,
                       home |-> homeRoom[s]]
    BY <1>2, Begun
<1>4. TypeOK /\ timetables[s] # Free
    BY <1>1 DEF TimetableInvariant, Draft
<1>5. timetables[s].id \in 0..1
    BY <1>4, RowsRead
<1>6. classes \subseteq ClassesIn(s, ClassPeriods(s)) /\ IsFiniteSet(classes)
    BY PayloadIs
<1>7. ASSUME NEW x \in classes
      PROVE  /\ x \in EntryRow /\ x.section = s /\ x.startMin < x.endMin /\ Fitting(x)
             /\ periods[x.period].section = s
             /\ x.startMin = periods[x.period].startMin /\ x.endMin = periods[x.period].endMin
    <2>1. PICK p \in ClassPeriods(s), day \in timetables[s].days, t \in Qualified[s],
           r \in Rooms[s] \union {Inherited} :
            x = Class(s, p, day, t, r)
        BY <1>6 DEF ClassesIn
    <2> QED BY <1>4, <2>1, ClassIs
<1>8. Brought(call'[a])
    BY <1>3, <1>5, <1>6, <1>7 DEF Brought, OnTimetable, OnClass, OnClasses, SlotOf
<1>9. Owns(call'[a]) /\ Knows(call'[a])
    BY <1>3, <1>7 DEF Owns, Knows, OnClass, OnClasses
<1> QED BY <1>3, <1>8, <1>9, AskStep

LEMMA AskPublishStep ==
    ASSUME TimetableInvariant, NEW a \in Admin, call[a] = Idle, AskPublish(a)
    PROVE  StepHolds
<1>1. PICK s \in Section :
        /\ timetables[s] # Free /\ EntriesOf(entries, s) # {}
        /\ Ask(a, [op |-> "publish", section |-> s, id |-> timetables[s].id])
    BY DEF AskPublish
<1>2. Reads(a) /\ call'[a] = [op |-> "publish", section |-> s, id |-> timetables[s].id]
    BY <1>1, Begun
<1>3. timetables[s].id \in 0..1
    BY <1>1, RowsRead DEF TimetableInvariant
<1>4. PICK e \in EntryIds : entries[e] # Free /\ entries[e].section = s
    BY <1>1 DEF EntriesOf
<1>5. entries[e].period \in PeriodsOf(periods, s)
    BY <1>4, RowsRead DEF TimetableInvariant, PeriodsOf
<1>6. Brought(call'[a]) /\ Owns(call'[a])
    BY <1>2, <1>3 DEF Brought, Owns, OnTimetable, OnClass, OnClasses
<1>7. Knows(call'[a])
    BY <1>2, <1>5 DEF Knows, OnClass
<1> QED BY <1>2, <1>6, <1>7, AskStep

LEMMA AskDeleteTimetableStep ==
    ASSUME TimetableInvariant, NEW a \in Admin, call[a] = Idle, AskDeleteTimetable(a)
    PROVE  StepHolds
<1>1. PICK s \in Section :
        /\ timetables[s] # Free
        /\ Ask(a, [op |-> "deleteTimetable", section |-> s, id |-> timetables[s].id])
    BY DEF AskDeleteTimetable
<1>2. Reads(a) /\ call'[a] = [op |-> "deleteTimetable", section |-> s, id |-> timetables[s].id]
    BY <1>1, Begun
<1>3. timetables[s].id \in 0..1
    BY <1>1, RowsRead DEF TimetableInvariant
<1>4. Brought(call'[a]) /\ Owns(call'[a])
    BY <1>2, <1>3 DEF Brought, Owns, OnTimetable, OnClass, OnClasses
<1>5. Knows(call'[a])
    BY <1>2 DEF Knows, OnClass
<1> QED BY <1>2, <1>4, <1>5, AskStep

LEMMA ClassesAre ==
    ASSUME NEW s, NEW ps, NEW y \in ClassesIn(s, ps)
    PROVE  \E q \in ps, day \in timetables[s].days, t \in Qualified[s], r \in Rooms[s] \union {Inherited} :
            y = Class(s, q, day, t, r)
BY DEF ClassesIn

LEMMA AskPublishBatchStep ==
    ASSUME TimetableInvariant, NEW a \in Admin, call[a] = Idle, AskPublishBatch(a)
    PROVE  StepHolds
<1>1. PICK s \in Section : Unarchived(s) /\ PeriodsOf(periods, s) # {} /\
        \E sent \in Retimes(s) :
            LET retimes == [p \in DOMAIN sent |-> PeriodAs(periods[p], sent[p][1], sent[p][2])]
                effective == Reshaped(periods, retimes)
                At(x) == [x EXCEPT !.startMin = effective[x.period].startMin,
                                   !.endMin = effective[x.period].endMin]
                teaching == {q \in PeriodsOf(periods, s) : effective[q].kind = "CLASS"}
            IN  /\ ValidSet(RowsOf(effective, PeriodsOf(periods, s)))
                /\ \E classes \in Payloads({At(x) : x \in ClassesIn(s, teaching)}) :
                    /\ BatchClear(s, classes)
                    /\ Ask(a, [op |-> "publishBatch", section |-> s, id |-> timetables[s].id,
                               periods |-> DOMAIN retimes \union {x.period : x \in classes},
                               retimes |-> retimes, classes |-> classes])
    BY DEF AskPublishBatch
<1>2. PICK sent \in Retimes(s) :
            LET retimes == [p \in DOMAIN sent |-> PeriodAs(periods[p], sent[p][1], sent[p][2])]
                effective == Reshaped(periods, retimes)
                At(x) == [x EXCEPT !.startMin = effective[x.period].startMin,
                                   !.endMin = effective[x.period].endMin]
                teaching == {q \in PeriodsOf(periods, s) : effective[q].kind = "CLASS"}
            IN  /\ ValidSet(RowsOf(effective, PeriodsOf(periods, s)))
                /\ \E classes \in Payloads({At(x) : x \in ClassesIn(s, teaching)}) :
                    /\ BatchClear(s, classes)
                    /\ Ask(a, [op |-> "publishBatch", section |-> s, id |-> timetables[s].id,
                               periods |-> DOMAIN retimes \union {x.period : x \in classes},
                               retimes |-> retimes, classes |-> classes])
    BY <1>1
<1> DEFINE retimes == [p \in DOMAIN sent |-> PeriodAs(periods[p], sent[p][1], sent[p][2])]
           effective == Reshaped(periods, retimes)
           At(x) == [x EXCEPT !.startMin = effective[x.period].startMin,
                              !.endMin = effective[x.period].endMin]
           teaching == {q \in PeriodsOf(periods, s) : effective[q].kind = "CLASS"}
           rows == RowsOf(effective, PeriodsOf(periods, s))
<1>3. PICK classes :
        /\ classes \in Payloads({At(x) : x \in ClassesIn(s, teaching)})
        /\ BatchClear(s, classes)
        /\ Ask(a, [op |-> "publishBatch", section |-> s, id |-> timetables[s].id,
                   periods |-> DOMAIN retimes \union {x.period : x \in classes},
                   retimes |-> retimes, classes |-> classes])
    BY <1>2
<1> DEFINE held == DOMAIN retimes \union {x.period : x \in classes}
<1>4. /\ Reads(a)
      /\ call'[a] = [op |-> "publishBatch", section |-> s, id |-> timetables[s].id,
                     periods |-> held, retimes |-> retimes, classes |-> classes]
    BY <1>3, Begun
<1>5. TypeOK /\ timetables[s] # Free
    BY <1>1 DEF TimetableInvariant, Unarchived
<1>6. timetables[s].id \in 0..1 /\ timetables[s].days \in SUBSET Day
    BY <1>5, RowsRead
<1>7. /\ DOMAIN sent \subseteq PeriodsOf(periods, s)
      /\ \A p \in DOMAIN sent : sent[p][1] \in Span /\ sent[p][2] \in Kind
    BY DEF Retimes
<1>8. DOMAIN retimes = DOMAIN sent /\ \A p \in DOMAIN sent :
        /\ p \in PeriodIds /\ periods[p] # Free /\ periods[p].section = s
        /\ retimes[p] \in PeriodRow /\ retimes[p].startMin < retimes[p].endMin
        /\ retimes[p].section = s /\ retimes[p].index = periods[p].index
    <2>1. ASSUME NEW p \in DOMAIN sent
          PROVE  /\ p \in PeriodIds /\ periods[p] # Free /\ periods[p].section = s
                 /\ PeriodAs(periods[p], sent[p][1], sent[p][2]) \in PeriodRow
                 /\ PeriodAs(periods[p], sent[p][1], sent[p][2]).startMin
                        < PeriodAs(periods[p], sent[p][1], sent[p][2]).endMin
                 /\ PeriodAs(periods[p], sent[p][1], sent[p][2]).section = s
                 /\ PeriodAs(periods[p], sent[p][1], sent[p][2]).index = periods[p].index
        <3>1. p \in PeriodIds /\ periods[p] # Free /\ periods[p].section = s
            BY <1>7 DEF PeriodsOf
        <3>2. periods[p] \in PeriodRow
            BY <1>5, <3>1, RowsRead
        <3> QED BY <1>7, <3>1, <3>2, RetimedPeriod
    <2> QED BY <2>1
<1>9. ValidSet(rows)
    BY <1>2
<1>10. classes \subseteq {At(x) : x \in ClassesIn(s, teaching)} /\ IsFiniteSet(classes)
    BY <1>3, PayloadIs
<1>11. \A q \in PeriodIds :
        effective[q] = IF q \in DOMAIN retimes THEN retimes[q] ELSE periods[q]
    BY DEF Reshaped
<1> HIDE DEF retimes
<1>12. ASSUME NEW q \in PeriodsOf(periods, s)
       PROVE  /\ q \in PeriodIds /\ periods[q] # Free /\ periods[q].section = s
              /\ effective[q] \in PeriodRow /\ effective[q].index = periods[q].index
              /\ effective[q].startMin \in Int /\ effective[q].endMin \in Int
              /\ effective[q].startMin < effective[q].endMin
    <2>1. q \in PeriodIds /\ periods[q] # Free /\ periods[q].section = s
        BY DEF PeriodsOf
    <2>2. effective[q] = IF q \in DOMAIN retimes THEN retimes[q] ELSE periods[q]
        BY <1>11, <2>1
    <2>3. /\ effective[q] \in PeriodRow /\ effective[q].index = periods[q].index
          /\ effective[q].startMin < effective[q].endMin
        BY <1>5, <1>8, <2>1, <2>2, RowsRead
    <2>4. effective[q].startMin \in Int /\ effective[q].endMin \in Int
        BY <2>3 DEF PeriodRow
    <2> QED BY <2>1, <2>2, <2>3, <2>4
<1>22. effective = Reshaped(periods, retimes)
    OBVIOUS
<1> HIDE DEF effective
<1>13. ASSUME NEW x \in classes
       PROVE  /\ x \in EntryRow /\ x.section = s /\ x.period \in teaching
              /\ x.day \in timetables[s].days
              /\ x.startMin = effective[x.period].startMin
              /\ x.endMin = effective[x.period].endMin
    <2>1. PICK y \in ClassesIn(s, teaching) : x = At(y)
        BY <1>10
    <2>2. PICK q \in teaching, day \in timetables[s].days, t \in Qualified[s],
                  rm \in Rooms[s] \union {Inherited} :
            y = Class(s, q, day, t, rm)
        BY <2>1, ClassesAre
    <2>3. /\ q \in PeriodIds /\ effective[q].startMin \in Int /\ effective[q].endMin \in Int
          /\ periods[q].startMin \in Int /\ periods[q].endMin \in Int
        BY <1>5, <1>12, RowsRead
    <2>4. y \in EntryRow /\ y.section = s /\ y.period = q /\ y.day = day
        BY <1>6, <2>2, <2>3 DEF Class, EntryRow
    <2>5. x = [y EXCEPT !.startMin = effective[q].startMin, !.endMin = effective[q].endMin]
        BY <2>1, <2>4
    <2>6. /\ x \in EntryRow /\ x.section = s /\ x.period = q /\ x.day = day
          /\ x.startMin = effective[q].startMin /\ x.endMin = effective[q].endMin
        BY <2>3, <2>4, <2>5 DEF EntryRow
    <2> QED BY <2>2, <2>6
<1>14. rows \in SUBSET PeriodRow /\ IsFiniteSet(rows)
    <2> DEFINE f == [q \in PeriodsOf(periods, s) |-> effective[q]]
    <2>1. IsFiniteSet(PeriodsOf(periods, s))
        BY TimetableAssumption, FS_Subset DEF PeriodsOf
    <2>2. rows \in SUBSET PeriodRow
        BY <1>12 DEF RowsOf
    <2>3. f \in Surjection(PeriodsOf(periods, s), rows)
        BY DEF Surjection, RowsOf
    <2> QED BY <2>1, <2>2, <2>3, FS_Surjection
<1>15. ASSUME NEW x \in classes, NEW y \in classes, x # y
       PROVE  <<x.day, x.period>> # <<y.day, y.period>> /\ ~Meets(x, y)
    <2>1. <<x.day, x.period>> # <<y.day, y.period>>
        BY <1>3, <1>15 DEF BatchClear
    <2>2. CASE x.day = y.day
        <3>1. x.period \in PeriodsOf(periods, s) /\ y.period \in PeriodsOf(periods, s)
            BY <1>13
        <3>2. x.period # y.period
            BY <2>1, <2>2
        <3>3. periods[x.period].index # periods[y.period].index
            BY <1>5, <1>12, <3>1, <3>2 DEF TypeOK
        <3>4. effective[x.period] # effective[y.period]
            BY <1>12, <3>1, <3>3
        <3>5. effective[x.period] \in rows /\ effective[y.period] \in rows
            BY <3>1 DEF RowsOf
        <3> HIDE DEF rows
        <3>6. ~Overlaps(effective[x.period].startMin, effective[x.period].endMin,
                        effective[y.period].startMin, effective[y.period].endMin)
            BY <1>9, <1>14, <3>4, <3>5, ValidApart
        <3> QED BY <1>13, <2>1, <3>6 DEF Meets
    <2> QED BY <2>1, <2>2 DEF Meets
<1>16. ASSUME NEW x \in classes
       PROVE  x.startMin < x.endMin /\ periods[x.period].section = s
    BY <1>12, <1>13
<1>17. /\ call'[a].op = "publishBatch" /\ call'[a].section = s /\ call'[a].id = timetables[s].id
       /\ call'[a].retimes = retimes /\ call'[a].classes = classes
       /\ DOMAIN retimes \subseteq call'[a].periods /\ \A x \in classes : x.period \in call'[a].periods
    <2>1. DOMAIN retimes \subseteq held /\ \A x \in classes : x.period \in held
        OBVIOUS
    <2> HIDE DEF held
    <2> QED BY <1>4, <2>1
<1> HIDE DEF At, teaching, rows
<1>18. Brought(call'[a])
    BY <1>6, <1>8, <1>10, <1>13, <1>15, <1>16, <1>17 DEF Brought, OnTimetable, OnClass, OnClasses
<1>19. Owns(call'[a])
    BY <1>8, <1>16, <1>17 DEF Owns, OnClass, OnClasses
<1>20. ASSUME NEW x \in classes
       PROVE  WillFit(call'[a], x) /\ ~TeacherClash(entries, x, Elsewhere(s))
    <2>1. x.period \in PeriodsOf(periods, s) /\ effective[x.period].kind = "CLASS"
        BY <1>13 DEF teaching
    <2>2. /\ periods[x.period] # Free /\ x.day \in timetables[x.section].days
          /\ SlotOf(x) = SlotOf(effective[x.period])
        BY <1>12, <1>13, <2>1 DEF SlotOf
    <2>3. WillFit(call'[a], x)
        BY <1>17, <1>22, <2>1, <2>2 DEF WillFit
    <2>4. ~TeacherClash(entries, x, Elsewhere(s))
        BY <1>3 DEF BatchClear, Elsewhere
    <2> QED BY <2>3, <2>4
<1>21. Knows(call'[a])
    BY <1>1, <1>8, <1>17, <1>20 DEF Knows, OnClass
<1> QED BY <1>4, <1>18, <1>19, <1>21, AskStep

-----------------------------------------------------------------------------
(* Fewer classes, fewer periods *)

PeriodKeys ==
    \A p \in PeriodIds : periods[p] # Free =>
        /\ timetables[periods[p].section] # Free
        /\ periods[p].startMin < periods[p].endMin
        /\ \A q \in PeriodsOf(periods, periods[p].section) \ {p} : periods[q].index # periods[p].index
EntryKeys ==
    \A e \in EntryIds : entries[e] # Free =>
        /\ periods[entries[e].period] # Free
        /\ periods[entries[e].period].section = entries[e].section
        /\ \A f \in EntryIds \ {e} : entries[f] # Free =>
            <<entries[e].day, entries[e].period>> # <<entries[f].day, entries[f].period>>

LEMMA TypeIs ==
    TypeOK <=>
        /\ timetables \in [Section -> {Free} \union TimetableRow]
        /\ periods \in [PeriodIds -> {Free} \union PeriodRow]
        /\ entries \in [EntryIds -> {Free} \union EntryRow]
        /\ homeRoom \in [Section -> Homes]
        /\ PeriodKeys /\ EntryKeys
BY DEF TypeOK, PeriodKeys, EntryKeys

\* A step that leaves the rooms of the sections alone.
LEMMA TypeIsNext ==
    ASSUME TypeOK, homeRoom' = homeRoom
    PROVE  TypeOK' <=>
            /\ timetables' \in [Section -> {Free} \union TimetableRow]
            /\ periods' \in [PeriodIds -> {Free} \union PeriodRow]
            /\ entries' \in [EntryIds -> {Free} \union EntryRow]
            /\ PeriodKeys' /\ EntryKeys'
BY DEF TypeOK, PeriodKeys, EntryKeys

\* Only classes of before, as they were.
EntriesShrink == \A e \in EntryIds : entries'[e] # Free => entries'[e] = entries[e]

LEMMA FewerMeet ==
    ASSUME EntriesShrink, homeRoom' = homeRoom
    PROVE  (NoneMeet => NoneMeet') /\ RoomsStep
BY DEF EntriesShrink, NoneMeet, RoomsStep, SharesRoom, EffectiveRoom

\* Each class that is left keeps its period.
LEMMA FewerEntries ==
    ASSUME TypeOK, EntriesShrink,
           \A e \in EntryIds : entries'[e] # Free =>
                periods'[entries[e].period] = periods[entries[e].period]
    PROVE  EntryKeys'
BY DEF TypeOK, EntriesShrink, EntryKeys

LEMMA FewerFit ==
    ASSUME EntriesShrink, AllFitting,
           \A e \in EntryIds : entries'[e] # Free =>
                /\ periods'[entries[e].period] = periods[entries[e].period]
                /\ timetables'[entries[e].section].days = timetables[entries[e].section].days
    PROVE  AllFitting'
BY DEF EntriesShrink, AllFitting, Fitting

LEMMA WithoutEntriesIs ==
    ASSUME TypeOK, NEW gone
    PROVE  LET es == WithoutEntries(entries, gone)
           IN  /\ es \in [EntryIds -> {Free} \union EntryRow]
               /\ \A e \in EntryIds : es[e] # Free => es[e] = entries[e] /\ e \notin gone
BY DEF TypeOK, WithoutEntries

LEMMA CascadeIs ==
    ASSUME TypeOK, NEW gone
    PROVE  LET es == Cascade(entries, gone)
           IN  /\ es \in [EntryIds -> {Free} \union EntryRow]
               /\ \A e \in EntryIds : es[e] # Free =>
                    es[e] = entries[e] /\ entries[e].period \notin gone
BY DEF TypeOK, WithoutEntries, Cascade

\* A statement of its own, while other requests are in flight.
LEMMA SingleStep ==
    ASSUME TimetableInvariant, NEW a \in Admin, call[a] = Idle, Answer(a),
           TypeOK', periods' = periods,
           ~overlapped => GridsKept' /\ \A b \in Admin : call'[b] = call[b] => Knows(call[b])'
    PROVE  TimetableInvariant'
<1>1. /\ DOMAIN call = Admin /\ overlapped \in BOOLEAN
      /\ \A b \in Admin : Brought(call[b]) /\ Owns(call[b])
    BY DEF TimetableInvariant, RequestsTyped
<1>2. DOMAIN call' = Admin /\ overlapped' = overlapped /\ \A b \in Admin : call'[b] = call[b]
    BY <1>1 DEF Answer
<1>3. ASSUME NEW b \in Admin PROVE (Brought(call[b]) /\ Owns(call[b]))'
    <2>1. Brought(call'[b]) /\ Owns(call'[b])
        BY <1>1, <1>2
    <2> QED BY <2>1 DEF Owns
<1>4. ~overlapped => Alone'
    BY <1>2 DEF TimetableInvariant, Alone
<1> QED BY <1>1, <1>2, <1>3, <1>4 DEF TimetableInvariant, RequestsTyped

LEMMA DeleteEntryStep ==
    ASSUME TimetableInvariant, NEW a \in Admin, call[a] = Idle, DeleteEntry(a)
    PROVE  StepHolds
<1>1. PICK e \in EntryIds : Write(a, timetables, periods, WithoutEntries(entries, {e}))
    BY DEF DeleteEntry
<1>2. /\ Answer(a) /\ homeRoom' = homeRoom /\ timetables' = timetables /\ periods' = periods
      /\ entries' = WithoutEntries(entries, {e})
    BY <1>1 DEF Write, Answer
<1>3. TypeOK
    BY DEF TimetableInvariant
<1>4. EntriesShrink /\ entries' \in [EntryIds -> {Free} \union EntryRow]
    BY <1>2, <1>3, WithoutEntriesIs DEF EntriesShrink
<1>5. EntryKeys'
    BY <1>2, <1>3, <1>4, FewerEntries
<1>6. PeriodKeys'
    BY <1>2, <1>3 DEF TypeOK, PeriodKeys, PeriodsOf
<1>7. TypeOK'
    BY <1>2, <1>3, <1>4, <1>5, <1>6, TypeIs, TypeIsNext
<1>8. ASSUME ~overlapped PROVE GridsKept'
    <2>1. AllFitting /\ NoneMeet /\ LiveHavePeriods
        BY <1>8 DEF TimetableInvariant, GridsKept
    <2>2. LiveHavePeriods'
        BY <1>2, <2>1 DEF LiveHavePeriods, PeriodsOf
    <2>3. AllFitting'
        BY <1>2, <1>4, <2>1, FewerFit
    <2> QED BY <1>2, <1>4, <2>1, <2>2, <2>3, FewerMeet DEF GridsKept
<1>9. ASSUME ~overlapped, NEW b \in Admin, call'[b] = call[b] PROVE Knows(call[b])'
    <2> DEFINE c == call[b]
    <2>1. Knows(c)
        BY <1>9 DEF TimetableInvariant
    <2>2. c.op = "updatePeriod" => EntriesIn(entries', c.period) \subseteq EntriesIn(entries, c.period)
        BY <1>4 DEF EntriesShrink, EntriesIn
    <2>3. c.op = "publishBatch" => \A x \in c.classes :
            ~TeacherClash(entries', x, {f \in EntryIds : entries'[f] # Free /\ entries'[f].section # c.section})
        <3> SUFFICES ASSUME c.op = "publishBatch", NEW x \in c.classes,
                            NEW f \in EntryIds, entries'[f] # Free, entries'[f].section # c.section,
                            entries'[f].teacher = x.teacher, Meets(x, entries'[f])
                     PROVE  FALSE
            BY DEF TeacherClash
        <3>1. entries'[f] = entries[f]
            BY <1>4 DEF EntriesShrink
        <3>2. ~TeacherClash(entries, x, Elsewhere(c.section))
            BY <2>1 DEF Knows
        <3> QED BY <3>1, <3>2 DEF TeacherClash, Elsewhere
    <2>4. c.op = "publishBatch" => \A x \in c.classes :
            ~TeacherClash(entries', x, Elsewhere(c.section)')
        BY <1>2, <1>9, <2>3 DEF Elsewhere
    <2>5. c.op = "publishBatch" => \A x \in c.classes : WillFit(c, x)'
        BY <1>2, <1>9, <2>1 DEF Knows, WillFit
    <2>6. c.op = "updatePeriod" /\ c.new.kind # "CLASS" => EntriesIn(entries', c.period) = {}
        BY <2>1, <2>2 DEF Knows
    <2>7. /\ c.op = "createEntry" => (c.room = NoRoom \/ c.room = EffectiveRoom(c.new))'
          /\ c.op = "updateEntry" => (c.room = EffectiveRoom(c.new))'
          /\ c.op = "applyTemplate" => (c.home = homeRoom[c.section])'
        BY <1>2, <1>9, <2>1 DEF Knows, EffectiveRoom
    <2>8. c.op \in OnClass => Fitting(c.new)'
        BY <1>2, <1>9, <2>1 DEF Knows, Fitting
    <2>9. c.op = "applyTemplate" => (\A x \in c.classes : Fitting(x))'
        BY <1>2, <1>9, <2>1 DEF Knows, Fitting
    <2>10. /\ c.op = "setup" => (PeriodsOf(periods, c.section) = {})'
           /\ c.op \in {"replacePeriods", "createPeriod"} => Reshapeable(c.section)'
           /\ c.op = "deletePeriod" =>
                (periods[c.period] # Free => Reshapeable(periods[c.period].section))'
           /\ c.op = "publish" => (PeriodsOf(periods, c.section) # {})'
        BY <1>2, <1>9, <2>1 DEF Knows, PeriodsOf, Reshapeable
    <2>11. c.op = "updatePeriod" =>
            /\ periods'[c.period] # Free
            /\ c.moves <=> SlotOf(c.new) # SlotOf(periods'[c.period])
            /\ c.new.kind # "CLASS" => EntriesIn(entries', c.period) = {}
        BY <1>2, <2>1, <2>6 DEF Knows
    <2>12. c.op = "publishBatch" =>
            /\ PeriodsOf(periods', c.section) # {}
            /\ \A p \in DOMAIN c.retimes : periods'[p] # Free /\ c.retimes[p].section = c.section
        BY <1>2, <2>1 DEF Knows
    <2> QED BY <1>9, <2>4, <2>5, <2>7, <2>8, <2>9, <2>10, <2>11, <2>12 DEF Knows
<1>10. TimetableInvariant'
    BY <1>2, <1>7, <1>8, <1>9, SingleStep
<1>11. RoomsStep /\ ShapeStep
    BY <1>2, <1>4, FewerMeet DEF ShapeStep
<1> QED BY <1>10, <1>11 DEF StepHolds

LEMMA StatusIs ==
    ASSUME TypeOK, NEW s \in Section, timetables[s] # Free, NEW status \in Status
    PROVE  LET tts == [timetables EXCEPT ![s].status = status]
           IN  /\ tts \in [Section -> {Free} \union TimetableRow]
               /\ \A z \in Section : /\ tts[z] # Free <=> timetables[z] # Free
                                     /\ timetables[z] # Free => tts[z].days = timetables[z].days
                                     /\ z # s => tts[z] = timetables[z]
               /\ tts[s].status = status
<1> DEFINE row == [timetables[s] EXCEPT !.status = status]
           tts == [timetables EXCEPT ![s].status = status]
<1>1. timetables \in [Section -> {Free} \union TimetableRow] /\ timetables[s] \in TimetableRow
    BY RowsRead DEF TypeOK
<1>2. row \in TimetableRow /\ row.status = status /\ row.days = timetables[s].days
    BY <1>1 DEF TimetableRow
<1>3. tts = [timetables EXCEPT ![s] = row]
    BY <1>1
<1>4. row # Free
    BY <1>2, RowsAreNotFree
<1> HIDE DEF row
<1> QED BY <1>1, <1>2, <1>3, <1>4

LEMMA ArchiveStep ==
    ASSUME TimetableInvariant, NEW a \in Admin, call[a] = Idle, Archive(a)
    PROVE  StepHolds
<1>1. PICK s \in Section :
        /\ timetables[s] # Free
        /\ Write(a, [timetables EXCEPT ![s].status = "ARCHIVED"], periods, entries)
    BY DEF Archive
<1>2. /\ Answer(a) /\ homeRoom' = homeRoom /\ periods' = periods /\ entries' = entries
      /\ timetables' = [timetables EXCEPT ![s].status = "ARCHIVED"]
    BY <1>1 DEF Write, Answer
<1>3. TypeOK
    BY DEF TimetableInvariant
<1>4. /\ timetables' \in [Section -> {Free} \union TimetableRow]
      /\ \A z \in Section : /\ timetables'[z] # Free <=> timetables[z] # Free
                            /\ timetables[z] # Free => timetables'[z].days = timetables[z].days
                            /\ z # s => timetables'[z] = timetables[z]
      /\ timetables'[s].status = "ARCHIVED"
    BY <1>1, <1>2, <1>3, StatusIs DEF Status
<1>7. \A z \in Section : /\ timetables'[z] # Free <=> timetables[z] # Free
                         /\ timetables[z] # Free => timetables'[z].days = timetables[z].days
                         /\ timetables'[z] # Free /\ timetables'[z].status = "PUBLISHED" =>
                                timetables[z] # Free /\ timetables[z].status = "PUBLISHED"
    BY <1>4
<1>8. TypeOK'
    <2>1. PeriodKeys'
        BY <1>2, <1>3, <1>7, RowsRead DEF TypeOK, PeriodKeys, PeriodsOf
    <2>2. EntryKeys'
        BY <1>2, <1>3 DEF TypeOK, EntryKeys
    <2> QED BY <1>2, <1>3, <1>4, <2>1, <2>2, TypeIs, TypeIsNext
<1>10. ASSUME ~overlapped PROVE GridsKept'
    <2>1. AllFitting /\ NoneMeet /\ LiveHavePeriods
        BY <1>10 DEF TimetableInvariant, GridsKept
    <2>2. LiveHavePeriods'
        BY <1>2, <1>7, <2>1 DEF LiveHavePeriods, PeriodsOf
    <2>3. AllFitting'
        BY <1>2, <1>3, <1>7, <2>1, RowsRead DEF AllFitting, Fitting
    <2>4. NoneMeet'
        BY <1>2, <2>1 DEF NoneMeet
    <2> QED BY <2>2, <2>3, <2>4 DEF GridsKept
<1>11. ASSUME ~overlapped, NEW b \in Admin, call'[b] = call[b] PROVE Knows(call[b])'
    <2> DEFINE c == call[b]
    <2>1. Knows(c) /\ Brought(c) /\ Owns(c)
        BY <1>11 DEF TimetableInvariant, RequestsTyped
    <2>2. c.op = "setup" => PeriodsOf(periods', c.section) = {}
        BY <1>2, <2>1 DEF Knows
    <2>3. c.op \in {"replacePeriods", "createPeriod"} => Reshapeable(c.section)'
        BY <1>2, <1>7, <1>11, <2>1 DEF Knows, Reshapeable, Brought, OnTimetable
    <2>4. c.op = "deletePeriod" /\ periods'[c.period] # Free => Reshapeable(periods[c.period].section)'
        BY <1>2, <1>3, <1>7, <1>11, <2>1, RowsRead DEF Knows, Reshapeable, Brought
    <2>5. c.op \in OnClass => Fitting(c.new)'
        <3> SUFFICES ASSUME c.op \in OnClass PROVE Fitting(c.new)'
            OBVIOUS
        <3>1. Fitting(c.new) /\ c.new \in EntryRow
            BY <2>1 DEF Knows, Brought
        <3>2. c.new.section \in Section /\ c.new.period \in PeriodIds
            BY <3>1 DEF EntryRow
        <3>3. timetables[c.new.section] # Free
            BY <1>3, <2>1, <3>1, <3>2, RowsRead DEF Fitting, Owns
        <3> QED BY <1>2, <1>7, <1>11, <3>1, <3>2, <3>3 DEF Fitting
    <2>6. c.op \in OnClasses => \A x \in c.classes :
            periods[x.period] # Free => timetables'[x.section].days = timetables[x.section].days
        <3> SUFFICES ASSUME c.op \in OnClasses, NEW x \in c.classes, periods[x.period] # Free
                     PROVE  timetables'[x.section].days = timetables[x.section].days
            OBVIOUS
        <3>1. x \in EntryRow /\ x.section = c.section /\ periods[x.period].section = c.section
            BY <2>1 DEF Brought, Owns
        <3>2. x.section \in Section /\ x.period \in PeriodIds
            BY <3>1 DEF EntryRow
        <3>3. timetables[x.section] # Free
            BY <1>3, <3>1, <3>2, RowsRead
        <3> QED BY <1>7, <3>2, <3>3
    <2>7. c.op = "applyTemplate" => \A x \in c.classes : Fitting(x)'
        BY <1>2, <2>1, <2>6 DEF Knows, Fitting, OnClasses
    <2>8. c.op = "publishBatch" => \A x \in c.classes : WillFit(c, x)'
        BY <1>2, <1>11, <2>1, <2>6 DEF Knows, WillFit, OnClasses
    <2> QED BY <1>2, <1>11, <2>1, <2>2, <2>3, <2>4, <2>5, <2>7, <2>8
            DEF Knows, PeriodsOf, EntriesIn, TeacherClash, Elsewhere, EffectiveRoom
<1>12. TimetableInvariant'
    BY <1>2, <1>8, <1>10, <1>11, SingleStep
<1>13. RoomsStep /\ ShapeStep
    BY <1>2 DEF RoomsStep, ShapeStep, SharesRoom, EffectiveRoom
<1> QED BY <1>12, <1>13 DEF StepHolds

\* The room of a section, changed on its own page.
LEMMA SetRoomStep ==
    ASSUME TimetableInvariant, NEW a \in Admin, call[a] = Idle, SetRoom(a)
    PROVE  StepHolds
<1>1. PICK s \in Section, r \in Homes :
        r # homeRoom[s] /\ homeRoom' = [homeRoom EXCEPT ![s] = r]
    BY DEF SetRoom
<1>2. /\ timetables' = timetables /\ periods' = periods /\ entries' = entries /\ call' = call
      /\ overlapped' = (overlapped \/ \E b \in Admin \ {a} : call[b] # Idle)
    BY DEF SetRoom, Noted
<1>3. /\ DOMAIN call = Admin /\ overlapped \in BOOLEAN /\ homeRoom \in [Section -> Homes]
      /\ \A b \in Admin : Brought(call[b]) /\ Owns(call[b])
    BY DEF TimetableInvariant, RequestsTyped, TypeOK
<1>4. homeRoom' \in [Section -> Homes] /\ homeRoom' # homeRoom
    BY <1>1, <1>3
<1>5. TypeOK'
    BY <1>2, <1>4 DEF TimetableInvariant, TypeOK, PeriodsOf
<1>6. RequestsTyped'
    BY <1>2, <1>3 DEF RequestsTyped, Owns
<1>7. ASSUME ~overlapped' PROVE Alone' /\ GridsKept' /\ \A b \in Admin : Knows(call[b])'
    <2>1. ~overlapped /\ \A b \in Admin : call'[b] = Idle
        BY <1>2, <1>3, <1>7
    <2>2. Alone' /\ \A b \in Admin : Knows(call[b])'
        BY <2>1 DEF Alone, Idle, Knows, OnClass
    <2>3. GridsKept'
        BY <1>2, <2>1 DEF TimetableInvariant, GridsKept, AllFitting, Fitting, NoneMeet,
            LiveHavePeriods, PeriodsOf
    <2> QED BY <2>2, <2>3
<1>8. RoomsStep /\ ShapeStep
    BY <1>2, <1>4 DEF RoomsStep, ShapeStep
<1> QED BY <1>5, <1>6, <1>7, <1>8 DEF TimetableInvariant, StepHolds

-----------------------------------------------------------------------------
(* What the requests write *)

LEMMA RefusedStep ==
    ASSUME TimetableInvariant, NEW a \in Admin, call[a].op # "idle", Refused(a)
    PROVE  StepHolds
<1>1. Answer(a) /\ homeRoom' = homeRoom /\ timetables' = timetables /\ periods' = periods /\ entries' = entries
    BY DEF Refused, Write, Answer
<1>2. TypeOK'
    BY <1>1 DEF TimetableInvariant, TypeOK, PeriodsOf
<1>3. HeldStay
    BY <1>1 DEF HeldStay
<1>4. ~overlapped => GridsKept'
    BY <1>1 DEF TimetableInvariant, GridsKept, AllFitting, Fitting, NoneMeet, LiveHavePeriods, PeriodsOf
<1>5. TimetableInvariant'
    BY <1>1, <1>2, <1>3, <1>4, CommitStep
<1> QED BY <1>1, <1>5 DEF StepHolds, RoomsStep, ShapeStep, SharesRoom, EffectiveRoom

LEMMA PublishStep ==
    ASSUME TimetableInvariant, NEW a \in Admin, Publish(a)
    PROVE  StepHolds
<1> DEFINE c == call[a]
           s == c.section
<1>1. c.op = "publish" /\ (IF Stands(c) THEN Write(a, Published(s), periods, entries) ELSE Refused(a))
    BY DEF Publish
<1>2. CASE ~Stands(c)
    BY <1>1, <1>2, RefusedStep
<1>3. CASE Stands(c)
    <2>1. Answer(a) /\ homeRoom' = homeRoom /\ timetables' = Published(s) /\ periods' = periods /\ entries' = entries
        BY <1>1, <1>3 DEF Write, Answer
    <2>2. TypeOK /\ Brought(c)
        BY DEF TimetableInvariant, RequestsTyped
    <2>3. s \in Section /\ timetables[s] # Free
        BY <1>1, <1>3, <2>2 DEF Stands, Brought, OnTimetable
    <2>4. /\ timetables' \in [Section -> {Free} \union TimetableRow]
          /\ \A z \in Section : /\ timetables'[z] # Free <=> timetables[z] # Free
                                /\ timetables[z] # Free => timetables'[z].days = timetables[z].days
                                /\ z # s => timetables'[z] = timetables[z]
        BY <2>1, <2>2, <2>3, StatusIs DEF Status, Published
    <2>5. PeriodKeys'
        BY <2>1, <2>2, <2>4, RowsRead DEF TypeOK, PeriodKeys, PeriodsOf
    <2>6. EntryKeys'
        BY <2>1, <2>2 DEF TypeOK, EntryKeys
    <2>7. TypeOK'
        BY <2>1, <2>2, <2>4, <2>5, <2>6, TypeIs, TypeIsNext
    <2>8. ASSUME ~overlapped PROVE GridsKept'
        <3>1. AllFitting /\ NoneMeet /\ LiveHavePeriods /\ Knows(c)
            BY <2>8 DEF TimetableInvariant, GridsKept
        <3>2. LiveHavePeriods'
            BY <1>1, <2>1, <2>4, <3>1 DEF LiveHavePeriods, PeriodsOf, Knows
        <3>3. AllFitting'
            BY <2>1, <2>2, <2>4, <3>1, RowsRead DEF AllFitting, Fitting
        <3>4. NoneMeet'
            BY <2>1, <3>1 DEF NoneMeet
        <3> QED BY <3>2, <3>3, <3>4 DEF GridsKept
    <2>9. TimetableInvariant'
        BY <1>1, <2>1, <2>7, <2>8, CommitStep DEF HeldStay
    <2>10. RoomsStep /\ ShapeStep
        BY <2>1 DEF RoomsStep, ShapeStep, SharesRoom, EffectiveRoom
    <2> QED BY <2>9, <2>10 DEF StepHolds
<1> QED BY <1>2, <1>3

LEMMA WithoutPeriodsIs ==
    ASSUME TypeOK, NEW gone
    PROVE  LET ps == WithoutPeriods(periods, gone)
           IN  /\ ps \in [PeriodIds -> {Free} \union PeriodRow]
               /\ \A p \in PeriodIds : ps[p] # Free => ps[p] = periods[p] /\ p \notin gone
               /\ \A p \in PeriodIds : p \notin gone => ps[p] = periods[p]
BY DEF TypeOK, WithoutPeriods

LEMMA FewerPeriods ==
    ASSUME TypeOK, \A p \in PeriodIds : periods'[p] # Free =>
            periods'[p] = periods[p] /\ timetables'[periods[p].section] # Free
    PROVE  PeriodKeys' /\ HeldStay
BY DEF TypeOK, PeriodKeys, PeriodsOf, HeldStay

LEMMA DeletePeriodStep ==
    ASSUME TimetableInvariant, NEW a \in Admin, DeletePeriod(a)
    PROVE  StepHolds
<1> DEFINE p == call[a].period
<1>1. call[a].op = "deletePeriod"
    BY DEF DeletePeriod
<1>2. /\ Answer(a) /\ homeRoom' = homeRoom /\ timetables' = timetables
      /\ periods' = WithoutPeriods(periods, {p}) /\ entries' = Cascade(entries, {p})
    BY DEF DeletePeriod, Write, Answer
<1>3. TypeOK /\ p \in PeriodIds
    BY <1>1 DEF TimetableInvariant, RequestsTyped, Brought
<1>4. /\ periods' \in [PeriodIds -> {Free} \union PeriodRow]
      /\ \A q \in PeriodIds : periods'[q] # Free => periods'[q] = periods[q]
      /\ \A q \in PeriodIds : q # p => periods'[q] = periods[q]
    BY <1>2, <1>3, WithoutPeriodsIs
<1>5. /\ entries' \in [EntryIds -> {Free} \union EntryRow] /\ EntriesShrink
      /\ \A e \in EntryIds : entries'[e] # Free => entries[e].period # p
    BY <1>2, <1>3, CascadeIs DEF EntriesShrink
<1>6. \A e \in EntryIds : entries'[e] # Free => periods'[entries[e].period] = periods[entries[e].period]
    BY <1>3, <1>4, <1>5, RowsRead DEF EntriesShrink
<1>7. PeriodKeys' /\ HeldStay
    BY <1>2, <1>3, <1>4, FewerPeriods, RowsRead
<1>8. TypeOK'
    BY <1>2, <1>3, <1>4, <1>5, <1>6, <1>7, FewerEntries, TypeIs, TypeIsNext
<1>9. ASSUME ~overlapped PROVE GridsKept' /\ ShapeStep
    <2>1. AllFitting /\ NoneMeet /\ LiveHavePeriods /\ Knows(call[a])
        BY <1>9 DEF TimetableInvariant, GridsKept
    <2>2. ASSUME NEW s \in Section, timetables[s] # Free, timetables[s].status = "PUBLISHED"
          PROVE  PeriodsOf(periods, s) = PeriodsOf(periods', s)
        <3>1. periods[p] # Free => periods[p].section # s
            BY <1>1, <2>1, <2>2 DEF Knows, Reshapeable
        <3>2. \A q \in PeriodIds : (periods'[q] # Free /\ periods'[q].section = s) <=>
                                   (periods[q] # Free /\ periods[q].section = s)
            BY <1>4, <3>1
        <3> QED BY <3>2 DEF PeriodsOf
    <2>3. LiveHavePeriods'
        BY <1>2, <2>1, <2>2 DEF LiveHavePeriods
    <2>4. AllFitting'
        BY <1>2, <1>5, <1>6, <2>1, FewerFit
    <2>5. ShapeStep
        BY <2>2 DEF ShapeStep
    <2> QED BY <1>2, <1>5, <2>1, <2>3, <2>4, <2>5, FewerMeet DEF GridsKept
<1>10. TimetableInvariant'
    BY <1>1, <1>2, <1>7, <1>8, <1>9, CommitStep
<1>11. overlapped' = overlapped
    BY <1>2 DEF Answer
<1>12. ShapeStep
    BY <1>9, <1>11 DEF ShapeStep
<1> QED BY <1>2, <1>5, <1>10, <1>12, FewerMeet DEF StepHolds

LEMMA DeleteTimetableStep ==
    ASSUME TimetableInvariant, NEW a \in Admin, DeleteTimetable(a)
    PROVE  StepHolds
<1> DEFINE c == call[a]
           s == c.section
           gone == PeriodsOf(periods, s)
<1>1. /\ c.op = "deleteTimetable"
      /\ IF Stands(c)
         THEN Write(a, [timetables EXCEPT ![s] = Free],
                    WithoutPeriods(periods, gone), Cascade(entries, gone))
         ELSE Refused(a)
    BY DEF DeleteTimetable
<1>2. CASE ~Stands(c)
    BY <1>1, <1>2, RefusedStep
<1>3. CASE Stands(c)
    <2>1. /\ Answer(a) /\ homeRoom' = homeRoom /\ timetables' = [timetables EXCEPT ![s] = Free]
          /\ periods' = WithoutPeriods(periods, gone) /\ entries' = Cascade(entries, gone)
        BY <1>1, <1>3 DEF Write, Answer
    <2>2. TypeOK /\ s \in Section
        BY <1>1 DEF TimetableInvariant, RequestsTyped, Brought, OnTimetable
    <2>3. /\ timetables' \in [Section -> {Free} \union TimetableRow] /\ timetables'[s] = Free
          /\ \A z \in Section : z # s => timetables'[z] = timetables[z]
        BY <2>1, <2>2 DEF TypeOK
    <2>4. /\ periods' \in [PeriodIds -> {Free} \union PeriodRow]
          /\ \A q \in PeriodIds : periods'[q] # Free => periods'[q] = periods[q] /\ q \notin gone
          /\ \A q \in PeriodIds : q \notin gone => periods'[q] = periods[q]
        BY <2>1, <2>2, WithoutPeriodsIs
    <2>5. /\ entries' \in [EntryIds -> {Free} \union EntryRow] /\ EntriesShrink
          /\ \A e \in EntryIds : entries'[e] # Free => entries[e].period \notin gone
        BY <2>1, <2>2, CascadeIs DEF EntriesShrink
    <2>6. \A e \in EntryIds : entries'[e] # Free =>
            /\ periods'[entries[e].period] = periods[entries[e].period]
            /\ entries[e].section \in Section /\ entries[e].section # s
        <3> SUFFICES ASSUME NEW e \in EntryIds, entries'[e] # Free
                     PROVE  /\ periods'[entries[e].period] = periods[entries[e].period]
                            /\ entries[e].section \in Section /\ entries[e].section # s
            OBVIOUS
        <3>1. entries[e] # Free
            BY <2>5 DEF EntriesShrink
        <3>2. /\ entries[e].period \in PeriodIds /\ entries[e].section \in Section
              /\ periods[entries[e].period] # Free
              /\ periods[entries[e].period].section = entries[e].section
            BY <2>2, <3>1, RowsRead
        <3> QED BY <2>4, <2>5, <3>2 DEF PeriodsOf
    <2>7. \A q \in PeriodIds : periods'[q] # Free => timetables'[periods[q].section] # Free
        BY <2>2, <2>3, <2>4, RowsRead DEF PeriodsOf
    <2>8. PeriodKeys' /\ HeldStay
        BY <2>2, <2>4, <2>7, FewerPeriods
    <2>9. TypeOK'
        BY <2>1, <2>2, <2>3, <2>4, <2>5, <2>6, <2>8, FewerEntries, TypeIs, TypeIsNext
    <2>10. ASSUME NEW z \in Section, z # s PROVE PeriodsOf(periods', z) = PeriodsOf(periods, z)
        BY <2>4, <2>10 DEF PeriodsOf
    <2>11. ASSUME ~overlapped PROVE GridsKept'
        <3>1. AllFitting /\ NoneMeet /\ LiveHavePeriods
            BY <2>11 DEF TimetableInvariant, GridsKept
        <3>2. LiveHavePeriods'
            BY <2>3, <2>10, <3>1 DEF LiveHavePeriods
        <3>3. AllFitting'
            BY <2>3, <2>5, <2>6, <3>1, FewerFit
        <3> QED BY <2>1, <2>5, <3>1, <3>2, <3>3, FewerMeet DEF GridsKept
    <2>12. TimetableInvariant'
        BY <1>1, <2>1, <2>8, <2>9, <2>11, CommitStep
    <2>13. ShapeStep
        BY <2>3, <2>10 DEF ShapeStep
    <2> QED BY <2>1, <2>5, <2>12, <2>13, FewerMeet DEF StepHolds
<1> QED BY <1>2, <1>3

\* The grid of a section replaced by a new one.
NewGrid(s, grid) ==
    Created(NewPeriods(s, grid), FreshPeriods, WithoutPeriods(periods, PeriodsOf(periods, s)))

LEMMA FreshPeriodsAre ==
    /\ IsFiniteSet(FreshPeriods)
    /\ \A p \in FreshPeriods : p \in PeriodIds /\ p \notin HeldPeriods /\ periods[p] = Free
BY TimetableAssumption, FS_Subset DEF FreshPeriods

LEMMA NewGridIs ==
    ASSUME TypeOK, NEW s \in Section, NEW grid \in Grids, Len(grid) <= Cardinality(FreshPeriods)
    PROVE  LET ps == NewGrid(s, grid)
           IN  /\ ps \in [PeriodIds -> {Free} \union PeriodRow]
               /\ \A p \in PeriodIds : ps[p] # Free =>
                    \/ periods[p] # Free /\ periods[p].section # s /\ ps[p] = periods[p]
                    \/ p \in FreshPeriods /\ ps[p].section = s /\ ps[p].startMin < ps[p].endMin
               /\ \A p \in PeriodIds : periods[p] # Free /\ periods[p].section # s => ps[p] = periods[p]
               /\ \A p, q \in PeriodIds : p # q /\ ps[p] # Free /\ ps[q] # Free
                    /\ ps[p].section = s /\ ps[q].section = s => ps[p].index # ps[q].index
<1> DEFINE n == Len(grid)
           rows == NewPeriods(s, grid)
           bare == WithoutPeriods(periods, PeriodsOf(periods, s))
           ps == NewGrid(s, grid)
<1>1. /\ grid \in Seq(Slot) /\ n \in Nat /\ DOMAIN grid = 1..n
      /\ \A i, j \in 1..n : grid[i].index = grid[j].index => i = j
      /\ \A i \in 1..n : grid[i] \in Slot /\ grid[i].startMin < grid[i].endMin
    BY TimetableAssumption
<1>2. /\ DOMAIN rows = 1..n
      /\ \A i \in 1..n : /\ rows[i] \in PeriodRow /\ rows[i].section = s
                         /\ rows[i].index = grid[i].index /\ rows[i].startMin < rows[i].endMin
    BY <1>1 DEF NewPeriods, Slot, PeriodRow
<1>3. /\ bare \in [PeriodIds -> {Free} \union PeriodRow]
      /\ \A p \in PeriodIds : bare[p] # Free =>
            bare[p] = periods[p] /\ p \notin PeriodsOf(periods, s)
      /\ \A p \in PeriodIds : p \notin PeriodsOf(periods, s) => bare[p] = periods[p]
    BY WithoutPeriodsIs
<1> HIDE DEF n, rows, bare
<1>4. Placed(bare, ps, rows, FreshPeriods)
    <2>1. n <= Cardinality(FreshPeriods)
        BY DEF n
    <2> QED BY <1>1, <1>2, <2>1, FreshPeriodsAre, CreatedRows DEF NewGrid, rows, bare
<1> HIDE DEF ps
<1>5. PICK N \in SUBSET FreshPeriods : \E g \in [N -> DOMAIN rows] :
        /\ \A x, y \in N : g[x] = g[y] => x = y
        /\ ps = [id \in DOMAIN bare |-> IF id \in N THEN rows[g[id]] ELSE bare[id]]
    BY <1>4 DEF Placed
<1>6. PICK g \in [N -> 1..n] :
        /\ \A x, y \in N : g[x] = g[y] => x = y
        /\ ps = [id \in PeriodIds |-> IF id \in N THEN rows[g[id]] ELSE bare[id]]
    BY <1>2, <1>3, <1>5
<1>7. ASSUME NEW p \in N
      PROVE  /\ p \in FreshPeriods /\ ps[p] \in PeriodRow /\ ps[p].section = s
             /\ ps[p].index = grid[g[p]].index /\ ps[p].startMin < ps[p].endMin
    BY <1>2, <1>5, <1>6, FreshPeriodsAre
<1>8. ASSUME NEW p \in PeriodIds, p \notin N PROVE ps[p] = bare[p]
    BY <1>6, <1>8
<1>9. ps \in [PeriodIds -> {Free} \union PeriodRow]
    BY <1>3, <1>6, <1>7, <1>8
<1>10. ASSUME NEW p \in PeriodIds, ps[p] # Free
       PROVE  \/ periods[p] # Free /\ periods[p].section # s /\ ps[p] = periods[p]
              \/ p \in FreshPeriods /\ ps[p].section = s /\ ps[p].startMin < ps[p].endMin
    BY <1>3, <1>7, <1>8, <1>10 DEF PeriodsOf
<1>11. ASSUME NEW p \in PeriodIds, periods[p] # Free, periods[p].section # s PROVE ps[p] = periods[p]
    BY <1>3, <1>5, <1>8, <1>11, FreshPeriodsAre DEF PeriodsOf
<1>12. ASSUME NEW p \in PeriodIds, NEW q \in PeriodIds, p # q, ps[p] # Free, ps[q] # Free,
              ps[p].section = s, ps[q].section = s
       PROVE  ps[p].index # ps[q].index
    <2>1. p \in N /\ q \in N
        BY <1>3, <1>8, <1>12 DEF PeriodsOf
    <2>2. g[p] \in 1..n /\ g[q] \in 1..n /\ g[p] # g[q]
        BY <1>6, <1>12, <2>1
    <2> QED BY <1>1, <1>7, <2>1, <2>2
<1> QED BY <1>9, <1>10, <1>11, <1>12 DEF ps

LEMMA GridReplaced ==
    ASSUME TypeOK, NEW s \in Section, NEW grid \in Grids, Len(grid) <= Cardinality(FreshPeriods),
           homeRoom' = homeRoom, periods' = NewGrid(s, grid), entries' = Cascade(entries, PeriodsOf(periods, s)),
           timetables' \in [Section -> {Free} \union TimetableRow], timetables'[s] # Free,
           \A z \in Section : z # s => timetables'[z] = timetables[z]
    PROVE  /\ TypeOK' /\ HeldStay /\ EntriesShrink
           /\ \A e \in EntryIds : entries'[e] # Free =>
                /\ periods'[entries[e].period] = periods[entries[e].period]
                /\ timetables'[entries[e].section].days = timetables[entries[e].section].days
           /\ \A z \in Section : z # s => PeriodsOf(periods', z) = PeriodsOf(periods, z)
<1>1. /\ periods' \in [PeriodIds -> {Free} \union PeriodRow]
      /\ \A p \in PeriodIds : periods'[p] # Free =>
            \/ periods[p] # Free /\ periods[p].section # s /\ periods'[p] = periods[p]
            \/ p \in FreshPeriods /\ periods'[p].section = s /\ periods'[p].startMin < periods'[p].endMin
      /\ \A p \in PeriodIds : periods[p] # Free /\ periods[p].section # s => periods'[p] = periods[p]
      /\ \A p, q \in PeriodIds : p # q /\ periods'[p] # Free /\ periods'[q] # Free
            /\ periods'[p].section = s /\ periods'[q].section = s => periods'[p].index # periods'[q].index
    BY NewGridIs
<1>2. /\ entries' \in [EntryIds -> {Free} \union EntryRow] /\ EntriesShrink
      /\ \A e \in EntryIds : entries'[e] # Free => entries[e].period \notin PeriodsOf(periods, s)
    BY CascadeIs DEF EntriesShrink
<1>3. ASSUME NEW e \in EntryIds, entries'[e] # Free
      PROVE  /\ periods'[entries[e].period] = periods[entries[e].period]
             /\ timetables'[entries[e].section].days = timetables[entries[e].section].days
    <2>1. entries[e] # Free
        BY <1>2, <1>3 DEF EntriesShrink
    <2>2. /\ entries[e].period \in PeriodIds /\ entries[e].section \in Section
          /\ periods[entries[e].period] # Free
          /\ periods[entries[e].period].section = entries[e].section
        BY <2>1, RowsRead
    <2>3. entries[e].section # s
        BY <1>2, <1>3, <2>2 DEF PeriodsOf
    <2> QED BY <1>1, <2>2, <2>3
<1>4. EntryKeys'
    BY <1>2, <1>3, FewerEntries
<1>5. HeldStay
    BY <1>1, FreshPeriodsAre DEF HeldStay
<1>6. PeriodKeys'
    <2> SUFFICES ASSUME NEW p \in PeriodIds, periods'[p] # Free
                 PROVE  /\ timetables'[periods'[p].section] # Free
                        /\ periods'[p].startMin < periods'[p].endMin
                        /\ \A q \in PeriodIds : q # p /\ periods'[q] # Free
                            /\ periods'[q].section = periods'[p].section =>
                                periods'[q].index # periods'[p].index
        BY DEF PeriodKeys, PeriodsOf
    <2>1. CASE periods[p] # Free /\ periods[p].section # s /\ periods'[p] = periods[p]
        <3>1. ASSUME NEW q \in PeriodIds, q # p, periods'[q] # Free,
                     periods'[q].section = periods'[p].section
              PROVE  periods'[q].index # periods'[p].index
            <4>1. periods[q] # Free /\ periods'[q] = periods[q]
                BY <1>1, <2>1, <3>1
            <4> QED BY <2>1, <3>1, <4>1 DEF TypeOK, PeriodsOf
        <3> QED BY <2>1, <3>1, RowsRead
    <2>2. CASE p \in FreshPeriods /\ periods'[p].section = s /\ periods'[p].startMin < periods'[p].endMin
        BY <1>1, <2>2
    <2> QED BY <1>1, <2>1, <2>2
<1>7. TypeOK'
    BY <1>1, <1>2, <1>4, <1>6, TypeIsNext
<1>8. ASSUME NEW z \in Section, z # s PROVE PeriodsOf(periods', z) = PeriodsOf(periods, z)
    BY <1>1, <1>8 DEF PeriodsOf
<1> QED BY <1>2, <1>3, <1>5, <1>7, <1>8

LEMMA ReplacePeriodsStep ==
    ASSUME TimetableInvariant, NEW a \in Admin, ReplacePeriods(a)
    PROVE  StepHolds
<1> DEFINE c == call[a]
           s == c.section
<1>1. /\ c.op = "replacePeriods"
      /\ IF ~Stands(c) \/ Cardinality(FreshPeriods) < Len(c.grid) THEN Refused(a)
         ELSE Write(a, timetables, NewGrid(s, c.grid), Cascade(entries, PeriodsOf(periods, s)))
    BY DEF ReplacePeriods, NewGrid
<1>2. TypeOK /\ s \in Section /\ c.grid \in Grids
    BY <1>1 DEF TimetableInvariant, RequestsTyped, Brought, OnTimetable
<1>3. CASE ~Stands(c) \/ Cardinality(FreshPeriods) < Len(c.grid)
    BY <1>1, <1>3, RefusedStep
<1>4. CASE Stands(c) /\ ~(Cardinality(FreshPeriods) < Len(c.grid))
    <2>1. /\ Answer(a) /\ homeRoom' = homeRoom /\ timetables' = timetables /\ periods' = NewGrid(s, c.grid)
          /\ entries' = Cascade(entries, PeriodsOf(periods, s))
        BY <1>1, <1>4 DEF Write, Answer
    <2>2. Cardinality(FreshPeriods) \in Nat /\ Len(c.grid) \in Nat
        BY <1>2, FreshPeriodsAre, FS_CardinalityType, TimetableAssumption
    <2>3. Len(c.grid) <= Cardinality(FreshPeriods)
        BY <1>4, <2>2
    <2>4. timetables' \in [Section -> {Free} \union TimetableRow] /\ timetables'[s] # Free
        BY <1>2, <1>4, <2>1 DEF Stands, TypeOK
    <2>5. /\ TypeOK' /\ HeldStay /\ EntriesShrink
          /\ \A e \in EntryIds : entries'[e] # Free =>
                /\ periods'[entries[e].period] = periods[entries[e].period]
                /\ timetables'[entries[e].section].days = timetables[entries[e].section].days
          /\ \A z \in Section : z # s => PeriodsOf(periods', z) = PeriodsOf(periods, z)
        BY <1>2, <2>1, <2>3, <2>4, GridReplaced
    <2>6. ASSUME ~overlapped PROVE GridsKept' /\ Reshapeable(s)
        <3>1. AllFitting /\ NoneMeet /\ LiveHavePeriods /\ Knows(c)
            BY <2>6 DEF TimetableInvariant, GridsKept
        <3>2. Reshapeable(s)
            BY <1>1, <3>1 DEF Knows
        <3>3. LiveHavePeriods'
            BY <2>1, <2>5, <3>1, <3>2 DEF LiveHavePeriods, Reshapeable
        <3>4. AllFitting'
            BY <2>1, <2>5, <3>1, FewerFit
        <3> QED BY <2>1, <2>5, <3>1, <3>2, <3>3, <3>4, FewerMeet DEF GridsKept
    <2>7. TimetableInvariant'
        BY <1>1, <2>1, <2>5, <2>6, CommitStep
    <2>8. ShapeStep
        BY <2>1, <2>5, <2>6 DEF ShapeStep, Reshapeable, Answer
    <2> QED BY <2>1, <2>5, <2>7, <2>8, FewerMeet DEF StepHolds
<1> QED BY <1>3, <1>4

LEMMA SetupStep ==
    ASSUME TimetableInvariant, NEW a \in Admin, Setup(a)
    PROVE  StepHolds
<1> DEFINE c == call[a]
           s == c.section
           held == HeldTimetables(s)
           fresh == CHOOSE i \in 0..1 : i \notin held \/ held = 0..1
           row == IF timetables[s] # Free THEN [timetables[s] EXCEPT !.days = c.days]
                  ELSE [status |-> "DRAFT", days |-> c.days, id |-> fresh]
<1>1. /\ c.op = "setup"
      /\ IF Cardinality(FreshPeriods) < Len(c.grid) THEN Refused(a)
         ELSE Write(a, [timetables EXCEPT ![s] =
                            IF @ # Free THEN [@ EXCEPT !.days = c.days]
                            ELSE [status |-> "DRAFT", days |-> c.days, id |-> fresh]],
                    NewGrid(s, c.grid), Cascade(entries, PeriodsOf(periods, s)))
    BY DEF Setup, NewGrid
<1>2. TypeOK /\ s \in Section /\ c.grid \in Grids /\ c.days \in SUBSET Day
    BY <1>1 DEF TimetableInvariant, RequestsTyped, Brought
<1>3. CASE Cardinality(FreshPeriods) < Len(c.grid)
    BY <1>1, <1>3, RefusedStep
<1>4. CASE ~(Cardinality(FreshPeriods) < Len(c.grid))
    <2>1. timetables \in [Section -> {Free} \union TimetableRow]
        BY <1>2 DEF TypeOK
    <2>2. /\ Answer(a) /\ homeRoom' = homeRoom /\ timetables' = [timetables EXCEPT ![s] = row]
          /\ periods' = NewGrid(s, c.grid)
          /\ entries' = Cascade(entries, PeriodsOf(periods, s))
        BY <1>1, <1>2, <1>4, <2>1 DEF Write, Answer
    <2>3. fresh \in 0..1
        <3>1. held \subseteq 0..1
            BY DEF HeldTimetables, Held, TimetableInvariant, RequestsTyped, Brought, OnTimetable
        <3>2. \E i \in 0..1 : i \notin held \/ held = 0..1
            <4>1. CASE held = 0..1
                BY <4>1
            <4>2. CASE held # 0..1
                BY <3>1, <4>2
            <4> QED BY <4>1, <4>2
        <3> HIDE DEF held
        <3> QED BY <3>2
    <2>4. row \in TimetableRow
        <3>1. CASE timetables[s] # Free
            <4>1. timetables[s] \in TimetableRow
                BY <1>2, <2>1, <3>1
            <4>2. row = [timetables[s] EXCEPT !.days = c.days]
                BY <3>1
            <4> HIDE DEF row
            <4> QED BY <1>2, <4>1, <4>2 DEF TimetableRow
        <3>2. CASE timetables[s] = Free
            <4>1. row = [status |-> "DRAFT", days |-> c.days, id |-> fresh]
                BY <3>2
            <4> HIDE DEF row, fresh
            <4> QED BY <1>2, <2>3, <4>1 DEF TimetableRow, Status
        <3> QED BY <3>1, <3>2
    <2>5. timetables[s] # Free => row.status = timetables[s].status
        <3> SUFFICES ASSUME timetables[s] # Free PROVE row.status = timetables[s].status
            OBVIOUS
        <3>1. timetables[s] \in TimetableRow
            BY <1>2, <2>1
        <3>2. row = [timetables[s] EXCEPT !.days = c.days]
            OBVIOUS
        <3> HIDE DEF row
        <3> QED BY <3>1, <3>2 DEF TimetableRow
    <2>6. timetables[s] = Free => row.status = "DRAFT"
        OBVIOUS
    <2> HIDE DEF row, fresh, held
    <2>7. /\ timetables' \in [Section -> {Free} \union TimetableRow]
          /\ timetables'[s] # Free /\ timetables'[s] = row
          /\ \A z \in Section : z # s => timetables'[z] = timetables[z]
        BY <1>2, <2>1, <2>2, <2>4, RowsAreNotFree
    <2>8. Cardinality(FreshPeriods) \in Nat /\ Len(c.grid) \in Nat
        BY <1>2, FreshPeriodsAre, FS_CardinalityType, TimetableAssumption
    <2>9. Len(c.grid) <= Cardinality(FreshPeriods)
        BY <1>4, <2>8
    <2>10. /\ TypeOK' /\ HeldStay /\ EntriesShrink
           /\ \A e \in EntryIds : entries'[e] # Free =>
                /\ periods'[entries[e].period] = periods[entries[e].period]
                /\ timetables'[entries[e].section].days = timetables[entries[e].section].days
           /\ \A z \in Section : z # s => PeriodsOf(periods', z) = PeriodsOf(periods, z)
        BY <1>2, <2>2, <2>7, <2>9, GridReplaced
    <2>11. ASSUME ~overlapped PROVE GridsKept' /\ Reshapeable(s)
        <3>1. AllFitting /\ NoneMeet /\ LiveHavePeriods /\ Knows(c)
            BY <2>11 DEF TimetableInvariant, GridsKept
        <3>2. Reshapeable(s)
            BY <1>1, <1>2, <3>1 DEF Knows, LiveHavePeriods, Reshapeable
        <3>3. row.status # "PUBLISHED"
            BY <2>5, <2>6, <3>2 DEF Reshapeable
        <3>4. LiveHavePeriods'
            BY <2>7, <2>10, <3>1, <3>3 DEF LiveHavePeriods
        <3>5. AllFitting'
            BY <2>10, <3>1, FewerFit
        <3> QED BY <2>2, <2>10, <3>1, <3>2, <3>4, <3>5, FewerMeet DEF GridsKept
    <2>12. TimetableInvariant'
        BY <1>1, <2>2, <2>10, <2>11, CommitStep
    <2>13. ShapeStep
        BY <2>2, <2>10, <2>11 DEF ShapeStep, Reshapeable, Answer
    <2> QED BY <2>2, <2>10, <2>12, <2>13, FewerMeet DEF StepHolds
<1> QED BY <1>3, <1>4

LEMMA CreatePeriodStep ==
    ASSUME TimetableInvariant, NEW a \in Admin, CreatePeriod(a)
    PROVE  StepHolds
<1> DEFINE c == call[a]
           s == c.section
           taken == \E p \in PeriodsOf(periods, s) : periods[p].index = c.new.index
<1>1. /\ c.op = "createPeriod"
      /\ IF ~Stands(c) \/ FreshPeriods = {} \/ taken
         THEN Refused(a)
         ELSE Write(a, timetables, Created(<<c.new>>, FreshPeriods, periods), entries)
    BY DEF CreatePeriod
<1>2. /\ TypeOK /\ s \in Section
      /\ c.new \in PeriodRow /\ c.new.section = s /\ c.new.startMin < c.new.endMin
    BY <1>1 DEF TimetableInvariant, RequestsTyped, Brought, OnTimetable
<1>3. CASE ~Stands(c) \/ FreshPeriods = {} \/ taken
    BY <1>1, <1>3, RefusedStep
<1>4. CASE ~(~Stands(c) \/ FreshPeriods = {} \/ taken)
    <2>1. /\ Answer(a) /\ homeRoom' = homeRoom /\ timetables' = timetables /\ entries' = entries
          /\ periods' = Created(<<c.new>>, FreshPeriods, periods)
        BY <1>1, <1>4 DEF Write, Answer
    <2>2. periods \in [PeriodIds -> {Free} \union PeriodRow]
        BY <1>2 DEF TypeOK
    <2>3. PICK N \in SUBSET FreshPeriods :
            /\ \A x, y \in N : x = y
            /\ periods' = [id \in DOMAIN periods |-> IF id \in N THEN c.new ELSE periods[id]]
        <3>1. IsFiniteSet(FreshPeriods) /\ FreshPeriods # {}
            BY <1>4, FreshPeriodsAre
        <3>2. PlacedOne(periods, periods', c.new, FreshPeriods)
            BY <2>1, <3>1, CreatedOne
        <3> QED BY <3>2 DEF PlacedOne
    <2>4. /\ periods' \in [PeriodIds -> {Free} \union PeriodRow]
          /\ \A p \in PeriodIds : periods'[p] = IF p \in N THEN c.new ELSE periods[p]
          /\ \A p \in N : p \in PeriodIds /\ periods[p] = Free /\ p \notin HeldPeriods
        BY <1>2, <2>2, <2>3, FreshPeriodsAre
    <2>5. c.new # Free /\ timetables[s] # Free /\ ~taken
        BY <1>2, <1>4, RowsAreNotFree DEF Stands
    <2>6. PeriodKeys'
        <3> SUFFICES ASSUME NEW p \in PeriodIds, periods'[p] # Free
                     PROVE  /\ timetables'[periods'[p].section] # Free
                            /\ periods'[p].startMin < periods'[p].endMin
                            /\ \A q \in PeriodIds : q # p /\ periods'[q] # Free
                                /\ periods'[q].section = periods'[p].section =>
                                    periods'[q].index # periods'[p].index
            BY DEF PeriodKeys, PeriodsOf
        <3>1. timetables'[periods'[p].section] # Free /\ periods'[p].startMin < periods'[p].endMin
            BY <1>2, <2>1, <2>4, <2>5, RowsRead
        <3>2. ASSUME NEW q \in PeriodIds, q # p, periods'[q] # Free,
                     periods'[q].section = periods'[p].section
              PROVE  periods'[q].index # periods'[p].index
            <4>1. CASE p \in N
                <5>1. q \notin N
                    BY <2>3, <3>2, <4>1
                <5> QED BY <1>2, <2>4, <2>5, <3>2, <4>1, <5>1 DEF PeriodsOf
            <4>2. CASE p \notin N /\ q \in N
                BY <1>2, <2>4, <2>5, <3>2, <4>2 DEF PeriodsOf
            <4>3. CASE p \notin N /\ q \notin N
                BY <1>2, <2>4, <3>2, <4>3 DEF TypeOK, PeriodsOf
            <4> QED BY <4>1, <4>2, <4>3
        <3> QED BY <3>1, <3>2
    <2>7. \A e \in EntryIds : entries[e] # Free => periods'[entries[e].period] = periods[entries[e].period]
        BY <1>2, <2>4, RowsRead
    <2>8. EntriesShrink
        BY <2>1 DEF EntriesShrink
    <2>9. TypeOK'
        BY <1>2, <2>1, <2>4, <2>6, <2>7, <2>8, FewerEntries, TypeIs, TypeIsNext
    <2>10. HeldStay
        BY <2>4 DEF HeldStay
    <2>11. ASSUME NEW z \in Section
           PROVE  /\ PeriodsOf(periods, z) \subseteq PeriodsOf(periods', z)
                  /\ z # s => PeriodsOf(periods', z) = PeriodsOf(periods, z)
        BY <1>2, <2>4 DEF PeriodsOf
    <2>12. ASSUME ~overlapped PROVE GridsKept' /\ Reshapeable(s)
        <3>1. AllFitting /\ NoneMeet /\ LiveHavePeriods /\ Knows(c)
            BY <2>12 DEF TimetableInvariant, GridsKept
        <3>2. LiveHavePeriods'
            BY <2>1, <2>11, <3>1 DEF LiveHavePeriods
        <3>3. AllFitting'
            BY <2>1, <2>7, <2>8, <3>1, FewerFit
        <3> QED BY <1>1, <2>1, <2>8, <3>1, <3>2, <3>3, FewerMeet DEF GridsKept, Knows
    <2>13. TimetableInvariant'
        BY <1>1, <2>1, <2>9, <2>10, <2>12, CommitStep
    <2>14. ShapeStep
        BY <2>1, <2>11, <2>12 DEF ShapeStep, Reshapeable, Answer
    <2> QED BY <2>1, <2>8, <2>13, <2>14, FewerMeet DEF StepHolds
<1> QED BY <1>3, <1>4

-----------------------------------------------------------------------------
(* Classes that are put somewhere after the conflict check *)

LEMMA MeetsBothWays ==
    ASSUME NEW x, NEW y, Meets(x, y) PROVE Meets(y, x)
BY DEF Meets, Overlaps

\* A class and another that it meets have neither the teacher nor the section in common.
Clear(x, y) == Meets(x, y) => x.teacher # y.teacher /\ x.section # y.section

\* Nor the room they are held in.
Apart(x, y) ==
    Meets(x, y) => EffectiveRoom(x) = NoRoom \/ EffectiveRoom(x) # EffectiveRoom(y)

LEMMA ClearBothWays ==
    ASSUME NEW x, NEW y PROVE (Clear(x, y) => Clear(y, x)) /\ (Apart(x, y) => Apart(y, x))
BY MeetsBothWays DEF Clear, Apart

\* The rooms are kept apart where the room checked is the one the class is held in.
LEMMA NoConflict ==
    ASSUME NEW es, NEW x, NEW room, NEW self, ~Conflict(es, x, room, self),
           NEW f \in EntryIds, f # self, es[f] # Free
    PROVE  /\ Clear(x, es[f])
           /\ room = EffectiveRoom(x) \/ EffectiveRoom(x) = NoRoom => Apart(x, es[f])
<1>1. Clear(x, es[f])
    BY DEF Conflict, TeacherClash, Clear
<1>2. room # NoRoom /\ EffectiveRoom(es[f]) = room => ~Meets(x, es[f])
    BY DEF Conflict, RoomClash
<1> QED BY <1>1, <1>2 DEF Apart

\* Where each class that was put somewhere is clear of all others, no two come to
\* meet; where it is apart from them, none to share a room.
LEMMA PutClear ==
    ASSUME NEW put, homeRoom' = homeRoom,
           \A e \in EntryIds : e \notin put /\ entries'[e] # Free => entries'[e] = entries[e]
    PROVE  /\ (\A e, f \in EntryIds :
                    e \in put /\ e # f /\ entries'[e] # Free /\ entries'[f] # Free =>
                        Clear(entries'[e], entries'[f]))
                => (NoneMeet => NoneMeet')
           /\ (\A e, f \in EntryIds :
                    e \in put /\ e # f /\ entries'[e] # Free /\ entries'[f] # Free =>
                        Apart(entries'[e], entries'[f]))
                => RoomsStep
<1>1. ASSUME \A e, f \in EntryIds :
                e \in put /\ e # f /\ entries'[e] # Free /\ entries'[f] # Free =>
                    Clear(entries'[e], entries'[f]),
             NoneMeet
      PROVE  NoneMeet'
    <2>1. ASSUME NEW e \in EntryIds, NEW f \in EntryIds, e # f, entries'[e] # Free, entries'[f] # Free
          PROVE  \/ Clear(entries'[e], entries'[f])
                 \/ entries'[e] = entries[e] /\ entries'[f] = entries[f]
        BY <1>1, <2>1, ClearBothWays
    <2> QED BY <1>1, <2>1 DEF NoneMeet, Clear
<1>2. ASSUME \A e, f \in EntryIds :
                e \in put /\ e # f /\ entries'[e] # Free /\ entries'[f] # Free =>
                    Apart(entries'[e], entries'[f])
      PROVE  RoomsStep
    <2>1. ASSUME NEW e \in EntryIds, NEW f \in EntryIds, e # f, entries'[e] # Free, entries'[f] # Free
          PROVE  \/ Apart(entries'[e], entries'[f])
                 \/ entries'[e] = entries[e] /\ entries'[f] = entries[f]
        BY <1>2, <2>1, ClearBothWays
    <2>2. ASSUME NEW e, NEW f, SharesRoom(e, f)', e \in EntryIds, f \in EntryIds
          PROVE  SharesRoom(e, f)
        BY <2>1, <2>2 DEF SharesRoom, Apart, EffectiveRoom
    <2> QED BY <2>2 DEF RoomsStep
<1> QED BY <1>1, <1>2

LEMMA RetimedAre ==
    ASSUME TypeOK, NEW p \in PeriodIds, NEW new \in PeriodRow
    PROVE  LET es == Retimed(entries, p, new)
           IN  /\ es \in [EntryIds -> {Free} \union EntryRow]
               /\ \A e \in EntryIds :
                    /\ es[e] # Free <=> entries[e] # Free
                    /\ e \notin EntriesIn(entries, p) => es[e] = entries[e]
                    /\ e \in EntriesIn(entries, p) =>
                        /\ es[e].section = entries[e].section /\ es[e].day = entries[e].day
                        /\ es[e].period = p /\ es[e].room = entries[e].room
                        /\ es[e].startMin = new.startMin /\ es[e].endMin = new.endMin
<1> DEFINE x == new.startMin
           y == new.endMin
           es == Retimed(entries, p, new)
<1>1. x \in Int /\ y \in Int
    BY DEF PeriodRow
<1>2. es = [e \in EntryIds |-> IF e \in EntriesIn(entries, p)
                THEN [entries[e] EXCEPT !.startMin = x, !.endMin = y] ELSE entries[e]]
    BY DEF Retimed
<1> HIDE DEF x, y, es
<1>3. ASSUME NEW e \in EntryIds, e \in EntriesIn(entries, p)
      PROVE  /\ es[e] \in EntryRow /\ entries[e] # Free
             /\ es[e].section = entries[e].section /\ es[e].day = entries[e].day
             /\ es[e].period = p /\ es[e].room = entries[e].room
             /\ es[e].startMin = x /\ es[e].endMin = y
    <2>1. entries[e] # Free /\ entries[e].period = p
        BY <1>3 DEF EntriesIn
    <2>2. entries[e] \in EntryRow
        BY <2>1, RowsRead
    <2>3. es[e] = [entries[e] EXCEPT !.startMin = x, !.endMin = y]
        BY <1>2, <1>3
    <2> QED BY <1>1, <2>1, <2>2, <2>3 DEF EntryRow
<1>4. ASSUME NEW e \in EntryIds, e \notin EntriesIn(entries, p) PROVE es[e] = entries[e]
    BY <1>2, <1>4
<1>5. es \in [EntryIds -> {Free} \union EntryRow]
    <2>1. \A e \in EntryIds : es[e] \in {Free} \union EntryRow
        BY <1>3, <1>4 DEF TypeOK
    <2> QED BY <1>2, <2>1
<1>6. \A e \in EntryIds : es[e] # Free <=> entries[e] # Free
    BY <1>3, <1>4, RowsAreNotFree
<1> QED BY <1>3, <1>4, <1>5, <1>6 DEF x, y, es

\* Periods at other times or of another kind keep their section and number.
LEMMA PeriodsChanged ==
    ASSUME TypeOK, NEW changed \in SUBSET PeriodIds, DOMAIN periods' = PeriodIds,
           \A q \in PeriodIds \ changed : periods'[q] = periods[q],
           \A q \in changed :
                /\ periods'[q] \in PeriodRow /\ periods'[q].startMin < periods'[q].endMin
                /\ periods[q] # Free /\ periods'[q].section = periods[q].section
                /\ periods'[q].index = periods[q].index,
           periods' = [q \in PeriodIds |-> periods'[q]],
           \A z \in Section : timetables[z] # Free => timetables'[z] # Free
    PROVE  /\ periods' \in [PeriodIds -> {Free} \union PeriodRow]
           /\ \A q \in PeriodIds :
                /\ periods'[q] # Free <=> periods[q] # Free
                /\ periods[q] # Free => /\ periods'[q].section = periods[q].section
                                        /\ periods'[q].index = periods[q].index
           /\ \A z : PeriodsOf(periods', z) = PeriodsOf(periods, z)
           /\ PeriodKeys' /\ HeldStay
<1>1. periods' \in [PeriodIds -> {Free} \union PeriodRow]
    <2>1. \A q \in PeriodIds : periods'[q] \in {Free} \union PeriodRow
        BY DEF TypeOK
    <2> QED BY <2>1
<1>2. \A q \in PeriodIds :
        /\ periods'[q] # Free <=> periods[q] # Free
        /\ periods[q] # Free => /\ periods'[q].section = periods[q].section
                                /\ periods'[q].index = periods[q].index
    BY RowsAreNotFree
<1>3. \A z : PeriodsOf(periods', z) = PeriodsOf(periods, z)
    BY <1>2 DEF PeriodsOf
<1>4. PeriodKeys'
    <2> SUFFICES ASSUME NEW q \in PeriodIds, periods'[q] # Free
                 PROVE  /\ timetables'[periods'[q].section] # Free
                        /\ periods'[q].startMin < periods'[q].endMin
                        /\ \A r \in PeriodIds : r # q /\ periods'[r] # Free
                            /\ periods'[r].section = periods'[q].section =>
                                periods'[r].index # periods'[q].index
        BY DEF PeriodKeys, PeriodsOf
    <2>1. timetables'[periods'[q].section] # Free /\ periods'[q].startMin < periods'[q].endMin
        BY <1>2, RowsRead
    <2>2. ASSUME NEW r \in PeriodIds, r # q, periods'[r] # Free,
                 periods'[r].section = periods'[q].section
          PROVE  periods'[r].index # periods'[q].index
        BY <1>2, <2>2 DEF TypeOK, PeriodsOf
    <2> QED BY <2>1, <2>2
<1> QED BY <1>1, <1>2, <1>3, <1>4 DEF HeldStay

LEMMA UpdatePeriodStep ==
    ASSUME TimetableInvariant, NEW a \in Admin, UpdatePeriod(a)
    PROVE  StepHolds
<1> DEFINE c == call[a]
           p == c.period
           moved == IF c.moves THEN Retimed(entries, p, c.new) ELSE entries
           stop == \/ periods[p] = Free
                   \/ c.moves /\ \E e \in EntriesIn(entries, p) :
                        Conflict(moved, moved[e], HeldIn(moved[e]), e)
<1>1. /\ c.op = "updatePeriod"
      /\ IF stop THEN Refused(a) ELSE Write(a, timetables, [periods EXCEPT ![p] = c.new], moved)
    BY DEF UpdatePeriod
<1>2. /\ TypeOK /\ p \in PeriodIds /\ c.new \in PeriodRow /\ c.new.startMin < c.new.endMin
      /\ Owns(c)
    BY <1>1 DEF TimetableInvariant, RequestsTyped, Brought
<1>3. CASE stop
    BY <1>1, <1>3, RefusedStep
<1>4. CASE ~stop
    <2>1. /\ Answer(a) /\ homeRoom' = homeRoom /\ timetables' = timetables
          /\ periods' = [periods EXCEPT ![p] = c.new] /\ entries' = moved
        BY <1>1, <1>4 DEF Write, Answer
    <2>2. /\ periods[p] # Free
          /\ periods[p].section = c.new.section /\ periods[p].index = c.new.index
        BY <1>1, <1>2, <1>4 DEF Owns
    <2>3. c.moves => \A e \in EntriesIn(entries, p) :
            ~Conflict(entries', entries'[e], HeldIn(entries'[e]), e)
        BY <1>4, <2>1
    <2>4. c.moves => entries' = Retimed(entries, p, c.new)
        BY <2>1
    <2>5. ~c.moves => entries' = entries
        BY <2>1
    <2> DEFINE put == IF c.moves THEN EntriesIn(entries, p) ELSE {}
    <2>6. /\ entries' \in [EntryIds -> {Free} \union EntryRow]
          /\ \A e \in EntryIds :
                /\ entries'[e] # Free <=> entries[e] # Free
                /\ e \notin put => entries'[e] = entries[e]
                /\ e \in put =>
                    /\ entries'[e].section = entries[e].section /\ entries'[e].day = entries[e].day
                    /\ entries'[e].period = p
                    /\ entries'[e].startMin = c.new.startMin /\ entries'[e].endMin = c.new.endMin
        <3>1. CASE c.moves
            <4> DEFINE new == c.new
            <4>1. entries' = Retimed(entries, p, new) /\ new \in PeriodRow
                BY <1>2, <2>4, <3>1
            <4>2. put = EntriesIn(entries, p)
                BY <3>1
            <4> HIDE DEF put, new
            <4>3. /\ entries' \in [EntryIds -> {Free} \union EntryRow]
                  /\ \A e \in EntryIds :
                        /\ entries'[e] # Free <=> entries[e] # Free
                        /\ e \notin put => entries'[e] = entries[e]
                        /\ e \in put =>
                            /\ entries'[e].section = entries[e].section
                            /\ entries'[e].day = entries[e].day /\ entries'[e].period = p
                            /\ entries'[e].startMin = new.startMin /\ entries'[e].endMin = new.endMin
                BY <1>2, <4>1, <4>2, RetimedAre
            <4> QED BY <4>3 DEF new
        <3>2. CASE ~c.moves
            BY <1>2, <2>5, <3>2 DEF TypeOK
        <3> QED BY <3>1, <3>2
    <2>7. put \subseteq EntriesIn(entries, p)
        OBVIOUS
    <2>8. \A e \in EntryIds : entries[e] # Free =>
            /\ entries'[e].section = entries[e].section /\ entries'[e].day = entries[e].day
            /\ entries'[e].period = entries[e].period
        BY <2>6, <2>7 DEF EntriesIn
    <2>10. /\ periods'[p] = c.new /\ \A q \in PeriodIds : q # p => periods'[q] = periods[q]
           /\ DOMAIN periods' = PeriodIds /\ periods' = [q \in PeriodIds |-> periods'[q]]
        BY <1>2, <2>1 DEF TypeOK
    <2>9. /\ periods' \in [PeriodIds -> {Free} \union PeriodRow]
          /\ \A q \in PeriodIds :
                /\ periods'[q] # Free <=> periods[q] # Free
                /\ periods[q] # Free => /\ periods'[q].section = periods[q].section
                                        /\ periods'[q].index = periods[q].index
          /\ \A z : PeriodsOf(periods', z) = PeriodsOf(periods, z)
          /\ PeriodKeys' /\ HeldStay
        <3> DEFINE changed == {p}
        <3>1. changed \in SUBSET PeriodIds
            BY <1>2
        <3>2. \A q \in PeriodIds \ changed : periods'[q] = periods[q]
            BY <2>10
        <3>3. \A q \in changed :
                /\ periods'[q] \in PeriodRow /\ periods'[q].startMin < periods'[q].endMin
                /\ periods[q] # Free /\ periods'[q].section = periods[q].section
                /\ periods'[q].index = periods[q].index
            BY <1>2, <2>2, <2>10
        <3> HIDE DEF changed
        <3> QED BY <1>2, <2>1, <2>10, <3>1, <3>2, <3>3, PeriodsChanged
    <2>13. EntryKeys'
        BY <1>2, <2>6, <2>8, <2>9, RowsRead DEF TypeOK, EntryKeys
    <2>14. TypeOK'
        BY <1>2, <2>1, <2>6, <2>9, <2>13, TypeIs, TypeIsNext
    <2>16. (NoneMeet => NoneMeet') /\ RoomsStep
        <3>1. ASSUME NEW e \in EntryIds, NEW f \in EntryIds, e \in put, e # f, entries'[f] # Free
              PROVE  Clear(entries'[e], entries'[f]) /\ Apart(entries'[e], entries'[f])
            <4>1. \/ HeldIn(entries'[e]) = EffectiveRoom(entries'[e])
                  \/ EffectiveRoom(entries'[e]) = NoRoom
                BY TimetableAssumption DEF HeldIn, EffectiveRoom, RoomIn
            <4> QED BY <2>3, <3>1, <4>1, NoConflict
        <3> HIDE DEF put
        <3> QED BY <2>1, <2>6, <3>1, PutClear
    <2>17. ASSUME ~overlapped PROVE GridsKept'
        <3>1. AllFitting /\ NoneMeet /\ LiveHavePeriods /\ Knows(c)
            BY <2>17 DEF TimetableInvariant, GridsKept
        <3>2. LiveHavePeriods'
            BY <2>1, <2>9, <3>1 DEF LiveHavePeriods
        <3>3. ASSUME NEW e \in EntryIds, entries'[e] # Free PROVE Fitting(entries[e])'
            <4> DEFINE q == entries[e].period
            <4>1. /\ entries[e] # Free /\ Fitting(entries[e]) /\ q \in PeriodIds
                BY <1>2, <2>6, <3>1, <3>3, RowsRead DEF AllFitting
            <4>2. /\ entries'[e].day \in timetables'[entries'[e].section].days
                  /\ entries'[e].period = q /\ periods'[q] # Free
                BY <2>1, <2>8, <2>9, <4>1 DEF Fitting
            <4>3. CASE q # p
                <5>1. e \notin put
                    BY <2>7, <4>3 DEF EntriesIn
                <5> QED BY <2>6, <2>10, <4>1, <4>2, <4>3, <5>1 DEF Fitting
            <4>4. CASE q = p
                <5>1. e \in EntriesIn(entries, p)
                    BY <4>1, <4>4 DEF EntriesIn
                <5>2. c.new.kind = "CLASS" /\ (c.moves <=> SlotOf(c.new) # SlotOf(periods[p]))
                    BY <1>1, <3>1, <5>1 DEF Knows
                <5>3. SlotOf(entries'[e]) = SlotOf(c.new)
                    <6>1. CASE c.moves
                        BY <2>6, <5>1, <6>1 DEF SlotOf
                    <6>2. CASE ~c.moves
                        BY <2>5, <4>1, <4>4, <5>2, <6>2 DEF Fitting
                    <6> QED BY <6>1, <6>2
                <5> QED BY <2>10, <4>2, <4>4, <5>2, <5>3 DEF Fitting
            <4> QED BY <4>3, <4>4
        <3>4. AllFitting'
            BY <3>3 DEF AllFitting
        <3> QED BY <2>16, <3>1, <3>2, <3>4 DEF GridsKept
    <2>18. TimetableInvariant'
        BY <1>1, <2>1, <2>9, <2>14, <2>17, CommitStep
    <2>19. ShapeStep
        BY <2>9 DEF ShapeStep
    <2> QED BY <2>16, <2>18, <2>19 DEF StepHolds
<1> QED BY <1>3, <1>4

\* A class put under one id, after the conflict check and the constraints.
LEMMA ClassPut ==
    ASSUME TimetableInvariant, NEW a \in Admin, call[a].op # "idle", Answer(a),
           homeRoom' = homeRoom, timetables' = timetables, periods' = periods,
           NEW STATE new, new \in EntryRow, NEW STATE room, NEW STATE self,
           NEW STATE put, put \subseteq EntryIds, \A x, y \in put : x = y,
           entries' = [id \in EntryIds |-> IF id \in put THEN new ELSE entries[id]],
           \A e \in EntryIds : e \notin put => e # self,
           ~Conflict(entries, new, room, self), Lands(entries, new, self),
           periods[new.period].section = new.section, ~overlapped => Fitting(new),
           ~overlapped => room = EffectiveRoom(new) \/ (Done(a, "createEntry") /\ call[a].room = NoRoom)
    PROVE  StepHolds
<1>1. TypeOK
    BY DEF TimetableInvariant
<1>2. new # Free /\ new.period \in PeriodIds
    BY RowsAreNotFree DEF EntryRow
<1>3. \A e \in EntryIds : /\ e \in put => entries'[e] = new
                          /\ e \notin put => entries'[e] = entries[e] /\ e # self
    OBVIOUS
<1>4. entries' \in [EntryIds -> {Free} \union EntryRow]
    BY <1>1 DEF TypeOK
<1>5. periods[new.period] # Free
    BY DEF Lands
<1>6. ASSUME NEW f \in EntryIds, f \notin put, entries[f] # Free
      PROVE  <<entries[f].day, entries[f].period>> # <<new.day, new.period>>
    <2>1. f # self
        BY <1>3, <1>6
    <2> QED BY <1>6, <2>1 DEF Lands, EntriesIn
<1>7. EntryKeys'
    <2> SUFFICES ASSUME NEW e \in EntryIds, entries'[e] # Free
                 PROVE  /\ periods[entries'[e].period] # Free
                        /\ periods[entries'[e].period].section = entries'[e].section
                        /\ \A f \in EntryIds \ {e} : entries'[f] # Free =>
                            <<entries'[e].day, entries'[e].period>> # <<entries'[f].day, entries'[f].period>>
        BY DEF EntryKeys
    <2>1. CASE e \in put
        BY <1>3, <1>5, <1>6, <2>1
    <2>2. CASE e \notin put
        <3>1. entries'[e] = entries[e] /\ entries[e] # Free
            BY <1>3, <2>2
        <3>2. ASSUME NEW f \in EntryIds \ {e}, entries'[f] # Free
              PROVE  <<entries'[e].day, entries'[e].period>> # <<entries'[f].day, entries'[f].period>>
            BY <1>1, <1>3, <1>6, <2>2, <3>1, <3>2 DEF TypeOK
        <3> QED BY <1>1, <3>1, <3>2, RowsRead
    <2> QED BY <2>1, <2>2
<1>8. PeriodKeys'
    BY <1>1 DEF TypeOK, PeriodKeys, PeriodsOf
<1>9. TypeOK'
    BY <1>1, <1>4, <1>7, <1>8, TypeIs, TypeIsNext
<1>10. (NoneMeet => NoneMeet') /\ (room = EffectiveRoom(new) => RoomsStep)
    <2>1. ASSUME NEW e \in EntryIds, NEW f \in EntryIds, e \in put, e # f, entries'[f] # Free
          PROVE  /\ Clear(entries'[e], entries'[f])
                 /\ room = EffectiveRoom(new) => Apart(entries'[e], entries'[f])
        <3>1. f \notin put
            BY <2>1
        <3> QED BY <1>3, <2>1, <3>1, NoConflict
    <2> QED BY <1>3, <2>1, PutClear
<1>11. ASSUME ~overlapped PROVE GridsKept'
    <2>1. AllFitting /\ NoneMeet /\ LiveHavePeriods /\ Fitting(new)
        BY <1>11 DEF TimetableInvariant, GridsKept
    <2>2. LiveHavePeriods'
        BY <2>1 DEF LiveHavePeriods, PeriodsOf
    <2>3. AllFitting'
        BY <1>3, <2>1 DEF AllFitting, Fitting
    <2> QED BY <1>10, <2>1, <2>2, <2>3 DEF GridsKept
<1>12. TimetableInvariant'
    BY <1>9, <1>11, CommitStep DEF HeldStay
<1>13. ShapeStep
    BY DEF ShapeStep
<1>14. RoomsStep
    BY <1>10 DEF RoomsStep, Answer
<1> QED BY <1>12, <1>13, <1>14 DEF StepHolds

LEMMA CreateEntryStep ==
    ASSUME TimetableInvariant, NEW a \in Admin, CreateEntry(a)
    PROVE  StepHolds
<1> DEFINE c == call[a]
           new == c.new
           go == /\ Stands(c) /\ FreshEntries # {}
                 /\ ~Conflict(entries, new, c.room, Free) /\ Lands(entries, new, Free)
<1>1. /\ c.op = "createEntry"
      /\ IF go THEN Write(a, timetables, periods, Created(<<new>>, FreshEntries, entries))
         ELSE Refused(a)
    BY DEF CreateEntry
<1>2. /\ TypeOK /\ new \in EntryRow /\ Owns(c) /\ (~overlapped => Knows(c))
    BY <1>1 DEF TimetableInvariant, RequestsTyped, Brought, OnClass
<1>3. CASE ~go
    BY <1>1, <1>3, RefusedStep
<1>4. CASE go
    <2>1. /\ Answer(a) /\ homeRoom' = homeRoom /\ timetables' = timetables /\ periods' = periods
          /\ entries' = Created(<<new>>, FreshEntries, entries)
        BY <1>1, <1>4 DEF Write, Answer
    <2>2. ~Conflict(entries, new, c.room, Free) /\ Lands(entries, new, Free) /\ FreshEntries # {}
        BY <1>4
    <2>3. DOMAIN entries = EntryIds
        BY <1>2 DEF TypeOK
    <2>4. periods[new.period].section = new.section /\ (~overlapped => Fitting(new))
        BY <1>1, <1>2, <2>2 DEF Owns, Knows, OnClass, Lands
    <2>5. c.op # "idle"
        BY <1>1
    <2>10. Done(a, "createEntry")
        BY <1>1, <2>1 DEF Done, Idle, Answer, TimetableInvariant, RequestsTyped
    <2>11. ~overlapped => c.room = EffectiveRoom(new) \/ (Done(a, "createEntry") /\ c.room = NoRoom)
        BY <1>1, <1>2, <2>10 DEF Knows
    <2> DEFINE room == c.room
    <2>12. /\ ~Conflict(entries, new, room, Free)
           /\ ~overlapped => room = EffectiveRoom(new) \/ (Done(a, "createEntry") /\ call[a].room = NoRoom)
        BY <2>2, <2>11
    <2> HIDE DEF room
    <2> HIDE DEF new
    <2>6. IsFiniteSet(FreshEntries) /\ FreshEntries \subseteq EntryIds
        BY TimetableAssumption, FS_Subset DEF FreshEntries, FreshIn
    <2>7. PlacedOne(entries, entries', new, FreshEntries)
        BY <2>1, <2>2, <2>6, CreatedOne
    <2>8. PICK put \in SUBSET FreshEntries :
            /\ \A x, y \in put : x = y
            /\ entries' = [id \in EntryIds |-> IF id \in put THEN new ELSE entries[id]]
        BY <2>3, <2>7 DEF PlacedOne
    <2>9. put \subseteq EntryIds /\ \A e \in EntryIds : e # Free
        BY <2>6, TimetableAssumption
    <2> QED BY <1>2, <2>1, <2>2, <2>4, <2>5, <2>8, <2>9, <2>12, ClassPut
<1> QED BY <1>3, <1>4

LEMMA UpdateEntryStep ==
    ASSUME TimetableInvariant, NEW a \in Admin, UpdateEntry(a)
    PROVE  StepHolds
<1> DEFINE c == call[a]
           new == c.new
           e == c.entry
           go == /\ entries[e] # Free /\ ~Conflict(entries, new, c.room, e) /\ Lands(entries, new, e)
<1>1. /\ c.op = "updateEntry"
      /\ IF go THEN Write(a, timetables, periods, [entries EXCEPT ![e] = new]) ELSE Refused(a)
    BY DEF UpdateEntry
<1>2. /\ TypeOK /\ new \in EntryRow /\ e \in EntryIds /\ Owns(c) /\ (~overlapped => Knows(c))
    BY <1>1 DEF TimetableInvariant, RequestsTyped, Brought, OnClass
<1>3. CASE ~go
    BY <1>1, <1>3, RefusedStep
<1>4. CASE go
    <2>1. /\ Answer(a) /\ homeRoom' = homeRoom /\ timetables' = timetables /\ periods' = periods
          /\ entries' = [entries EXCEPT ![e] = new]
        BY <1>1, <1>4 DEF Write, Answer
    <2>2. ~Conflict(entries, new, c.room, e) /\ Lands(entries, new, e)
        BY <1>4
    <2>3. periods[new.period].section = new.section /\ (~overlapped => Fitting(new))
        BY <1>1, <1>2, <2>2 DEF Owns, Knows, OnClass, Lands
    <2>4. c.op # "idle"
        BY <1>1
    <2> DEFINE room == c.room
    <2>7. ~Conflict(entries, new, room, e) /\ (~overlapped => room = EffectiveRoom(new))
        BY <1>1, <1>2, <2>2 DEF Knows
    <2> HIDE DEF new, e, room
    <2> DEFINE put == {e}
    <2>5. entries' = [id \in EntryIds |-> IF id \in put THEN new ELSE entries[id]]
        BY <1>2, <2>1 DEF TypeOK
    <2>6. put \subseteq EntryIds /\ (\A x, y \in put : x = y)
          /\ \A f \in EntryIds : f \notin put => f # e
        BY <1>2
    <2> HIDE DEF put
    <2> QED BY <1>2, <2>1, <2>2, <2>3, <2>4, <2>5, <2>6, <2>7, ClassPut
<1> QED BY <1>3, <1>4

-----------------------------------------------------------------------------
(* The classes of a whole grid replaced at once *)

\* New classes under ids of their own; of the others those of other sections stay.
ReplacedBy(es, s, classes, put) ==
    /\ es \in [EntryIds -> {Free} \union EntryRow]
    /\ \A e \in put : e \in EntryIds /\ es[e] \in classes
    /\ \A e, f \in put : es[e] = es[f] => e = f
    /\ \A e \in EntryIds : e \notin put /\ es[e] # Free =>
        es[e] = entries[e] /\ e \in Elsewhere(s)

LEMMA ReplacedIs ==
    ASSUME TypeOK, NEW STATE s, NEW STATE classes, classes \subseteq EntryRow,
           IsFiniteSet(classes), Fits(s, classes)
    PROVE  \E put : ReplacedBy(Replaced(s, classes), s, classes, put)
<1> DEFINE rows == SetToSeq(classes)
           n == Cardinality(classes)
           bare == Bare(s)
           fresh == FreshIn(bare)
           es == Replaced(s, classes)
<1>1. /\ n \in Nat /\ rows \in [1..n -> classes]
      /\ \A i, j \in 1..n : rows[i] = rows[j] => i = j
    BY SeqOfSet
<1>2. /\ bare \in [EntryIds -> {Free} \union EntryRow]
      /\ \A e \in EntryIds : bare[e] # Free => bare[e] = entries[e] /\ e \notin EntriesOf(entries, s)
    BY WithoutEntriesIs DEF Bare
<1>3. fresh \subseteq EntryIds /\ IsFiniteSet(fresh)
    BY TimetableAssumption, FS_Subset DEF FreshIn
<1>4. Cardinality(fresh) \in Nat /\ n <= Cardinality(fresh)
    BY <1>1, <1>3, FS_CardinalityType DEF Fits
<1>5. es = Created(rows, fresh, bare)
    BY DEF Replaced
<1> HIDE DEF rows, n, bare, fresh, es
<1>6. Placed(bare, es, rows, fresh)
    BY <1>1, <1>3, <1>4, <1>5, CreatedRows
<1>7. PICK put \in SUBSET fresh : \E g \in [put -> DOMAIN rows] :
        /\ \A x, y \in put : g[x] = g[y] => x = y
        /\ es = [id \in DOMAIN bare |-> IF id \in put THEN rows[g[id]] ELSE bare[id]]
    BY <1>6 DEF Placed
<1>8. PICK g \in [put -> 1..n] :
        /\ \A x, y \in put : g[x] = g[y] => x = y
        /\ es = [id \in EntryIds |-> IF id \in put THEN rows[g[id]] ELSE bare[id]]
    BY <1>1, <1>2, <1>7
<1>9. \A e \in put : e \in EntryIds /\ es[e] = rows[g[e]] /\ es[e] \in classes
    BY <1>1, <1>3, <1>8
<1>10. \A e, f \in put : es[e] = es[f] => e = f
    BY <1>1, <1>8, <1>9
<1>11. \A e \in EntryIds : e \notin put => es[e] = bare[e]
    BY <1>8
<1>12. es \in [EntryIds -> {Free} \union EntryRow]
    <2>1. \A e \in EntryIds : es[e] \in {Free} \union EntryRow
        BY <1>2, <1>9, <1>11
    <2> QED BY <1>8, <2>1
<1>13. \A e \in EntryIds : e \notin put /\ es[e] # Free => es[e] = entries[e] /\ e \in Elsewhere(s)
    BY <1>2, <1>11 DEF EntriesOf, Elsewhere
<1>14. ReplacedBy(es, s, classes, put)
    BY <1>9, <1>10, <1>12, <1>13 DEF ReplacedBy
<1> QED BY <1>14 DEF es

\* They stand in the section's own periods, one in a cell, and meet no one's teacher.
LEMMA GridFilled ==
    ASSUME TypeOK, NEW STATE s, NEW STATE classes, classes \subseteq EntryRow,
           NEW put, ReplacedBy(entries', s, classes, put),
           \A x \in classes : /\ x.section = s /\ periods[x.period] # Free
                              /\ periods[x.period].section = s,
           \A q \in PeriodIds : periods[q] # Free =>
                periods'[q] # Free /\ periods'[q].section = periods[q].section,
           \A x, y \in classes : x # y =>
                <<x.day, x.period>> # <<y.day, y.period>> /\ ~Meets(x, y)
    PROVE  /\ EntryKeys'
           /\ NoneMeet /\ (\A x \in classes : ~TeacherClash(entries, x, Elsewhere(s))) => NoneMeet'
<1>1. \A e \in put : e \in EntryIds /\ entries'[e] \in classes
    BY DEF ReplacedBy
<1>2. \A e, f \in put : e # f => entries'[e] # entries'[f]
    BY DEF ReplacedBy
<1>3. \A e \in EntryIds : e \notin put /\ entries'[e] # Free =>
        entries'[e] = entries[e] /\ entries[e] # Free /\ entries[e].section # s
    BY DEF ReplacedBy, Elsewhere
<1>4. \A x \in classes : x.period \in PeriodIds
    BY DEF EntryRow
<1>5. ASSUME NEW e \in EntryIds, e \notin put, entries'[e] # Free
      PROVE  /\ entries[e].period \in PeriodIds /\ periods[entries[e].period] # Free
             /\ periods[entries[e].period].section = entries[e].section
    BY <1>3, <1>5, RowsRead
<1>6. EntryKeys'
    <2> SUFFICES ASSUME NEW e \in EntryIds, entries'[e] # Free
                 PROVE  /\ periods'[entries'[e].period] # Free
                        /\ periods'[entries'[e].period].section = entries'[e].section
                        /\ \A f \in EntryIds \ {e} : entries'[f] # Free =>
                            <<entries'[e].day, entries'[e].period>> # <<entries'[f].day, entries'[f].period>>
        BY DEF EntryKeys
    <2>1. periods'[entries'[e].period] # Free /\ periods'[entries'[e].period].section = entries'[e].section
        BY <1>1, <1>3, <1>4, <1>5
    <2>2. ASSUME NEW f \in EntryIds, f # e, entries'[f] # Free,
                 entries'[e].day = entries'[f].day, entries'[e].period = entries'[f].period
          PROVE  FALSE
        <3>1. CASE e \in put /\ f \in put
            BY <1>1, <1>2, <2>2, <3>1
        <3>2. CASE e \in put /\ f \notin put
            BY <1>1, <1>3, <1>5, <2>2, <3>2
        <3>3. CASE e \notin put /\ f \in put
            BY <1>1, <1>3, <1>5, <2>2, <3>3
        <3>4. CASE e \notin put /\ f \notin put
            BY <1>3, <2>2, <3>4 DEF TypeOK
        <3> QED BY <3>1, <3>2, <3>3, <3>4
    <2> QED BY <2>1, <2>2
<1>7. ASSUME NoneMeet, \A x \in classes : ~TeacherClash(entries, x, Elsewhere(s))
      PROVE  NoneMeet'
    <2> SUFFICES ASSUME NEW e \in EntryIds, NEW f \in EntryIds, e # f,
                        entries'[e] # Free, entries'[f] # Free, Meets(entries'[e], entries'[f])
                 PROVE  /\ entries'[e].teacher # entries'[f].teacher
                        /\ entries'[e].section # entries'[f].section
        BY DEF NoneMeet
    <2>1. ASSUME NEW g \in EntryIds, NEW h \in EntryIds, g \in put, h \notin put, entries'[h] # Free,
                 Meets(entries'[g], entries'[h])
          PROVE  /\ entries'[g].teacher # entries'[h].teacher
                 /\ entries'[g].section # entries'[h].section
        <3>1. entries'[g] \in classes /\ entries'[h] = entries[h] /\ h \in Elsewhere(s)
            BY <1>1, <2>1 DEF ReplacedBy
        <3>2. ~(entries[h].teacher = entries'[g].teacher /\ Meets(entries'[g], entries[h]))
            BY <1>7, <3>1 DEF TeacherClash
        <3> QED BY <1>3, <2>1, <3>1, <3>2
    <2>2. CASE e \in put /\ f \in put
        BY <1>1, <1>2, <2>2
    <2>3. CASE e \in put /\ f \notin put
        BY <2>1, <2>3
    <2>4. CASE e \notin put /\ f \in put
        <3>1. Meets(entries'[f], entries'[e])
            BY MeetsBothWays
        <3> QED BY <2>1, <2>4, <3>1
    <2>5. CASE e \notin put /\ f \notin put
        BY <1>3, <1>7, <2>5 DEF NoneMeet
    <2> QED BY <2>2, <2>3, <2>4, <2>5
<1> QED BY <1>6, <1>7

LEMMA BareIs ==
    ASSUME TypeOK, NEW STATE s, NEW f \in Elsewhere(s)
    PROVE  /\ f \in EntryIds /\ entries[f] # Free /\ Bare(s)[f] = entries[f]
           /\ f # Free
BY TimetableAssumption DEF Bare, WithoutEntries, EntriesOf, Elsewhere

LEMMA ApplyTemplateStep ==
    ASSUME TimetableInvariant, NEW a \in Admin, ApplyTemplate(a)
    PROVE  StepHolds
<1> DEFINE c == call[a]
           s == c.section
           classes == c.classes
           clear == Bare(s)
           clash == \E x \in classes :
                        Conflict(clear, x, RoomIn(c.home, x.room), Free)
                            \/ \E y \in classes \ {x} : Meets(x, y)
           stop == \/ ~Stands(c) \/ clash \/ ~Fits(s, classes)
                   \/ \E x \in classes : periods[x.period] = Free
<1>1. /\ c.op = "applyTemplate"
      /\ IF stop THEN Refused(a) ELSE Write(a, timetables, periods, Replaced(s, classes))
    BY DEF ApplyTemplate
<1>2. TypeOK /\ Brought(c) /\ Owns(c) /\ (~overlapped => Knows(c))
    BY DEF TimetableInvariant, RequestsTyped
<1>3. CASE stop
    BY <1>1, <1>3, RefusedStep
<1>4. CASE ~stop
    <2>1. /\ Answer(a) /\ homeRoom' = homeRoom /\ timetables' = timetables /\ periods' = periods
          /\ entries' = Replaced(s, classes)
        BY <1>1, <1>4 DEF Write, Answer
    <2>2. /\ IsFiniteSet(classes) /\ classes \subseteq EntryRow /\ Fits(s, classes)
          /\ \A x \in classes : /\ x.section = s /\ x.startMin < x.endMin /\ periods[x.period] # Free
                                /\ periods[x.period].section = s
        BY <1>1, <1>2, <1>4 DEF Brought, Owns, OnClasses
    <2>3. \A x \in classes : ~Conflict(clear, x, RoomIn(c.home, x.room), Free)
        BY <1>4
    <2>4. \A x, y \in classes : x # y => ~Meets(x, y)
        BY <1>4
    <2>5. \A x, y \in classes : x.period = y.period => SlotOf(x) = SlotOf(y)
        BY <1>1, <1>2 DEF Brought
    <2>6. ~overlapped => c.home = homeRoom[s] /\ \A x \in classes : Fitting(x)
        BY <1>1, <1>2 DEF Knows
    <2>7. c.op # "idle"
        BY <1>1
    <2> HIDE DEF classes, s
    <2>8. \A x, y \in classes : x # y => <<x.day, x.period>> # <<y.day, y.period>>
        <3> SUFFICES ASSUME NEW x \in classes, NEW y \in classes, x # y,
                            x.day = y.day, x.period = y.period
                     PROVE  FALSE
            OBVIOUS
        <3>1. x.startMin = y.startMin /\ x.endMin = y.endMin
            BY <2>5 DEF SlotOf
        <3>2. x.startMin \in Int /\ x.endMin \in Int /\ x.startMin < x.endMin
            BY <2>2 DEF EntryRow
        <3>3. Meets(x, y)
            BY <3>1, <3>2 DEF Meets, Overlaps
        <3> QED BY <2>4, <3>3
    <2>9. ASSUME NEW x \in classes, NEW f \in Elsewhere(s)
          PROVE  Clear(x, entries[f]) /\ (~overlapped => Apart(x, entries[f]))
        <3>1. ~overlapped => RoomIn(c.home, x.room) = EffectiveRoom(x)
            BY <2>2, <2>6 DEF EffectiveRoom
        <3> QED BY <1>2, <2>3, <3>1, BareIs, NoConflict
    <2>10. \A x \in classes : ~TeacherClash(entries, x, Elsewhere(s))
        BY <2>9 DEF TeacherClash, Clear
    <2>11. PICK put : ReplacedBy(entries', s, classes, put)
        BY <1>2, <2>1, <2>2, ReplacedIs
    <2>12. EntryKeys' /\ (NoneMeet => NoneMeet')
        BY <1>2, <2>1, <2>2, <2>4, <2>8, <2>10, <2>11, GridFilled
    <2>13. PeriodKeys'
        BY <1>2, <2>1 DEF TypeOK, PeriodKeys, PeriodsOf
    <2>14. TypeOK'
        BY <1>2, <2>1, <2>11, <2>12, <2>13, TypeIs, TypeIsNext DEF ReplacedBy
    <2>15. ASSUME ~overlapped PROVE RoomsStep
        <3>1. ASSUME NEW e \in EntryIds, NEW f \in EntryIds, e \in put, e # f, entries'[f] # Free
              PROVE  Apart(entries'[e], entries'[f])
            <4>1. entries'[e] \in classes
                BY <2>11, <3>1 DEF ReplacedBy
            <4>2. CASE f \in put
                <5>1. entries'[f] \in classes /\ entries'[f] # entries'[e]
                    BY <2>11, <3>1, <4>2 DEF ReplacedBy
                <5> QED BY <2>4, <4>1, <5>1 DEF Apart
            <4>3. CASE f \notin put
                <5>1. f \in Elsewhere(s) /\ entries'[f] = entries[f]
                    BY <2>11, <3>1, <4>3 DEF ReplacedBy
                <5> QED BY <2>9, <2>15, <4>1, <5>1
            <4> QED BY <4>2, <4>3
        <3>2. \A e \in EntryIds : e \notin put /\ entries'[e] # Free => entries'[e] = entries[e]
            BY <2>11 DEF ReplacedBy
        <3> QED BY <2>1, <3>1, <3>2, PutClear
    <2>16. ASSUME ~overlapped PROVE GridsKept'
        <3>1. AllFitting /\ NoneMeet /\ LiveHavePeriods
            BY <2>16 DEF TimetableInvariant, GridsKept
        <3>2. LiveHavePeriods'
            BY <2>1, <3>1 DEF LiveHavePeriods, PeriodsOf
        <3>3. AllFitting'
            <4>1. ASSUME NEW e \in EntryIds, entries'[e] # Free PROVE Fitting(entries'[e])
                BY <2>6, <2>11, <2>16, <3>1, <4>1 DEF AllFitting, ReplacedBy
            <4> QED BY <2>1, <4>1 DEF AllFitting, Fitting
        <3> QED BY <2>12, <3>1, <3>2, <3>3 DEF GridsKept
    <2>17. TimetableInvariant'
        BY <2>1, <2>7, <2>14, <2>16, CommitStep DEF HeldStay
    <2>18. ShapeStep
        BY <2>1 DEF ShapeStep
    <2>19. RoomsStep
        BY <2>1, <2>15 DEF RoomsStep, Answer
    <2> QED BY <2>17, <2>18, <2>19 DEF StepHolds
<1> QED BY <1>3, <1>4

LEMMA PublishBatchStep ==
    ASSUME TimetableInvariant, NEW a \in Admin, PublishBatch(a)
    PROVE  StepHolds
<1> DEFINE c == call[a]
           s == c.section
           changed == DOMAIN c.retimes
           classes == c.classes
           go == Stands(c) /\ Fits(s, classes) /\ \A q \in c.periods : periods[q] # Free
<1>1. /\ c.op = "publishBatch"
      /\ IF go THEN Write(a, Published(s), Reshaped(periods, c.retimes), Replaced(s, classes))
         ELSE Refused(a)
    BY DEF PublishBatch
<1>2. TypeOK /\ Brought(c) /\ Owns(c) /\ (~overlapped => Knows(c))
    BY DEF TimetableInvariant, RequestsTyped
<1>3. CASE ~go
    BY <1>1, <1>3, RefusedStep
<1>4. CASE go
    <2>1. /\ Answer(a) /\ homeRoom' = homeRoom /\ timetables' = Published(s)
          /\ periods' = Reshaped(periods, c.retimes) /\ entries' = Replaced(s, classes)
        BY <1>1, <1>4 DEF Write, Answer
    <2>2. /\ IsFiniteSet(classes) /\ classes \subseteq EntryRow /\ Fits(s, classes)
          /\ \A x \in classes : /\ x.section = s /\ periods[x.period] # Free
                                /\ periods[x.period].section = s
        BY <1>1, <1>2, <1>4 DEF Brought, Owns, OnClasses
    <2>3. changed \subseteq PeriodIds /\ \A p \in changed :
            /\ c.retimes[p] \in PeriodRow /\ c.retimes[p].startMin < c.retimes[p].endMin
            /\ periods[p] # Free
            /\ periods[p].section = c.retimes[p].section /\ periods[p].index = c.retimes[p].index
        BY <1>1, <1>2, <1>4 DEF Brought, Owns
    <2>18. /\ DOMAIN periods' = PeriodIds /\ periods' = [q \in PeriodIds |-> periods'[q]]
           /\ \A q \in PeriodIds :
                periods'[q] = IF q \in changed THEN c.retimes[q] ELSE periods[q]
        BY <2>1 DEF Reshaped
    <2>4. s \in Section /\ timetables[s] # Free
        BY <1>1, <1>2, <1>4 DEF Brought, OnTimetable, Stands
    <2>5. \A x, y \in classes : x # y => <<x.day, x.period>> # <<y.day, y.period>> /\ ~Meets(x, y)
        BY <1>1, <1>2 DEF Brought
    <2>6. ~overlapped => /\ PeriodsOf(periods, s) # {}
                         /\ \A p \in changed : c.retimes[p].section = s
                         /\ \A x \in classes : WillFit(c, x) /\ ~TeacherClash(entries, x, Elsewhere(s))
        BY <1>1, <1>2 DEF Knows
    <2>7. c.op # "idle"
        BY <1>1
    <2>8. /\ timetables' \in [Section -> {Free} \union TimetableRow]
          /\ \A z \in Section : /\ timetables'[z] # Free <=> timetables[z] # Free
                                /\ timetables[z] # Free => timetables'[z].days = timetables[z].days
                                /\ z # s => timetables'[z] = timetables[z]
        BY <1>2, <2>1, <2>4, StatusIs DEF Status, Published
    <2>9. /\ periods' \in [PeriodIds -> {Free} \union PeriodRow]
          /\ \A q \in PeriodIds :
                /\ periods'[q] # Free <=> periods[q] # Free
                /\ periods[q] # Free => /\ periods'[q].section = periods[q].section
                                        /\ periods'[q].index = periods[q].index
          /\ \A z : PeriodsOf(periods', z) = PeriodsOf(periods, z)
          /\ PeriodKeys' /\ HeldStay
        <3>1. \A q \in PeriodIds \ changed : periods'[q] = periods[q]
            BY <2>18
        <3>2. \A q \in changed :
                /\ periods'[q] \in PeriodRow /\ periods'[q].startMin < periods'[q].endMin
                /\ periods[q] # Free /\ periods'[q].section = periods[q].section
                /\ periods'[q].index = periods[q].index
            BY <2>3, <2>18
        <3> HIDE DEF changed
        <3> QED BY <1>2, <2>3, <2>8, <2>18, <3>1, <3>2, PeriodsChanged
    <2>10. Done(a, "publishBatch")
        BY <1>1, <2>1 DEF Done, Answer, Idle, TimetableInvariant, RequestsTyped
    <2> HIDE DEF classes, s, changed
    <2>11. PICK put : ReplacedBy(entries', s, classes, put)
        BY <1>2, <2>1, <2>2, ReplacedIs
    <2>12. /\ EntryKeys'
           /\ NoneMeet /\ (\A x \in classes : ~TeacherClash(entries, x, Elsewhere(s))) => NoneMeet'
        BY <1>2, <2>2, <2>5, <2>9, <2>11, GridFilled
    <2>13. TypeOK'
        BY <1>2, <2>1, <2>8, <2>9, <2>11, <2>12, TypeIs, TypeIsNext DEF ReplacedBy
    <2>14. ASSUME ~overlapped PROVE GridsKept'
        <3>1. AllFitting /\ NoneMeet /\ LiveHavePeriods
            BY <2>14 DEF TimetableInvariant, GridsKept
        <3>2. LiveHavePeriods'
            <4> QED BY <2>6, <2>8, <2>9, <2>14, <3>1 DEF LiveHavePeriods
        <3>3. ASSUME NEW e \in EntryIds, entries'[e] # Free PROVE Fitting(entries[e])'
            <4>1. CASE e \in put
                <5> DEFINE x == entries'[e]
                <5>1. x \in classes /\ x \in EntryRow /\ x.period \in PeriodIds /\ x.section = s
                    BY <2>2, <2>11, <4>1 DEF ReplacedBy, EntryRow
                <5>2. WillFit(c, x)
                    BY <2>6, <2>14, <5>1
                <5>3. periods'[x.period] = Reshaped(periods, c.retimes)[x.period]
                    BY <2>1
                <5>4. x.day \in timetables'[x.section].days
                    BY <2>4, <2>8, <5>1, <5>2 DEF WillFit
                <5>5. /\ SlotOf(x) = SlotOf(periods'[x.period]) /\ periods'[x.period].kind = "CLASS"
                      /\ periods'[x.period] # Free
                    BY <2>9, <5>1, <5>2, <5>3 DEF WillFit
                <5> HIDE DEF x
                <5>6. /\ periods'[x.period] # Free
                      /\ SlotOf(x) = SlotOf(periods'[x.period]) /\ periods'[x.period].kind = "CLASS"
                      /\ x.day \in timetables'[x.section].days
                    BY <5>4, <5>5
                <5> QED BY <5>6 DEF Fitting, x
            <4>2. CASE e \notin put
                <5>1. /\ entries'[e] = entries[e] /\ entries[e] # Free /\ entries[e].section # s
                    BY <2>11, <3>3, <4>2 DEF ReplacedBy, Elsewhere
                <5>2. /\ Fitting(entries[e]) /\ entries[e].period \in PeriodIds
                      /\ entries[e].section \in Section
                      /\ periods[entries[e].period].section = entries[e].section
                    BY <1>2, <3>1, <5>1, RowsRead DEF AllFitting
                <5>3. entries[e].period \notin changed
                    BY <2>3, <2>6, <2>14, <5>1, <5>2
                <5>4. periods'[entries[e].period] = periods[entries[e].period]
                    BY <2>18, <5>2, <5>3
                <5>5. timetables'[entries[e].section] = timetables[entries[e].section]
                    BY <2>8, <5>1, <5>2
                <5> QED BY <5>1, <5>2, <5>4, <5>5 DEF Fitting
            <4> QED BY <4>1, <4>2
        <3>4. AllFitting'
            BY <3>3 DEF AllFitting
        <3> QED BY <2>6, <2>12, <2>14, <3>1, <3>2, <3>4 DEF GridsKept
    <2>15. TimetableInvariant'
        BY <2>1, <2>7, <2>9, <2>13, <2>14, CommitStep
    <2>16. RoomsStep
        BY <2>10 DEF RoomsStep
    <2>17. ShapeStep
        BY <2>9 DEF ShapeStep
    <2> QED BY <2>15, <2>16, <2>17 DEF StepHolds
<1> QED BY <1>3, <1>4

-----------------------------------------------------------------------------
(* Every step *)

LEMMA InitHolds ==
    ASSUME Init PROVE TimetableInvariant
<1>1. /\ \A s \in Section : timetables[s] = Free
      /\ \A p \in PeriodIds : periods[p] = Free
      /\ \A e \in EntryIds : entries[e] = Free
      /\ \A a \in Admin : call[a] = Idle
    BY DEF Init
<1>2. TypeOK
    BY <1>1 DEF Init, TypeOK
<1>3. RequestsTyped
    BY <1>1, IdleIsFree DEF Init, RequestsTyped
<1>4. Alone /\ GridsKept /\ \A a \in Admin : Knows(call[a])
    BY <1>1, IdleIsFree DEF Alone, GridsKept, AllFitting, NoneMeet, LiveHavePeriods
<1> QED BY <1>2, <1>3, <1>4 DEF TimetableInvariant

LEMMA NextHolds ==
    ASSUME TimetableInvariant, Next PROVE StepHolds
<1>1. PICK a \in Admin : Asked(a) \/ Committed(a)
    BY DEF Next
<1>2. CASE Asked(a)
    <2>1. call[a] = Idle
        BY <1>2 DEF Asked
    <2>2. CASE AskSetup(a)
        BY <2>1, <2>2, AskSetupStep
    <2>3. CASE AskReplacePeriods(a)
        BY <2>1, <2>3, AskReplacePeriodsStep
    <2>4. CASE AskCreatePeriod(a)
        BY <2>1, <2>4, AskCreatePeriodStep
    <2>5. CASE AskUpdatePeriod(a)
        BY <2>1, <2>5, AskUpdatePeriodStep
    <2>6. CASE AskDeletePeriod(a)
        BY <2>1, <2>6, AskDeletePeriodStep
    <2>7. CASE AskCreateEntry(a)
        BY <2>1, <2>7, AskCreateEntryStep
    <2>8. CASE AskUpdateEntry(a)
        BY <2>1, <2>8, AskUpdateEntryStep
    <2>9. CASE DeleteEntry(a)
        BY <2>1, <2>9, DeleteEntryStep
    <2>10. CASE AskApplyTemplate(a)
        BY <2>1, <2>10, AskApplyTemplateStep
    <2>11. CASE AskPublish(a)
        BY <2>1, <2>11, AskPublishStep
    <2>12. CASE AskPublishBatch(a)
        BY <2>1, <2>12, AskPublishBatchStep
    <2>13. CASE Archive(a)
        BY <2>1, <2>13, ArchiveStep
    <2>14. CASE AskDeleteTimetable(a)
        BY <2>1, <2>14, AskDeleteTimetableStep
    <2>15. CASE SetRoom(a)
        BY <2>1, <2>15, SetRoomStep
    <2> QED BY <1>2, <2>2, <2>3, <2>4, <2>5, <2>6, <2>7, <2>8, <2>9, <2>10, <2>11, <2>12,
            <2>13, <2>14, <2>15 DEF Asked
<1>3. CASE Committed(a)
    <2>1. CASE Setup(a)
        BY <2>1, SetupStep
    <2>2. CASE ReplacePeriods(a)
        BY <2>2, ReplacePeriodsStep
    <2>3. CASE CreatePeriod(a)
        BY <2>3, CreatePeriodStep
    <2>4. CASE UpdatePeriod(a)
        BY <2>4, UpdatePeriodStep
    <2>5. CASE DeletePeriod(a)
        BY <2>5, DeletePeriodStep
    <2>6. CASE CreateEntry(a)
        BY <2>6, CreateEntryStep
    <2>7. CASE UpdateEntry(a)
        BY <2>7, UpdateEntryStep
    <2>8. CASE ApplyTemplate(a)
        BY <2>8, ApplyTemplateStep
    <2>9. CASE Publish(a)
        BY <2>9, PublishStep
    <2>10. CASE PublishBatch(a)
        BY <2>10, PublishBatchStep
    <2>11. CASE DeleteTimetable(a)
        BY <2>11, DeleteTimetableStep
    <2> QED BY <1>3, <2>1, <2>2, <2>3, <2>4, <2>5, <2>6, <2>7, <2>8, <2>9, <2>10, <2>11
            DEF Committed
<1> QED BY <1>1, <1>2, <1>3

LEMMA StutterHolds ==
    ASSUME TimetableInvariant, UNCHANGED vars PROVE TimetableInvariant'
<1>1. /\ timetables' = timetables /\ periods' = periods /\ entries' = entries
      /\ call' = call /\ overlapped' = overlapped /\ homeRoom' = homeRoom
    BY DEF vars
<1>2. TypeOK'
    BY <1>1 DEF TimetableInvariant, TypeOK, PeriodsOf
<1>3. RequestsTyped'
    BY <1>1 DEF TimetableInvariant, RequestsTyped, Owns
<1>4. ~overlapped => Alone' /\ GridsKept'
    BY <1>1 DEF TimetableInvariant, Alone, GridsKept, AllFitting, Fitting, NoneMeet,
        LiveHavePeriods, PeriodsOf
<1>5. ~overlapped => \A b \in Admin : Knows(call[b])'
    BY <1>1 DEF TimetableInvariant, Knows, PeriodsOf, Reshapeable, EntriesIn, Fitting, WillFit,
        TeacherClash, Elsewhere, EffectiveRoom
<1> QED BY <1>1, <1>2, <1>3, <1>4, <1>5 DEF TimetableInvariant

\* In every grid an administrator's requests reach, what a request in flight holds
\* is still its own section's, and unless two have overlapped, it finds the grids
\* as it read them: the inductive invariant of the timetables (timetable.service.ts).
THEOREM TimetableIsInvariant == Spec => []TimetableInvariant
<1>1. Init => TimetableInvariant
    BY InitHolds
<1>2. TimetableInvariant /\ [Next]_vars => TimetableInvariant'
    BY NextHolds, StutterHolds DEF StepHolds
<1> QED BY <1>1, <1>2, PTL DEF Spec

\* Every edit of a grid or a class holds back where it must: two classes come to be
\* held in one room only by the publication of a whole grid, by a class created with a
\* blank room or by another room for a section, and a live grid keeps its periods,
\* whatever the number of sections, administrators and periods (timetable.service.ts,
\* findConflicts, createEntry and assertDraft; sections.service.ts, update).
THEOREM EditsHoldBackHolds == Spec => EditsHoldBack
<1>1. TimetableInvariant /\ [Next]_vars => [RoomsStep /\ ShapeStep]_vars
    BY NextHolds DEF StepHolds
<1> QED BY <1>1, TimetableIsInvariant, PTL DEF Spec, EditsHoldBack

-----------------------------------------------------------------------------
(* What is read off the grids *)

LEMMA InvariantStands ==
    ASSUME TimetableInvariant PROVE TypeOK /\ ClassesMatchGrid /\ OneClassAtATime
BY DEF TimetableInvariant, GridsKept, AllFitting, Fitting, NoneMeet, ClassesMatchGrid, OneClassAtATime

\* Two classes of a teacher are never in rows of the same times on one day.
LEMMA ViewsHold ==
    ASSUME TimetableInvariant PROVE ViewsAgree
<1> SUFFICES ASSUME ~overlapped, NEW s \in Section, NEW e \in ClassTimetable(s)
             PROVE  /\ e \in TeacherTimetable(entries[e].teacher)
                    /\ \A f \in TeacherTimetable(entries[e].teacher) \ {e} :
                        <<entries[e].day, RowOf(e)>> # <<entries[f].day, RowOf(f)>>
    BY DEF ViewsAgree
<1>1. TypeOK /\ AllFitting /\ NoneMeet
    BY DEF TimetableInvariant, GridsKept
<1>2. e \in EntryIds /\ entries[e] # Free /\ entries[e].section = s /\ Live(s)
    BY DEF ClassTimetable, EntriesOf
<1>3. e \in TeacherTimetable(entries[e].teacher)
    BY <1>2 DEF TeacherTimetable
<1>4. ASSUME NEW f \in TeacherTimetable(entries[e].teacher) \ {e},
             entries[e].day = entries[f].day, RowOf(e) = RowOf(f)
      PROVE  FALSE
    <2>1. f \in EntryIds /\ entries[f] # Free /\ entries[f].teacher = entries[e].teacher
        BY DEF TeacherTimetable
    <2>2. SlotOf(entries[e]) = SlotOf(entries[f])
        BY <1>1, <1>2, <1>4, <2>1 DEF AllFitting, Fitting, RowOf
    <2>3. SlotOf(entries[e]) = SlotOf(periods[entries[e].period])
        BY <1>1, <1>2 DEF AllFitting, Fitting
    <2>4. /\ entries[e].startMin = entries[f].startMin /\ entries[e].endMin = entries[f].endMin
          /\ entries[e].startMin = periods[entries[e].period].startMin
          /\ entries[e].endMin = periods[entries[e].period].endMin
        BY <2>2, <2>3 DEF SlotOf
    <2>5. /\ entries[e].startMin \in Int /\ entries[e].endMin \in Int
          /\ entries[e].startMin < entries[e].endMin
        BY <1>1, <1>2, <2>4, RowsRead
    <2>6. Meets(entries[e], entries[f])
        BY <1>4, <2>4, <2>5 DEF Meets, Overlaps
    <2> QED BY <1>1, <1>2, <2>1, <2>6 DEF NoneMeet
<1> QED BY <1>3, <1>4

LEMMA EditorHolds ==
    ASSUME TypeOK PROVE EditorAgrees
<1> SUFFICES ASSUME NEW s \in Section, timetables[s] # Free, NEW p \in ClassPeriods(s),
                    NEW day \in timetables[s].days, NEW t \in Qualified[s]
             PROVE  LET x == Class(s, p, day, t, NoRoom)
                        booked == \E b \in TeacherBusy(s) : b.teacher = t /\ Meets(x, b)
                        here == \E f \in EntriesOf(entries, s) : entries[f].teacher = t /\ Meets(x, entries[f])
                    IN  /\ t \in TeacherOptions(s, p, day, Free) <=> ~booked /\ ~here
                        /\ BatchClear(s, {x}) <=> ~booked
    BY DEF EditorAgrees
<1> DEFINE x == Class(s, p, day, t, NoRoom)
           booked == \E b \in TeacherBusy(s) : b.teacher = t /\ Meets(x, b)
           here == \E f \in EntriesOf(entries, s) : entries[f].teacher = t /\ Meets(x, entries[f])
           others == {f \in EntryIds : entries[f] # Free} \ {Free}
           away == {e \in EntryIds : entries[e] # Free /\ entries[e].section # s}
           row(f) == [teacher |-> entries[f].teacher, day |-> entries[f].day,
                      startMin |-> entries[f].startMin, endMin |-> entries[f].endMin]
<1>1. x.teacher = t
    BY DEF Class
<1>2. TeacherBusy(s) = {row(f) : f \in {g \in away : entries[g].teacher \in Qualified[s]}}
    BY DEF TeacherBusy
<1> HIDE DEF x
<1>3. \A f : Meets(x, row(f)) <=> Meets(x, entries[f])
    BY DEF Meets
<1>4. \A f : row(f).teacher = entries[f].teacher
    OBVIOUS
<1> HIDE DEF row
<1>5. booked <=> \E f \in away : entries[f].teacher = t /\ Meets(x, entries[f])
    BY <1>2, <1>3, <1>4
<1>6. TeacherClash(entries, x, away) <=> booked
    BY <1>1, <1>5 DEF TeacherClash
<1>7. others = away \union EntriesOf(entries, s)
    BY TimetableAssumption DEF EntriesOf
<1>8. TeacherClash(entries, x, others) <=> booked \/ here
    BY <1>1, <1>5, <1>7 DEF TeacherClash
<1>9. t \in TeacherOptions(s, p, day, Free) <=> ~TeacherClash(entries, x, others)
    BY DEF TeacherOptions, x
<1>10. BatchClear(s, {x}) <=> ~TeacherClash(entries, x, away)
    BY DEF BatchClear
<1> HIDE DEF booked, here
<1>11. (t \in TeacherOptions(s, p, day, Free) <=> ~booked /\ ~here) /\ (BatchClear(s, {x}) <=> ~booked)
    BY <1>6, <1>8, <1>9, <1>10
<1> QED BY <1>11 DEF x, booked, here

\* In a school of any size: a class stands in a period for classes, at its times and
\* on a working day, no teacher and no section has two at once while requests do not
\* overlap, the class and teacher timetables show the same classes with none hidden,
\* and the editor knows the free teachers as the server does (timetable.service.ts).
THEOREM ClassesAlwaysStand == Spec => []ClassesStand
<1>1. TimetableInvariant => ClassesStand
    BY InvariantStands, ViewsHold, EditorHolds DEF ClassesStand
<1> QED BY <1>1, TimetableIsInvariant, PTL
=============================================================================
