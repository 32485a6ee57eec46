------------------------- MODULE ExamResultsProofs -------------------------
(***************************************************************************)
(* The results of an examination for every class, every date sheet and any *)
(* number of saves in flight.  A student on the sheet whose results are    *)
(* complete holds a mark on every paper that is theirs, so the papers that *)
(* finalize adds up are the papers with marks, and those are locked until  *)
(* the results are reopened.                                               *)
(***************************************************************************)
EXTENDS ExamResults, FiniteSetTheorems, FunctionTheorems, TLAPS

-----------------------------------------------------------------------------
(* Sums *)

\* A finite set of rows with natural amounts has finitely many units.
LEMMA UnitsFinite ==
    ASSUME NEW S, IsFiniteSet(S), NEW amount, \A x \in S : amount[x] \in Nat
    PROVE  IsFiniteSet(Units(S, amount))
<1> DEFINE U == {UnitsOf(x, amount) : x \in S}
           f == [x \in S |-> UnitsOf(x, amount)]
<1>1. f \in Surjection(S, U)
    BY DEF Surjection
<1>2. IsFiniteSet(U)
    BY <1>1, FS_Surjection
<1>3. ASSUME NEW x \in S PROVE IsFiniteSet(UnitsOf(x, amount))
    <2>1. IsFiniteSet({x})
        BY FS_Singleton
    <2>2. amount[x] \in Int
        OBVIOUS
    <2>3. IsFiniteSet(1..amount[x])
        BY <2>2, FS_Interval
    <2>4. IsFiniteSet({x} \X (1..amount[x]))
        BY <2>1, <2>3, FS_Product
    <2> QED BY <2>4 DEF UnitsOf
<1>4. \A T \in U : IsFiniteSet(T)
    BY <1>3
<1> HIDE DEF U
<1>5. IsFiniteSet(UNION U)
    BY <1>2, <1>4, FS_UNION
<1> QED BY <1>5 DEF U, Units

\* A sum of natural amounts is a natural number.
LEMMA TotalIsNat ==
    ASSUME NEW S, IsFiniteSet(S), NEW amount, \A x \in S : amount[x] \in Nat
    PROVE  Total(S, amount) \in Nat
BY UnitsFinite, FS_CardinalityType DEF Total

ResultInvariant == TypeOK /\ FinalRestsOnMarks

-----------------------------------------------------------------------------
(* The sheet *)

\* A complete result rests on exactly the papers that carry a mark.
LEMMA CompleteIsMarked ==
    ASSUME TypeOK, NEW s \in Student, Complete(s)
    PROVE  PapersOf(s) = MarkedPapers(s)
<1>1. MarkedPapers(s) \subseteq PapersOf(s)
    BY DEF MarkedPapers, PapersOf, Sitting
<1>2. ASSUME NEW p \in PapersOf(s) PROVE p \in MarkedPapers(s)
    <2>1. p \in Paper /\ Valid(p, s)
        BY <1>2 DEF PapersOf, Complete
    <2>2. total[p] \in Nat
        BY <2>1 DEF TypeOK
    <2>3. mark[p][s] # NoRow
        BY <2>1, <2>2 DEF Valid, Absent, NoRow
    <2> QED BY <2>1, <2>3 DEF MarkedPapers, Marked
<1> QED BY <1>1, <1>2

\* The sums of a sheet are totals of naturals.
LEMMA SumsAreNat ==
    ASSUME TypeOK, NEW s \in Student, NEW papers \in SUBSET Paper
    PROVE  Obtained(s, papers) \in Nat /\ MaxOf(papers) \in Nat
<1> DEFINE score == [p \in Paper |-> IF mark[p][s] > 0 THEN mark[p][s] ELSE 0]
<1>1. IsFiniteSet(papers)
    BY ResultAssumption, FS_Subset
<1>2. ASSUME NEW p \in papers PROVE score[p] \in Nat
    <2>1. mark[p][s] \in Mark
        BY DEF TypeOK
    <2>2. mark[p][s] \in Int
        BY <2>1 DEF Mark, NoRow, Blank, Absent
    <2>3. score[p] = IF mark[p][s] > 0 THEN mark[p][s] ELSE 0
        OBVIOUS
    <2> QED BY <2>2, <2>3
<1>3. \A p \in papers : total[p] \in Nat
    BY DEF TypeOK
<1>4. Total(papers, total) \in Nat
    BY <1>1, <1>3, TotalIsNat
<1> HIDE DEF score
<1>5. Total(papers, score) \in Nat
    BY <1>1, <1>2, TotalIsNat
<1> QED BY <1>4, <1>5 DEF Obtained, MaxOf, score

-----------------------------------------------------------------------------
(* The actions *)

LEMMA InitEstablishes == ASSUME Init PROVE ResultInvariant
<1>1. total \in [Paper -> Nat]
    <2>1. Totals \cup {0} \subseteq Nat
        BY ResultAssumption
    <2>2. total \in [Paper -> Totals \cup {0}]
        BY DEF Init
    <2> QED BY <2>1, <2>2
<1>2. mark \in [Paper -> [Student -> Mark]]
    BY DEF Init, Mark
<1>3. snapshot \in [Student -> [final : BOOLEAN, obtained : Nat, max : Nat]]
    <2>1. NoSnapshot \in [final : BOOLEAN, obtained : Nat, max : Nat]
        BY DEF NoSnapshot
    <2> QED BY <2>1 DEF Init
<1>4. TypeOK
    <2>1. call \in [Saver -> {Idle} \cup Save]
        BY DEF Init
    <2>2. sits \in [Paper -> SUBSET Student] /\ resultStatus = "NOT_STARTED"
        BY DEF Init
    <2> QED BY <1>1, <1>2, <1>3, <2>1, <2>2 DEF TypeOK
<1>5. FinalRestsOnMarks
    BY DEF Init, FinalRestsOnMarks, NoSnapshot
<1> QED BY <1>4, <1>5 DEF ResultInvariant

\* A step that leaves totals, marks, status and results alone disturbs nothing.
LEMMA CallsKeep ==
    ASSUME ResultInvariant, UNCHANGED <<total, mark, resultStatus, snapshot>>,
           sits' \in [Paper -> SUBSET Student],
           call' \in [Saver -> {Idle} \cup Save]
    PROVE  ResultInvariant'
<1>1. TypeOK'
    BY DEF ResultInvariant, TypeOK
<1>2. FinalRestsOnMarks'
    BY DEF ResultInvariant, FinalRestsOnMarks, MarkedPapers, Marked, Obtained, MaxOf
<1> QED BY <1>1, <1>2 DEF ResultInvariant

LEMMA ReadPaperKeeps ==
    ASSUME ResultInvariant, NEW v \in Saver, NEW p \in Paper,
           NEW t \in Totals \cup {total[q] : q \in Paper},
           NEW ids \in SUBSET Student, NEW value \in Entries,
           ReadPaper(v, p, t, ids, value)
    PROVE  ResultInvariant'
<1>1. t \in Nat
    BY ResultAssumption DEF ResultInvariant, TypeOK
<1>2. call' \in [Saver -> {Idle} \cup Save]
    BY <1>1 DEF ReadPaper, ResultInvariant, TypeOK, Save
<1>3. UNCHANGED <<total, mark, resultStatus, snapshot>>
      /\ sits' \in [Paper -> SUBSET Student]
    BY DEF ReadPaper, ResultInvariant, TypeOK
<1> QED BY <1>2, <1>3, CallsKeep

LEMMA FailSaveKeeps ==
    ASSUME ResultInvariant, NEW v \in Saver, FailSave(v)
    PROVE  ResultInvariant'
<1>1. call' \in [Saver -> {Idle} \cup Save]
    BY DEF FailSave, ResultInvariant, TypeOK
<1>2. UNCHANGED <<total, mark, resultStatus, snapshot>>
      /\ sits' \in [Paper -> SUBSET Student]
    BY DEF FailSave, ResultInvariant, TypeOK
<1> QED BY <1>1, <1>2, CallsKeep

LEMMA EnrolKeeps ==
    ASSUME ResultInvariant, NEW p \in Paper, NEW s \in Student, Enrol(p, s)
    PROVE  ResultInvariant'
<1>1. sits' \in [Paper -> SUBSET Student]
    BY DEF Enrol, ResultInvariant, TypeOK
<1>2. UNCHANGED <<total, mark, resultStatus, snapshot>>
      /\ call' \in [Saver -> {Idle} \cup Save]
    BY DEF Enrol, ResultInvariant, TypeOK
<1> QED BY <1>1, <1>2, CallsKeep

\* While the results are open no row is final.
LEMMA OpenHasNoFinal ==
    ASSUME FinalRestsOnMarks, resultStatus # "FINALIZED", NEW s \in Student
    PROVE  ~snapshot[s].final
BY DEF FinalRestsOnMarks

LEMMA SaveMarksKeeps ==
    ASSUME ResultInvariant, NEW v \in Saver, SaveMarks(v)
    PROVE  ResultInvariant'
<1> DEFINE c == call[v]
<1>1. c \in Save
    BY DEF SaveMarks, ResultInvariant, TypeOK, Idle
<1>2. total' \in [Paper -> Nat]
    BY <1>1 DEF SaveMarks, ResultInvariant, TypeOK, Save
<1>3. c.paper \in Paper /\ c.value \in Mark
    BY <1>1, EntryAssumption DEF Save
<1>4. mark' \in [Paper -> [Student -> Mark]]
    BY <1>3 DEF SaveMarks, ResultInvariant, TypeOK
<1>5. call' \in [Saver -> {Idle} \cup Save]
    BY DEF SaveMarks, ResultInvariant, TypeOK
<1>6. TypeOK'
    BY <1>2, <1>4, <1>5 DEF SaveMarks, ResultInvariant, TypeOK
<1>7. FinalRestsOnMarks'
    <2>1. \A s \in Student : ~snapshot[s].final
        BY OpenHasNoFinal DEF SaveMarks, Unlocked, ResultInvariant
    <2>2. snapshot' = snapshot
        BY DEF SaveMarks
    <2> QED BY <2>1, <2>2 DEF FinalRestsOnMarks
<1> QED BY <1>6, <1>7 DEF ResultInvariant

LEMMA FinalizeKeeps ==
    ASSUME ResultInvariant, Finalize
    PROVE  ResultInvariant'
<1> USE DEF ResultInvariant
<1>1. \A s \in Student : PapersOf(s) \in SUBSET Paper
    BY DEF PapersOf
<1>2. \A s \in Student : Obtained(s, PapersOf(s)) \in Nat /\ MaxOf(PapersOf(s)) \in Nat
    BY <1>1, SumsAreNat
<1>3. TypeOK'
    BY <1>2 DEF Finalize, TypeOK
<1>4. ASSUME NEW s \in Student, snapshot'[s].final
      PROVE  /\ \A p \in MarkedPapers(s) : mark[p][s] \in {Absent} \cup 0..total[p]
             /\ snapshot'[s].obtained = Obtained(s, MarkedPapers(s))
             /\ snapshot'[s].max = MaxOf(MarkedPapers(s))
    <2>1. ~snapshot[s].final
        BY OpenHasNoFinal DEF Finalize, MayFinalize
    <2>2. s \in OnSheet
        BY <1>4, <2>1 DEF Finalize
    <2>3. Complete(s)
        BY <2>2 DEF Finalize, MayFinalize
    <2>4. PapersOf(s) = MarkedPapers(s)
        BY <2>3, CompleteIsMarked
    <2>5. snapshot'[s] = [final |-> TRUE, obtained |-> Obtained(s, PapersOf(s)),
                          max |-> MaxOf(PapersOf(s))]
        BY <2>2 DEF Finalize
    <2>6. \A p \in PapersOf(s) : mark[p][s] \in {Absent} \cup 0..total[p]
        BY <2>3 DEF Complete, Valid
    <2> QED BY <2>4, <2>5, <2>6
<1>5. resultStatus' = "FINALIZED" /\ mark' = mark /\ total' = total
    BY DEF Finalize
<1>6. FinalRestsOnMarks'
    BY <1>4, <1>5 DEF FinalRestsOnMarks, MarkedPapers, Marked, Obtained, MaxOf
<1> QED BY <1>3, <1>6

LEMMA ReopenKeeps ==
    ASSUME ResultInvariant, Reopen
    PROVE  ResultInvariant'
<1>1. TypeOK'
    BY DEF Reopen, Reopened, ResultInvariant, TypeOK
<1>2. \A s \in Student : ~snapshot'[s].final
    BY DEF Reopen, Reopened, ResultInvariant, TypeOK
<1>3. FinalRestsOnMarks'
    BY <1>2 DEF FinalRestsOnMarks
<1> QED BY <1>1, <1>3 DEF ResultInvariant

-----------------------------------------------------------------------------
(* The theorems *)

\* Types and final results hold together in every reachable state.
THEOREM ResultsAreInvariant == Spec => []ResultInvariant
<1>1. Init => ResultInvariant
    BY InitEstablishes
<1>2. ResultInvariant /\ [Next]_vars => ResultInvariant'
    <2> SUFFICES ASSUME ResultInvariant, [Next]_vars PROVE ResultInvariant'
        OBVIOUS
    <2>1. CASE \E v \in Saver, p \in Paper,
                  t \in Totals \cup {total[q] : q \in Paper},
                  ids \in SUBSET Student, value \in Entries :
                ReadPaper(v, p, t, ids, value)
        BY <2>1, ReadPaperKeeps
    <2>2. CASE \E v \in Saver : SaveMarks(v)
        BY <2>2, SaveMarksKeeps
    <2>3. CASE \E v \in Saver : FailSave(v)
        BY <2>3, FailSaveKeeps
    <2>4. CASE Finalize
        BY <2>4, FinalizeKeeps
    <2>5. CASE Reopen
        BY <2>5, ReopenKeeps
    <2>6. CASE \E p \in Paper, s \in Student : Enrol(p, s)
        BY <2>6, EnrolKeeps
    <2>7. CASE UNCHANGED vars
        <3>1. UNCHANGED <<total, mark, resultStatus, snapshot>>
            BY <2>7 DEF vars
        <3>2. sits' \in [Paper -> SUBSET Student] /\ call' \in [Saver -> {Idle} \cup Save]
            BY <2>7 DEF vars, ResultInvariant, TypeOK
        <3> QED BY <3>1, <3>2, CallsKeep
    <2> QED BY <2>1, <2>2, <2>3, <2>4, <2>5, <2>6, <2>7 DEF Next
<1> QED BY <1>1, <1>2, PTL DEF Spec

\* Every variable keeps its type, the saves in flight included.
THEOREM ResultsTyped == Spec => []TypeOK
<1>1. ResultInvariant => TypeOK
    BY DEF ResultInvariant
<1> QED BY <1>1, ResultsAreInvariant, PTL

\* What is final is the sum of valid marks, whatever saves were in flight when
\* the results were finalized (finalize locks the examination row first).
THEOREM FinalIsTheSum == Spec => []FinalRestsOnMarks
<1>1. ResultInvariant => FinalRestsOnMarks
    BY DEF ResultInvariant
<1> QED BY <1>1, ResultsAreInvariant, PTL

\* No interleaving of saves changes a total under marks (saveMarks counts the
\* results inside the transaction).
THEOREM TotalsAreNotRescaled == Spec => NeverRescaled
<1>1. TypeOK /\ [Next]_vars =>
        [\A p \in Paper : Marked(p) # {} => total'[p] = total[p]]_vars
    <2> SUFFICES ASSUME TypeOK, Next, NEW p \in Paper, Marked(p) # {}
                 PROVE  total'[p] = total[p]
        BY DEF vars
    <2>1. CASE \E v \in Saver : SaveMarks(v)
        <3>1. PICK v \in Saver : SaveMarks(v)
            BY <2>1
        <3>2. CASE call[v].changed
            <4>1. Marked(call[v].paper) = {}
                BY <3>1, <3>2 DEF SaveMarks, Unlocked
            <4>2. p # call[v].paper
                BY <4>1
            <4> QED BY <3>1, <3>2, <4>2 DEF SaveMarks, TypeOK
        <3>3. CASE ~call[v].changed
            BY <3>1, <3>3 DEF SaveMarks
        <3> QED BY <3>2, <3>3
    <2>2. CASE ~\E v \in Saver : SaveMarks(v)
        BY <2>2 DEF Next, ReadPaper, FailSave, Finalize, Reopen, Enrol
    <2> QED BY <2>1, <2>2
<1> QED BY <1>1, ResultsTyped, PTL DEF Spec, NeverRescaled

\* Finalized marks are locked, and no step loses a mark.
THEOREM MarksAreKept == Spec => MarksStand
<1> DEFINE Step == /\ resultStatus = "FINALIZED" => mark' = mark /\ total' = total
                   /\ \A p \in Paper : Marked(p) \subseteq Marked(p)'
<1>1. TypeOK /\ [Next]_vars => [Step]_vars
    <2> SUFFICES ASSUME TypeOK, Next PROVE Step
        OBVIOUS
    <2>1. CASE \E v \in Saver : SaveMarks(v)
        <3>1. PICK v \in Saver : SaveMarks(v)
            BY <2>1
        <3>2. resultStatus # "FINALIZED"
            BY <3>1 DEF SaveMarks, Unlocked
        <3>3. call[v] \in Save
            BY <3>1 DEF SaveMarks, TypeOK, Idle
        <3>4. call[v].value # NoRow
            BY <3>3, EntryAssumption DEF Save
        <3>5. \A p \in Paper : Marked(p) \subseteq Marked(p)'
            BY <3>1, <3>4 DEF SaveMarks, Marked, TypeOK
        <3> QED BY <3>2, <3>5
    <2>2. CASE ~\E v \in Saver : SaveMarks(v)
        <3>1. mark' = mark /\ total' = total
            BY <2>2 DEF Next, ReadPaper, FailSave, Finalize, Reopen, Enrol
        <3> QED BY <3>1 DEF Marked
    <2> QED BY <2>1, <2>2
<1> QED BY <1>1, ResultsTyped, PTL DEF Spec, MarksStand
=============================================================================
