-------------------------- MODULE SchoolDayProofs --------------------------
(***************************************************************************)
(* The parts of a school day, for any number of students, tabs, users,     *)
(* messages, families, ticks and rows: a section each for the reminders of *)
(* installments, the work handed in, whom it is for, the quizzes, the      *)
(* threads, who may write to whom and the announcements.  Every section    *)
(* has the inductive invariant of its part; the last one puts the parts    *)
(* beside each other as MCSchoolDay does.                                  *)
(***************************************************************************)
EXTENDS MCSchoolDay, FiniteSetTheorems, SequenceTheorems, TLAPS

Rows == Seqs \X (0..Saves)

\* The sweeps at work on a row can be counted.
LEMMA SweepsCount ==
    ASSUME ReminderAssumption, NEW x
    PROVE  /\ Cardinality(Sweep) \in Nat /\ Cardinality(AtWork(x)) \in Nat
           /\ Cardinality(AtWork(x)) <= Cardinality(Sweep)
           /\ IsFiniteSet(AtWork(x))
           /\ IsFiniteSet(AtWork(x)') /\ Cardinality(AtWork(x)') \in Nat
           /\ Cardinality(AtWork(x)') <= Cardinality(Sweep)
<1>1. AtWork(x) \subseteq Sweep /\ AtWork(x)' \subseteq Sweep
    BY DEF AtWork
<1> QED BY <1>1, FS_Subset, FS_CardinalityType DEF ReminderAssumption

\* Fewer sweeps at work count less.
LEMMA FewerAtWork ==
    ASSUME ReminderAssumption, NEW x, AtWork(x)' \subseteq AtWork(x)
    PROVE  /\ Cardinality(AtWork(x)') <= Cardinality(AtWork(x))
           /\ Cardinality(AtWork(x)) \in Nat /\ Cardinality(AtWork(x)') \in Nat
           /\ Cardinality(Sweep) \in Nat
BY SweepsCount, FS_Subset

\* What is promised of one row.
RowInOrder(x) ==
    /\ \E t \in Never..now : Stamped(x, t)
    /\ x[2] > version => sent[x] = <<>>
    /\ Len(sent[x]) + Cardinality(AtWork(x)) <= Cardinality(Sweep)

LEMMA StampsByRow ==
    /\ StampsInOrder <=> TypeOK /\ \A x \in Rows : RowInOrder(x)
    /\ StampsInOrder' <=> TypeOK' /\ \A x \in Rows : RowInOrder(x)'
<1>1. TypeOK => DOMAIN sent = Rows
    BY DEF TypeOK, Rows
<1>2. TypeOK' => DOMAIN sent' = Rows
    BY DEF TypeOK, Rows
<1> QED BY <1>1, <1>2 DEF StampsInOrder, RowInOrder

\* A sequence over a set is one over every set that has its elements.
LEMMA SeqWider ==
    ASSUME NEW S, NEW T, S \subseteq T, NEW s \in Seq(S)
    PROVE  s \in Seq(T)
<1>1. PICK n \in Nat : s \in [1..n -> S]
    BY LenProperties
<1>2. s \in [1..n -> T]
    BY <1>1
<1> QED BY <1>2, SeqDef, Zenon

\* The clock and the saves are numbers; nothing sent is older than the epoch.
LEMMA Counted ==
    ASSUME ReminderAssumption, TypeOK
    PROVE  /\ version \in Nat /\ now \in Nat
           /\ \A x \in Rows : /\ sent[x] \in Seq(0..now) /\ Len(sent[x]) \in Nat
                              /\ \A i \in DOMAIN sent[x] : sent[x][i] \in 0..now
<1>1. version \in Nat /\ now \in Nat
    BY DEF TypeOK, ReminderAssumption
<1>2. ASSUME NEW x \in Rows
      PROVE  /\ sent[x] \in Seq(0..now) /\ Len(sent[x]) \in Nat
             /\ \A i \in DOMAIN sent[x] : sent[x][i] \in 0..now
    <2>1. sent[x] \in Seq(0..now)
        BY DEF TypeOK, Rows
    <2>2. Len(sent[x]) \in Nat /\ sent[x] \in [1..Len(sent[x]) -> 0..now]
        BY <2>1, LenProperties
    <2> QED BY <2>1, <2>2
<1> QED BY <1>1, <1>2

LEMMA StampsInit ==
    ASSUME ReminderAssumption, Init PROVE StampsInOrder
<1>1. TypeOK
    BY DEF ReminderAssumption, Init, TypeOK, Asleep, Job, Never
<1>2. ASSUME NEW x \in Rows PROVE RowInOrder(x)
    <2>1. AtWork(x) = {}
        BY DEF Init, Asleep, AtWork
    <2>2. sent[x] = <<>> /\ x[1] \in Seqs
        BY DEF Init, Rows
    <2>3. Stamped(x, Never) /\ Never \in Never..now
        BY <2>1, <2>2 DEF Init, Stamped, Never
    <2>4. Cardinality(AtWork(x)) = 0 /\ Cardinality(Sweep) \in Nat
        BY <2>1, FS_EmptySet, SweepsCount
    <2> QED BY <2>2, <2>3, <2>4 DEF RowInOrder
<1> QED BY <1>1, <1>2, StampsByRow

\* A step after which a row has the stamps it had, and no more sweeps at work.
LEMMA RowKept ==
    ASSUME ReminderAssumption, TypeOK, NEW x \in Rows, RowInOrder(x),
           version' \in Nat, version' >= version, now' \in Nat, now' >= now,
           sent'[x] = sent[x],
           x[2] = version' => x[2] = version /\ sentAt'[x[1]] = sentAt[x[1]],
           AtWork(x)' \subseteq AtWork(x),
           \A g \in AtWork(x)' : sweep'[g].pc = "won" =>
                sweep[g].pc = "won" /\ sweep'[g].runAt = sweep[g].runAt
    PROVE  RowInOrder(x)'
<1>1. PICK t \in Never..now : Stamped(x, t)
    BY DEF RowInOrder
<1>2. t \in Never..now'
    BY DEF TypeOK, Never
<1>3. Stamped(x, t)'
    BY <1>1 DEF Stamped
<1>4. Len(sent'[x]) = Len(sent[x]) /\ Len(sent[x]) \in Nat
    BY DEF TypeOK, Rows
<1>5. Len(sent'[x]) + Cardinality(AtWork(x)') <= Cardinality(Sweep)
    <2>1. Len(sent[x]) + Cardinality(AtWork(x)) <= Cardinality(Sweep)
        BY DEF RowInOrder
    <2>2. /\ Cardinality(AtWork(x)') <= Cardinality(AtWork(x))
          /\ Cardinality(AtWork(x)) \in Nat /\ Cardinality(AtWork(x)') \in Nat
          /\ Cardinality(Sweep) \in Nat
        BY FewerAtWork
    <2>3. ASSUME NEW l \in Nat, NEW m \in Nat, NEW i \in Nat, NEW j \in Nat, l + i <= m, j <= i
          PROVE  l + j <= m
        BY <2>3
    <2> QED BY <1>4, <2>1, <2>2, <2>3
<1>6. x[2] > version' => sent'[x] = <<>>
    BY DEF RowInOrder, TypeOK, Rows
<1> QED BY <1>2, <1>3, <1>5, <1>6 DEF RowInOrder

-----------------------------------------------------------------------------
(* The actions *)

\* Whoever reads a row now has not announced it: nobody has, it carries no stamp.
LEMMA ReadDueStep ==
    ASSUME ReminderAssumption, StampsInOrder, NEW g \in Sweep, ReadDue(g)
    PROVE  StampsInOrder'
<1> DEFINE job == [pc |-> "read", runAt |-> now, version |-> version, rows |-> Candidates]
<1>1. /\ TypeOK /\ \A x \in Rows : RowInOrder(x)
      /\ sweep[g].pc = "idle" /\ sweep' = [sweep EXCEPT ![g] = job]
      /\ UNCHANGED <<now, version, active, settled, sentAt, sent>>
    BY StampsByRow DEF ReadDue
<1>2. job \in Job
    BY <1>1 DEF TypeOK, Job, Candidates
<1>3. TypeOK'
    BY <1>1, <1>2 DEF TypeOK, Job
<1>4. /\ sweep'[g] = job /\ \A h \in Sweep : h # g => sweep'[h] = sweep[h]
      /\ job.pc = "read" /\ job.version = version /\ job.rows = Candidates
    BY <1>1 DEF TypeOK
<1> HIDE DEF job
<1>5. ASSUME NEW x \in Rows PROVE RowInOrder(x)'
    <2>1. CASE x[2] = version /\ x[1] \in Candidates
        <3>1. PICK t \in Never..now : Stamped(x, t)
            BY <1>1 DEF RowInOrder
        <3>2. t = Never /\ t \notin 0..now
            BY <2>1, <3>1 DEF Stamped, Candidates, Never
        <3>3. \A i \in DOMAIN sent[x] : FALSE
            BY <1>1, <3>1, <3>2, Counted DEF Stamped
        <3>4. Len(sent[x]) = 0
            BY <1>1, <3>3, Counted
        <3>5. AtWork(x)' \subseteq AtWork(x) \cup {g}
            BY <1>4 DEF AtWork
        <3>6. Stamped(x, t)'
            BY <1>1, <1>4, <3>1, <3>5 DEF Stamped
        <3>7. Len(sent'[x]) + Cardinality(AtWork(x)') <= Cardinality(Sweep)
            BY <1>1, <3>4, SweepsCount
        <3> QED BY <1>1, <2>1, <3>6, <3>7 DEF RowInOrder, TypeOK
    <2>2. CASE ~(x[2] = version /\ x[1] \in Candidates)
        <3>1. AtWork(x)' \subseteq AtWork(x) \ {g}
            BY <1>1, <1>4, <2>2 DEF AtWork
        <3>2. \A h \in AtWork(x)' : sweep'[h] = sweep[h]
            BY <1>4, <3>1 DEF AtWork
        <3>3. /\ version' \in Nat /\ version' >= version /\ now' \in Nat /\ now' >= now
              /\ sent'[x] = sent[x] /\ sentAt' = sentAt /\ version' = version
            BY <1>1, Counted
        <3> QED BY <1>1, <3>1, <3>2, <3>3, RowKept DEF AtWork
    <2> QED BY <2>1, <2>2
<1> QED BY <1>3, <1>5, StampsByRow

\* A row that is claimed gets the stamp it will be announced with: it had none.
LEMMA ClaimStep ==
    ASSUME ReminderAssumption, StampsInOrder, NEW g \in Sweep, Claim(g)
    PROVE  StampsInOrder'
<1>1. /\ TypeOK /\ \A x \in Rows : RowInOrder(x)
      /\ sweep[g].pc = "read" /\ sweep' = [sweep EXCEPT ![g].pc = "claimed"]
      /\ sentAt' = [i \in Seqs |-> IF i \in Alive(g) /\ sentAt[i] = Never
                                   THEN sweep[g].runAt ELSE sentAt[i]]
      /\ UNCHANGED <<now, version, active, settled, sent>>
    BY StampsByRow DEF Claim
<1>2. /\ sweep' \in [Sweep -> Job] /\ \A h \in Sweep : h # g => sweep'[h] = sweep[h]
      /\ sweep'[g].pc = "claimed" /\ sweep'[g].version = sweep[g].version
      /\ sweep'[g].rows = sweep[g].rows /\ sweep[g].runAt \in 0..now
    BY <1>1 DEF TypeOK, Job
<1>3. sentAt' \in [Seqs -> Never..now]
    <2>1. sweep[g].runAt \in Never..now
        BY <1>1, <1>2 DEF TypeOK, Never
    <2> QED BY <1>1, <2>1 DEF TypeOK
<1>4. TypeOK'
    BY <1>1, <1>2, <1>3 DEF TypeOK, Job
<1>5. ASSUME NEW x \in Rows PROVE RowInOrder(x)'
    <2>1. AtWork(x)' \subseteq AtWork(x)
        BY <1>1, <1>2 DEF AtWork
    <2>2. \A h \in AtWork(x)' : sweep'[h].pc = "won" =>
                sweep[h].pc = "won" /\ sweep'[h].runAt = sweep[h].runAt
        BY <1>2 DEF AtWork
    <2>3. x[1] \in Seqs
        BY DEF Rows
    <2>4. CASE x[2] = version => sentAt'[x[1]] = sentAt[x[1]]
        <3>1. /\ version' \in Nat /\ version' >= version /\ now' \in Nat /\ now' >= now
              /\ sent'[x] = sent[x] /\ version' = version
            BY <1>1, Counted
        <3> QED BY <1>1, <2>1, <2>2, <2>4, <3>1, RowKept
    <2>5. CASE x[2] = version /\ sentAt'[x[1]] # sentAt[x[1]]
        <3>1. sentAt[x[1]] = Never /\ sentAt'[x[1]] = sweep[g].runAt
            BY <1>1, <2>3, <2>5
        <3>2. PICK t \in Never..now : Stamped(x, t)
            BY <1>1 DEF RowInOrder
        <3>3. t \notin 0..now
            BY <2>5, <3>1, <3>2 DEF Stamped, Never
        <3>5. \A i \in DOMAIN sent[x] : FALSE
            BY <1>1, <3>2, <3>3, Counted DEF Stamped
        <3>6. \A h \in AtWork(x) : sweep[h].pc # "won"
            BY <1>1, <3>2, <3>3 DEF Stamped, AtWork, TypeOK, Job
        <3>7. Stamped(x, sweep[g].runAt)'
            BY <1>1, <1>2, <2>1, <2>2, <3>1, <3>5, <3>6 DEF Stamped
        <3>8. sweep[g].runAt \in Never..now'
            BY <1>1, <1>2 DEF TypeOK, Never
        <3>9. Len(sent[x]) \in Nat
            BY <1>1, Counted
        <3>10. Len(sent'[x]) + Cardinality(AtWork(x)') <= Cardinality(Sweep)
            <4>1. sent'[x] = sent[x] /\ Len(sent[x]) + Cardinality(AtWork(x)) <= Cardinality(Sweep)
                BY <1>1 DEF RowInOrder
            <4>2. /\ Cardinality(AtWork(x)') <= Cardinality(AtWork(x))
                  /\ Cardinality(AtWork(x)) \in Nat /\ Cardinality(AtWork(x)') \in Nat
                  /\ Cardinality(Sweep) \in Nat
                BY <2>1, FewerAtWork
            <4> QED BY <3>9, <4>1, <4>2
        <3> QED BY <1>1, <3>7, <3>8, <3>10 DEF RowInOrder
    <2> QED BY <2>4, <2>5
<1> QED BY <1>4, <1>5, StampsByRow

\* Reading back what was claimed: a row that is still there, with this sweep's stamp.
LEMMA ReadClaimedStep ==
    ASSUME ReminderAssumption, StampsInOrder, NEW g \in Sweep, ReadClaimed(g)
    PROVE  StampsInOrder'
<1> DEFINE won == {i \in Alive(g) : sentAt[i] = sweep[g].runAt}
<1>1. /\ TypeOK /\ \A x \in Rows : RowInOrder(x)
      /\ sweep[g].pc = "claimed"
      /\ sweep' = [sweep EXCEPT ![g] = IF won = {} THEN Asleep
                        ELSE [sweep[g] EXCEPT !.pc = "won", !.rows = won]]
      /\ UNCHANGED <<now, version, active, settled, sentAt, sent>>
    BY StampsByRow DEF ReadClaimed
<1>2. won \subseteq sweep[g].rows /\ won \in SUBSET Seqs
    BY <1>1 DEF Alive, TypeOK, Job
<1>3. won # {} => sweep[g].version = version /\ \A i \in won : sentAt[i] = sweep[g].runAt
    BY DEF Alive
<1> HIDE DEF won
<1>4. \A h \in Sweep : h # g => sweep'[h] = sweep[h]
    BY <1>1 DEF TypeOK
<1>5. \/ won = {} /\ sweep'[g] = Asleep
      \/ /\ won # {} /\ sweep'[g].pc = "won" /\ sweep'[g].rows = won
         /\ sweep'[g].version = sweep[g].version /\ sweep'[g].runAt = sweep[g].runAt
    BY <1>1 DEF TypeOK, Job
<1>6. sweep' \in [Sweep -> Job]
    <2>1. Asleep \in Job
        BY <1>1, Counted DEF Asleep, Job
    <2>2. [sweep[g] EXCEPT !.pc = "won", !.rows = won] \in Job
        BY <1>1, <1>2 DEF TypeOK, Job
    <2> QED BY <1>1, <2>1, <2>2 DEF TypeOK
<1>7. TypeOK'
    BY <1>1, <1>6 DEF TypeOK, Job
<1>8. ASSUME NEW x \in Rows PROVE RowInOrder(x)'
    <2>1. AtWork(x)' \subseteq AtWork(x)
        BY <1>1, <1>2, <1>4, <1>5 DEF AtWork, Asleep
    <2>2. PICK t \in Never..now : Stamped(x, t)
        BY <1>1 DEF RowInOrder
    <2>3. ASSUME g \in AtWork(x)', sweep'[g].pc = "won" PROVE sweep'[g].runAt = t
        BY <1>1, <1>3, <1>5, <2>2, <2>3 DEF AtWork, Stamped, Asleep
    <2>4. Stamped(x, t)'
        BY <1>1, <1>4, <2>1, <2>2, <2>3 DEF Stamped, AtWork
    <2>5. Len(sent'[x]) + Cardinality(AtWork(x)') <= Cardinality(Sweep)
        <3>1. Len(sent'[x]) = Len(sent[x]) /\ Len(sent[x]) \in Nat
            BY <1>1, Counted
        <3>2. Len(sent[x]) + Cardinality(AtWork(x)) <= Cardinality(Sweep)
            BY <1>1 DEF RowInOrder
        <3>3. /\ Cardinality(AtWork(x)') <= Cardinality(AtWork(x))
              /\ Cardinality(AtWork(x)) \in Nat /\ Cardinality(AtWork(x)') \in Nat
              /\ Cardinality(Sweep) \in Nat
            BY <2>1, FewerAtWork
        <3> QED BY <3>1, <3>2, <3>3
    <2> QED BY <1>1, <2>2, <2>4, <2>5 DEF RowInOrder
<1> QED BY <1>7, <1>8, StampsByRow

\* A sweep that ends without sending, whatever it has claimed.
LEMMA CrashStep ==
    ASSUME ReminderAssumption, StampsInOrder, NEW g \in Sweep, Crash(g)
    PROVE  StampsInOrder'
<1>1. /\ TypeOK /\ \A x \in Rows : RowInOrder(x)
      /\ sweep' = [sweep EXCEPT ![g] = Asleep]
      /\ UNCHANGED <<now, version, active, settled, sentAt, sent>>
    BY StampsByRow DEF Crash
<1>2. Asleep \in Job
    BY <1>1, Counted DEF Asleep, Job
<1>3. TypeOK'
    BY <1>1, <1>2 DEF TypeOK, Job
<1>4. sweep'[g].pc = "idle" /\ \A h \in Sweep : h # g => sweep'[h] = sweep[h]
    BY <1>1 DEF TypeOK, Asleep
<1>5. ASSUME NEW x \in Rows PROVE RowInOrder(x)'
    <2>1. AtWork(x)' \subseteq AtWork(x) \ {g}
        BY <1>4 DEF AtWork
    <2>2. \A h \in AtWork(x)' : sweep'[h] = sweep[h]
        BY <1>4, <2>1 DEF AtWork
    <2>3. /\ version' \in Nat /\ version' >= version /\ now' \in Nat /\ now' >= now
          /\ sent'[x] = sent[x] /\ sentAt' = sentAt /\ version' = version
        BY <1>1, Counted
    <2> QED BY <1>1, <2>1, <2>2, <2>3, RowKept
<1> QED BY <1>3, <1>5, StampsByRow

\* Who announces a row does it with its stamp, and has then left it.
LEMMA EmitStep ==
    ASSUME ReminderAssumption, StampsInOrder, NEW g \in Sweep, Emit(g)
    PROVE  StampsInOrder'
<1>1. /\ TypeOK /\ \A x \in Rows : RowInOrder(x)
      /\ sweep[g].pc = "won" /\ sweep' = [sweep EXCEPT ![g] = Asleep]
      /\ sent' = [x \in DOMAIN sent |->
            IF x[1] \in sweep[g].rows /\ x[2] = sweep[g].version
            THEN Append(sent[x], sweep[g].runAt) ELSE sent[x]]
      /\ UNCHANGED <<now, version, active, settled, sentAt>>
    BY StampsByRow DEF Emit
<1>2. sweep[g].runAt \in 0..now /\ DOMAIN sent = Rows
    BY <1>1 DEF TypeOK, Job, Rows
<1>3. Asleep \in Job
    BY <1>1, Counted DEF Asleep, Job
<1>4. sent' \in [Rows -> Seq(0..now)]
    <2>1. \A x \in Rows : Append(sent[x], sweep[g].runAt) \in Seq(0..now)
        BY <1>1, <1>2, Counted
    <2> QED BY <1>1, <1>2, <2>1, Counted
<1>5. TypeOK'
    BY <1>1, <1>3, <1>4 DEF TypeOK, Job, Rows
<1>6. sweep'[g].pc = "idle" /\ \A h \in Sweep : h # g => sweep'[h] = sweep[h]
    BY <1>1 DEF TypeOK, Asleep
<1>7. ASSUME NEW x \in Rows PROVE RowInOrder(x)'
    <2>1. AtWork(x)' = AtWork(x) \ {g} /\ \A h \in AtWork(x)' : sweep'[h] = sweep[h]
        BY <1>6 DEF AtWork
    <2>2. CASE g \notin AtWork(x)
        <3>1. sent'[x] = sent[x]
            BY <1>1, <1>2, <2>2 DEF AtWork
        <3>2. /\ version' \in Nat /\ version' >= version /\ now' \in Nat /\ now' >= now
              /\ sentAt' = sentAt /\ version' = version
            BY <1>1, Counted
        <3> QED BY <1>1, <2>1, <3>1, <3>2, RowKept
    <2>3. CASE g \in AtWork(x)
        <3>1. sent'[x] = Append(sent[x], sweep[g].runAt) /\ x[2] = sweep[g].version
            BY <1>1, <1>2, <2>3 DEF AtWork
        <3>2. PICK t \in Never..now : Stamped(x, t)
            BY <1>1 DEF RowInOrder
        <3>3. sweep[g].runAt = t
            BY <1>1, <2>3, <3>2 DEF Stamped
        <3>4. \A i \in DOMAIN sent'[x] : sent'[x][i] = t
            <4>1. sent[x] \in Seq(0..now) /\ \A i \in DOMAIN sent[x] : sent[x][i] = t
                BY <1>1, <3>2, Counted DEF Stamped
            <4> QED BY <1>2, <3>1, <3>3, <4>1
        <3>5. Stamped(x, t)'
            BY <1>1, <2>1, <3>2, <3>4 DEF Stamped
        <3>6. Len(sent'[x]) = Len(sent[x]) + 1 /\ Len(sent[x]) \in Nat
            BY <1>1, <1>2, <3>1, Counted
        <3>7. Cardinality(AtWork(x)') = Cardinality(AtWork(x)) - 1
            BY <2>1, <2>3, SweepsCount, FS_RemoveElement
        <3>8. Len(sent'[x]) + Cardinality(AtWork(x)') <= Cardinality(Sweep)
            BY <1>1, <3>6, <3>7, SweepsCount DEF RowInOrder
        <3>9. x[2] <= version' /\ x[2] \in Nat
            BY <1>1, <3>1, Counted DEF TypeOK, Job
        <3> QED BY <1>1, <3>2, <3>5, <3>8, <3>9, Counted DEF RowInOrder
    <2> QED BY <2>2, <2>3
<1> QED BY <1>5, <1>7, StampsByRow

\* The rows of a new plan are nobody's yet; those of the old one are left as they are.
LEMMA SavePlanStep ==
    ASSUME ReminderAssumption, StampsInOrder, NEW switch \in BOOLEAN, SavePlan(switch)
    PROVE  StampsInOrder'
<1>1. /\ TypeOK /\ \A x \in Rows : RowInOrder(x)
      /\ version < Saves /\ version' = version + 1 /\ active' = switch
      /\ sentAt' = [i \in Seqs |-> Never]
      /\ UNCHANGED <<now, settled, sweep, sent>>
    BY StampsByRow DEF SavePlan
<1>2. version \in Nat /\ now \in Nat
    BY <1>1, Counted
<1>3. TypeOK'
    BY <1>1, <1>2 DEF TypeOK, Job, Never, ReminderAssumption
<1>4. ASSUME NEW x \in Rows PROVE RowInOrder(x)'
    <2>1. AtWork(x)' = AtWork(x) /\ x[1] \in Seqs /\ x[2] \in Nat
        BY <1>1 DEF AtWork, Rows
    <2>2. CASE x[2] = version'
        <3>1. AtWork(x) = {} /\ sent[x] = <<>>
            <4>1. \A g \in Sweep : sweep[g].version \in 0..version
                BY <1>1 DEF TypeOK, Job
            <4>2. x[2] > version
                BY <1>1, <1>2, <2>2
            <4>3. \A g \in Sweep : sweep[g].version # x[2]
                BY <1>2, <2>1, <4>1, <4>2
            <4> QED BY <1>1, <4>2, <4>3 DEF AtWork, RowInOrder
        <3>2. Stamped(x, Never)'
            BY <1>1, <2>1, <3>1 DEF Stamped
        <3>3. Never \in Never..now'
            BY <1>1, <1>2 DEF Never
        <3>4. Len(sent'[x]) + Cardinality(AtWork(x)') <= Cardinality(Sweep)
            <4>1. Len(sent'[x]) = 0
                BY <1>1, <3>1
            <4> QED BY <4>1, SweepsCount
        <3> QED BY <1>1, <2>2, <3>1, <3>2, <3>3, <3>4 DEF RowInOrder
    <2>3. CASE x[2] # version'
        <3>1. version' \in Nat /\ version' >= version /\ now' \in Nat /\ now' >= now
            BY <1>1, <1>2
        <3> QED BY <1>1, <2>1, <2>3, <3>1, RowKept DEF AtWork
    <2> QED BY <2>2, <2>3
<1> QED BY <1>3, <1>4, StampsByRow

\* Payments and the passing of time leave stamps and sweeps alone.
LEMMA OtherStep ==
    ASSUME ReminderAssumption, StampsInOrder, MoveMoney \/ Tick \/ UNCHANGED vars
    PROVE  StampsInOrder'
<1>1. /\ TypeOK /\ \A x \in Rows : RowInOrder(x)
      /\ UNCHANGED <<version, active, sentAt, sweep, sent>>
    BY StampsByRow DEF MoveMoney, Tick, vars
<1>2. now' \in Nat /\ now' >= now /\ now \in Nat /\ version \in Nat
    BY <1>1, Counted DEF MoveMoney, Tick, vars
<1>3. settled' \subseteq Seqs
    <2>1. Len(Due) \in Nat /\ Seqs = 1..Len(Due)
        BY DEF ReminderAssumption, Seqs
    <2>2. CASE MoveMoney
        <3>1. PICK n \in 0..Len(Due) : settled' = 1..n
            BY <2>2 DEF MoveMoney
        <3> QED BY <2>1, <3>1
    <2>3. CASE Tick \/ UNCHANGED vars
        BY <1>1, <2>3 DEF Tick, vars, TypeOK
    <2> QED BY <2>2, <2>3
<1>4. \A x \in Rows : sent[x] \in Seq(0..now')
    <2>1. \A n \in 0..now : n \in 0..now'
        BY <1>2
    <2>2. ASSUME NEW x \in Rows PROVE sent[x] \in Seq(0..now')
        BY <1>1, <2>1, Counted, SeqWider
    <2> QED BY <2>2
<1>5. sweep' \in [Sweep -> Job'] /\ sentAt' \in [Seqs -> Never..now']
    BY <1>1, <1>2 DEF TypeOK, Job, Never
<1>6. TypeOK'
    BY <1>1, <1>2, <1>3, <1>4, <1>5 DEF TypeOK, Rows
<1>7. ASSUME NEW x \in Rows PROVE RowInOrder(x)'
    <2>1. AtWork(x)' = AtWork(x)
        BY <1>1 DEF AtWork
    <2> QED BY <1>1, <1>2, <2>1, RowKept
<1> QED BY <1>6, <1>7, StampsByRow

-----------------------------------------------------------------------------
(* The theorems *)

\* A row keeps one stamp for as long as it exists, every announcement of it carries that
\* stamp, and a sweep that has announced it is not at work on it any more (sweep,
\* installment-reminders.service.ts).
THEOREM StampsStayInOrder ==
    ASSUME ReminderAssumption
    PROVE  Spec => []StampsInOrder
<1>1. Init => StampsInOrder
    BY StampsInit
<1>2. StampsInOrder /\ [Next]_vars => StampsInOrder'
    <2> SUFFICES ASSUME StampsInOrder, [Next]_vars PROVE StampsInOrder'
        OBVIOUS
    <2>1. ASSUME NEW g \in Sweep, ReadDue(g) PROVE StampsInOrder'
        BY <2>1, ReadDueStep
    <2>2. ASSUME NEW g \in Sweep, Claim(g) PROVE StampsInOrder'
        BY <2>2, ClaimStep
    <2>3. ASSUME NEW g \in Sweep, ReadClaimed(g) PROVE StampsInOrder'
        BY <2>3, ReadClaimedStep
    <2>4. ASSUME NEW g \in Sweep, Emit(g) PROVE StampsInOrder'
        BY <2>4, EmitStep
    <2>5. ASSUME NEW g \in Sweep, Crash(g) PROVE StampsInOrder'
        BY <2>5, CrashStep
    <2>6. ASSUME NEW switch \in BOOLEAN, SavePlan(switch) PROVE StampsInOrder'
        BY <2>6, SavePlanStep
    <2>7. CASE MoveMoney \/ Tick \/ UNCHANGED vars
        BY <2>7, OtherStep
    <2> QED BY <2>1, <2>2, <2>3, <2>4, <2>5, <2>6, <2>7 DEF Next
<1> QED BY <1>1, <1>2, PTL DEF Spec

\* Two sweeps with different stamps never both announce a row, and no sweep announces it
\* twice, however many instances overlap and wherever they crash: "Two overlapping sweeps
\* carry different `runAt` stamps, so neither double-sends".
THEOREM OneStampPerRow ==
    ASSUME ReminderAssumption
    PROVE  Spec => []RemindedUnderOneStamp
<1>1. StampsInOrder => RemindedUnderOneStamp
    <2> SUFFICES ASSUME StampsInOrder, NEW x \in DOMAIN sent
                 PROVE  /\ \A i, j \in DOMAIN sent[x] : sent[x][i] = sent[x][j]
                        /\ Len(sent[x]) <= Cardinality(Sweep)
        BY DEF RemindedUnderOneStamp
    <2>1. PICK t \in Never..now : Stamped(x, t)
        BY DEF StampsInOrder
    <2>2. x \in Rows
        BY DEF StampsInOrder, TypeOK, Rows
    <2>3. Len(sent[x]) + Cardinality(AtWork(x)) <= Cardinality(Sweep)
        BY DEF StampsInOrder
    <2>4. Len(sent[x]) \in Nat
        BY <2>2, Counted DEF StampsInOrder
    <2> QED BY <2>1, <2>3, <2>4, SweepsCount DEF Stamped
<1>2. Spec => []StampsInOrder
    BY StampsStayInOrder
<1> QED BY <1>1, <1>2, PTL

-----------------------------------------------------------------------------
(* Assignments *)

Submission == [status : Assignments!Statuses, file : Nat, score : 0..MaxScore \union {None}]

\* What was read for a request still holds of the rows it will write: for a student's,
HandsIn(t) ==
    /\ call[t].op \in {"idle", "upload", "open", "submit"}
    /\ call[t].op = "idle" => call[t] = Assignments!Idle
    /\ call[t].op = "submit" => submissions[Owner[t]] # None /\ call[t].file \in Nat
    /\ call[t].op = "open" => call[t].sent \in BOOLEAN

\* and for a teacher's.
Marks(x) ==
    /\ call[x].op \in {"idle", "mark"}
    /\ call[x].op = "idle" => call[x] = Assignments!Idle
    /\ call[x].op = "mark" =>
        /\ call[x].student \in Student /\ call[x].score \in 0..MaxScore \union {None}
        /\ call[x].seen \in Nat /\ submissions[call[x].student] # None

\* While no mark is given beside them: nobody hands marked work in, and the file a mark
\* is given for is the one that is there.
Apart ==
    /\ \A x \in Teacher, t \in WorkTab : call[x].op = "idle" \/ call[t].op = "idle"
    /\ \A t \in WorkTab : call[t].op # "idle" => Assignments!StatusOf(Owner[t]) # "MARKED"
    /\ \A x \in Teacher : call[x].op = "mark" => submissions[call[x].student].file = call[x].seen
    /\ \A s \in Student : marked[s] # None =>
        submissions[s].status = "MARKED" /\ submissions[s].file = marked[s]

WorkTyped ==
    /\ DOMAIN call = Teacher \union WorkTab
    /\ keys \in Nat
    /\ submissions \in [Student -> Submission \union {None}]
    /\ marked \in [Student -> Nat \union {None}]
    /\ \A s \in Student : marked[s] # None => submissions[s] # None

WorkInvariant ==
    /\ WorkTyped
    /\ \A t \in WorkTab : HandsIn(t)
    /\ \A x \in Teacher : Marks(x)
    /\ ~crossed => Apart

LEMMA WorkInit ==
    ASSUME Assignments!WorkAssumption, Assignments!Init PROVE WorkInvariant
BY DEF Assignments!WorkAssumption, Assignments!Init, Assignments!Idle, HandsIn, Marks, Apart,
       WorkTyped, WorkInvariant

\* What a session of a student reads and writes leaves the rows of others alone, and
\* finds no teacher at work unless the two crossed.
LEMMA WorkByTab ==
    ASSUME Assignments!WorkAssumption, WorkInvariant, NEW t \in WorkTab, NEW c,
           call' = [call EXCEPT ![t] = c], UNCHANGED marked, keys' \in Nat,
           c.op \in {"idle", "upload", "open", "submit"},
           c.op = "idle" => c = Assignments!Idle,
           c.op = "open" => c.sent \in BOOLEAN,
           c.op = "submit" => submissions'[Owner[t]] # None /\ c.file \in Nat,
           submissions' \in [Student -> Submission \union {None}],
           \A s \in Student : s # Owner[t] => submissions'[s] = submissions[s],
           submissions[Owner[t]] # None => submissions'[Owner[t]] # None,
           ~crossed' => /\ ~crossed /\ \A x \in Teacher : call[x].op = "idle"
                        /\ Assignments!StatusOf(Owner[t]) # "MARKED"
                        /\ submissions'[Owner[t]] # None => submissions'[Owner[t]].status # "MARKED"
    PROVE  WorkInvariant'
<1>1. /\ Owner \in [WorkTab -> Student] /\ DOMAIN call = Teacher \union WorkTab
      /\ t \notin Teacher /\ Owner[t] \in Student
    BY DEF WorkInvariant, WorkTyped, Assignments!WorkAssumption
<1>2. /\ DOMAIN call' = Teacher \union WorkTab
      /\ \A x \in Teacher : call'[x] = call[x]
      /\ \A u \in WorkTab : call'[u] = IF u = t THEN c ELSE call[u]
    BY <1>1
<1>3. \A s \in Student : submissions[s] # None => submissions'[s] # None
    BY <1>1
<1>4. ASSUME NEW u \in WorkTab PROVE HandsIn(u)'
    BY <1>1, <1>2, <1>3 DEF WorkInvariant, HandsIn
<1>5. ASSUME NEW x \in Teacher PROVE Marks(x)'
    BY <1>2, <1>3 DEF WorkInvariant, Marks
<1>6. ASSUME ~crossed' PROVE Apart'
    <2>1. Apart /\ \A x \in Teacher : call'[x].op = "idle"
        BY <1>2, <1>6 DEF WorkInvariant
    <2>2. ASSUME NEW u \in WorkTab, call'[u].op # "idle" PROVE Assignments!StatusOf(Owner[u])' # "MARKED"
        <3>1. CASE Owner[u] = Owner[t]
            BY <1>6, <3>1 DEF Assignments!StatusOf
        <3>2. CASE Owner[u] # Owner[t]
            <4>1. Assignments!StatusOf(Owner[u]) # "MARKED" /\ submissions'[Owner[u]] = submissions[Owner[u]]
                BY <1>1, <1>2, <2>1, <2>2, <3>2 DEF Apart
            <4> QED BY <4>1 DEF Assignments!StatusOf
        <3> QED BY <3>1, <3>2
    <2>3. \A s \in Student : marked'[s] # None =>
            submissions'[s].status = "MARKED" /\ submissions'[s].file = marked'[s]
        <3>1. marked[Owner[t]] # None => submissions[Owner[t]] # None
            BY <1>1 DEF WorkInvariant, WorkTyped
        <3>2. marked[Owner[t]] = None
            BY <1>1, <1>6, <2>1, <3>1 DEF Apart, Assignments!StatusOf
        <3> QED BY <2>1, <3>2 DEF Apart
    <2> QED BY <2>1, <2>2, <2>3 DEF Apart
<1>7. WorkTyped'
    BY <1>2, <1>3 DEF WorkInvariant, WorkTyped
<1> QED BY <1>4, <1>5, <1>6, <1>7 DEF WorkInvariant

\* A request of a student's is read while its work is not marked.
LEMMA WorkAsked ==
    ASSUME Assignments!WorkAssumption, WorkInvariant, NEW t \in WorkTab,
           Assignments!AskUpload(t) \/ Assignments!AskSubmit(t)
    PROVE  WorkInvariant'
<1>1. WorkTyped /\ Owner[t] \in Student
    BY DEF WorkInvariant, Assignments!WorkAssumption
<1>2. PICK c : /\ Assignments!Ask(t, c)
               /\ c.op \in {"upload", "open", "submit"} 
               /\ c.op = "submit" => submissions[Owner[t]] # None /\ c.file \in Nat
               /\ c.op = "open" => c.sent \in BOOLEAN
    <2>1. CASE Assignments!AskUpload(t)
        BY <2>1 DEF Assignments!AskUpload
    <2>2. CASE Assignments!AskSubmit(t)
        BY <1>1, <2>2 DEF Assignments!AskSubmit, WorkTyped, Submission
    <2> QED BY <2>1, <2>2
<1>3. Assignments!StatusOf(Owner[t]) # "MARKED" /\ keys' \in Nat
    <2>1. CASE Assignments!AskUpload(t)
        BY <1>1, <2>1 DEF Assignments!AskUpload, WorkTyped
    <2>2. CASE Assignments!AskSubmit(t)
        <3>1. UNCHANGED keys \/ keys' = keys + 1
            BY <2>2 DEF Assignments!AskSubmit
        <3> QED BY <1>1, <2>2, <3>1 DEF Assignments!AskSubmit, WorkTyped
    <2> QED BY <2>1, <2>2
<1>4. /\ call' = [call EXCEPT ![t] = c]
      /\ UNCHANGED <<submissions, marked>>
      /\ ~crossed' => ~crossed /\ \A x \in Teacher : call[x] = Assignments!Idle
    BY <1>2 DEF Assignments!Ask, Assignments!Crosses
<1>5. ~crossed' => ~crossed /\ \A x \in Teacher : call[x].op = "idle"
    BY <1>4 DEF Assignments!Idle
<1>6. /\ submissions' \in [Student -> Submission \union {None}]
      /\ \A s \in Student : s # Owner[t] => submissions'[s] = submissions[s]
    BY <1>1, <1>4 DEF WorkTyped
<1>7. /\ c.op = "submit" => submissions'[Owner[t]] # None /\ c.file \in Nat
      /\ submissions[Owner[t]] # None => submissions'[Owner[t]] # None
      /\ submissions'[Owner[t]] # None => submissions'[Owner[t]].status # "MARKED"
    BY <1>2, <1>3, <1>4 DEF Assignments!StatusOf
<1>8. /\ c.op \in {"idle", "upload", "open", "submit"}
      /\ c.op = "idle" => c = Assignments!Idle
      /\ c.op = "open" => c.sent \in BOOLEAN
    BY <1>2
<1> QED BY <1>3, <1>4, <1>5, <1>6, <1>7, <1>8, WorkByTab

LEMMA WorkUploaded ==
    ASSUME Assignments!WorkAssumption, WorkInvariant, NEW t \in WorkTab, Assignments!Upload(t)
    PROVE  WorkInvariant'
<1> DEFINE s == Owner[t]
<1>1. /\ s \in Student /\ keys \in Nat /\ keys' = keys + 1 /\ call[t].op = "upload"
      /\ call' = [call EXCEPT ![t] = Assignments!Idle] /\ UNCHANGED <<marked, crossed>>
    BY DEF Assignments!Upload, Assignments!WorkAssumption, WorkInvariant, WorkTyped
<1>2. PICK row \in Submission :
        /\ submissions' = [submissions EXCEPT ![s] = row]
        /\ row.status \in {"UPLOADING", Assignments!StatusOf(s)}
    <2>1. CASE submissions[s] = None
        <3>1. submissions' = [submissions EXCEPT ![s] = Assignments!Opened(keys + 1)]
            BY <2>1 DEF Assignments!Upload
        <3>2. Assignments!Opened(keys + 1) \in Submission /\ Assignments!Opened(keys + 1).status = "UPLOADING"
            BY <1>1 DEF Submission, Assignments!Opened, Assignments!Statuses
        <3> QED BY <3>1, <3>2
    <2>2. CASE submissions[s] # None
        <3> DEFINE row == [status |-> IF call[t].typed THEN "UPLOADING" ELSE submissions[s].status,
                           file |-> keys + 1, score |-> submissions[s].score]
        <3>1. submissions[s] \in Submission
            BY <1>1, <2>2 DEF WorkInvariant, WorkTyped
        <3>2. row \in Submission /\ row.status \in {"UPLOADING", submissions[s].status}
            BY <1>1, <3>1 DEF Submission, Assignments!Statuses
        <3>3. submissions' = [submissions EXCEPT ![s] = row]
            BY <2>2 DEF Assignments!Upload
        <3> QED BY <2>2, <3>2, <3>3 DEF Assignments!StatusOf
    <2> QED BY <2>1, <2>2
<1> HIDE DEF s
<1>3. row # None
    BY DEF Assignments!WorkAssumption, Submission
<1>4. /\ submissions' \in [Student -> Submission \union {None}]
      /\ submissions'[s] = row /\ \A r \in Student : r # s => submissions'[r] = submissions[r]
    BY <1>1, <1>2 DEF WorkInvariant, WorkTyped
<1>5. ~crossed' => /\ ~crossed /\ \A x \in Teacher : call[x].op = "idle"
                   /\ Assignments!StatusOf(s) # "MARKED" /\ row.status # "MARKED"
    BY <1>1, <1>2 DEF WorkInvariant, Apart, s
<1>6. keys' \in Nat /\ UNCHANGED marked
    BY <1>1
<1> DEFINE c == Assignments!Idle
<1>7. call' = [call EXCEPT ![t] = c] /\ c.op = "idle" /\ c = Assignments!Idle
    BY <1>1 DEF Assignments!Idle
<1> HIDE DEF c
<1> QED
    BY <1>3, <1>4, <1>5, <1>6, <1>7, WorkByTab DEF s

LEMMA WorkOpened ==
    ASSUME Assignments!WorkAssumption, WorkInvariant, NEW t \in WorkTab, Assignments!Open(t)
    PROVE  WorkInvariant'
<1>1. /\ Owner[t] \in Student /\ keys \in Nat /\ call[t].op = "open" /\ call[t].sent \in BOOLEAN
      /\ submissions \in [Student -> Submission \union {None}]
      /\ ~crossed => /\ \A x \in Teacher : call[x].op = "idle"
                     /\ Assignments!StatusOf(Owner[t]) # "MARKED"
    BY DEF Assignments!Open, Assignments!WorkAssumption, WorkInvariant, WorkTyped, HandsIn, Apart
<1>2. CASE submissions[Owner[t]] # None
    <2>1. /\ call' = [call EXCEPT ![t] = Assignments!Idle]
          /\ UNCHANGED <<submissions, marked, keys, crossed>>
        BY <1>2 DEF Assignments!Open, Assignments!Answer
    <2> QED BY <1>1, <1>2, <2>1, WorkByTab DEF Assignments!Idle, Assignments!StatusOf
<1>3. CASE submissions[Owner[t]] = None
    <2> DEFINE row == Assignments!Opened(keys + 1)
               c == [op |-> "submit", file |-> keys']
    <2>1. /\ call' = [call EXCEPT ![t] = c] /\ UNCHANGED <<marked, crossed>>
          /\ submissions' = [submissions EXCEPT ![Owner[t]] = row]
          /\ keys' \in Nat
        BY <1>1, <1>3 DEF Assignments!Open
    <2>2. row \in Submission /\ row.status = "UPLOADING" /\ row # None
        BY <1>1 DEF Submission, Assignments!Opened, Assignments!Statuses, Assignments!WorkAssumption
    <2> HIDE DEF row
    <2>3. /\ submissions' \in [Student -> Submission \union {None}]
          /\ submissions'[Owner[t]] = row
          /\ \A r \in Student : r # Owner[t] => submissions'[r] = submissions[r]
        BY <1>1, <2>1, <2>2
    <2>4. c.op = "submit" /\ c.file \in Nat
        BY <2>1
    <2> HIDE DEF c
    <2> QED BY <1>1, <2>1, <2>2, <2>3, <2>4, WorkByTab
<1> QED BY <1>2, <1>3

LEMMA WorkHandedIn ==
    ASSUME Assignments!WorkAssumption, WorkInvariant, NEW t \in WorkTab,
           Assignments!Submit(t) \/ Assignments!Fail(t)
    PROVE  WorkInvariant'
<1>1. /\ Owner[t] \in Student /\ keys' = keys /\ keys \in Nat /\ call[t].op # "idle"
      /\ call' = [call EXCEPT ![t] = Assignments!Idle] /\ UNCHANGED <<marked, crossed>>
      /\ ~crossed => /\ \A x \in Teacher : call[x].op = "idle"
                     /\ Assignments!StatusOf(Owner[t]) # "MARKED"
    BY DEF Assignments!Submit, Assignments!Fail, Assignments!Answer, Assignments!WorkAssumption,
           WorkInvariant, WorkTyped, HandsIn, Apart
<1>2. CASE Assignments!Fail(t)
    <2>1. UNCHANGED submissions /\ submissions \in [Student -> Submission \union {None}]
        BY <1>2 DEF Assignments!Fail, WorkInvariant, WorkTyped
    <2> QED BY <1>1, <2>1, WorkByTab DEF Assignments!Idle, Assignments!StatusOf
<1>3. CASE Assignments!Submit(t)
    <2> DEFINE row == [submissions[Owner[t]] EXCEPT !.status = "SUBMITTED", !.file = call[t].file]
    <2>1. submissions[Owner[t]] \in Submission /\ call[t].file \in Nat
        BY <1>1, <1>3 DEF Assignments!Submit, WorkInvariant, WorkTyped, HandsIn
    <2>2. row \in Submission /\ row.status = "SUBMITTED" /\ row # None
        BY <2>1 DEF Submission, Assignments!Statuses, Assignments!WorkAssumption
    <2>3. submissions' = [submissions EXCEPT ![Owner[t]] = row]
        BY <1>3, <2>1 DEF Assignments!Submit, Submission
    <2> HIDE DEF row
    <2>4. /\ submissions' \in [Student -> Submission \union {None}]
          /\ submissions'[Owner[t]] = row
          /\ \A r \in Student : r # Owner[t] => submissions'[r] = submissions[r]
        BY <1>1, <2>2, <2>3 DEF WorkInvariant, WorkTyped
    <2> QED BY <1>1, <2>2, <2>4, WorkByTab DEF Assignments!Idle
<1> QED BY <1>2, <1>3

LEMMA WorkMarkAsked ==
    ASSUME Assignments!WorkAssumption, WorkInvariant, NEW x \in Teacher, Assignments!AskMark(x)
    PROVE  WorkInvariant'
<1>1. PICK c : /\ c.op = "mark" /\ c.student \in Student /\ c.score \in 0..MaxScore \union {None}
               /\ c.seen = submissions[c.student].file
               /\ Assignments!StatusOf(c.student) \in {"SUBMITTED", "MARKED"}
               /\ Assignments!Ask(x, c) /\ UNCHANGED keys
    BY DEF Assignments!AskMark
<1>2. submissions[c.student] # None /\ c.seen \in Nat
    BY <1>1 DEF Assignments!StatusOf, WorkInvariant, WorkTyped, Submission
<1>3. /\ call' = [call EXCEPT ![x] = c] /\ UNCHANGED <<submissions, marked, keys>>
      /\ ~crossed' => ~crossed /\ \A t \in WorkTab : call[t].op = "idle"
    <2>1. ~crossed' => ~crossed /\ \A t \in WorkTab : call[t] = Assignments!Idle
        BY <1>1, Zenon DEF Assignments!Ask, Assignments!Crosses
    <2> QED BY <1>1, <2>1 DEF Assignments!Ask, Assignments!Idle
<1>4. /\ DOMAIN call' = Teacher \union WorkTab
      /\ \A t \in WorkTab : call'[t] = call[t]
      /\ \A y \in Teacher : call'[y] = IF y = x THEN c ELSE call[y]
    BY <1>3 DEF WorkInvariant, WorkTyped, Assignments!WorkAssumption
<1>5. ASSUME NEW t \in WorkTab PROVE HandsIn(t)'
    BY <1>3, <1>4 DEF WorkInvariant, HandsIn
<1>6. ASSUME NEW y \in Teacher PROVE Marks(y)'
    BY <1>1, <1>2, <1>3, <1>4 DEF WorkInvariant, Marks
<1>7. ASSUME ~crossed' PROVE Apart'
    BY <1>1, <1>3, <1>4, <1>7 DEF WorkInvariant, Apart
<1>8. WorkTyped'
    BY <1>3, <1>4 DEF WorkInvariant, WorkTyped
<1> QED BY <1>5, <1>6, <1>7, <1>8 DEF WorkInvariant

LEMMA WorkMarked ==
    ASSUME Assignments!WorkAssumption, WorkInvariant, NEW x \in Teacher, Assignments!Mark(x)
    PROVE  WorkInvariant'
<1> DEFINE c == call[x]
           s == c.student
           row == [submissions[s] EXCEPT !.status = "MARKED", !.score = IF c.score = None THEN @ ELSE c.score]
<1>1. /\ c.op = "mark" /\ s \in Student /\ c.score \in 0..MaxScore \union {None} /\ c.seen \in Nat
      /\ submissions[s] # None /\ submissions \in [Student -> Submission \union {None}]
      /\ ~crossed => /\ submissions[s].file = c.seen
                     /\ \A t \in WorkTab : call[t].op = "idle"
    BY DEF Assignments!Mark, WorkInvariant, WorkTyped, Marks, Apart
<1>2. submissions[s] \in Submission
    BY <1>1
<1>3. /\ row \in Submission /\ row.status = "MARKED" /\ row.file = submissions[s].file /\ row # None
    BY <1>1, <1>2 DEF Submission, Assignments!Statuses, Assignments!WorkAssumption
<1>4. /\ submissions' = [submissions EXCEPT ![s] = row]
      /\ marked' = [marked EXCEPT ![s] = c.seen] /\ UNCHANGED <<keys, crossed>>
      /\ call' = [call EXCEPT ![x] = Assignments!Idle]
    BY <1>2 DEF Assignments!Mark, Assignments!Answer, Submission
<1>5. c.seen # None
    BY <1>1 DEF Assignments!WorkAssumption
<1> HIDE DEF row
<1>6. /\ submissions' \in [Student -> Submission \union {None}]
      /\ marked' \in [Student -> Nat \union {None}]
      /\ submissions'[s] = row /\ marked'[s] = c.seen
      /\ \A r \in Student : r # s => submissions'[r] = submissions[r] /\ marked'[r] = marked[r]
    BY <1>1, <1>3, <1>4 DEF WorkInvariant, WorkTyped
<1>7. /\ DOMAIN call' = Teacher \union WorkTab
      /\ \A t \in WorkTab : call'[t] = call[t]
      /\ \A y \in Teacher : call'[y] = IF y = x THEN Assignments!Idle ELSE call[y]
    BY <1>4 DEF WorkInvariant, WorkTyped, Assignments!WorkAssumption
<1>8. \A r \in Student : /\ submissions[r] # None => submissions'[r] # None
                         /\ marked'[r] # None => submissions'[r] # None
    BY <1>3, <1>6 DEF WorkInvariant, WorkTyped
<1>9. ASSUME NEW t \in WorkTab PROVE HandsIn(t)'
    <2>1. HandsIn(t) /\ Owner[t] \in Student
        BY DEF WorkInvariant, Assignments!WorkAssumption
    <2>2. call'[t] = call[t] /\ (submissions[Owner[t]] # None => submissions'[Owner[t]] # None)
        BY <1>7, <1>8, <2>1
    <2> QED BY <2>1, <2>2 DEF HandsIn
<1>10. ASSUME NEW y \in Teacher PROVE Marks(y)'
    <2>1. CASE y = x
        BY <1>7, <2>1 DEF Marks, Assignments!Idle
    <2>2. CASE y # x
        <3>1. Marks(y) /\ call'[y] = call[y]
            BY <1>7, <2>2 DEF WorkInvariant
        <3>2. call[y].op = "mark" => submissions'[call[y].student] # None
            BY <1>8, <3>1 DEF Marks
        <3> QED BY <3>1, <3>2 DEF Marks
    <2> QED BY <2>1, <2>2
<1>11. ASSUME ~crossed' PROVE Apart'
    <2>1. /\ \A t \in WorkTab : call'[t].op = "idle"
          /\ \A r \in Student : submissions[r] # None => submissions'[r].file = submissions[r].file
        BY <1>1, <1>3, <1>4, <1>6, <1>7, <1>11
    <2>2. Apart /\ \A y \in Teacher : Marks(y)
        BY <1>4, <1>11 DEF WorkInvariant
    <2>3. ASSUME NEW y \in Teacher, call'[y].op = "mark"
          PROVE  submissions'[call'[y].student].file = call'[y].seen
        <3>1. y # x /\ call'[y] = call[y]
            BY <1>7, <2>3 DEF Assignments!Idle
        <3>2. /\ call[y].student \in Student /\ submissions[call[y].student] # None
              /\ submissions[call[y].student].file = call[y].seen
            BY <2>2, <2>3, <3>1 DEF Apart, Marks
        <3> QED BY <2>1, <3>1, <3>2
    <2>4. ASSUME NEW r \in Student, marked'[r] # None
          PROVE  submissions'[r].status = "MARKED" /\ submissions'[r].file = marked'[r]
        <3>1. CASE r = s
            BY <1>1, <1>3, <1>4, <1>6, <1>11, <3>1
        <3>2. CASE r # s
            BY <1>6, <2>2, <2>4, <3>2 DEF Apart
        <3> QED BY <3>1, <3>2
    <2> QED BY <2>1, <2>3, <2>4 DEF Apart
<1>12. WorkTyped'
    <2>1. keys' \in Nat
        BY <1>4 DEF WorkInvariant, WorkTyped
    <2> QED BY <1>6, <1>7, <1>8, <2>1 DEF WorkTyped
<1> QED BY <1>9, <1>10, <1>11, <1>12 DEF WorkInvariant

LEMMA WorkNext ==
    ASSUME Assignments!WorkAssumption, WorkInvariant, [Assignments!Next]_(Assignments!vars)
    PROVE  WorkInvariant'
<1>1. ASSUME NEW t \in WorkTab,
             Assignments!AskUpload(t) \/ Assignments!Upload(t) \/ Assignments!AskSubmit(t)
                \/ Assignments!Open(t) \/ Assignments!Submit(t) \/ Assignments!Fail(t)
      PROVE  WorkInvariant'
    BY <1>1, WorkAsked, WorkUploaded, WorkOpened, WorkHandedIn
<1>2. ASSUME NEW x \in Teacher, Assignments!AskMark(x) \/ Assignments!Mark(x)
      PROVE  WorkInvariant'
    BY <1>2, WorkMarkAsked, WorkMarked
<1>3. CASE UNCHANGED <<submissions, keys, call, marked, crossed>>
    BY <1>3 DEF WorkInvariant, WorkTyped, HandsIn, Marks, Apart, Assignments!StatusOf
<1> QED
    BY <1>1, <1>2, <1>3
    DEF Assignments!Next, Assignments!vars, Assignments!RosterChanges, Assignments!Update

\* Marked work stays marked and keeps the file its mark was given for, however many tabs a
\* student hands it in from, unless a mark was being given beside them
\* (assignments.service.ts, requestUpload and submit: "already been marked").
THEOREM MarksStand ==
    ASSUME Assignments!WorkAssumption
    PROVE  Assignments!Spec => []Assignments!MarkStands
<1>1. WorkInvariant => Assignments!MarkStands
    BY DEF WorkInvariant, Apart, Assignments!MarkStands
<1>2. WorkInvariant /\ [Assignments!Next]_(Assignments!vars) => WorkInvariant'
    BY WorkNext
<1> QED BY <1>1, <1>2, WorkInit, PTL DEF Assignments!Spec

-----------------------------------------------------------------------------
(* Whom an assignment is for *)

\* A student sits in the section of an offering, sits in its class, and chose it.
Seated(s, o) ==
    \E p \in roster.rows : /\ p.student = s /\ p.year = ThisYear /\ p.status = "ACTIVE"
                           /\ p.section = SectionOf[o]
InClass(s, o) ==
    \E p \in roster.rows : /\ p.student = s /\ p.year = ThisYear /\ p.status = "ACTIVE"
                           /\ ClassOf[p.section] = ClassOf[SectionOf[o]]
Chose(s, o) == [student |-> s, year |-> ThisYear, offering |-> o] \in roster.picks

\* The answer all the others are compared with.
Takes(s, o) ==
    \/ o \notin roster.electives /\ Seated(s, o)
    \/ Chose(s, o) /\ InClass(s, o)

AudienceInvariant == roster \in WorkRoster /\ assignment.offering \in Offered

LEMMA AudienceNext ==
    ASSUME AudienceInvariant, [Assignments!Next]_(Assignments!vars) PROVE AudienceInvariant'
<1>1. CASE UNCHANGED <<roster, assignment>>
    BY <1>1 DEF AudienceInvariant
<1>2. CASE Assignments!RosterChanges
    BY <1>2 DEF AudienceInvariant, Assignments!RosterChanges
<1>3. ASSUME NEW x \in Teacher, Assignments!Update(x) PROVE AudienceInvariant'
    BY <1>3 DEF AudienceInvariant, Assignments!Update
<1>4. ASSUME NEW x \in Teacher, Assignments!AskMark(x) \/ Assignments!Mark(x)
      PROVE  UNCHANGED <<roster, assignment>>
    BY <1>4 DEF Assignments!AskMark, Assignments!Mark, Assignments!Ask, Assignments!Answer
<1>5. ASSUME NEW t \in WorkTab,
             \/ Assignments!AskUpload(t) \/ Assignments!Upload(t) \/ Assignments!AskSubmit(t)
             \/ Assignments!Open(t) \/ Assignments!Submit(t) \/ Assignments!Fail(t)
      PROVE  UNCHANGED <<roster, assignment>>
    BY <1>5 DEF Assignments!AskUpload, Assignments!Upload, Assignments!AskSubmit, Assignments!Open,
                Assignments!Submit, Assignments!Fail, Assignments!Ask, Assignments!Answer
<1>6. UNCHANGED Assignments!vars => UNCHANGED <<roster, assignment>>
    BY DEF Assignments!vars
<1> QED BY <1>1, <1>2, <1>3, <1>4, <1>5, <1>6 DEF Assignments!Next

\* What a roster is.
LEMMA RosterIs ==
    ASSUME Assignments!RosterAssumption, AudienceInvariant
    PROVE  /\ assignment.offering \in Offering
           /\ Assignments!IsFiniteSet(roster.rows)
           /\ \A p \in roster.rows : p.student \in Student
           /\ \A k \in roster.picks : k = [student |-> k.student, year |-> k.year, offering |-> k.offering]
           /\ \A p, q \in roster.rows :
                p.status = "ACTIVE" /\ q.status = "ACTIVE" /\ p.student = q.student /\ p.year = q.year
                    => p = q
BY DEF Assignments!RosterAssumption, AudienceInvariant, Assignments!Placement, Assignments!Pick

LEMMA ListIs ==
    ASSUME Assignments!RosterAssumption, AudienceInvariant, NEW s, NEW o \in Offering
    PROVE  Assignments!Listed(roster, s, o, {ThisYear}) <=> Takes(s, o)
<1> DEFINE here == {p \in roster.rows : p.student = s /\ p.year = ThisYear /\ p.status = "ACTIVE"}
<1>1. Assignments!Placements(roster, s, ThisYear, {"ACTIVE"}) = here
    BY DEF Assignments!Placements, Assignments!Of
<1>2. ASSUME NEW p \in here
      PROVE  o \in Assignments!SubjectsOf(roster.picks, roster.electives, s, p.section, ThisYear) <=>
                \/ o \notin roster.electives /\ SectionOf[o] = p.section
                \/ Chose(s, o) /\ ClassOf[p.section] = ClassOf[SectionOf[o]]
    <2>1. o \in {k.offering : k \in Assignments!PicksOf(roster.picks, s, ThisYear, ClassOf[p.section])} <=>
            Chose(s, o) /\ ClassOf[p.section] = ClassOf[SectionOf[o]]
        BY RosterIs DEF Assignments!PicksOf, Assignments!ClassFor, Chose
    <2> QED BY <2>1 DEF Assignments!SubjectsOf
<1>3. Assignments!Listed(roster, s, o, {ThisYear}) <=>
        \E p \in here : o \in Assignments!SubjectsOf(roster.picks, roster.electives, s, p.section, ThisYear)
    BY <1>1 DEF Assignments!Listed
<1> QED BY <1>2, <1>3 DEF Takes, Seated, InClass

\* The audience of a paper's reminder, and of what is announced to those who sit there.
LEMMA RemindedIs ==
    ASSUME Assignments!RosterAssumption, AudienceInvariant, NEW o \in Offering
    PROVE  Assignments!RemindedOfPaper(roster, o, ThisYear) = {s \in Student : Takes(s, o)}
<1> DEFINE seated == {p.student : p \in {q \in Assignments!ActiveIn(roster.rows, SectionOf[o]) :
                                            q.year = ThisYear}}
           cross == Assignments!CrossSectionTakers(roster.rows, roster.picks, {o}, ThisYear, {"ACTIVE"})
           all == seated \union cross
<1>1. \A s : s \in seated <=> Seated(s, o)
    BY DEF Assignments!ActiveIn, Seated
<1>2. \A s : s \in cross <=> s \in Student /\ Chose(s, o) /\ ~Seated(s, o) /\ InClass(s, o)
    BY DEF Assignments!CrossSectionTakers, Assignments!Picked, Assignments!Of, Assignments!ClassFor,
           Chose, Seated, InClass
<1>3. \A s : Seated(s, o) => s \in Student /\ InClass(s, o)
    BY RosterIs DEF Seated, InClass
<1>4. ASSUME NEW s \in all
      PROVE  s \in Assignments!TakersOf(roster.rows, roster.picks, roster.electives, o, all, ThisYear) <=>
                Chose(s, o) \/ o \notin roster.electives
    <2>1. Seated(s, o) => \E p \in Assignments!Of(roster.rows, s, ThisYear) : p.section = SectionOf[o]
        BY DEF Seated, Assignments!Of
    <2>2. ~Seated(s, o) => Chose(s, o)
        BY <1>1, <1>2
    <2> HIDE DEF all
    <2> QED BY <2>1, <2>2 DEF Assignments!TakersOf, Assignments!Picked, Chose
<1>5. Assignments!RemindedOfPaper(roster, o, ThisYear) =
        Assignments!TakersOf(roster.rows, roster.picks, roster.electives, o, all, ThisYear)
    BY DEF Assignments!RemindedOfPaper
<1>6. Assignments!TakersOf(roster.rows, roster.picks, roster.electives, o, all, ThisYear) \subseteq all
    BY DEF Assignments!TakersOf
<1> HIDE DEF seated, cross
<1> QED BY <1>1, <1>2, <1>3, <1>4, <1>5, <1>6 DEF Takes

LEMMA SameCounts == \A S : /\ Assignments!Cardinality(S) = Cardinality(S)
                           /\ Assignments!IsFiniteSet(S) = IsFiniteSet(S)
BY DEF Assignments!Cardinality, Assignments!IsFiniteSet, Cardinality, IsFiniteSet

\* Students are counted by their open places of a session: each has one.
LEMMA CountedByPlace ==
    ASSUME Assignments!RosterAssumption, AudienceInvariant,
           NEW A \in SUBSET roster.rows, \A p \in A : p.status = "ACTIVE" /\ p.year = ThisYear,
           NEW T, \A s : s \in T <=> \E p \in A : p.student = s
    PROVE  IsFiniteSet(A) /\ Cardinality(T) = Cardinality(A)
<1>1. IsFiniteSet(A)
    BY RosterIs, SameCounts, FS_Subset
<1> DEFINE f == [p \in A |-> p.student]
<1>2. f \in [A -> T] /\ \A p, q \in A : f[p] = f[q] => p = q
    BY RosterIs
<1>3. \A s \in T : \E p \in A : f[p] = s
    OBVIOUS
<1> HIDE DEF f
<1>4. ExistsBijection(A, T)
    BY <1>2, <1>3 DEF ExistsBijection, Bijection, Injection, IsInjective, Surjection
<1> QED BY <1>1, <1>4, FS_Bijection

LEMMA ExpectedIs ==
    ASSUME Assignments!RosterAssumption, AudienceInvariant, NEW o \in Offering,
           \A p \in Assignments!ActiveIn(roster.rows, SectionOf[o]) : p.year = ThisYear,
           o \in roster.electives \/ \A s \in Student : Chose(s, o) /\ InClass(s, o) => Seated(s, o)
    PROVE  Cardinality({s \in Student : Takes(s, o)}) = Assignments!Expected(roster, o, ThisYear)
<1> DEFINE T == {s \in Student : Takes(s, o)}
<1>1. CASE o \notin roster.electives
    <2> DEFINE A == Assignments!ActiveIn(roster.rows, SectionOf[o])
    <2>1. A \in SUBSET roster.rows /\ \A p \in A : p.status = "ACTIVE" /\ p.year = ThisYear
        BY DEF Assignments!ActiveIn
    <2>2. \A s : Seated(s, o) <=> \E p \in A : p.student = s
        BY DEF Assignments!ActiveIn, Seated
    <2>3. \A s : s \in T <=> s \in Student /\ Seated(s, o)
        BY <1>1, o \in roster.electives \/ \A s \in Student : Chose(s, o) /\ InClass(s, o) => Seated(s, o)
        DEF Takes
    <2>4. \A s : s \in T <=> \E p \in A : p.student = s
        BY <2>1, <2>2, <2>3, RosterIs
    <2>5. Assignments!Expected(roster, o, ThisYear) = Assignments!Cardinality(A)
        BY <1>1 DEF Assignments!Expected
    <2> HIDE DEF A, T
    <2>6. Cardinality(T) = Cardinality(A)
        BY <2>1, <2>4, CountedByPlace
    <2>7. Assignments!Cardinality(A) = Cardinality(A)
        BY SameCounts
    <2> QED BY <2>5, <2>6, <2>7 DEF T
<1>2. CASE o \in roster.electives
    <2> DEFINE A == {p \in roster.rows : /\ p.status = "ACTIVE" /\ p.year = ThisYear
                                         /\ ClassOf[p.section] = ClassOf[SectionOf[o]]
                                         /\ Chose(p.student, o)}
               choice(s) == [student |-> s, year |-> ThisYear, offering |-> o]
               of(k) == {p \in Assignments!Placements(roster, k.student, ThisYear, {"ACTIVE"}) :
                            ClassOf[p.section] = Assignments!ClassFor(o)}
               picks == {i \in roster.picks : i.offering = o /\ i.year = ThisYear}
               pairs == UNION {{k} \X of(k) : k \in picks}
    <2>1. A \in SUBSET roster.rows /\ \A p \in A : p.status = "ACTIVE" /\ p.year = ThisYear
        OBVIOUS
    <2>2. \A s : s \in T <=> s \in Student /\ Chose(s, o) /\ InClass(s, o)
        BY <1>2 DEF Takes
    <2>3. \A s : s \in T <=> \E p \in A : p.student = s
        BY <2>2, RosterIs DEF InClass
    <2>4. \A k : k \in picks <=> \E s : Chose(s, o) /\ k = choice(s)
        BY RosterIs DEF Chose
    <2>5. \A s, p : p \in of(choice(s)) /\ Chose(s, o) <=> p \in A /\ p.student = s
        BY DEF Assignments!Placements, Assignments!Of, Assignments!ClassFor
    <2>6. Assignments!Expected(roster, o, ThisYear) = Assignments!Cardinality(pairs)
        BY <1>2 DEF Assignments!Expected
    <2>7. \A x : x \in pairs <=> \E p \in A : x = <<choice(p.student), p>>
        <3>1. \A x : x \in pairs <=> \E k \in picks : \E p \in of(k) : x = <<k, p>>
            OBVIOUS
        <3> HIDE DEF A, pairs, of, picks, choice
        <3> QED BY <2>4, <2>5, <3>1
    <2> HIDE DEF A, pairs, of, picks, choice, T
    <2>8. IsFiniteSet(A) /\ Cardinality(T) = Cardinality(A)
        BY <2>1, <2>3, CountedByPlace
    <2> DEFINE f == [p \in A |-> <<choice(p.student), p>>]
    <2>9. f \in [A -> pairs] /\ \A p, q \in A : f[p] = f[q] => p = q
        BY <2>7
    <2>10. \A x \in pairs : \E p \in A : f[p] = x
        BY <2>7
    <2> HIDE DEF f
    <2>11. ExistsBijection(A, pairs)
        BY <2>9, <2>10 DEF ExistsBijection, Bijection, Injection, IsInjective, Surjection
    <2>12. Cardinality(pairs) = Cardinality(A)
        BY <2>8, <2>11, FS_Bijection
    <2>13. Assignments!Cardinality(pairs) = Cardinality(pairs)
        BY SameCounts
    <2> QED BY <2>6, <2>8, <2>12, <2>13 DEF T
<1> QED BY <1>1, <1>2

\* The audiences of an assignment agree whatever the roster.
LEMMA AudienceKept ==
    ASSUME Assignments!RosterAssumption, AudienceInvariant PROVE Assignments!AudienceAgrees
<1> DEFINE o == assignment.offering
           listed == {s \in Student : Assignments!Listed(roster, s, o, {ThisYear})}
           taken == {s \in Student : Takes(s, o)}
<1>1. o \in Offering
    BY RosterIs
<1> HIDE DEF o
<1>2. listed = taken
    BY <1>1, ListIs
<1>3. Assignments!RemindedOfPaper(roster, o, ThisYear) = taken
    BY <1>1, RemindedIs
<1>4. ASSUME NEW s \in Student, Takes(s, o), NEW statuses, "ACTIVE" \in statuses
      PROVE  Assignments!EnrolledFor(roster, s, o, ThisYear, statuses)
    <2>1. CASE Seated(s, o)
        BY <1>4, <2>1 DEF Seated, Assignments!EnrolledFor, Assignments!Placements, Assignments!Of
    <2>2. CASE Chose(s, o) /\ InClass(s, o)
        BY <1>4, <2>2 DEF Chose, InClass, Assignments!EnrolledFor, Assignments!PicksFromSibling,
                          Assignments!Picked, Assignments!Of, Assignments!ClassFor
    <2> QED BY <1>4, <2>1, <2>2 DEF Takes
<1>5. ASSUME NEW s \in Student, Assignments!Shown(s)
      PROVE  /\ Assignments!Opens(s)
             /\ Assignments!ResultRead(s, TRUE) /\ Assignments!ResultRead(s, FALSE)
    <2>1. Takes(s, o) /\ assignment.status \in Assignments!Visible
        BY <1>1, <1>5, ListIs DEF Assignments!Shown, o
    <2>2. "ACTIVE" \in Assignments!History
        BY DEF Assignments!History
    <2>3. /\ Assignments!EnrolledFor(roster, s, o, ThisYear, {"ACTIVE"})
          /\ Assignments!EnrolledFor(roster, s, o, ThisYear, Assignments!History)
        BY <1>4, <2>1, <2>2
    <2> QED BY <2>1, <2>3 DEF Assignments!Opens, Assignments!ResultRead, o
<1>6. ASSUME \A p \in Assignments!ActiveIn(roster.rows, SectionOf[o]) : p.year = ThisYear
      PROVE  /\ Assignments!Notified(roster, o, ThisYear) = taken
             /\ Assignments!Reminded(roster, o, ThisYear) = taken
    <2>1. {q \in Assignments!ActiveIn(roster.rows, SectionOf[o]) : q.year = ThisYear} =
            Assignments!ActiveIn(roster.rows, SectionOf[o])
        BY <1>6
    <2>2. /\ Assignments!Notified(roster, o, ThisYear) = Assignments!RemindedOfPaper(roster, o, ThisYear)
          /\ Assignments!Reminded(roster, o, ThisYear) = Assignments!RemindedOfPaper(roster, o, ThisYear)
        BY <2>1, Zenon DEF Assignments!Notified, Assignments!Reminded, Assignments!RemindedOfPaper
    <2> QED BY <1>3, <2>2
<1>7. ASSUME \A p \in Assignments!ActiveIn(roster.rows, SectionOf[o]) : p.year = ThisYear,
             \/ o \in roster.electives
             \/ Assignments!CrossSectionTakers(roster.rows, roster.picks, {o}, ThisYear, {"ACTIVE"}) = {}
      PROVE  Assignments!Cardinality(listed) = Assignments!Expected(roster, o, ThisYear)
    <2>1. \A s \in Student : Chose(s, o) /\ InClass(s, o) /\ ~Seated(s, o) =>
            s \in Assignments!CrossSectionTakers(roster.rows, roster.picks, {o}, ThisYear, {"ACTIVE"})
        BY DEF Assignments!CrossSectionTakers, Assignments!Picked, Assignments!Of, Assignments!ClassFor,
               Chose, Seated, InClass
    <2>2. Cardinality(taken) = Assignments!Expected(roster, o, ThisYear)
        BY <1>1, <1>7, <2>1, ExpectedIs
    <2> QED BY <1>2, <2>2, SameCounts
<1> QED BY <1>2, <1>3, <1>5, <1>6, <1>7 DEF Assignments!AudienceAgrees, o

LEMMA AudienceInit ==
    ASSUME Assignments!Init PROVE AudienceInvariant
BY DEF Assignments!Init, AudienceInvariant

\* Whatever the roster, an assignment's list, door, announcement, reminder and count agree
\* on whom it is for, and a mark may be read where its list shows it
\* (assignments.service.ts, assignmentScopeForStudent, enforceAssignmentAccess, results,
\* notifyAssignmentPublished, computeSchoolStats; reminders.scheduler.ts).
THEOREM WorkReachesItsAudience ==
    ASSUME Assignments!RosterAssumption
    PROVE  Assignments!Spec => []Assignments!AudienceAgrees
<1>1. AudienceInvariant /\ [Assignments!Next]_(Assignments!vars) => AudienceInvariant'
    BY AudienceNext
<1> QED BY <1>1, AudienceInit, AudienceKept, PTL DEF Assignments!Spec

-----------------------------------------------------------------------------
(* Quizzes *)

\* A request of an author's, and that it may still be written as it was read.
Authors(x) ==
    /\ call[x].op \in {"idle", "addQuestion", "updateQuestion", "deleteQuestion", "updateQuiz", "publish"}
    /\ call[x].op = "idle" => call[x] = Quizzes!Idle
Edits(x) ==
    /\ call[x].op \in {"addQuestion", "updateQuestion", "deleteQuestion", "updateQuiz"} => Quizzes!Editable
    /\ call[x].op = "addQuestion" => Quizzes!WellShaped(call[x].question)
    /\ call[x].op = "updateQuestion" =>
        /\ call[x].id \in Quizzes!Asked
        /\ Quizzes!WellShaped(Quizzes!Patched(questions[call[x].id], call[x].patch))
    /\ call[x].op = "publish" => Quizzes!Asked # {}

\* The same of a student's session.
Attempts(t) ==
    /\ call[t].op \in {"idle", "start", "submit"}
    /\ call[t].op = "idle" => call[t] = Quizzes!Idle
Answers(t) ==
    /\ call[t].op # "idle" => quiz.published
    /\ call[t].op = "submit" =>
        /\ call[t].score = Quizzes!Score(questions, Quizzes!Asked, call[t].answers)
        /\ call[t].outOf = Quizzes!OutOf(questions, Quizzes!Asked)

\* A grade is the score of its answers against the questions that are stored.
Graded(s) ==
    attempts[s] # None =>
        /\ quiz.published
        /\ attempts[s].status = "GRADED" =>
            /\ attempts[s].score = Quizzes!Score(questions, Quizzes!Asked, attempts[s].answers)
            /\ attempts[s].outOf = Quizzes!OutOf(questions, Quizzes!Asked)

\* While one author at most is at work.
OneAuthor ==
    /\ \A x, y \in Author : x # y => call[x].op = "idle" \/ call[y].op = "idle"
    /\ \A x \in Author : Edits(x)
    /\ \A t \in DOMAIN QuizTab : Answers(t)
    /\ \A s \in Student : Graded(s)
    /\ quiz.published => Quizzes!Asked # {}
    /\ \A q \in Quizzes!Asked : Quizzes!WellShaped(questions[q])

QuizInvariant ==
    /\ roster \in QuizRoster
    /\ DOMAIN call = Author \union DOMAIN QuizTab
    /\ DOMAIN questions = QuestionIds /\ DOMAIN attempts = Student
    /\ DOMAIN quiz = {"published", "subject"}
    /\ \A x \in Author : Authors(x)
    /\ \A t \in DOMAIN QuizTab : Attempts(t)
    /\ ~coauthored => OneAuthor

LEMMA QuizInit ==
    ASSUME Quizzes!Init PROVE QuizInvariant
BY DEF Quizzes!Init, Quizzes!Session, Quizzes!Idle, Quizzes!Asked, Authors, Edits, Attempts, Answers, Graded,
       OneAuthor, QuizInvariant

\* The marks a graded attempt shows are those its score was the sum of.
LEMMA MarksShown ==
    ASSUME NEW s \in Student,
           attempts[s].score = Quizzes!Score(questions, Quizzes!Asked, attempts[s].answers)
    PROVE  LET shown == Quizzes!ShownMarks(attempts[s])
           IN  attempts[s].score = Quizzes!MapThenSumSet(LAMBDA q : shown[q], Quizzes!Asked)
BY DEF Quizzes!Score, Quizzes!ShownMarks

\* A request of one session leaves those of the others.
LEMMA QuizCalls ==
    ASSUME Quizzes!QuizAssumption, QuizInvariant, NEW x \in Author \union DOMAIN QuizTab, NEW c,
           call' = [call EXCEPT ![x] = c]
    PROVE  /\ DOMAIN call' = Author \union DOMAIN QuizTab
           /\ \A y \in Author \union DOMAIN QuizTab : call'[y] = IF y = x THEN c ELSE call[y]
           /\ Author \intersect DOMAIN QuizTab = {}
           /\ \A t \in DOMAIN QuizTab : QuizTab[t] \in Student
BY DEF QuizInvariant, Quizzes!QuizAssumption

\* An author who asks while nobody else edits finds the quiz as it is.
LEMMA QuizAuthorAsks ==
    ASSUME Quizzes!QuizAssumption, QuizInvariant, NEW x \in Author,
           \/ Quizzes!AskAddQuestion(x) \/ Quizzes!AskUpdateQuestion(x) \/ Quizzes!AskDeleteQuestion(x)
           \/ Quizzes!AskUpdateQuiz(x) \/ Quizzes!AskPublish(x)
    PROVE  QuizInvariant'
<1>1. PICK c :
        /\ Quizzes!Ask(x, c)
        /\ c.op \in {"addQuestion", "updateQuestion", "deleteQuestion", "updateQuiz", "publish"}
        /\ c.op \in {"addQuestion", "updateQuestion", "deleteQuestion", "updateQuiz"} => Quizzes!Editable
        /\ c.op = "addQuestion" => Quizzes!WellShaped(c.question)
        /\ c.op = "updateQuestion" =>
            /\ c.id \in Quizzes!Asked
            /\ Quizzes!WellShaped(Quizzes!Patched(questions[c.id], c.patch))
        /\ c.op = "publish" => Quizzes!Asked # {}
    <2>1. CASE Quizzes!AskAddQuestion(x)
        BY <2>1 DEF Quizzes!AskAddQuestion, Quizzes!Question
    <2>2. CASE Quizzes!AskUpdateQuestion(x)
        BY <2>2 DEF Quizzes!AskUpdateQuestion
    <2>3. CASE Quizzes!AskDeleteQuestion(x)
        BY <2>3 DEF Quizzes!AskDeleteQuestion
    <2>4. CASE Quizzes!AskUpdateQuiz(x)
        BY <2>4 DEF Quizzes!AskUpdateQuiz
    <2>5. CASE Quizzes!AskPublish(x)
        BY <2>5 DEF Quizzes!AskPublish
    <2> QED BY <2>1, <2>2, <2>3, <2>4, <2>5
<1>2. call' = [call EXCEPT ![x] = c] /\ UNCHANGED <<roster, quiz, questions, attempts>>
    BY <1>1 DEF Quizzes!Ask
<1>3. /\ DOMAIN call' = Author \union DOMAIN QuizTab
      /\ \A y \in Author : call'[y] = IF y = x THEN c ELSE call[y]
      /\ \A t \in DOMAIN QuizTab : call'[t] = call[t]
    BY <1>2, QuizCalls
<1>4. /\ Quizzes!Asked' = Quizzes!Asked /\ Quizzes!Editable' = Quizzes!Editable
    BY <1>2 DEF Quizzes!Asked, Quizzes!Editable
<1>5. ASSUME NEW y \in Author PROVE Authors(y)'
    BY <1>1, <1>3 DEF QuizInvariant, Authors
<1>6. ASSUME NEW t \in DOMAIN QuizTab PROVE Attempts(t)'
    BY <1>3 DEF QuizInvariant, Attempts
<1>7. ASSUME ~coauthored' PROVE OneAuthor'
    <2>1. ~coauthored /\ \A y \in Author \ {x} : call[y] = Quizzes!Idle
        BY <1>1, <1>7, Zenon DEF Quizzes!Ask
    <2>2. \A y \in Author \ {x} : call'[y].op = "idle"
        BY <1>3, <2>1 DEF Quizzes!Idle
    <2>3. OneAuthor
        BY <2>1 DEF QuizInvariant
    <2>4. ASSUME NEW y \in Author PROVE Edits(y)'
        <3>1. CASE y = x
            BY <1>1, <1>2, <1>3, <1>4, <3>1 DEF Edits
        <3>2. CASE y # x
            BY <2>2, <3>2 DEF Edits
        <3> QED BY <3>1, <3>2
    <2>5. ASSUME NEW t \in DOMAIN QuizTab PROVE Answers(t)'
        BY <1>2, <1>3, <1>4, <2>3 DEF OneAuthor, Answers
    <2>6. ASSUME NEW s \in Student PROVE Graded(s)'
        BY <1>2, <1>4, <2>3 DEF OneAuthor, Graded
    <2>7. /\ quiz'.published => Quizzes!Asked' # {}
          /\ \A q \in Quizzes!Asked' : Quizzes!WellShaped(questions'[q])
        BY <1>2, <1>4, <2>3 DEF OneAuthor
    <2> QED BY <2>2, <2>4, <2>5, <2>6, <2>7 DEF OneAuthor
<1> QED BY <1>2, <1>3, <1>5, <1>6, <1>7 DEF QuizInvariant

\* An author's edit meets no attempt, unless another author was at work.
LEMMA QuizAuthorWrites ==
    ASSUME Quizzes!QuizAssumption, QuizInvariant, NEW x \in Author,
           \/ Quizzes!AddQuestion(x) \/ Quizzes!UpdateQuestion(x) \/ Quizzes!DeleteQuestion(x)
           \/ Quizzes!UpdateQuiz(x) \/ Quizzes!Publish(x)
    PROVE  QuizInvariant'
<1>1. /\ call' = [call EXCEPT ![x] = Quizzes!Idle] /\ UNCHANGED <<roster, attempts, coauthored>>
      /\ DOMAIN questions' = QuestionIds /\ DOMAIN quiz' = {"published", "subject"}
      /\ call[x].op # "idle"
    BY DEF Quizzes!AddQuestion, Quizzes!UpdateQuestion, Quizzes!DeleteQuestion, Quizzes!UpdateQuiz, Quizzes!Publish,
           Quizzes!Refused, Quizzes!Answer, QuizInvariant
<1>2. /\ DOMAIN call' = Author \union DOMAIN QuizTab
      /\ \A y \in Author : call'[y] = IF y = x THEN Quizzes!Idle ELSE call[y]
      /\ \A t \in DOMAIN QuizTab : call'[t] = call[t]
    BY <1>1, QuizCalls
<1>3. ASSUME NEW y \in Author PROVE Authors(y)'
    BY <1>2 DEF QuizInvariant, Authors, Quizzes!Idle
<1>4. ASSUME NEW t \in DOMAIN QuizTab PROVE Attempts(t)'
    BY <1>2 DEF QuizInvariant, Attempts
<1>5. ASSUME ~coauthored' PROVE OneAuthor'
    <2>1. OneAuthor /\ Edits(x)
        BY <1>1, <1>5 DEF QuizInvariant, OneAuthor
    <2>2. \A y \in Author : call'[y].op = "idle"
        BY <1>1, <1>2, <2>1 DEF OneAuthor, Quizzes!Idle
    <2>3. CASE Quizzes!Publish(x)
        <3>1. /\ UNCHANGED questions /\ quiz'.published /\ Quizzes!Asked # {} /\ Quizzes!Asked' = Quizzes!Asked
            BY <2>1, <2>3 DEF Quizzes!Publish, Edits, QuizInvariant, Quizzes!Asked
        <3>2. ASSUME NEW t \in DOMAIN QuizTab PROVE Answers(t)'
            BY <1>2, <2>1, <3>1 DEF OneAuthor, Answers
        <3>3. ASSUME NEW s \in Student PROVE Graded(s)'
            BY <1>1, <2>1, <3>1 DEF OneAuthor, Graded
        <3> QED BY <2>1, <2>2, <3>1, <3>2, <3>3 DEF OneAuthor, Edits
    <2>4. CASE ~Quizzes!Publish(x)
        <3>1. Quizzes!Editable
            BY <2>1, <2>4 DEF Edits, Quizzes!AddQuestion, Quizzes!UpdateQuestion, Quizzes!DeleteQuestion,
                              Quizzes!UpdateQuiz
        <3>2. ~quiz'.published
            BY <2>4, <3>1
            DEF Quizzes!Editable, Quizzes!AddQuestion, Quizzes!UpdateQuestion, Quizzes!DeleteQuestion,
                Quizzes!UpdateQuiz, Quizzes!Refused, QuizInvariant
        <3>3. ASSUME NEW t \in DOMAIN QuizTab PROVE Answers(t)'
            BY <1>2, <2>1, <3>1 DEF OneAuthor, Answers, Quizzes!Editable
        <3>4. ASSUME NEW s \in Student PROVE Graded(s)'
            BY <1>1, <3>1 DEF Graded, Quizzes!Editable
        <3>5. ASSUME NEW q \in Quizzes!Asked' PROVE Quizzes!WellShaped(questions'[q])
            <4>1. DOMAIN questions = QuestionIds
                BY DEF QuizInvariant
            <4>2. q \in QuestionIds /\ questions'[q] # None
                BY <3>5 DEF Quizzes!Asked
            <4>3. CASE questions'[q] = questions[q]
                BY <2>1, <4>2, <4>3 DEF OneAuthor, Quizzes!Asked
            <4>4. CASE questions'[q] # questions[q]
                <5>1. CASE Quizzes!AddQuestion(x)
                    BY <2>1, <4>1, <4>2, <4>4, <5>1
                    DEF Quizzes!AddQuestion, Quizzes!Refused, Edits
                <5>2. CASE Quizzes!UpdateQuestion(x)
                    BY <2>1, <4>1, <4>2, <4>4, <5>2
                    DEF Quizzes!UpdateQuestion, Quizzes!Refused, Edits
                <5>3. CASE ~Quizzes!AddQuestion(x) /\ ~Quizzes!UpdateQuestion(x)
                    BY <2>4, <4>1, <4>2, <4>4, <5>3 DEF Quizzes!DeleteQuestion, Quizzes!UpdateQuiz
                <5> QED BY <5>1, <5>2, <5>3
            <4> QED BY <4>3, <4>4
        <3> QED BY <2>2, <3>2, <3>3, <3>4, <3>5 DEF OneAuthor, Edits
    <2> QED BY <2>3, <2>4
<1> QED BY <1>1, <1>2, <1>3, <1>4, <1>5 DEF QuizInvariant

\* What students do leaves the quiz and its questions alone.
LEMMA QuizStudents ==
    ASSUME Quizzes!QuizAssumption, QuizInvariant, NEW t \in DOMAIN QuizTab,
           Quizzes!AskStart(t) \/ Quizzes!Start(t) \/ Quizzes!AskSubmit(t) \/ Quizzes!Submit(t)
    PROVE  QuizInvariant'
<1>1. /\ UNCHANGED <<roster, quiz, questions>> /\ (~coauthored' => ~coauthored)
      /\ DOMAIN attempts' = Student
    <2>1. UNCHANGED <<roster, quiz, questions>> /\ DOMAIN attempts' = Student
        BY DEF Quizzes!AskStart, Quizzes!Start, Quizzes!AskSubmit, Quizzes!Submit, Quizzes!Ask, Quizzes!Answer,
               Quizzes!Refused, QuizInvariant
    <2>2. \A c : Quizzes!Ask(t, c) => (~coauthored' => ~coauthored)
        BY Zenon DEF Quizzes!Ask
    <2>3. (Quizzes!Start(t) \/ Quizzes!Submit(t)) => UNCHANGED coauthored
        BY DEF Quizzes!Start, Quizzes!Submit, Quizzes!Answer, Quizzes!Refused
    <2>4. (Quizzes!AskStart(t) \/ Quizzes!AskSubmit(t)) => \E c : Quizzes!Ask(t, c)
        BY Zenon DEF Quizzes!AskStart, Quizzes!AskSubmit
    <2> QED BY <2>1, <2>2, <2>3, <2>4
<1>2. Quizzes!Asked' = Quizzes!Asked /\ QuizTab[t] \in Student
    BY <1>1 DEF Quizzes!Asked, Quizzes!QuizAssumption
<1>3. PICK c :
        /\ call' = [call EXCEPT ![t] = c]
        /\ c.op \in {"idle", "start", "submit"} /\ (c.op = "idle" => c = Quizzes!Idle)
        /\ OneAuthor /\ c.op # "idle" => quiz.published
        /\ c.op = "submit" =>
            /\ c.score = Quizzes!Score(questions, Quizzes!Asked, c.answers)
            /\ c.outOf = Quizzes!OutOf(questions, Quizzes!Asked)
    <2>1. CASE Quizzes!AskStart(t)
        <3> DEFINE c == [op |-> "start", found |-> attempts[QuizTab[t]] # None]
        <3>1. Quizzes!Ask(t, c) /\ quiz.published
            BY <2>1 DEF Quizzes!AskStart
        <3>2. c.op = "start"
            OBVIOUS
        <3> HIDE DEF c
        <3>3. call' = [call EXCEPT ![t] = c]
            BY <3>1 DEF Quizzes!Ask
        <3> QED BY <3>1, <3>2, <3>3
    <2>2. CASE Quizzes!AskSubmit(t)
        <3>1. OneAuthor => quiz.published
            BY <1>2, <2>2 DEF Quizzes!AskSubmit, OneAuthor, Graded
        <3>2. PICK answers : Quizzes!Ask(t, [op |-> "submit", answers |-> answers,
                                       score |-> Quizzes!Score(questions, Quizzes!Asked, answers),
                                       outOf |-> Quizzes!OutOf(questions, Quizzes!Asked)])
            BY <2>2, Zenon DEF Quizzes!AskSubmit
        <3> DEFINE c == [op |-> "submit", answers |-> answers,
                         score |-> Quizzes!Score(questions, Quizzes!Asked, answers),
                         outOf |-> Quizzes!OutOf(questions, Quizzes!Asked)]
        <3>3. /\ c.op = "submit" /\ c.outOf = Quizzes!OutOf(questions, Quizzes!Asked)
              /\ c.score = Quizzes!Score(questions, Quizzes!Asked, c.answers)
            OBVIOUS
        <3>4. Quizzes!Ask(t, c)
            BY <3>2
        <3> HIDE DEF c
        <3>5. call' = [call EXCEPT ![t] = c]
            BY <3>4 DEF Quizzes!Ask
        <3> QED BY <3>1, <3>3, <3>5
    <2>3. CASE Quizzes!Start(t) \/ Quizzes!Submit(t)
        <3>1. call' = [call EXCEPT ![t] = Quizzes!Idle]
            BY <2>3 DEF Quizzes!Start, Quizzes!Submit, Quizzes!Answer, Quizzes!Refused
        <3>2. Quizzes!Idle.op = "idle"
            BY DEF Quizzes!Idle
        <3> QED BY <3>1, <3>2
    <2> QED BY <2>1, <2>2, <2>3
<1>4. /\ DOMAIN call' = Author \union DOMAIN QuizTab
      /\ \A x \in Author : call'[x] = call[x]
      /\ \A u \in DOMAIN QuizTab : call'[u] = IF u = t THEN c ELSE call[u]
    BY <1>3, QuizCalls
<1>5. ASSUME NEW x \in Author PROVE Authors(x)'
    BY <1>4 DEF QuizInvariant, Authors
<1>6. ASSUME NEW u \in DOMAIN QuizTab PROVE Attempts(u)'
    BY <1>3, <1>4 DEF QuizInvariant, Attempts
<1>7. ASSUME ~coauthored' PROVE OneAuthor'
    <2>1. OneAuthor
        BY <1>1, <1>7 DEF QuizInvariant
    <2>2. ASSUME NEW s \in Student PROVE Graded(s)'
        <3>1. CASE attempts'[s] = attempts[s]
            BY <1>1, <1>2, <2>1, <3>1 DEF OneAuthor, Graded
        <3>2. CASE attempts'[s] # attempts[s]
            <4>1. CASE Quizzes!Start(t)
                <5>1. attempts' = [attempts EXCEPT ![QuizTab[t]] = Quizzes!Fresh] /\ call[t].op = "start"
                    BY <3>2, <4>1 DEF Quizzes!Start, Quizzes!Refused
                <5>2. attempts'[s].status = "IN_PROGRESS" /\ quiz.published
                    BY <2>1, <3>2, <5>1 DEF OneAuthor, Answers, QuizInvariant, Quizzes!Fresh
                <5> QED BY <1>1, <5>2 DEF Graded
            <4>2. CASE Quizzes!Submit(t)
                <5>1. /\ attempts'[s].score = call[t].score /\ attempts'[s].outOf = call[t].outOf
                      /\ attempts'[s].answers = call[t].answers /\ call[t].op = "submit"
                    BY <3>2, <4>2 DEF Quizzes!Submit, QuizInvariant
                <5>2. Answers(t)
                    BY <2>1 DEF OneAuthor
                <5> QED BY <1>1, <1>2, <5>1, <5>2 DEF Graded, Answers
            <4>3. CASE Quizzes!AskStart(t) \/ Quizzes!AskSubmit(t)
                BY <3>2, <4>3 DEF Quizzes!AskStart, Quizzes!AskSubmit, Quizzes!Ask
            <4> QED BY <4>1, <4>2, <4>3
        <3> QED BY <3>1, <3>2
    <2>3. ASSUME NEW u \in DOMAIN QuizTab PROVE Answers(u)'
        <3>1. CASE u = t
            BY <1>1, <1>2, <1>3, <1>4, <2>1, <3>1 DEF Answers
        <3>2. CASE u # t
            BY <1>1, <1>2, <1>4, <2>1, <3>2 DEF OneAuthor, Answers
        <3> QED BY <3>1, <3>2
    <2>4. ASSUME NEW x \in Author PROVE Edits(x)'
        <3>1. Edits(x) /\ call'[x] = call[x]
            BY <1>4, <2>1 DEF OneAuthor
        <3>2. Quizzes!Editable => Quizzes!Editable'
            <4>1. ~quiz.published => attempts' = attempts
                <5>1. \A u \in DOMAIN QuizTab : call[u].op # "idle" => quiz.published
                    BY <2>1 DEF OneAuthor, Answers
                <5> QED BY <5>1 DEF Quizzes!AskStart, Quizzes!Start, Quizzes!AskSubmit, Quizzes!Submit, Quizzes!Ask
            <4> QED BY <1>1, <4>1 DEF Quizzes!Editable
        <3> QED BY <1>1, <1>2, <3>1, <3>2 DEF Edits
    <2> QED BY <1>1, <1>2, <1>4, <2>1, <2>2, <2>3, <2>4 DEF OneAuthor
<1> QED BY <1>1, <1>4, <1>5, <1>6, <1>7 DEF QuizInvariant

LEMMA QuizNext ==
    ASSUME Quizzes!QuizAssumption, QuizInvariant, [Quizzes!Next]_(Quizzes!vars)
    PROVE  QuizInvariant'
<1>1. ASSUME UNCHANGED <<quiz, questions, attempts, call, coauthored>>, roster' \in QuizRoster
      PROVE  QuizInvariant'
    <2>1. Quizzes!Asked' = Quizzes!Asked /\ Quizzes!Editable' = Quizzes!Editable
        BY <1>1 DEF Quizzes!Asked, Quizzes!Editable
    <2>2. OneAuthor => OneAuthor'
        BY <1>1, <2>1 DEF OneAuthor, Edits, Answers, Graded
    <2> QED BY <1>1, <2>2 DEF QuizInvariant, Authors, Attempts
<1>2. roster \in QuizRoster
    BY DEF QuizInvariant
<1>3. CASE Quizzes!RosterChanges \/ UNCHANGED Quizzes!vars
    BY <1>1, <1>2, <1>3 DEF Quizzes!RosterChanges, Quizzes!vars
<1> QED BY <1>3, QuizAuthorAsks, QuizAuthorWrites, QuizStudents DEF Quizzes!Next

\* A set of one element at most has no second.
LEMMA OneAtMost ==
    ASSUME NEW S, IsFiniteSet(S), Quizzes!Cardinality(S) <= 1, NEW e \in S, NEW f \in S
    PROVE  e = f
<1>1. Quizzes!Cardinality(S) = Cardinality(S)
    BY DEF Quizzes!Cardinality, Quizzes!IsFiniteSet, Cardinality, IsFiniteSet
<1>2. Cardinality(S) \in Nat /\ Cardinality(S \ {e}) = Cardinality(S) - 1 /\ IsFiniteSet(S \ {e})
    BY FS_CardinalityType, FS_RemoveElement
<1>3. Cardinality(S \ {e}) = 0 /\ IsFiniteSet(S \ {e})
    BY <1>1, <1>2, FS_CardinalityType
<1> QED BY <1>3, FS_EmptySet

\* Whose list shows a quiz on other grounds than a place in its section picks its subject
\* there in the session of a place in the same class.
LEMMA ListedPick ==
    ASSUME Quizzes!QuizAssumption, NEW r \in QuizRoster, NEW s \in Student, NEW subject,
           NEW p \in Quizzes!Active(r, s), p.section # QuizSection,
           NEW o \in Quizzes!OfferingOf(QuizSection, subject)
    PROVE  /\ Quizzes!OfferingOf(QuizSection, subject) = {o}
           /\ o \in Quizzes!TakenIn(r, s, p.section, p.year) <=>
                /\ Quizzes!Picked(r.picks, s, p.year, o) /\ ClassOf[p.section] = ClassOf[QuizSection]
           /\ Quizzes!Picked(r.picks, s, p.year, o) => o \in Quizzes!TakenIn(r, s, QuizSection, p.year)
<1>1. /\ r.picks \subseteq Quizzes!Pick /\ p.year \in Year
      /\ o \in Offering /\ SectionOf[o] = QuizSection /\ SubjectOf[o] = subject
    BY DEF Quizzes!QuizAssumption, Quizzes!OfferingOf, Quizzes!Active, Quizzes!Placement
<1>2. \A k \in r.picks : k = [student |-> k.student, year |-> k.year, offering |-> k.offering]
    BY <1>1 DEF Quizzes!Pick
<1>3. Quizzes!OfferingOf(QuizSection, subject) = {o}
    BY <1>1 DEF Quizzes!OfferingOf, Quizzes!QuizAssumption, Quizzes!StructureAssumption
<1>4. \A c : o \in {k.offering : k \in Quizzes!PicksOf(r.picks, s, p.year, c)} <=>
        Quizzes!Picked(r.picks, s, p.year, o) /\ c = ClassOf[QuizSection]
    <2> SUFFICES ASSUME NEW c
                 PROVE  o \in {k.offering : k \in Quizzes!PicksOf(r.picks, s, p.year, c)} <=>
                            Quizzes!Picked(r.picks, s, p.year, o) /\ c = ClassOf[QuizSection]
        OBVIOUS
    <2>1. ASSUME NEW k \in Quizzes!PicksOf(r.picks, s, p.year, c), o = k.offering
          PROVE  Quizzes!Picked(r.picks, s, p.year, o) /\ c = ClassOf[QuizSection]
        <3>1. k \in r.picks /\ k.student = s /\ k.year = p.year /\ ClassOf[QuizSection] = c
            BY <1>1, <2>1 DEF Quizzes!PicksOf, Quizzes!ClassFor
        <3>2. k = [student |-> s, year |-> p.year, offering |-> o]
            BY <1>2, <2>1, <3>1
        <3> QED BY <3>1, <3>2 DEF Quizzes!Picked
    <2>2. ASSUME Quizzes!Picked(r.picks, s, p.year, o), c = ClassOf[QuizSection]
          PROVE  \E k \in Quizzes!PicksOf(r.picks, s, p.year, c) : o = k.offering
        <3> DEFINE k == [student |-> s, year |-> p.year, offering |-> o]
        <3>1. k \in Quizzes!PicksOf(r.picks, s, p.year, c) /\ o = k.offering
            BY <1>1, <2>2 DEF Quizzes!PicksOf, Quizzes!Picked, Quizzes!ClassFor
        <3> QED BY <3>1
    <2> QED BY <2>1, <2>2
<1> QED BY <1>1, <1>3, <1>4 DEF Quizzes!TakenIn, Quizzes!SubjectsOf

LEMMA ListedAreAdmitted ==
    ASSUME Quizzes!QuizAssumption, QuizInvariant PROVE Quizzes!ListedIffAdmitted
<1> SUFFICES ASSUME NEW s \in Student
             PROVE  /\ Quizzes!Cardinality(Quizzes!Active(roster, s)) <= 1 =>
                        (Quizzes!Available(roster, s, quiz.subject) =
                            \E p \in Quizzes!Entrances(roster, s, quiz.subject) :
                                Quizzes!Admits(roster, s, quiz.subject, p))
                    /\ Quizzes!Available(roster, s, quiz.subject) =>
                            s \in Quizzes!NotifiedOf(roster, quiz.subject)
    BY Zenon DEF Quizzes!ListedIffAdmitted
<1> DEFINE subject == quiz.subject
           offering == Quizzes!OfferingOf(QuizSection, subject)
           placements == Quizzes!Active(roster, s)
           listed == Quizzes!Available(roster, s, subject)
           admitted == \E p \in Quizzes!Entrances(roster, s, subject) : Quizzes!Admits(roster, s, subject, p)
<1>1. roster \in QuizRoster /\ roster.rows \subseteq Quizzes!Placement /\ IsFiniteSet(roster.rows)
    <2>1. \A S : Quizzes!IsFiniteSet(S) = IsFiniteSet(S)
        BY DEF Quizzes!IsFiniteSet, IsFiniteSet
    <2> QED BY <2>1 DEF QuizInvariant, Quizzes!QuizAssumption
<1>2. IsFiniteSet(placements)
    <2>1. placements \subseteq roster.rows
        BY DEF Quizzes!Active
    <2> QED BY <1>1, <2>1, FS_Subset
<1>3. CASE \E p \in placements : p.section = QuizSection
    <2>1. PICK p \in placements : p.section = QuizSection
        BY <1>3
    <2>2. s \in Quizzes!NotifiedOf(roster, subject)
        BY <2>1 DEF Quizzes!NotifiedOf
    <2>3. ASSUME Quizzes!Cardinality(placements) <= 1 PROVE listed = admitted
        <3>1. placements = {p}
            BY <1>2, <2>1, <2>3, OneAtMost
        <3>2. Quizzes!Entrances(roster, s, subject) = {p}
            BY <2>1, <3>1 DEF Quizzes!Entrances
        <3>3. admitted <=> offering \subseteq Quizzes!TakenIn(roster, s, QuizSection, p.year)
            BY <3>2 DEF Quizzes!Admits
        <3>4. UNION {Quizzes!TakenIn(roster, s, q.section, q.year) : q \in placements}
                = Quizzes!TakenIn(roster, s, QuizSection, p.year)
            BY <2>1, <3>1
        <3>5. listed <=> offering \subseteq Quizzes!TakenIn(roster, s, QuizSection, p.year)
            BY <1>3, <3>4 DEF Quizzes!Available
        <3>6. listed \in BOOLEAN
            BY DEF Quizzes!Available
        <3> QED BY <3>3, <3>5, <3>6, Zenon
    <2> QED BY <2>2, <2>3
<1>4. CASE ~\E p \in placements : p.section = QuizSection
    <2>1. listed <=>
            /\ offering # {}
            /\ offering \subseteq UNION {Quizzes!TakenIn(roster, s, p.section, p.year) : p \in placements}
        BY <1>4, Zenon DEF Quizzes!Available
    <2>2. Quizzes!Entrances(roster, s, subject) = Quizzes!SiblingPlacements(roster, s, subject)
        BY <1>4 DEF Quizzes!Entrances
    <2>3. ASSUME listed
          PROVE  \E o \in offering, p \in placements :
                    /\ offering = {o} /\ Quizzes!Picked(roster.picks, s, p.year, o)
                    /\ ClassOf[p.section] = ClassOf[QuizSection]
        <3>1. PICK o \in offering, p \in placements : o \in Quizzes!TakenIn(roster, s, p.section, p.year)
            BY <2>1, <2>3
        <3>2. p.section # QuizSection
            BY <1>4
        <3> QED BY <1>1, <3>1, <3>2, ListedPick
    <2>4. ASSUME NEW o \in offering, NEW p \in placements
          PROVE  Quizzes!ClassFor(o) = ClassOf[QuizSection] /\ p \in Quizzes!Of(roster.rows, s, p.year)
                 /\ p.section \in Section /\ p.year \in Year /\ p.status = "ACTIVE" /\ p \in roster.rows
                 /\ SectionOf[o] = QuizSection /\ p.student = s
        BY <1>1 DEF Quizzes!OfferingOf, Quizzes!ClassFor, Quizzes!Active, Quizzes!Of, Quizzes!Placement
    <2>5. listed => s \in Quizzes!NotifiedOf(roster, subject)
        <3> SUFFICES ASSUME listed PROVE s \in Quizzes!NotifiedOf(roster, subject)
            OBVIOUS
        <3>1. PICK o \in offering, p \in placements :
                    /\ offering = {o} /\ Quizzes!Picked(roster.picks, s, p.year, o)
                    /\ ClassOf[p.section] = ClassOf[QuizSection]
            BY <2>3
        <3>2. ~\E q \in Quizzes!Of(roster.rows, s, p.year) : q.status = "ACTIVE" /\ q.section = SectionOf[o]
            BY <1>4, <2>4 DEF Quizzes!Of, Quizzes!Active
        <3>3. s \in Quizzes!CrossSectionTakers(roster.rows, roster.picks, offering, p.year, {"ACTIVE"})
            BY <2>4, <3>1, <3>2 DEF Quizzes!CrossSectionTakers
        <3>4. p.year \in {e.year : e \in {q \in roster.rows :
                            q.status = "ACTIVE" /\ ClassOf[q.section] = ClassOf[QuizSection]}}
            BY <2>4, <3>1
        <3> QED BY <3>3, <3>4 DEF Quizzes!NotifiedOf
    <2>6. ASSUME Quizzes!Cardinality(placements) <= 1 PROVE listed = admitted
        <3>1. ASSUME listed PROVE admitted
            <4>1. PICK o \in offering, p \in placements :
                        /\ offering = {o} /\ Quizzes!Picked(roster.picks, s, p.year, o)
                        /\ ClassOf[p.section] = ClassOf[QuizSection]
                BY <2>3, <3>1
            <4>2. p \in Quizzes!SiblingPlacements(roster, s, subject)
                BY <2>4, <4>1 DEF Quizzes!SiblingPlacements, Quizzes!PicksFromSibling
            <4>3. o \in Quizzes!TakenIn(roster, s, QuizSection, p.year)
                BY <1>1, <1>4, <4>1, ListedPick
            <4> QED BY <2>2, <4>1, <4>2, <4>3 DEF Quizzes!Admits
        <3>2. ASSUME admitted PROVE listed
            <4>1. PICK p \in Quizzes!SiblingPlacements(roster, s, subject) :
                        Quizzes!Admits(roster, s, subject, p)
                BY <2>2, <3>2
            <4>2. PICK o \in offering : Quizzes!Picked(roster.picks, s, p.year, o)
                BY DEF Quizzes!SiblingPlacements, Quizzes!PicksFromSibling
            <4>3. p \in placements /\ ClassOf[p.section] = ClassOf[QuizSection] /\ p.section # QuizSection
                BY <1>4 DEF Quizzes!SiblingPlacements
            <4>4. offering = {o} /\ o \in Quizzes!TakenIn(roster, s, p.section, p.year)
                BY <1>1, <4>2, <4>3, ListedPick
            <4> QED BY <2>1, <4>3, <4>4
        <3>3. listed \in BOOLEAN
            BY DEF Quizzes!Available
        <3> QED BY <3>1, <3>2, <3>3, Zenon
    <2> QED BY <2>5, <2>6
<1> QED BY <1>3, <1>4

LEMMA QuizKept ==
    ASSUME Quizzes!QuizAssumption, QuizInvariant
    PROVE  Quizzes!GradeStands /\ Quizzes!PublishedAnswerable /\ Quizzes!ListedIffAdmitted
<1>1. Quizzes!PublishedAnswerable
    BY DEF QuizInvariant, OneAuthor, Quizzes!PublishedAnswerable
<1>2. ASSUME ~coauthored, NEW s \in Student, attempts[s] # None, attempts[s].status = "GRADED"
      PROVE  LET shown == Quizzes!ShownMarks(attempts[s])
             IN  /\ attempts[s].score = Quizzes!MapThenSumSet(LAMBDA q : shown[q], Quizzes!Asked)
                 /\ attempts[s].outOf = Quizzes!OutOf(questions, Quizzes!Asked)
    <2>1. /\ attempts[s].score = Quizzes!Score(questions, Quizzes!Asked, attempts[s].answers)
          /\ attempts[s].outOf = Quizzes!OutOf(questions, Quizzes!Asked)
        BY <1>2 DEF QuizInvariant, OneAuthor, Graded
    <2> QED BY <2>1, MarksShown, Zenon
<1>3. Quizzes!GradeStands
    BY <1>2, Zenon DEF Quizzes!GradeStands
<1> QED BY <1>1, <1>3, ListedAreAdmitted

\* A quiz its authors do not edit at once is graded once and for good, against the questions
\* its takers saw; what is published can be answered; and it is started by exactly those
\* whose lists show it (quizzes.service.ts, assertEditable, publish, startAttempt).
THEOREM QuizzesAreFair ==
    ASSUME Quizzes!QuizAssumption
    PROVE  Quizzes!Spec => []/\ Quizzes!GradeStands
                             /\ Quizzes!PublishedAnswerable
                             /\ Quizzes!ListedIffAdmitted
<1>1. QuizInvariant => /\ Quizzes!GradeStands
                       /\ Quizzes!PublishedAnswerable
                       /\ Quizzes!ListedIffAdmitted
    BY QuizKept
<1>2. QuizInvariant /\ [Quizzes!Next]_(Quizzes!vars) => QuizInvariant'
    BY QuizNext
<1>3. Quizzes!Init => QuizInvariant
    BY QuizInit
<1> QED BY <1>1, <1>2, <1>3, PTL DEF Quizzes!Spec

-----------------------------------------------------------------------------
(* Messages *)

MessageRow == [read : Nat, cleared : Nat, hidden : BOOLEAN]
Message == [at : Nat, sender : Talker, body : BOOLEAN, unsent : BOOLEAN]

\* A request in flight in a thread.
Requests(t) ==
    /\ call[t].op \in {"idle", "send", "edit", "remove"}
    /\ call[t].op = "idle" => call[t] = Messaging!Idle
    /\ call[t].op = "send" => call[t].since \in Nat
    /\ call[t].op = "edit" => call[t].message \in DOMAIN messages
    /\ call[t].op = "remove" => type = "GROUP" /\ call[t].user \in Talker

ThreadTyped ==
    /\ type \in {"DIRECT", "GROUP"} /\ clock \in Nat
    /\ messages \in Seq(Message)
    /\ \A i \in DOMAIN messages : messages[i].at \in 1..clock
    /\ DOMAIN members = Talker
    /\ \A u \in Talker : members[u] = {} \/ \E r \in MessageRow : members[u] = {r} /\ r.read <= clock
    /\ DOMAIN seen = Talker
    /\ \A u \in Talker : \E k \in 0..Len(messages) : seen[u] = 1..k
    /\ DOMAIN call = Screen
    /\ \A t \in Screen : Requests(t)

\* What keeps a thread orderly while no two requests race: messages are stamped in the
\* order they are committed,
InOrder ==
    \A i, j \in DOMAIN messages : i < j => messages[i].at < messages[j].at

\* everybody has seen their own, and what they have not seen is later than what they read
\* and than what they hid,
Noticed ==
    \A u \in Talker, i \in DOMAIN messages :
        /\ messages[i].sender = u => i \in seen[u]
        /\ \A r \in members[u] : /\ i \notin seen[u] => messages[i].at > r.read
                                 /\ r.hidden => messages[i].at <= r.cleared

\* whoever is about to speak is on turn, and no one speaks twice,
OnTurns ==
    /\ \A t \in Screen : call[t].op = "send" => Messaging!OnTurn(ScreenOf[t])
    /\ \A t, o \in Screen : call[t].op = "send" /\ call[o].op = "send" /\ t # o => ScreenOf[t] # ScreenOf[o]
    /\ \A i \in 2..Len(messages) :
        TalkerRole[messages[i].sender] = "STUDENT" /\ Messaging!ToAdmin(messages[i].sender) =>
            messages[i - 1].sender # messages[i].sender

\* two stay when someone is removed,
Company ==
    /\ Cardinality(Messaging!In) >= 2
    /\ \A t \in Screen : call[t].op = "remove" => Cardinality(Messaging!In) > 2
    /\ \A t, o \in Screen : call[t].op = "remove" /\ call[o].op = "remove" => t = o

\* and what is unsent has no text and is not being edited.
Tombstones ==
    /\ \A i \in DOMAIN messages : messages[i].unsent => ~messages[i].body
    /\ \A t \in Screen : call[t].op = "edit" => ~messages[call[t].message].unsent

ThreadInvariant ==
    /\ ThreadTyped
    /\ ~raced => InOrder /\ Noticed /\ OnTurns /\ Company /\ Tombstones

\* The row of a member is the one there is; a set of users can be counted.
LEMMA OneRow ==
    ASSUME NEW u, NEW r, members[u] = {r}
    PROVE  Messaging!Row(u) = r
BY DEF Messaging!Row

LEMMA MembersCount ==
    ASSUME Messaging!MessagingAssumption
    PROVE  /\ IsFiniteSet(Messaging!In) /\ Cardinality(Messaging!In) \in Nat
           /\ IsFiniteSet(Messaging!In') /\ Cardinality(Messaging!In)' \in Nat
           /\ \A S : Messaging!Cardinality(S) = Cardinality(S)
<1>1. IsFiniteSet(Talker)
    BY DEF Messaging!MessagingAssumption, Messaging!IsFiniteSet, IsFiniteSet
<1>2. Messaging!In \subseteq Talker /\ Messaging!In' \subseteq Talker
    BY DEF Messaging!In
<1>3. \A S : Messaging!Cardinality(S) = Cardinality(S)
    BY DEF Messaging!Cardinality, Messaging!IsFiniteSet, Cardinality, IsFiniteSet
<1> QED BY <1>1, <1>2, <1>3, FS_Subset, FS_CardinalityType

\* With stamps in order the newest message is the last.
LEMMA LastIsNewest ==
    ASSUME ThreadTyped, InOrder, Len(messages) > 0
    PROVE  Messaging!Newest = {Len(messages)} /\ Len(messages) \in DOMAIN messages
<1>1. Len(messages) \in Nat /\ DOMAIN messages = 1..Len(messages)
    BY DEF ThreadTyped
<1>2. \A i \in DOMAIN messages : messages[i].at \in Nat
    BY DEF ThreadTyped
<1> QED BY <1>1, <1>2 DEF InOrder, Messaging!Newest

LEMMA ThreadInit ==
    ASSUME Messaging!MessagingAssumption, Messaging!Init PROVE ThreadInvariant
<1>1. /\ messages = <<>> /\ clock = 0 /\ call = [t \in Screen |-> Messaging!Idle]
      /\ seen = [u \in Talker |-> {}] /\ type \in {"DIRECT", "GROUP"}
    BY DEF Messaging!Init
<1>2. PICK joined \in SUBSET Talker :
        /\ members = [u \in Talker |-> IF u \in joined THEN {Messaging!Fresh} ELSE {}]
        /\ Messaging!Cardinality(joined) = 2 \/ Messaging!Cardinality(joined) >= 2
    BY DEF Messaging!Init
<1>3. Messaging!In = joined
    BY <1>2 DEF Messaging!In
<1>4. Cardinality(Messaging!In) >= 2
    BY <1>2, <1>3, MembersCount
<1>5. Messaging!Fresh \in MessageRow /\ Messaging!Fresh.read <= clock
    BY <1>1 DEF Messaging!Fresh, MessageRow
<1>6. /\ messages \in Seq(Message) /\ DOMAIN messages = {} /\ Len(messages) = 0
      /\ \A u \in Talker : \E k \in 0..Len(messages) : seen[u] = 1..k
    BY <1>1
<1>7. ThreadTyped
    BY <1>1, <1>2, <1>5, <1>6 DEF ThreadTyped, Requests, Messaging!Idle
<1> QED BY <1>1, <1>4, <1>6, <1>7
        DEF ThreadInvariant, InOrder, Noticed, OnTurns, Company, Tombstones, Messaging!Idle

\* A request that is read changes nothing but what is in flight.
LEMMA ThreadRequested ==
    ASSUME Messaging!MessagingAssumption, ThreadInvariant, NEW t \in Screen, NEW c,
           call' = [call EXCEPT ![t] = c], UNCHANGED <<type, members, messages, clock, seen>>,
           c.op \in {"send", "edit", "remove"},
           c.op = "send" => c.since \in Nat,
           c.op = "edit" => c.message \in DOMAIN messages,
           c.op = "remove" => type = "GROUP" /\ c.user \in Talker,
           ~raced' =>
            /\ ~raced
            /\ c.op = "send" => /\ Messaging!OnTurn(ScreenOf[t])
                                /\ \A o \in Screen : call[o].op = "send" => ScreenOf[o] # ScreenOf[t]
            /\ c.op = "remove" => /\ Cardinality(Messaging!In) > 2
                                  /\ \A o \in Screen : call[o].op # "remove"
            /\ c.op = "edit" => ~messages[c.message].unsent
    PROVE  ThreadInvariant'
<1>1. ThreadTyped
    BY DEF ThreadInvariant
<1>2. /\ DOMAIN call' = Screen
      /\ \A o \in Screen : call'[o] = IF o = t THEN c ELSE call[o]
    BY <1>1 DEF ThreadTyped
<1>3. Messaging!In' = Messaging!In /\ Messaging!Newest' = Messaging!Newest
    BY DEF Messaging!In, Messaging!Newest
<1>4. \A u : /\ Messaging!ToAdmin(u)' = Messaging!ToAdmin(u)
            /\ Messaging!OnTurn(u)' = Messaging!OnTurn(u)
    BY <1>3 DEF Messaging!ToAdmin, Messaging!OnTurn
<1>5. ASSUME NEW o \in Screen PROVE Requests(o)'
    BY <1>1, <1>2 DEF ThreadTyped, Requests
<1>6. ThreadTyped'
    BY <1>1, <1>2, <1>5 DEF ThreadTyped
<1>7. ASSUME ~raced' PROVE InOrder' /\ Noticed' /\ OnTurns' /\ Company' /\ Tombstones'
    <2>1. InOrder /\ Noticed /\ OnTurns /\ Company /\ Tombstones
        BY <1>7 DEF ThreadInvariant
    <2>2. InOrder' /\ Noticed'
        BY <2>1 DEF InOrder, Noticed
    <2>3. OnTurns'
        <3>1. ASSUME NEW o \in Screen, call'[o].op = "send" PROVE Messaging!OnTurn(ScreenOf[o])'
            BY <1>2, <1>4, <1>7, <2>1, <3>1 DEF OnTurns
        <3>2. ASSUME NEW o \in Screen, NEW q \in Screen, call'[o].op = "send", call'[q].op = "send", o # q
              PROVE  ScreenOf[o] # ScreenOf[q]
            BY <1>2, <1>7, <2>1, <3>2 DEF OnTurns
        <3>3. \A i \in 2..Len(messages') :
                TalkerRole[messages'[i].sender] = "STUDENT" /\ Messaging!ToAdmin(messages[i].sender)' =>
                    messages'[i - 1].sender # messages'[i].sender
            BY <1>4, <2>1 DEF OnTurns
        <3> QED BY <3>1, <3>2, <3>3 DEF OnTurns
    <2>4. Company'
        BY <1>2, <1>3, <1>7, <2>1 DEF Company
    <2>5. Tombstones'
        BY <1>2, <1>7, <2>1 DEF Tombstones
    <2> QED BY <2>1, <2>2, <2>3, <2>4, <2>5
<1> QED BY <1>6, <1>7 DEF ThreadInvariant

LEMMA ThreadAsked ==
    ASSUME Messaging!MessagingAssumption, ThreadInvariant, NEW t \in Screen,
           Messaging!AskSend(t) \/ Messaging!AskEdit(t) \/ Messaging!AskRemove(t)
    PROVE  ThreadInvariant'
<1>1. ThreadTyped
    BY DEF ThreadInvariant
<1>2. CASE Messaging!AskSend(t)
    <2> DEFINE c == [op |-> "send", since |-> clock]
    <2>1. /\ call' = [call EXCEPT ![t] = c] /\ UNCHANGED <<type, members, messages, clock, seen>>
          /\ Messaging!OnTurn(ScreenOf[t])
        BY <1>2 DEF Messaging!AskSend, Messaging!Ask
    <2>2. ~raced' => ~raced /\ ~\E o \in Messaging!InFlight({"send"}) : ScreenOf[o] = ScreenOf[t]
        BY <1>2, Zenon DEF Messaging!AskSend
    <2>3. ~raced' => ~raced /\ \A o \in Screen : call[o].op = "send" => ScreenOf[o] # ScreenOf[t]
        BY <2>2 DEF Messaging!InFlight
    <2>4. c.op = "send" /\ c.since \in Nat
        BY <1>1 DEF ThreadTyped
    <2> HIDE DEF c
    <2> QED BY <2>1, <2>3, <2>4, ThreadRequested
<1>3. CASE Messaging!AskEdit(t)
    <2>1. PICK i \in Messaging!Own(ScreenOf[t]) :
            ~messages[i].unsent /\ Messaging!Ask(t, [op |-> "edit", message |-> i]) /\ UNCHANGED raced
        BY <1>3 DEF Messaging!AskEdit
    <2> DEFINE c == [op |-> "edit", message |-> i]
    <2>2. /\ call' = [call EXCEPT ![t] = c] /\ UNCHANGED <<type, members, messages, clock, seen, raced>>
        BY <2>1 DEF Messaging!Ask
    <2>3. c.op = "edit" /\ c.message \in DOMAIN messages /\ ~messages[c.message].unsent
        BY <2>1 DEF Messaging!Own
    <2> HIDE DEF c
    <2> QED BY <2>2, <2>3, ThreadRequested
<1>4. CASE Messaging!AskRemove(t)
    <2>1. PICK v \in Talker :
            /\ Messaging!Manages(ScreenOf[t]) /\ Messaging!Removable(v)
            /\ Messaging!Ask(t, [op |-> "remove", user |-> v])
            /\ raced' = (raced \/ Messaging!InFlight({"remove"}) # {})
        BY <1>4 DEF Messaging!AskRemove
    <2> DEFINE c == [op |-> "remove", user |-> v]
    <2>2. /\ call' = [call EXCEPT ![t] = c] /\ UNCHANGED <<type, members, messages, clock, seen>>
        BY <2>1 DEF Messaging!Ask
    <2>3. c.op = "remove" /\ c.user \in Talker /\ type = "GROUP" /\ Cardinality(Messaging!In) > 2
        BY <2>1, MembersCount DEF Messaging!Manages, Messaging!Removable
    <2>4. ~raced' => ~raced /\ Messaging!InFlight({"remove"}) = {}
        BY <2>1, Zenon
    <2>5. ~raced' => ~raced /\ \A o \in Screen : call[o].op # "remove"
        BY <2>4 DEF Messaging!InFlight
    <2> HIDE DEF c
    <2> QED BY <2>2, <2>3, <2>5, ThreadRequested
<1> QED BY <1>2, <1>3, <1>4

\* A step that says nothing new: requests only end, and what changes of the rows and of
\* who is in leaves the thread as orderly as it was.
LEMMA ThreadQuiet ==
    ASSUME Messaging!MessagingAssumption, ThreadInvariant,
           UNCHANGED type, clock' \in Nat, clock' >= clock,
           messages' \in Seq(Message), Len(messages') = Len(messages),
           \A i \in DOMAIN messages :
            messages'[i].at = messages[i].at /\ messages'[i].sender = messages[i].sender,
           DOMAIN members' = Talker,
           \A u \in Talker :
            members'[u] = {} \/ \E r \in MessageRow : members'[u] = {r} /\ r.read <= clock',
           DOMAIN seen' = Talker,
           \A u \in Talker : \E k \in 0..Len(messages) : seen'[u] = 1..k,
           \A u \in Talker : seen[u] \subseteq seen'[u],
           DOMAIN call' = Screen,
           \A t \in Screen : call'[t] \in {call[t], Messaging!Idle},
           type = "DIRECT" => Messaging!In' = Messaging!In,
           ~raced' =>
            /\ ~raced
            /\ \A u \in Talker, i \in DOMAIN messages : \A r \in members'[u] :
                /\ i \notin seen'[u] => messages[i].at > r.read
                /\ r.hidden => messages[i].at <= r.cleared
            /\ Company' /\ Tombstones'
    PROVE  ThreadInvariant'
<1>1. ThreadTyped /\ \A t \in Screen : Requests(t)
    BY DEF ThreadInvariant, ThreadTyped
<1>2. DOMAIN messages' = DOMAIN messages
    BY <1>1 DEF ThreadTyped
<1>3. ASSUME NEW t \in Screen PROVE Requests(t)'
    BY <1>1, <1>2 DEF Requests, Messaging!Idle
<1>4. ASSUME NEW i \in DOMAIN messages' PROVE messages'[i].at \in 1..clock'
    <2>1. messages[i].at \in 1..clock /\ clock \in Nat
        BY <1>1, <1>2 DEF ThreadTyped
    <2> QED BY <1>2, <2>1
<1>5. ThreadTyped'
    BY <1>1, <1>3, <1>4 DEF ThreadTyped
<1>6. ASSUME ~raced' PROVE InOrder' /\ Noticed' /\ OnTurns' /\ Company' /\ Tombstones'
    <2>1. InOrder /\ Noticed /\ OnTurns
        BY <1>6 DEF ThreadInvariant
    <2>2. InOrder'
        BY <1>2, <2>1 DEF InOrder
    <2>3. Noticed'
        BY <1>2, <1>6, <2>1 DEF Noticed
    <2>4. Messaging!Newest' = Messaging!Newest
        BY <1>2 DEF Messaging!Newest
    <2>5. \A u : Messaging!ToAdmin(u)' => Messaging!ToAdmin(u)
        BY DEF Messaging!ToAdmin
    <2>6. ASSUME NEW u, Messaging!OnTurn(u) PROVE Messaging!OnTurn(u)'
        BY <1>2, <2>4, <2>5, <2>6 DEF Messaging!OnTurn, Messaging!Newest
    <2>7. \A t \in Screen : call'[t].op = "send" => call[t].op = "send"
        BY DEF Messaging!Idle
    <2>8. ASSUME NEW i \in 2..Len(messages'),
                 TalkerRole[messages'[i].sender] = "STUDENT", Messaging!ToAdmin(messages[i].sender)'
          PROVE  messages'[i - 1].sender # messages'[i].sender
        <3>1. /\ i \in 2..Len(messages) /\ i \in DOMAIN messages /\ i - 1 \in DOMAIN messages
            BY <1>1 DEF ThreadTyped
        <3>2. messages'[i].sender = messages[i].sender /\ messages'[i - 1].sender = messages[i - 1].sender
            BY <3>1
        <3> QED BY <2>1, <2>5, <2>8, <3>1, <3>2 DEF OnTurns
    <2>9. OnTurns'
        BY <2>1, <2>6, <2>7, <2>8 DEF OnTurns
    <2> QED BY <1>6, <2>2, <2>3, <2>9
<1> QED BY <1>5, <1>6 DEF ThreadInvariant

\* A request that ends leaves the others in flight.
LEMMA RequestEnds ==
    ASSUME ThreadTyped, NEW t \in Screen,
           call' = [call EXCEPT ![t] = Messaging!Idle] \/ UNCHANGED call
    PROVE  /\ DOMAIN call' = Screen
           /\ \A o \in Screen : call'[o] \in {call[o], Messaging!Idle}
           /\ call' # call => call'[t] = Messaging!Idle /\ \A o \in Screen \ {t} : call'[o] = call[o]
BY DEF ThreadTyped

\* What is edited or unsent keeps its place and its sender.
LEMMA MessageRewritten ==
    ASSUME ThreadTyped, NEW i \in DOMAIN messages, NEW m \in Message,
           m.at = messages[i].at, m.sender = messages[i].sender,
           messages' = [messages EXCEPT ![i] = m]
    PROVE  /\ messages' \in Seq(Message) /\ Len(messages') = Len(messages)
           /\ DOMAIN messages' = DOMAIN messages
           /\ \A j \in DOMAIN messages : messages'[j].at = messages[j].at /\ messages'[j].sender = messages[j].sender
           /\ \A j \in DOMAIN messages : messages'[j] = IF j = i THEN m ELSE messages[j]
BY DEF ThreadTyped

\* The rows and what was seen stay.
LEMMA RowsStay ==
    ASSUME ThreadInvariant, UNCHANGED <<members, seen>>, clock' \in Nat, clock' >= clock
    PROVE  /\ DOMAIN members' = Talker /\ DOMAIN seen' = Talker
           /\ \A u \in Talker :
                members'[u] = {} \/ \E r \in MessageRow : members'[u] = {r} /\ r.read <= clock'
           /\ \A u \in Talker : \E k \in 0..Len(messages) : seen'[u] = 1..k
           /\ \A u \in Talker : seen[u] \subseteq seen'[u]
           /\ Messaging!In' = Messaging!In
           /\ ~raced => \A u \in Talker, i \in DOMAIN messages : \A r \in members'[u] :
                /\ i \notin seen'[u] => messages[i].at > r.read
                /\ r.hidden => messages[i].at <= r.cleared
<1>1. ThreadTyped
    BY DEF ThreadInvariant
<1>2. \A u \in Talker :
        members'[u] = {} \/ \E r \in MessageRow : members'[u] = {r} /\ r.read <= clock'
    <2> SUFFICES ASSUME NEW u \in Talker, members[u] # {}
                 PROVE  \E r \in MessageRow : members[u] = {r} /\ r.read <= clock'
        OBVIOUS
    <2>1. PICK r \in MessageRow : members[u] = {r} /\ r.read <= clock
        BY <1>1 DEF ThreadTyped
    <2>2. r.read \in Nat /\ clock \in Nat
        BY <1>1 DEF ThreadTyped, MessageRow
    <2> QED BY <2>1, <2>2
<1>3. Messaging!In' = Messaging!In
    BY DEF Messaging!In
<1>4. /\ DOMAIN members' = Talker /\ DOMAIN seen' = Talker
      /\ \A u \in Talker : \E k \in 0..Len(messages) : seen'[u] = 1..k
      /\ \A u \in Talker : seen[u] \subseteq seen'[u]
    BY <1>1 DEF ThreadTyped
<1>5. ~raced => \A u \in Talker, i \in DOMAIN messages : \A r \in members'[u] :
        /\ i \notin seen'[u] => messages[i].at > r.read
        /\ r.hidden => messages[i].at <= r.cleared
    BY DEF ThreadInvariant, Noticed
<1> QED BY <1>2, <1>3, <1>4, <1>5

\* A request that ends without a trace, and what users delete for themselves.
LEMMA ThreadRefused ==
    ASSUME Messaging!MessagingAssumption, ThreadInvariant, NEW t \in Screen,
           call' = [call EXCEPT ![t] = Messaging!Idle] \/ UNCHANGED call,
           UNCHANGED <<type, members, messages, clock, seen, raced>>
    PROVE  ThreadInvariant'
<1>1. ThreadTyped /\ clock' \in Nat /\ clock' >= clock /\ messages' \in Seq(Message)
    BY DEF ThreadInvariant, ThreadTyped
<1>2. ASSUME ~raced' PROVE Company' /\ Tombstones'
    <2>1. Company /\ Tombstones /\ Messaging!In' = Messaging!In
        BY <1>1, <1>2, RowsStay DEF ThreadInvariant
    <2>2. \A o \in Screen : call'[o].op # "idle" => call'[o] = call[o]
        BY <1>1, RequestEnds DEF Messaging!Idle
    <2> QED BY <2>1, <2>2 DEF Company, Tombstones
<1> QED BY <1>1, <1>2, RequestEnds, RowsStay, ThreadQuiet

LEMMA ThreadEdited ==
    ASSUME Messaging!MessagingAssumption, ThreadInvariant, NEW t \in Screen, Messaging!Edit(t)
    PROVE  ThreadInvariant'
<1> DEFINE i == call[t].message
           m == [messages[i] EXCEPT !.body = TRUE]
<1>1. /\ ThreadTyped /\ clock' \in Nat /\ clock' >= clock
      /\ call[t].op = "edit" /\ i \in DOMAIN messages /\ messages[i] \in Message
    BY DEF ThreadInvariant, ThreadTyped, Requests, Messaging!Edit
<1>2. /\ m \in Message /\ m.at = messages[i].at /\ m.sender = messages[i].sender
      /\ m.unsent = messages[i].unsent
    BY <1>1 DEF Message
<1>3. /\ messages' = [messages EXCEPT ![i] = m] /\ call' = [call EXCEPT ![t] = Messaging!Idle]
      /\ UNCHANGED <<type, members, clock, seen, raced>>
    BY DEF Messaging!Edit, Messaging!Answer
<1> HIDE DEF i, m
<1>4. /\ messages' \in Seq(Message) /\ Len(messages') = Len(messages)
      /\ DOMAIN messages' = DOMAIN messages
      /\ \A j \in DOMAIN messages : messages'[j].at = messages[j].at /\ messages'[j].sender = messages[j].sender
      /\ \A j \in DOMAIN messages : messages'[j] = IF j = i THEN m ELSE messages[j]
    BY <1>1, <1>2, <1>3, MessageRewritten
<1>5. ASSUME ~raced' PROVE Company' /\ Tombstones'
    <2>1. Company /\ Tombstones /\ Messaging!In' = Messaging!In
        BY <1>1, <1>3, <1>5, RowsStay DEF ThreadInvariant
    <2>2. \A o \in Screen : call'[o].op # "idle" => call'[o] = call[o]
        BY <1>1, <1>3, RequestEnds DEF Messaging!Idle
    <2>3. ~messages[i].unsent
        BY <1>1, <2>1 DEF Tombstones, i
    <2>4. \A j \in DOMAIN messages : messages'[j].unsent => ~messages'[j].body
        BY <1>2, <1>4, <2>1, <2>3 DEF Tombstones
    <2>5. ASSUME NEW o \in Screen, call'[o].op = "edit" PROVE ~messages'[call'[o].message].unsent
        <3>1. call'[o] = call[o] /\ call[o].message \in DOMAIN messages /\ ~messages[call[o].message].unsent
            BY <1>1, <2>1, <2>2, <2>5 DEF Tombstones, ThreadTyped, Requests
        <3> QED BY <1>2, <1>4, <3>1
    <2> QED BY <1>4, <2>1, <2>2, <2>4, <2>5 DEF Company, Tombstones
<1> QED BY <1>1, <1>3, <1>4, <1>5, RequestEnds, RowsStay, ThreadQuiet

LEMMA ThreadUnsent ==
    ASSUME Messaging!MessagingAssumption, ThreadInvariant, NEW t \in Screen, Messaging!Unsend(t)
    PROVE  ThreadInvariant'
<1>1. PICK i \in DOMAIN messages :
        /\ messages' = [messages EXCEPT ![i].unsent = TRUE, ![i].body = FALSE]
        /\ raced' = (raced \/ \E o \in Messaging!InFlight({"edit"}) : call[o].message = i)
        /\ UNCHANGED <<type, members, clock, call, seen>>
    BY Zenon DEF Messaging!Unsend, Messaging!Own
<1>2. /\ ThreadTyped /\ clock' \in Nat /\ clock' >= clock /\ messages[i] \in Message
    BY <1>1 DEF ThreadInvariant, ThreadTyped
<1> DEFINE m == [messages[i] EXCEPT !.unsent = TRUE, !.body = FALSE]
<1>3. /\ m \in Message /\ m.at = messages[i].at /\ m.sender = messages[i].sender
      /\ m.unsent = TRUE /\ m.body = FALSE
    BY <1>2 DEF Message
<1>4. messages' = [messages EXCEPT ![i] = m]
    BY <1>1, <1>2 DEF ThreadTyped
<1> HIDE DEF m
<1>5. /\ messages' \in Seq(Message) /\ Len(messages') = Len(messages)
      /\ DOMAIN messages' = DOMAIN messages
      /\ \A j \in DOMAIN messages : messages'[j].at = messages[j].at /\ messages'[j].sender = messages[j].sender
      /\ \A j \in DOMAIN messages : messages'[j] = IF j = i THEN m ELSE messages[j]
    BY <1>2, <1>3, <1>4, MessageRewritten
<1>6. ~raced' => ~raced /\ ~\E o \in Messaging!InFlight({"edit"}) : call[o].message = i
    BY <1>1, Zenon
<1>7. ASSUME ~raced' PROVE Company' /\ Tombstones'
    <2>1. Company /\ Tombstones /\ Messaging!In' = Messaging!In
        BY <1>1, <1>2, <1>6, <1>7, RowsStay DEF ThreadInvariant
    <2>2. \A j \in DOMAIN messages : messages'[j].unsent => ~messages'[j].body
        BY <1>3, <1>5, <2>1 DEF Tombstones
    <2>3. ASSUME NEW o \in Screen, call[o].op = "edit" PROVE ~messages'[call[o].message].unsent
        <3>1. call[o].message \in DOMAIN messages /\ call[o].message # i
            BY <1>2, <1>6, <1>7, <2>3 DEF ThreadTyped, Requests, Messaging!InFlight
        <3> QED BY <1>5, <2>1, <2>3, <3>1 DEF Tombstones
    <2> QED BY <1>1, <1>5, <2>1, <2>2, <2>3 DEF Company, Tombstones
<1> QED BY <1>1, <1>2, <1>5, <1>6, <1>7, RequestEnds, RowsStay, ThreadQuiet

\* A member who reads or hides the thread changes their own row.
LEMMA ThreadRowWritten ==
    ASSUME Messaging!MessagingAssumption, ThreadInvariant, NEW u \in Talker, members[u] # {},
           NEW w \in MessageRow, members' = [members EXCEPT ![u] = {w}],
           clock' = clock + 1, w.read <= clock',
           UNCHANGED <<type, messages, call, raced>>,
           seen' = [seen EXCEPT ![u] = DOMAIN messages] \/ UNCHANGED seen,
           ~raced => \A i \in DOMAIN messages :
                /\ i \notin seen'[u] => messages[i].at > w.read
                /\ w.hidden => messages[i].at <= w.cleared
    PROVE  ThreadInvariant'
<1>1. ThreadTyped /\ clock \in Nat /\ clock' \in Nat /\ clock' >= clock
    BY DEF ThreadInvariant, ThreadTyped
<1>2. /\ DOMAIN members' = Talker
      /\ \A v \in Talker : members'[v] = IF v = u THEN {w} ELSE members[v]
      /\ \A v \in Talker : seen'[v] = seen[v] \/ (v = u /\ seen'[v] = DOMAIN messages)
      /\ DOMAIN seen' = Talker /\ DOMAIN call' = Screen
    BY <1>1 DEF ThreadTyped
<1>3. Messaging!In' = Messaging!In
    BY <1>2 DEF Messaging!In
<1>4. ASSUME NEW v \in Talker
      PROVE  members'[v] = {} \/ \E r \in MessageRow : members'[v] = {r} /\ r.read <= clock'
    <2>1. CASE v = u
        BY <1>2, <2>1
    <2>2. CASE members[v] = {} /\ v # u
        BY <1>2, <2>2
    <2>3. ASSUME members[v] # {}, v # u PROVE \E r \in MessageRow : members'[v] = {r} /\ r.read <= clock'
        <3>1. PICK r \in MessageRow : members[v] = {r} /\ r.read <= clock
            BY <1>1, <2>3 DEF ThreadTyped
        <3>2. r.read \in Nat
            BY DEF MessageRow
        <3> QED BY <1>1, <1>2, <2>3, <3>1, <3>2
    <2> QED BY <2>1, <2>2, <2>3
<1>5. /\ messages' \in Seq(Message) /\ Len(messages') = Len(messages) /\ Len(messages) \in Nat
      /\ DOMAIN messages = 1..Len(messages)
    BY <1>1 DEF ThreadTyped
<1>6. ASSUME NEW v \in Talker
      PROVE  seen[v] \subseteq seen'[v] /\ \E k \in 0..Len(messages) : seen'[v] = 1..k
    <2>1. PICK k \in 0..Len(messages) : seen[v] = 1..k
        BY <1>1 DEF ThreadTyped
    <2>2. CASE seen'[v] = seen[v]
        BY <2>1, <2>2
    <2>3. CASE seen'[v] = DOMAIN messages
        <3>1. k \in Nat /\ Len(messages) \in Nat /\ k <= Len(messages)
            BY <1>5
        <3>2. seen[v] \subseteq 1..Len(messages)
            BY <2>1, <3>1
        <3>3. Len(messages) \in 0..Len(messages) /\ seen'[v] = 1..Len(messages)
            BY <1>5, <2>3
        <3> QED BY <3>2, <3>3
    <2> QED BY <1>2, <2>2, <2>3
<1>7. ASSUME ~raced'
      PROVE  /\ \A v \in Talker, i \in DOMAIN messages : \A r \in members'[v] :
                /\ i \notin seen'[v] => messages[i].at > r.read
                /\ r.hidden => messages[i].at <= r.cleared
             /\ Company' /\ Tombstones'
    <2>1. Noticed /\ Company /\ Tombstones
        BY <1>7 DEF ThreadInvariant
    <2>2. Company' /\ Tombstones'
        BY <1>3, <2>1 DEF Company, Tombstones
    <2>3. ASSUME NEW v \in Talker, NEW i \in DOMAIN messages, NEW r \in members'[v]
          PROVE  /\ i \notin seen'[v] => messages[i].at > r.read
                 /\ r.hidden => messages[i].at <= r.cleared
        <3>1. CASE v = u
            BY <1>2, <1>7, <3>1
        <3>2. CASE v # u
            BY <1>2, <2>1, <3>2 DEF Noticed
        <3> QED BY <3>1, <3>2
    <2> QED BY <2>2, <2>3
<1>8. \A o \in Screen : call'[o] \in {call[o], Messaging!Idle}
    OBVIOUS
<1> QED BY <1>1, <1>2, <1>3, <1>4, <1>5, <1>6, <1>7, <1>8, ThreadQuiet

LEMMA ThreadReadOrHidden ==
    ASSUME Messaging!MessagingAssumption, ThreadInvariant, NEW t \in Screen,
           Messaging!MarkRead(t) \/ Messaging!LeaveThread(t)
    PROVE  ThreadInvariant'
<1> DEFINE u == ScreenOf[t]
<1>1. ThreadTyped /\ clock \in Nat /\ u \in Talker /\ members[u] # {}
    BY DEF ThreadInvariant, ThreadTyped, Messaging!MessagingAssumption,
           Messaging!MarkRead, Messaging!LeaveThread, Messaging!In
<1> HIDE DEF u
<1>2. PICK r \in MessageRow : members[u] = {r} /\ r.read <= clock
    BY <1>1 DEF ThreadTyped
<1>3. Messaging!Row(u) = r
    BY <1>2, OneRow
<1>4. \A i \in DOMAIN messages : messages[i].at \in 1..clock
    BY <1>1 DEF ThreadTyped
<1>5. ~raced => Noticed
    BY DEF ThreadInvariant
<1>6. CASE Messaging!MarkRead(t)
    <2> DEFINE w == [r EXCEPT !.read = clock']
    <2>1. /\ members' = [members EXCEPT ![u] = {w}] /\ clock' = clock + 1
          /\ UNCHANGED <<type, messages, call, raced>>
          /\ seen' = [seen EXCEPT ![u] = DOMAIN messages]
        BY <1>3, <1>6 DEF Messaging!MarkRead, Messaging!Is, Messaging!Tick, u
    <2>2. /\ w \in MessageRow /\ w.read = clock' /\ w.hidden = r.hidden /\ w.cleared = r.cleared
          /\ w.read <= clock'
        BY <1>1, <2>1 DEF MessageRow
    <2>3. ~raced => \A i \in DOMAIN messages :
            /\ i \notin seen'[u] => messages[i].at > w.read
            /\ w.hidden => messages[i].at <= w.cleared
        BY <1>1, <1>2, <1>5, <2>1, <2>2 DEF Noticed, ThreadTyped
    <2> HIDE DEF w
    <2> QED BY <1>1, <2>1, <2>2, <2>3, ThreadRowWritten
<1>7. CASE Messaging!LeaveThread(t)
    <2> DEFINE w == [r EXCEPT !.hidden = TRUE, !.cleared = clock']
    <2>1. /\ members' = [members EXCEPT ![u] = {w}] /\ clock' = clock + 1
          /\ UNCHANGED <<type, messages, call, raced, seen>>
        BY <1>3, <1>7 DEF Messaging!LeaveThread, Messaging!Is, Messaging!Tick, u
    <2>2. /\ r.read \in Nat /\ r.cleared \in Nat /\ r.hidden \in BOOLEAN /\ clock' \in Nat
          /\ r.read <= clock'
        BY <1>1, <1>2, <2>1 DEF MessageRow
    <2>4. w \in MessageRow
        BY <2>2 DEF MessageRow
    <2>5. w.read = r.read /\ w.cleared = clock'
        BY DEF MessageRow
    <2>3. ~raced => \A i \in DOMAIN messages :
            /\ i \notin seen'[u] => messages[i].at > w.read
            /\ w.hidden => messages[i].at <= w.cleared
        BY <1>1, <1>2, <1>4, <1>5, <2>1, <2>2, <2>5 DEF Noticed
    <2> HIDE DEF w
    <2> QED BY <1>1, <2>1, <2>2, <2>3, <2>4, <2>5, ThreadRowWritten
<1> QED BY <1>6, <1>7

\* Who is added to a group has read nothing, and there is nothing they hid.
LEMMA ThreadJoined ==
    ASSUME Messaging!MessagingAssumption, ThreadInvariant, NEW t \in Screen,
           Messaging!AddGroupParticipant(t)
    PROVE  ThreadInvariant'
<1>1. /\ ThreadTyped /\ clock \in Nat /\ clock' = clock
      /\ messages' \in Seq(Message) /\ Len(messages') = Len(messages)
      /\ UNCHANGED <<type, messages, call, seen, raced>> /\ type = "GROUP"
    BY DEF ThreadInvariant, ThreadTyped, Messaging!AddGroupParticipant, Messaging!Manages
<1>2. PICK v \in Talker \ Messaging!In : members' = [members EXCEPT ![v] = {Messaging!Fresh}]
    BY DEF Messaging!AddGroupParticipant, Messaging!Is
<1>3. /\ Messaging!Fresh \in MessageRow /\ Messaging!Fresh.read = 0 /\ Messaging!Fresh.hidden = FALSE
    BY DEF Messaging!Fresh, MessageRow
<1>4. /\ DOMAIN members' = Talker
      /\ \A u \in Talker : members'[u] = IF u = v THEN {Messaging!Fresh} ELSE members[u]
    BY <1>1, <1>2 DEF ThreadTyped
<1>5. Messaging!In' = Messaging!In \union {v} /\ v \notin Messaging!In
    BY <1>2, <1>4 DEF Messaging!In
<1>6. \A u \in Talker :
        members'[u] = {} \/ \E r \in MessageRow : members'[u] = {r} /\ r.read <= clock'
    BY <1>1, <1>3, <1>4 DEF ThreadTyped
<1>7. /\ DOMAIN seen' = Talker /\ DOMAIN call' = Screen
      /\ \A u \in Talker : \E k \in 0..Len(messages) : seen'[u] = 1..k
      /\ \A u \in Talker : seen[u] \subseteq seen'[u]
      /\ \A o \in Screen : call'[o] \in {call[o], Messaging!Idle}
    BY <1>1 DEF ThreadTyped
<1>8. ASSUME ~raced'
      PROVE  /\ \A u \in Talker, i \in DOMAIN messages : \A r \in members'[u] :
                /\ i \notin seen'[u] => messages[i].at > r.read
                /\ r.hidden => messages[i].at <= r.cleared
             /\ Company' /\ Tombstones'
    <2>1. Noticed /\ Company /\ Tombstones
        BY <1>1, <1>8 DEF ThreadInvariant
    <2>2. Tombstones'
        BY <1>1, <2>1 DEF Tombstones
    <2>3. Cardinality(Messaging!In)' = Cardinality(Messaging!In) + 1 /\ Cardinality(Messaging!In) \in Nat
        BY <1>5, MembersCount, FS_AddElement
    <2>4. Company'
        BY <1>1, <2>1, <2>3 DEF Company
    <2>5. \A i \in DOMAIN messages : messages[i].at \in Nat /\ messages[i].at > 0
        BY <1>1 DEF ThreadTyped
    <2>6. ASSUME NEW u \in Talker, NEW i \in DOMAIN messages, NEW r \in members'[u]
          PROVE  /\ i \notin seen'[u] => messages[i].at > r.read
                 /\ r.hidden => messages[i].at <= r.cleared
        <3>1. CASE u = v
            BY <1>3, <1>4, <2>5, <2>6, <3>1
        <3>2. CASE u # v
            BY <1>1, <1>4, <2>1, <2>6, <3>2 DEF Noticed
        <3> QED BY <3>1, <3>2
    <2> QED BY <2>2, <2>4, <2>6
<1> QED BY <1>1, <1>4, <1>6, <1>7, <1>8, ThreadQuiet

\* A group that loses a member had more than two, and no one else is being removed.
LEMMA ThreadRemoved ==
    ASSUME Messaging!MessagingAssumption, ThreadInvariant, NEW t \in Screen,
           Messaging!RemoveGroupParticipant(t)
    PROVE  ThreadInvariant'
<1> DEFINE v == call[t].user
<1>1. CASE v \notin Messaging!In
    BY <1>1, ThreadRefused DEF Messaging!RemoveGroupParticipant, Messaging!Refused, Messaging!Answer
<1>2. CASE v \in Messaging!In
    <2>1. /\ ThreadTyped /\ clock \in Nat /\ clock' = clock /\ call[t].op = "remove" /\ type = "GROUP"
          /\ messages' \in Seq(Message) /\ Len(messages') = Len(messages)
          /\ UNCHANGED <<type, messages, seen, raced>>
          /\ call' = [call EXCEPT ![t] = Messaging!Idle]
          /\ members' = [members EXCEPT ![v] = {}]
        BY <1>2 DEF ThreadInvariant, ThreadTyped, Requests, Messaging!RemoveGroupParticipant, Messaging!Answer
    <2> HIDE DEF v
    <2>2. /\ DOMAIN members' = Talker /\ DOMAIN seen' = Talker
          /\ \A u \in Talker : members'[u] = IF u = v THEN {} ELSE members[u]
        BY <2>1 DEF ThreadTyped
    <2>3. Messaging!In' = Messaging!In \ {v}
        BY <2>2 DEF Messaging!In
    <2>4. \A u \in Talker :
            members'[u] = {} \/ \E r \in MessageRow : members'[u] = {r} /\ r.read <= clock'
        BY <2>1, <2>2 DEF ThreadTyped
    <2>5. /\ \A u \in Talker : \E k \in 0..Len(messages) : seen'[u] = 1..k
          /\ \A u \in Talker : seen[u] \subseteq seen'[u]
        BY <2>1 DEF ThreadTyped
    <2>6. /\ DOMAIN call' = Screen /\ \A o \in Screen : call'[o] \in {call[o], Messaging!Idle}
          /\ call'[t] = Messaging!Idle /\ \A o \in Screen \ {t} : call'[o] = call[o]
        BY <2>1 DEF ThreadTyped
    <2>7. ASSUME ~raced'
          PROVE  /\ \A u \in Talker, i \in DOMAIN messages : \A r \in members'[u] :
                    /\ i \notin seen'[u] => messages[i].at > r.read
                    /\ r.hidden => messages[i].at <= r.cleared
                 /\ Company' /\ Tombstones'
        <3>1. Noticed /\ Company /\ Tombstones
            BY <2>1, <2>7 DEF ThreadInvariant
        <3>2. Tombstones'
            BY <2>1, <2>6, <3>1 DEF Tombstones, Messaging!Idle
        <3>3. Cardinality(Messaging!In)' = Cardinality(Messaging!In) - 1 /\ Cardinality(Messaging!In) \in Nat
            BY <1>2, <2>3, MembersCount, FS_RemoveElement
        <3>4. Cardinality(Messaging!In)' >= 2
            BY <2>1, <3>1, <3>3 DEF Company
        <3>5. \A o \in Screen : call'[o].op # "remove"
            BY <2>1, <2>6, <3>1 DEF Company, Messaging!Idle
        <3>6. Company'
            BY <3>4, <3>5 DEF Company
        <3>7. \A u \in Talker, i \in DOMAIN messages : \A r \in members'[u] :
                /\ i \notin seen'[u] => messages[i].at > r.read
                /\ r.hidden => messages[i].at <= r.cleared
            BY <2>1, <2>2, <3>1 DEF Noticed
        <3> QED BY <3>2, <3>6, <3>7
    <2> QED BY <2>1, <2>2, <2>4, <2>5, <2>6, <2>7, ThreadQuiet
<1> QED BY <1>1, <1>2

\* A message that is sent, with the row its sender is left.
Sends(t, u, x, stamp) ==
    /\ clock' = clock + 1
    /\ messages' = Append(messages, [at |-> stamp, sender |-> u, body |-> TRUE, unsent |-> FALSE])
    /\ members' = Messaging!Resurfaced([members EXCEPT ![u] = {x}], u)
    /\ seen' = [seen EXCEPT ![u] = DOMAIN messages']
    /\ call' = [call EXCEPT ![t] = Messaging!Idle]

\* What the send leaves behind.
SentBy(t, u, stamp) ==
    /\ clock \in Nat /\ clock' \in Nat /\ messages' \in Seq(Message)
    /\ Len(messages) \in Nat /\ Len(messages') = Len(messages) + 1
    /\ DOMAIN messages = 1..Len(messages) /\ DOMAIN messages' = 1..(Len(messages) + 1)
    /\ \A i \in 1..Len(messages) : messages'[i] = messages[i]
    /\ messages'[Len(messages) + 1] = [at |-> stamp, sender |-> u, body |-> TRUE, unsent |-> FALSE]
    /\ DOMAIN members' = Talker /\ DOMAIN seen' = Talker /\ DOMAIN call' = Screen
    /\ seen'[u] = 1..(Len(messages) + 1)
    /\ \A v \in Talker \ {u} : seen'[v] = seen[v]
    /\ \E w \in MessageRow : members'[u] = {w} /\ w.read = stamp /\ w.hidden = FALSE
    /\ \A v \in Talker \ {u} :
         /\ members[v] = {} => members'[v] = {}
         /\ \A r \in MessageRow : members[v] = {r} =>
             \E w \in MessageRow : members'[v] = {w} /\ w.read = r.read /\ w.hidden = FALSE
    /\ call'[t] = Messaging!Idle /\ \A o \in Screen \ {t} : call'[o] = call[o]

\* What is sent comes last, is seen by its sender, and brings the thread back to all.
LEMMA ThreadAppended ==
    ASSUME ThreadTyped, NEW t \in Screen, NEW u \in Talker, members[u] # {},
           NEW stamp \in 1..(clock + 1), NEW x \in MessageRow, x.read = stamp, x.hidden = FALSE,
           Sends(t, u, x, stamp)
    PROVE  SentBy(t, u, stamp)
<1>1. /\ clock \in Nat /\ clock' \in Nat /\ messages \in Seq(Message) /\ stamp \in Nat
    BY DEF ThreadTyped, Sends
<1> DEFINE m == [at |-> stamp, sender |-> u, body |-> TRUE, unsent |-> FALSE]
<1>2. m \in Message
    BY <1>1 DEF Message
<1> HIDE DEF m
<1>3. messages' = Append(messages, m)
    BY DEF m, Sends
<1>4. /\ messages' \in Seq(Message)
      /\ Len(messages) \in Nat /\ Len(messages') = Len(messages) + 1
      /\ DOMAIN messages = 1..Len(messages) /\ DOMAIN messages' = 1..(Len(messages) + 1)
      /\ \A i \in 1..Len(messages) : messages'[i] = messages[i]
      /\ messages'[Len(messages) + 1] = m
    BY <1>1, <1>2, <1>3
<1>5. /\ DOMAIN seen' = Talker /\ DOMAIN call' = Screen
      /\ seen'[u] = 1..(Len(messages) + 1)
      /\ \A v \in Talker \ {u} : seen'[v] = seen[v]
      /\ call'[t] = Messaging!Idle /\ \A o \in Screen \ {t} : call'[o] = call[o]
    BY <1>4 DEF ThreadTyped, Sends
<1>6. /\ DOMAIN members' = Talker /\ members'[u] = {x}
      /\ \A v \in Talker \ {u} : members'[v] = {[r EXCEPT !.hidden = FALSE] : r \in members[v]}
    BY DEF Messaging!Resurfaced, ThreadTyped, Sends
<1>7. ASSUME NEW v \in Talker \ {u}, NEW r \in MessageRow, members[v] = {r}
      PROVE  \E w \in MessageRow : members'[v] = {w} /\ w.read = r.read /\ w.hidden = FALSE
    <2> DEFINE w == [r EXCEPT !.hidden = FALSE]
    <2>1. w \in MessageRow /\ w.read = r.read /\ w.hidden = FALSE
        BY DEF MessageRow
    <2>2. members'[v] = {[y EXCEPT !.hidden = FALSE] : y \in members[v]}
        BY <1>6
    <2>3. \A y : y \in members'[v] <=> y = w
        BY <1>7, <2>2, Zenon
    <2>4. members'[v] = {w}
        BY <2>3, Zenon
    <2> HIDE DEF w
    <2> QED BY <2>1, <2>4
<1>8. \A v \in Talker \ {u} : members[v] = {} => members'[v] = {}
    BY <1>6
<1> QED BY <1>1, <1>4, <1>5, <1>6, <1>7, <1>8 DEF m, SentBy

LEMMA ThreadSent ==
    ASSUME Messaging!MessagingAssumption, ThreadInvariant, NEW t \in Screen, Messaging!Send(t)
    PROVE  ThreadInvariant'
<1> DEFINE u == ScreenOf[t]
           n == Len(messages)
<1>1. CASE u \notin Messaging!In
    BY <1>1, ThreadRefused DEF Messaging!Send, Messaging!Refused, Messaging!Answer
<1>2. CASE u \in Messaging!In
    <2>1. /\ clock' = clock + 1 /\ UNCHANGED type /\ call[t].op = "send"
          /\ seen' = [seen EXCEPT ![u] = DOMAIN messages']
          /\ call' = [call EXCEPT ![t] = Messaging!Idle]
        BY <1>2, Zenon DEF Messaging!Send, Messaging!Tick, Messaging!Answer
    <2>2. PICK stamp \in (call[t].since + 1)..(clock + 1) :
            /\ messages' = Append(messages, [at |-> stamp, sender |-> u, body |-> TRUE, unsent |-> FALSE])
            /\ members' = Messaging!Resurfaced([members EXCEPT ![u] =
                    {[Messaging!Row(u) EXCEPT !.read = stamp, !.hidden = FALSE]}], u)
            /\ raced' = (raced \/ stamp # clock + 1)
        BY <1>2, Zenon DEF Messaging!Send
    <2>3. ~raced' => ~raced /\ ~(stamp # clock + 1)
        BY <2>2, Zenon
    <2>4. /\ ThreadTyped /\ clock \in Nat /\ u \in Talker /\ members[u] # {}
          /\ stamp \in 1..(clock + 1) /\ stamp \in Nat
        <3>1. ThreadTyped /\ clock \in Nat /\ u \in Talker /\ members[u] # {}
            BY <1>2 DEF ThreadInvariant, ThreadTyped, Messaging!In
        <3>2. call[t].since \in Nat
            BY <2>1, <3>1 DEF ThreadTyped, Requests
        <3> QED BY <3>1, <3>2
    <2> HIDE DEF u
    <2> DEFINE x == [Messaging!Row(u) EXCEPT !.read = stamp, !.hidden = FALSE]
    <2>5. x \in MessageRow /\ x.read = stamp /\ x.hidden = FALSE
        <3>1. PICK r \in MessageRow : members[u] = {r}
            BY <2>4 DEF ThreadTyped
        <3>2. Messaging!Row(u) \in MessageRow
            BY <3>1, OneRow
        <3> QED BY <2>4, <3>2 DEF MessageRow
    <2>6. Sends(t, u, x, stamp)
        BY <2>1, <2>2 DEF Sends
    <2> HIDE DEF x
    <2>7. SentBy(t, u, stamp)
        BY <2>4, <2>5, <2>6, ThreadAppended
    <2>8. /\ clock' \in Nat /\ messages' \in Seq(Message)
          /\ n \in Nat /\ Len(messages') = n + 1
          /\ DOMAIN messages = 1..n /\ DOMAIN messages' = 1..(n + 1)
          /\ \A i \in 1..n : messages'[i] = messages[i]
          /\ messages'[n + 1] = [at |-> stamp, sender |-> u, body |-> TRUE, unsent |-> FALSE]
          /\ DOMAIN members' = Talker /\ DOMAIN seen' = Talker /\ DOMAIN call' = Screen
          /\ seen'[u] = 1..(n + 1)
          /\ \A v \in Talker \ {u} : seen'[v] = seen[v]
          /\ call'[t] = Messaging!Idle /\ \A o \in Screen \ {t} : call'[o] = call[o]
        BY <2>7 DEF SentBy
    <2>9. /\ \E w \in MessageRow : members'[u] = {w} /\ w.read = stamp /\ w.hidden = FALSE
          /\ \A v \in Talker \ {u} :
                /\ members[v] = {} => members'[v] = {}
                /\ \A r \in MessageRow : members[v] = {r} =>
                    \E w \in MessageRow : members'[v] = {w} /\ w.read = r.read /\ w.hidden = FALSE
        BY <2>7 DEF SentBy
    <2> HIDE DEF n
    <2>10. ASSUME NEW v \in Talker \ {u}, members[v] # {}
          PROVE  \E r, w \in MessageRow : /\ members[v] = {r} /\ members'[v] = {w}
                                          /\ w.read = r.read /\ w.hidden = FALSE /\ r.read <= clock
        <3>1. PICK r \in MessageRow : members[v] = {r} /\ r.read <= clock
            BY <2>1, <2>4, <2>10 DEF ThreadTyped
        <3> QED BY <2>9, <3>1
    <2>11. Messaging!In' = Messaging!In
        <3>1. ASSUME NEW v \in Talker PROVE members'[v] # {} <=> members[v] # {}
            <4>1. CASE v = u
                BY <2>4, <2>9, <4>1
            <4>2. CASE v # u /\ members[v] = {}
                BY <2>9, <4>2
            <4>3. CASE v # u /\ members[v] # {}
                <5>1. PICK r, w \in MessageRow : members'[v] = {w}
                    BY <2>10, <4>3
                <5> QED BY <4>3, <5>1
            <4> QED BY <4>1, <4>2, <4>3
        <3> QED BY <3>1 DEF Messaging!In
    <2>12. ThreadTyped'
        <3>1. ASSUME NEW i \in DOMAIN messages' PROVE messages'[i].at \in 1..clock'
            <4>1. CASE i = n + 1
                BY <2>1, <2>4, <2>8, <4>1
            <4>2. CASE i \in 1..n
                <5>1. messages[i].at \in 1..clock
                    BY <2>1, <2>4, <2>8, <4>2 DEF ThreadTyped
                <5> QED BY <2>1, <2>4, <2>8, <4>2, <5>1
            <4> QED BY <2>8, <4>1, <4>2
        <3>2. ASSUME NEW v \in Talker
              PROVE  members'[v] = {} \/ \E r \in MessageRow : members'[v] = {r} /\ r.read <= clock'
            <4>1. CASE v = u
                BY <2>1, <2>4, <2>9, <4>1
            <4>2. CASE v # u /\ members[v] = {}
                BY <2>9, <4>2
            <4>3. ASSUME v # u, members[v] # {}
                  PROVE  \E r \in MessageRow : members'[v] = {r} /\ r.read <= clock'
                <5>1. PICK r, w \in MessageRow :
                        members'[v] = {w} /\ w.read = r.read /\ r.read <= clock
                    BY <2>10, <4>3
                <5>2. r.read \in Nat
                    BY DEF MessageRow
                <5> QED BY <2>1, <2>4, <5>1, <5>2
            <4> QED BY <4>1, <4>2, <4>3
        <3>3. ASSUME NEW v \in Talker PROVE \E k \in 0..Len(messages') : seen'[v] = 1..k
            <4>1. CASE v = u
                BY <2>8, <4>1
            <4>2. CASE v # u
                <5>1. PICK k \in 0..n : seen[v] = 1..k
                    BY <2>1, <2>4 DEF ThreadTyped, n
                <5> QED BY <2>8, <4>2, <5>1
            <4> QED BY <4>1, <4>2
        <3>4. ASSUME NEW o \in Screen PROVE Requests(o)'
            <4>1. CASE o = t
                BY <2>8, <4>1 DEF Requests, Messaging!Idle
            <4>2. CASE o # t
                <5>1. Requests(o) /\ call'[o] = call[o]
                    BY <2>1, <2>4, <2>8, <4>2 DEF ThreadTyped
                <5>2. DOMAIN messages \subseteq DOMAIN messages'
                    BY <2>8
                <5> QED BY <2>1, <2>4, <5>1, <5>2 DEF Requests
            <4> QED BY <4>1, <4>2
        <3>5. type' \in {"DIRECT", "GROUP"}
            BY <2>1, <2>4 DEF ThreadTyped
        <3> QED BY <2>8, <3>1, <3>2, <3>3, <3>4, <3>5 DEF ThreadTyped
    <2>13. ASSUME ~raced' PROVE InOrder' /\ Noticed' /\ OnTurns' /\ Company' /\ Tombstones'
        <3>1. /\ InOrder /\ Noticed /\ OnTurns /\ Company /\ Tombstones /\ stamp = clock'
            BY <2>1, <2>4, <2>3, <2>13 DEF ThreadInvariant
        <3>2. \A i \in 1..n : messages[i].at \in Nat /\ messages[i].at <= clock
            <4>1. \A i \in 1..n : messages[i].at \in 1..clock
                BY <2>4, <2>8 DEF ThreadTyped
            <4> QED BY <2>4, <4>1
        <3>3. InOrder'
            <4> SUFFICES ASSUME NEW i \in 1..(n + 1), NEW j \in 1..(n + 1), i < j
                         PROVE  messages'[i].at < messages'[j].at
                BY <2>8 DEF InOrder
            <4>1. i \in 1..n
                BY <2>8
            <4>2. CASE j = n + 1
                BY <2>1, <2>4, <2>8, <3>1, <3>2, <4>1, <4>2
            <4>3. CASE j # n + 1
                <5>1. j \in 1..n
                    BY <2>8, <4>3
                <5> QED BY <2>8, <3>1, <4>1, <5>1 DEF InOrder
            <4> QED BY <4>2, <4>3
        <3>4. Noticed'
            <4> SUFFICES ASSUME NEW v \in Talker, NEW i \in 1..(n + 1)
                         PROVE  /\ messages'[i].sender = v => i \in seen'[v]
                                /\ \A r \in members'[v] :
                                    /\ i \notin seen'[v] => messages'[i].at > r.read
                                    /\ r.hidden => messages'[i].at <= r.cleared
                BY <2>8 DEF Noticed
            <4>1. CASE v = u
                BY <2>8, <2>9, <4>1
            <4>2. CASE v # u
                <5>1. messages'[i].sender = v => i \in seen'[v]
                    <6>1. CASE i = n + 1
                        BY <2>8, <4>2, <6>1
                    <6>2. CASE i \in 1..n
                        BY <2>8, <3>1, <4>2, <6>2 DEF Noticed
                    <6> QED BY <2>8, <6>1, <6>2
                <5>2. ASSUME NEW w \in members'[v]
                      PROVE  w.hidden = FALSE /\ (i \notin seen'[v] => messages'[i].at > w.read)
                    <6>1. members[v] # {}
                        BY <2>9, <4>2, <5>2
                    <6>2. PICK r \in MessageRow : members[v] = {r} /\ r.read = w.read
                                                  /\ w.hidden = FALSE /\ r.read <= clock
                        BY <2>10, <4>2, <5>2, <6>1
                    <6>3. CASE i = n + 1
                        BY <2>1, <2>4, <2>8, <3>1, <6>2, <6>3 DEF MessageRow
                    <6>4. CASE i \in 1..n
                        BY <2>8, <3>1, <4>2, <6>2, <6>4 DEF Noticed
                    <6>5. i = n + 1 \/ i \in 1..n
                        BY <2>8
                    <6> QED BY <6>3, <6>4, <6>5
                <5> QED BY <5>1, <5>2
            <4> QED BY <4>1, <4>2
        <3>5. OnTurns'
            <4>1. Messaging!Newest' = {n + 1}
                <5>1. \A i \in 1..n : messages'[i].at < messages'[n + 1].at
                    BY <2>1, <2>4, <2>8, <3>1, <3>2
                <5>2. \A i \in 1..(n + 1) : messages'[i].at \in Nat
                    BY <2>8, <2>12 DEF ThreadTyped
                <5>3. n + 1 \in 1..(n + 1)
                    BY <2>8
                <5>4. \A i \in 1..(n + 1) : i \in 1..n \/ i = n + 1
                    BY <2>8
                <5> QED BY <2>8, <5>1, <5>2, <5>3, <5>4 DEF Messaging!Newest
            <4>2. messages'[n + 1].sender = u
                BY <2>8
            <4>3. \A v : Messaging!ToAdmin(v)' = Messaging!ToAdmin(v)
                BY <2>1, <2>4, <2>11 DEF Messaging!ToAdmin
            <4>4. Messaging!OnTurn(u)
                BY <2>1, <2>4, <3>1 DEF OnTurns, u
            <4>5. ASSUME NEW o \in Screen, call'[o].op = "send"
                  PROVE  call[o].op = "send" /\ ScreenOf[o] # u
                <5>1. o # t
                    BY <2>8, <4>5 DEF Messaging!Idle
                <5> QED BY <2>1, <2>4, <2>8, <3>1, <4>5, <5>1 DEF OnTurns, u
            <4>6. \A o \in Screen : call'[o].op = "send" => Messaging!OnTurn(ScreenOf[o])'
                BY <4>1, <4>2, <4>5 DEF Messaging!OnTurn
            <4>7. \A o, q \in Screen :
                    call'[o].op = "send" /\ call'[q].op = "send" /\ o # q => ScreenOf[o] # ScreenOf[q]
                BY <3>1, <4>5 DEF OnTurns
            <4>8. ASSUME NEW i \in 2..(n + 1), TalkerRole[messages'[i].sender] = "STUDENT",
                         Messaging!ToAdmin(messages'[i].sender)
                  PROVE  messages'[i - 1].sender # messages'[i].sender
                <5>1. i - 1 \in 1..n /\ messages'[i - 1] = messages[i - 1]
                    BY <2>8
                <5>2. CASE i = n + 1
                    <6>1. n > 0 /\ Messaging!Newest = {n}
                        BY <2>1, <2>4, <3>1, <5>1, <5>2, <2>8, LastIsNewest DEF n
                    <6> QED BY <2>8, <4>2, <4>4, <4>8, <5>1, <5>2, <6>1 DEF Messaging!OnTurn
                <5>3. CASE i # n + 1
                    <6>1. i \in 2..n /\ i \in 1..n
                        BY <2>8, <5>3
                    <6> QED BY <2>8, <3>1, <4>8, <5>1, <6>1 DEF OnTurns, n
                <5> QED BY <5>2, <5>3
            <4> QED BY <2>8, <4>3, <4>6, <4>7, <4>8 DEF OnTurns
        <3>6. Company'
            <4>1. \A o \in Screen : call'[o].op = "remove" => call[o].op = "remove"
                BY <2>8 DEF Messaging!Idle
            <4> QED BY <2>11, <3>1, <4>1 DEF Company
        <3>7. Tombstones'
            <4>1. \A i \in DOMAIN messages' : messages'[i].unsent => ~messages'[i].body
                BY <2>8, <3>1 DEF Tombstones
            <4>2. ASSUME NEW o \in Screen, call'[o].op = "edit" PROVE ~messages'[call'[o].message].unsent
                <5>1. call'[o] = call[o] /\ call[o].message \in 1..n
                    BY <2>1, <2>4, <2>8, <4>2 DEF Messaging!Idle, ThreadTyped, Requests
                <5> QED BY <2>8, <3>1, <4>2, <5>1 DEF Tombstones
            <4> QED BY <4>1, <4>2 DEF Tombstones
        <3> QED BY <3>3, <3>4, <3>5, <3>6, <3>7
    <2> QED BY <2>12, <2>13 DEF ThreadInvariant
<1> QED BY <1>1, <1>2

LEMMA ThreadNext ==
    ASSUME Messaging!MessagingAssumption, ThreadInvariant, [Messaging!Next]_(Messaging!vars)
    PROVE  ThreadInvariant'
<1>1. CASE UNCHANGED Messaging!vars
    <2>1. UNCHANGED <<type, members, messages, clock, call, seen, raced>>
        BY <1>1 DEF Messaging!vars
    <2>2. Screen # {} => ThreadInvariant'
        BY <2>1, ThreadRefused
    <2>3. Screen = {} => ThreadInvariant'
        <3>1. Messaging!In' = Messaging!In /\ Messaging!Newest' = Messaging!Newest
            BY <2>1 DEF Messaging!In, Messaging!Newest
        <3>2. \A u : Messaging!ToAdmin(u)' = Messaging!ToAdmin(u)
            BY <2>1, <3>1 DEF Messaging!ToAdmin
        <3>3. ThreadTyped => ThreadTyped'
            BY <2>1 DEF ThreadTyped, Requests
        <3>4. Screen = {} => (InOrder /\ Noticed /\ OnTurns /\ Company /\ Tombstones)' =
                             (InOrder /\ Noticed /\ OnTurns /\ Company /\ Tombstones)
            BY <2>1, <3>1, <3>2 DEF InOrder, Noticed, OnTurns, Company, Tombstones
        <3> QED BY <2>1, <3>3, <3>4 DEF ThreadInvariant
    <2> QED BY <2>2, <2>3
<1>2. ASSUME NEW t \in Screen,
             \/ Messaging!AskSend(t) \/ Messaging!Send(t) \/ Messaging!AskEdit(t) \/ Messaging!Edit(t)
             \/ Messaging!Unsend(t) \/ Messaging!MarkRead(t) \/ Messaging!LeaveThread(t)
             \/ Messaging!DeleteMessageForMe(t) \/ Messaging!AddGroupParticipant(t)
             \/ Messaging!AskRemove(t) \/ Messaging!RemoveGroupParticipant(t)
      PROVE  ThreadInvariant'
    <2>1. CASE Messaging!DeleteMessageForMe(t)
        BY <2>1, ThreadRefused DEF Messaging!DeleteMessageForMe
    <2> QED BY <1>2, <2>1, ThreadAsked, ThreadSent, ThreadEdited, ThreadUnsent, ThreadReadOrHidden,
               ThreadJoined, ThreadRemoved
<1> QED BY <1>1, <1>2 DEF Messaging!Next

\* Whatever a member has not seen, the last message is among it.
LEMMA ThreadKept ==
    ASSUME Messaging!MessagingAssumption, ThreadInvariant
    PROVE  Messaging!NothingMissed /\ Messaging!ThreadOrderly
<1>1. ThreadTyped
    BY DEF ThreadInvariant
<1> DEFINE n == Len(messages)
<1>2. n \in Nat /\ DOMAIN messages = 1..n /\ \A i \in 1..n : messages[i].at \in Nat
    BY <1>1 DEF ThreadTyped
<1> HIDE DEF n
<1>3. ASSUME ~raced, NEW u \in Messaging!In, NEW i \in Messaging!View(u) \ seen[u]
      PROVE  ~Messaging!Row(u).hidden /\ Messaging!Unread(u)
    <2>1. InOrder /\ Noticed /\ u \in Talker /\ members[u] # {}
        BY <1>3 DEF ThreadInvariant, Messaging!In
    <2>2. PICK r \in MessageRow : members[u] = {r}
        BY <1>1, <2>1 DEF ThreadTyped
    <2>3. Messaging!Row(u) = r /\ r.read \in Nat /\ r.cleared \in Nat
        BY <2>2, OneRow DEF MessageRow
    <2>4. i \in 1..n /\ messages[i].at > r.cleared /\ i \notin seen[u]
        BY <1>2, <2>3 DEF Messaging!View
    <2>5. ~r.hidden
        BY <1>2, <2>1, <2>2, <2>3, <2>4 DEF Noticed
    <2>6. PICK k \in 0..n : seen[u] = 1..k
        BY <1>1, <2>1 DEF ThreadTyped, n
    <2>7. n \in 1..n /\ n \notin seen[u]
        BY <1>2, <2>4, <2>6
    <2>8. messages[n].sender # u /\ messages[n].at > r.read
        BY <1>2, <2>1, <2>2, <2>7 DEF Noticed
    <2>9. Messaging!Newest = {n}
        <3>1. n > 0
            BY <1>2, <2>4
        <3> QED BY <1>1, <2>1, <3>1, LastIsNewest DEF n
    <2>10. messages[n].at > r.cleared
        <3>1. CASE i = n
            BY <2>4, <3>1
        <3>2. CASE i < n
            <4>1. messages[i].at < messages[n].at
                BY <1>2, <2>1, <2>4, <2>7, <3>2 DEF InOrder
            <4>2. messages[i].at \in Nat /\ messages[n].at \in Nat
                BY <1>2, <2>4, <2>7
            <4> QED BY <2>3, <2>4, <4>1, <4>2
        <3>3. i = n \/ i < n
            BY <1>2, <2>4
        <3> QED BY <3>1, <3>2, <3>3
    <2> QED BY <2>3, <2>5, <2>8, <2>9, <2>10 DEF Messaging!Unread, Messaging!Latest
<1>4. Messaging!ThreadOrderly
    <2> SUFFICES ASSUME ~raced PROVE Messaging!ThreadOrderly
        BY DEF Messaging!ThreadOrderly
    <2>1. OnTurns /\ Company /\ Tombstones
        BY DEF ThreadInvariant
    <2>2. Messaging!Cardinality(Messaging!In) >= 2
        BY <2>1, MembersCount DEF Company
    <2> QED BY <2>1, <2>2 DEF OnTurns, Tombstones, Messaging!ThreadOrderly
<1> QED BY <1>3, <1>4 DEF Messaging!NothingMissed

\* In every thread of any number of users: while no two requests race, a message a member
\* was not there to see lists their thread as unread, no student writes to an admin out of
\* turn, two members stay and what is unsent is gone (messaging.service.ts, sendMessage,
\* presentThread, leaveThread, addGroupParticipant, removeGroupParticipant, unsendMessage).
THEOREM ThreadsAreKept ==
    ASSUME Messaging!MessagingAssumption
    PROVE  Messaging!Spec => [](Messaging!NothingMissed /\ Messaging!ThreadOrderly)
<1>1. ThreadInvariant => Messaging!NothingMissed /\ Messaging!ThreadOrderly
    BY ThreadKept
<1>2. ThreadInvariant /\ [Messaging!Next]_(Messaging!vars) => ThreadInvariant'
    BY ThreadNext
<1>3. Messaging!Init => ThreadInvariant
    BY ThreadInit
<1> QED BY <1>1, <1>2, <1>3, PTL DEF Messaging!Spec

-----------------------------------------------------------------------------
(* Who writes to whom *)

Family == {l \in Writer \X Writer : /\ WriterRole[l[1]] = "PARENT" /\ WriterRole[l[2]] = "STUDENT"
                                    /\ WriterSchool[l[1]] = WriterSchool[l[2]]}
DirectThread == [school : {WriterSchool[u] : u \in Writer}, members : SUBSET Writer]

\* The two of a direct thread, and of one that is being opened.
Pair(x, y) == x \in Writer /\ y \in Writer /\ x # y /\ Correspondents!CanReach(x, y)

Threaded ==
    \A i \in DOMAIN threads : \E x, y :
        /\ Pair(x, y) /\ threads[i].members = {x, y}
        /\ threads[i].school = Correspondents!ThreadSchool(x, y)
Opens == \A r \in Request : call[r] = <<>> \/ \E x, y : Pair(x, y) /\ call[r] = <<x, y>>

\* Of a pair that no two requests overlapped for: it has one thread at most, one request at
\* most, and not both.
Sole ==
    \A P \in SUBSET Writer : P # {} /\ P \notin crossed =>
        /\ \A i, j \in DOMAIN threads : threads[i].members = P /\ threads[j].members = P => i = j
        /\ \A r \in Request : Correspondents!Between(r) = P =>
            /\ \A q \in Request : Correspondents!Between(q) = P => q = r
            /\ \A i \in DOMAIN threads : threads[i].members # P

WriterInvariant ==
    /\ links \subseteq Family /\ open \subseteq Writer
    /\ threads \in Seq(DirectThread) /\ call \in [Request -> {<<>>} \union (Writer \X Writer)]
    /\ Threaded /\ Opens /\ Sole

LEMMA RolesAre ==
    ASSUME Correspondents!SchoolAssumption
    PROVE  /\ \A u \in Writer : WriterRole[u] \in {"SCHOOL_ADMIN", "TEACHER", "PARENT", "STUDENT", "SUPER_ADMIN"}
           /\ \A u \in Writer : (WriterSchool[u] = NoSchool) = (WriterRole[u] = "SUPER_ADMIN")
<1>1. WriterRole \in [Writer -> {"SCHOOL_ADMIN", "TEACHER", "PARENT", "STUDENT"} \union {"SUPER_ADMIN"}]
    BY DEF Correspondents!SchoolAssumption, Correspondents!WithinSchool
<1>2. \A u \in Writer : (WriterSchool[u] = NoSchool) = (WriterRole[u] = "SUPER_ADMIN")
    BY DEF Correspondents!SchoolAssumption
<1> QED BY <1>1, <1>2

\* A family must be linked, and the super-admin writes to administrators.
LEMMA ReachIs ==
    ASSUME Correspondents!SchoolAssumption, NEW x \in Writer, NEW y \in Writer
    PROVE  Correspondents!CanReach(x, y) <=>
            \/ WriterRole[x] = "SUPER_ADMIN" /\ WriterRole[y] = "SCHOOL_ADMIN"
            \/ WriterRole[x] = "SCHOOL_ADMIN" /\ WriterRole[y] = "SUPER_ADMIN"
            \/ /\ WriterRole[x] # "SUPER_ADMIN" /\ WriterRole[y] # "SUPER_ADMIN"
               /\ WriterSchool[x] = WriterSchool[y]
               /\ \/ Correspondents!Linked(x, y)
                  \/ /\ ~(WriterRole[x] = "STUDENT" /\ WriterRole[y] = "PARENT")
                     /\ ~(WriterRole[x] = "PARENT" /\ WriterRole[y] = "STUDENT")
<1>1. {WriterRole[x], WriterRole[y]} = {"STUDENT", "PARENT"} <=>
        \/ WriterRole[x] = "STUDENT" /\ WriterRole[y] = "PARENT"
        \/ WriterRole[x] = "PARENT" /\ WriterRole[y] = "STUDENT"
    OBVIOUS
<1>2. WriterRole[y] \in Correspondents!Allow(WriterRole[x]) <=>
        IF WriterRole[x] = "SUPER_ADMIN" THEN WriterRole[y] = "SCHOOL_ADMIN"
        ELSE WriterRole[y] # "SUPER_ADMIN" \/ WriterRole[x] = "SCHOOL_ADMIN"
    BY RolesAre DEF Correspondents!Allow, Correspondents!WithinSchool
<1>3. "SUPER_ADMIN" \in {WriterRole[x], WriterRole[y]} <=>
        WriterRole[x] = "SUPER_ADMIN" \/ WriterRole[y] = "SUPER_ADMIN"
    OBVIOUS
<1> QED BY <1>1, <1>2, <1>3, RolesAre DEF Correspondents!CanReach

\* Whoever opens it, a thread is kept under one school.
LEMMA OneSchool ==
    ASSUME Correspondents!SchoolAssumption, NEW x, NEW y, Pair(x, y)
    PROVE  /\ Correspondents!ThreadSchool(x, y) = Correspondents!ThreadSchool(y, x)
           /\ Correspondents!ThreadSchool(x, y) \in {WriterSchool[u] : u \in Writer}
BY ReachIs, RolesAre DEF Pair, Correspondents!ThreadSchool

LEMMA RecipientsKept ==
    ASSUME Correspondents!SchoolAssumption, open \subseteq Writer
    PROVE  Correspondents!RecipientsExact
<1> SUFFICES ASSUME NEW x \in Writer, NEW y
             PROVE  y \in Correspondents!ListRecipients(x) <=>
                        y \in {v \in open \ {x} : Correspondents!CanReach(x, v)}
    BY Zenon DEF Correspondents!RecipientsExact
<1>1. CASE y \notin open \/ y = x
    BY <1>1 DEF Correspondents!ListRecipients
<1>2. CASE y \in open /\ y # x
    <2>1. y \in Writer
        BY <1>2
    <2>2. y \in Correspondents!LinkedTo(x) <=> Correspondents!Linked(x, y)
        BY <2>1 DEF Correspondents!LinkedTo
    <2>3. CASE WriterRole[x] = "SUPER_ADMIN"
        BY <1>2, <2>1, <2>3, ReachIs DEF Correspondents!ListRecipients
    <2>4. CASE WriterRole[x] = "SCHOOL_ADMIN"
        BY <1>2, <2>1, <2>4, ReachIs, RolesAre DEF Correspondents!ListRecipients
    <2>5. CASE WriterRole[x] = "TEACHER"
        BY <1>2, <2>1, <2>5, ReachIs, RolesAre DEF Correspondents!ListRecipients
    <2>6. CASE WriterRole[x] \in {"STUDENT", "PARENT"}
        BY <1>2, <2>1, <2>2, <2>6, ReachIs, RolesAre DEF Correspondents!ListRecipients
    <2> QED BY <2>3, <2>4, <2>5, <2>6, RolesAre
<1> QED BY <1>1, <1>2

LEMMA RosterKept ==
    ASSUME Correspondents!SchoolAssumption, links \subseteq Family, open \subseteq Writer
    PROVE  Correspondents!RosterReachable
<1> DEFINE people == Classmates \union Correspondents!Guardians \union Lecturers
<1>1. ASSUME NEW v \in people
      PROVE  /\ v \in Writer /\ WriterRole[v] \in {"STUDENT", "PARENT", "TEACHER"}
             /\ \E u \in Classmates \union Lecturers : WriterSchool[v] = WriterSchool[u]
    <2>1. CASE v \in Classmates \union Lecturers
        BY <2>1 DEF Correspondents!SchoolAssumption
    <2>2. CASE v \in Correspondents!Guardians
        <3>1. PICK s \in Classmates : <<v, s>> \in links
            BY <2>2 DEF Correspondents!Guardians
        <3> QED BY <3>1 DEF Family
    <2> QED BY <2>1, <2>2
<1> SUFFICES ASSUME NEW x \in Writer, Correspondents!MayAddress(x)
             PROVE  /\ Correspondents!SectionRoster(x) # {} =>
                        (Correspondents!GroupAllowed(x, Correspondents!SectionRoster(x)) <=>
                            WriterRole[x] # "SUPER_ADMIN")
                    /\ (Correspondents!ClassParticipants(x) \intersect open) \ {x} =
                            Correspondents!SectionRoster(x)
    BY DEF Correspondents!RosterReachable
<1> DEFINE ticked == Correspondents!SectionRoster(x)
<1>2. ticked = (people \intersect open) \ {x}
    BY DEF Correspondents!SectionRoster
<1>3. (Correspondents!ClassParticipants(x) \intersect open) \ {x} = ticked
    BY <1>2 DEF Correspondents!ClassParticipants
<1>4. ASSUME NEW v \in ticked, WriterRole[x] # "SUPER_ADMIN"
      PROVE  Correspondents!CanReach(x, v)
    <2>1. PICK u \in Classmates \union Lecturers : WriterSchool[v] = WriterSchool[u]
        BY <1>1, <1>2
    <2>2. /\ WriterRole[x] \in {"TEACHER", "SCHOOL_ADMIN"}
          /\ WriterSchool[x] = WriterSchool[u]
        BY <1>4 DEF Correspondents!MayAddress, Correspondents!SchoolAssumption
    <2>3. v \in Writer /\ WriterRole[v] \in {"STUDENT", "PARENT", "TEACHER"}
        BY <1>1, <1>2
    <2> HIDE DEF ticked
    <2> QED BY <1>4, <2>1, <2>2, <2>3, ReachIs
<1>5. ASSUME NEW v \in ticked, WriterRole[x] = "SUPER_ADMIN"
      PROVE  ~Correspondents!CanReach(x, v)
    <2>1. v \in Writer /\ WriterRole[v] \in {"STUDENT", "PARENT", "TEACHER"}
        BY <1>1, <1>2
    <2> HIDE DEF ticked
    <2> QED BY <1>5, <2>1, ReachIs
<1>6. WriterRole[x] \in {"TEACHER", "SCHOOL_ADMIN", "SUPER_ADMIN"}
    BY DEF Correspondents!MayAddress, Correspondents!SchoolAssumption
<1>7. \A v \in ticked : v \in open /\ v # x
    BY <1>2
<1> HIDE DEF ticked
<1>8. ticked # {} => (Correspondents!GroupAllowed(x, ticked) <=> WriterRole[x] # "SUPER_ADMIN")
    BY <1>4, <1>5, <1>6, <1>7 DEF Correspondents!GroupAllowed
<1> QED BY <1>3, <1>8 DEF ticked

\* The two a request is between, before and after its steps.
LEMMA BetweenIs ==
    ASSUME NEW r
    PROVE  /\ call[r] = <<>> => Correspondents!Between(r) = {}
           /\ \A x, y : call[r] = <<x, y>> => Correspondents!Between(r) = {x, y}
           /\ call'[r] = <<>> => Correspondents!Between(r)' = {}
           /\ \A x, y : call'[r] = <<x, y>> => Correspondents!Between(r)' = {x, y}
           /\ call'[r] = call[r] => Correspondents!Between(r)' = Correspondents!Between(r)
BY DEF Correspondents!Between

LEMMA WriterInit ==
    ASSUME Correspondents!Init PROVE WriterInvariant
<1>1. threads = <<>> /\ call = [r \in Request |-> <<>>] /\ open = Writer
    BY DEF Correspondents!Init, Correspondents!Nobody
<1>2. links \subseteq Family
    BY DEF Correspondents!Init, Family
<1>3. \A r \in Request : Correspondents!Between(r) = {}
    BY <1>1, BetweenIs
<1>4. Threaded /\ Opens /\ Sole
    BY <1>1, <1>3 DEF Threaded, Opens, Sole
<1>5. call \in [Request -> {<<>>} \union (Writer \X Writer)] /\ threads \in Seq(DirectThread)
    BY <1>1
<1> QED BY <1>1, <1>2, <1>4, <1>5 DEF WriterInvariant

\* Whom two may reach, and what is open between them, is a matter of roles and families.
LEMMA SamePairs ==
    ASSUME UNCHANGED links, NEW x, NEW y PROVE Pair(x, y)' = Pair(x, y)
BY DEF Pair, Correspondents!CanReach, Correspondents!Linked

LEMMA ThreadAsks ==
    ASSUME Correspondents!SchoolAssumption, WriterInvariant,
           NEW r \in Request, Correspondents!AskDirectThread(r)
    PROVE  WriterInvariant'
<1>1. PICK x \in open, y \in open :
        /\ y # x /\ Correspondents!CanReach(x, y) /\ Correspondents!Existing(x, y) = {}
        /\ call' = [call EXCEPT ![r] = <<x, y>>]
        /\ crossed' = crossed \union {pair \in {{x, y}} : \E q \in Request : Correspondents!Between(q) = pair}
        /\ UNCHANGED <<open, links, threads>>
    BY DEF Correspondents!AskDirectThread
<1>2. Pair(x, y)
    BY <1>1 DEF Pair, WriterInvariant
<1>3. /\ call' \in [Request -> {<<>>} \union (Writer \X Writer)]
      /\ \A q \in Request : call'[q] = IF q = r THEN <<x, y>> ELSE call[q]
    BY <1>1, <1>2 DEF WriterInvariant, Pair
<1>4. Threaded'
    BY <1>1, SamePairs DEF WriterInvariant, Threaded
<1>5. Opens'
    BY <1>1, <1>2, <1>3, SamePairs DEF WriterInvariant, Opens
<1>6. ASSUME NEW i \in DOMAIN threads, threads[i].members = {x, y} PROVE FALSE
    <2>1. PICK u, v : /\ Pair(u, v) /\ threads[i].members = {u, v}
                      /\ threads[i].school = Correspondents!ThreadSchool(u, v)
        BY DEF WriterInvariant, Threaded
    <2>2. (u = x /\ v = y) \/ (u = y /\ v = x)
        BY <1>2, <1>6, <2>1 DEF Pair
    <2>3. threads[i].school = Correspondents!ThreadSchool(x, y)
        BY <1>2, <2>1, <2>2, OneSchool
    <2> QED BY <1>1, <1>6, <2>3 DEF Correspondents!Existing
<1>7. \A q \in Request : Correspondents!Between(q)' = IF q = r THEN {x, y} ELSE Correspondents!Between(q)
    BY <1>3, BetweenIs
<1>8. Sole'
    <2> SUFFICES ASSUME NEW P \in SUBSET Writer, P # {}, P \notin crossed'
                 PROVE  /\ \A i, j \in DOMAIN threads : threads[i].members = P /\ threads[j].members = P => i = j
                        /\ \A q \in Request : Correspondents!Between(q)' = P =>
                            /\ \A p \in Request : Correspondents!Between(p)' = P => p = q
                            /\ \A i \in DOMAIN threads : threads[i].members # P
        BY <1>1 DEF Sole
    <2>1. /\ P \notin crossed
          /\ P = {x, y} => \A q \in Request : Correspondents!Between(q) # P
        BY <1>1
    <2>2. /\ \A i, j \in DOMAIN threads : threads[i].members = P /\ threads[j].members = P => i = j
          /\ \A q \in Request : Correspondents!Between(q) = P =>
            /\ \A p \in Request : Correspondents!Between(p) = P => p = q
            /\ \A i \in DOMAIN threads : threads[i].members # P
        BY <2>1 DEF WriterInvariant, Sole
    <2>3. CASE P = {x, y}
        BY <1>6, <1>7, <2>1, <2>2, <2>3
    <2>4. CASE P # {x, y}
        BY <1>7, <2>2, <2>4
    <2> QED BY <2>3, <2>4
<1> QED BY <1>1, <1>3, <1>4, <1>5, <1>8 DEF WriterInvariant

LEMMA ThreadMade ==
    ASSUME Correspondents!SchoolAssumption, WriterInvariant,
           NEW r \in Request, Correspondents!CreateDirectThread(r)
    PROVE  WriterInvariant'
<1>1. PICK x, y : Pair(x, y) /\ call[r] = <<x, y>>
    BY DEF Correspondents!CreateDirectThread, Correspondents!Nobody, WriterInvariant, Opens
<1>2. Correspondents!Between(r) = {x, y}
    BY <1>1, BetweenIs
<1> DEFINE made == [school |-> Correspondents!ThreadSchool(x, y), members |-> {x, y}]
           n == Len(threads)
<1>3. /\ threads' = Append(threads, made)
      /\ call' = [call EXCEPT ![r] = <<>>]
      /\ UNCHANGED <<open, links, crossed>>
    BY <1>1, <1>2 DEF Correspondents!CreateDirectThread, Correspondents!Nobody
<1>4. made \in DirectThread
    BY <1>1, OneSchool DEF DirectThread, Pair
<1>5. /\ threads' \in Seq(DirectThread)
      /\ n \in Nat /\ DOMAIN threads = 1..n /\ DOMAIN threads' = 1..(n + 1)
      /\ \A i \in 1..n : threads'[i] = threads[i]
      /\ threads'[n + 1] = made
    <2> HIDE DEF made
    <2> QED BY <1>3, <1>4 DEF WriterInvariant
<1>6. /\ call' \in [Request -> {<<>>} \union (Writer \X Writer)]
      /\ \A q \in Request : call'[q] = IF q = r THEN <<>> ELSE call[q]
    BY <1>3 DEF WriterInvariant
<1>7. \A i \in DOMAIN threads' : i \in DOMAIN threads \/ i = n + 1
    BY <1>5
<1>8. made.members = {x, y} /\ made.school = Correspondents!ThreadSchool(x, y)
    OBVIOUS
<1> HIDE DEF made, n
<1>9. Threaded'
    <2>1. \A i \in DOMAIN threads' : \E u, v :
            /\ Pair(u, v) /\ threads'[i].members = {u, v}
            /\ threads'[i].school = Correspondents!ThreadSchool(u, v)
        BY <1>1, <1>5, <1>7, <1>8 DEF WriterInvariant, Threaded
    <2>2. \A u, v : Pair(u, v)' = Pair(u, v)
        BY <1>3, SamePairs
    <2> QED BY <2>1, <2>2, Zenon DEF Threaded, Correspondents!ThreadSchool
<1>10. Opens'
    BY <1>3, <1>6, SamePairs DEF WriterInvariant, Opens
<1>11. \A q \in Request : Correspondents!Between(q)' = IF q = r THEN {} ELSE Correspondents!Between(q)
    BY <1>6, BetweenIs
<1>12. Sole'
    <2> SUFFICES ASSUME NEW P \in SUBSET Writer, P # {}, P \notin crossed
                 PROVE  /\ \A i, j \in DOMAIN threads' : threads'[i].members = P /\ threads'[j].members = P => i = j
                        /\ \A q \in Request : Correspondents!Between(q)' = P =>
                            /\ \A p \in Request : Correspondents!Between(p)' = P => p = q
                            /\ \A i \in DOMAIN threads' : threads'[i].members # P
        BY <1>3 DEF Sole
    <2>1. /\ \A i, j \in DOMAIN threads : threads[i].members = P /\ threads[j].members = P => i = j
          /\ \A q \in Request : Correspondents!Between(q) = P =>
            /\ \A p \in Request : Correspondents!Between(p) = P => p = q
            /\ \A i \in DOMAIN threads : threads[i].members # P
        BY DEF WriterInvariant, Sole
    <2>2. CASE P = {x, y}
        <3>1. \A i \in DOMAIN threads : threads[i].members # P
            BY <1>2, <2>1, <2>2
        <3>2. \A i, j \in DOMAIN threads' : threads'[i].members = P /\ threads'[j].members = P => i = j
            BY <1>5, <1>7, <3>1
        <3>3. \A q \in Request : Correspondents!Between(q)' # P
            BY <1>2, <1>11, <2>1, <2>2
        <3> QED BY <3>2, <3>3
    <2>3. CASE P # {x, y}
        <3>1. \A i \in DOMAIN threads' : threads'[i].members = P => i \in DOMAIN threads /\ threads[i].members = P
            BY <1>5, <1>7, <1>8, <2>3
        <3> QED BY <1>11, <2>1, <3>1
    <2> QED BY <2>2, <2>3
<1> QED BY <1>3, <1>5, <1>6, <1>9, <1>10, <1>12 DEF WriterInvariant

LEMMA WriterNext ==
    ASSUME Correspondents!SchoolAssumption, WriterInvariant, [Correspondents!Next]_(Correspondents!vars)
    PROVE  WriterInvariant'
<1>1. ASSUME NEW u \in Writer, Correspondents!SetActive(u) PROVE WriterInvariant'
    <2>1. open' \subseteq Writer /\ UNCHANGED <<links, threads, call, crossed>>
        BY <1>1 DEF Correspondents!SetActive, WriterInvariant
    <2> QED BY <2>1, SamePairs, BetweenIs DEF WriterInvariant, Threaded, Opens, Sole
<1>2. CASE UNCHANGED Correspondents!vars
    BY <1>2, SamePairs, BetweenIs DEF Correspondents!vars, WriterInvariant, Threaded, Opens, Sole
<1> QED BY <1>1, <1>2, ThreadAsks, ThreadMade DEF Correspondents!Next

LEMMA WritersKept ==
    ASSUME Correspondents!SchoolAssumption, WriterInvariant
    PROVE  /\ Correspondents!RecipientsExact /\ Correspondents!RosterReachable
           /\ Correspondents!OneThreadPerPair
<1>1. \A i \in DOMAIN threads : threads[i].members \in SUBSET Writer /\ threads[i].members # {}
    BY DEF WriterInvariant, Threaded, Pair
<1>2. Correspondents!OneThreadPerPair
    BY <1>1 DEF WriterInvariant, Sole, Correspondents!OneThreadPerPair
<1> QED BY <1>2, RecipientsKept, RosterKept DEF WriterInvariant

\* In every school, with any number of users and families: a new message is offered to
\* exactly those who may be written to, the group ticked for a section is not refused, and
\* two users have one direct thread unless two requests for it overlapped, be they of both
\* or of one of them (messaging.service.ts, listRecipients, getSectionRoster,
\* createGroupThread, createDirectThread).
THEOREM WritersAgree ==
    ASSUME Correspondents!SchoolAssumption
    PROVE  Correspondents!Spec =>
            [](/\ Correspondents!RecipientsExact /\ Correspondents!RosterReachable
               /\ Correspondents!OneThreadPerPair)
<1>1. WriterInvariant /\ [Correspondents!Next]_(Correspondents!vars) => WriterInvariant'
    BY WriterNext
<1> QED BY <1>1, WriterInit, WritersKept, PTL DEF Correspondents!Spec

-----------------------------------------------------------------------------
(* Announcements *)

Person == Announcements!User
Date == Announcements!Times \union {None}
Posted == [author : Person, targets : SUBSET Announcements!Target, at : Date, notified : BOOLEAN]
Edited == [at : Date \union {Keep}, seen : BOOLEAN, flag : BOOLEAN, arming : BOOLEAN]

NewsTyped ==
    /\ placed \subseteq Pupil \X Room /\ children \subseteq Guardian \X Pupil
    /\ assigned \subseteq Instructor \X Room /\ taught \subseteq Instructor \X Room
    /\ post \in Posted \union {None} /\ edit \in [Editor -> Edited \union {None}]
    /\ tick \in [Cron -> BOOLEAN]
    /\ arms \in Nat /\ claims \in Nat /\ overwritten \in BOOLEAN

\* One that is not notified has been armed once more than it was claimed.
Armed ==
    /\ post = None => arms = 0 /\ claims = 0 /\ ~overwritten
    /\ ~overwritten => claims <= arms
    /\ ~overwritten /\ post # None /\ ~post.notified => claims < arms

\* What is in flight is about the announcement there is, and an edit that takes the mark
\* away arms the cron again.
Pending ==
    /\ \A c \in Cron : tick[c] => post # None
    /\ \A e \in Editor : edit[e] # None =>
        /\ post # None
        /\ edit[e].flag => edit[e].seen
        /\ edit[e].seen /\ ~edit[e].flag => edit[e].arming

NewsInvariant == NewsTyped /\ Armed /\ Pending

LEMMA NoneIs ==
    ASSUME Announcements!PeopleAssumption PROVE None \notin Posted \union Edited
BY DEF Announcements!PeopleAssumption, Posted, Edited, Person, Date

LEMMA NewsInit ==
    ASSUME Announcements!Init PROVE NewsInvariant
<1>1. NewsTyped
    BY DEF Announcements!Init, NewsTyped
<1>2. Armed /\ Pending
    BY DEF Announcements!Init, Armed, Pending
<1> QED BY <1>1, <1>2 DEF NewsInvariant

\* What moves people, reads and finds touches neither the announcement nor its counters.
LEMMA NewsRead ==
    ASSUME NewsInvariant,
           placed' \subseteq Pupil \X Room, taught' \subseteq Instructor \X Room,
           tick' \in [Cron -> BOOLEAN], \A c \in Cron : tick'[c] => post # None,
           UNCHANGED <<children, assigned, post, edit, arms, claims, overwritten>>
    PROVE  NewsInvariant'
BY DEF NewsInvariant, NewsTyped, Armed, Pending

LEMMA NewsCreated ==
    ASSUME Announcements!PeopleAssumption, NewsInvariant,
           NEW u \in Person, Announcements!Create(u)
    PROVE  NewsInvariant'
<1>1. PICK targets \in Announcements!TargetSets, at \in Announcements!Times \union {None} :
        /\ post' = [author |-> u, targets |-> targets, at |-> at,
                    notified |-> Announcements!Immediate(at)]
        /\ arms' = IF Announcements!Immediate(at) THEN arms ELSE arms + 1
    BY DEF Announcements!Create
<1>2. Announcements!Immediate(at) \in BOOLEAN
    BY DEF Announcements!Immediate
<1>3. post' \in Posted /\ post'.notified = Announcements!Immediate(at)
    BY <1>1, <1>2 DEF Posted, Date, Announcements!TargetSets
<1>4. /\ post = None /\ arms = 0 /\ claims = 0 /\ ~overwritten
      /\ UNCHANGED <<placed, children, assigned, taught, edit, tick, claims, overwritten>>
    BY DEF Announcements!Create, Announcements!people, NewsInvariant, Armed
<1>5. NewsTyped'
    BY <1>1, <1>3, <1>4 DEF NewsInvariant, NewsTyped
<1>6. Armed'
    BY <1>1, <1>3, <1>4, NoneIs DEF Armed
<1>7. Pending'
    BY <1>4 DEF NewsInvariant, Pending
<1> QED BY <1>5, <1>6, <1>7 DEF NewsInvariant

LEMMA NewsEdited ==
    ASSUME Announcements!PeopleAssumption, NewsInvariant, NEW e \in Editor, NEW u,
           NEW at \in Announcements!Times \union {Keep, None}, Announcements!AskUpdate(e, u, at)
    PROVE  NewsInvariant'
<1> DEFINE flag == post.notified /\ (at = Keep \/ Announcements!Immediate(at))
           arming == at # Keep /\ ~Announcements!Immediate(at)
           asked == [at |-> at, seen |-> post.notified, flag |-> flag, arming |-> arming]
<1>1. /\ edit' = [edit EXCEPT ![e] = asked]
      /\ UNCHANGED <<placed, children, assigned, taught, post, tick, arms, claims, overwritten>>
    BY DEF Announcements!AskUpdate, Announcements!people
<1>2. post # None /\ post \in Posted
    BY DEF Announcements!AskUpdate, NewsInvariant, NewsTyped
<1>3. at \in Date \union {Keep} /\ post.notified \in BOOLEAN /\ flag \in BOOLEAN /\ arming \in BOOLEAN
    BY <1>2 DEF Posted, Date
<1>4. flag => post.notified
    OBVIOUS
<1>5. post.notified /\ ~flag => arming
    OBVIOUS
<1>6. asked.flag = flag /\ asked.seen = post.notified /\ asked.arming = arming
    OBVIOUS
<1> HIDE DEF flag, arming
<1>7. asked \in Edited
    BY <1>3 DEF Edited
<1> HIDE DEF asked
<1>8. /\ edit' \in [Editor -> Edited \union {None}]
      /\ \A f \in Editor : edit'[f] = IF f = e THEN asked ELSE edit[f]
    BY <1>1, <1>7 DEF NewsInvariant, NewsTyped
<1>9. Pending'
    BY <1>1, <1>2, <1>4, <1>5, <1>6, <1>8 DEF NewsInvariant, Pending
<1> QED BY <1>1, <1>8, <1>9 DEF NewsInvariant, NewsTyped, Armed

LEMMA NewsUpdated ==
    ASSUME Announcements!PeopleAssumption, NewsInvariant, NEW e \in Editor, Announcements!Update(e)
    PROVE  NewsInvariant'
<1> DEFINE asked == edit[e]
<1>1. /\ asked \in Edited /\ post \in Posted /\ post # None
      /\ edit' = [edit EXCEPT ![e] = None]
      /\ UNCHANGED <<placed, children, assigned, taught, tick, claims>>
    BY DEF Announcements!Update, Announcements!people, NewsInvariant, NewsTyped, Pending
<1>2. /\ post' = [post EXCEPT !.at = IF asked.at = Keep THEN @ ELSE asked.at, !.notified = asked.flag]
      /\ arms' = IF asked.arming THEN arms + 1 ELSE arms
      /\ overwritten' = (overwritten \/ post.notified # asked.seen)
    BY DEF Announcements!Update
<1>3. asked.seen /\ ~asked.flag => asked.arming
    BY <1>1, NoneIs DEF NewsInvariant, Pending
<1> HIDE DEF asked
<1>4. post' \in Posted /\ post'.notified = asked.flag /\ post' # None
    <2>1. post' \in Posted /\ post'.notified = asked.flag
        BY <1>1, <1>2 DEF Posted, Edited
    <2> QED BY <2>1, NoneIs
<1>5. /\ edit' \in [Editor -> Edited \union {None}]
      /\ \A f \in Editor : edit'[f] = IF f = e THEN None ELSE edit[f]
    BY <1>1 DEF NewsInvariant, NewsTyped
<1>6. NewsTyped'
    BY <1>1, <1>2, <1>4, <1>5 DEF NewsInvariant, NewsTyped, Edited
<1>7. ASSUME ~overwritten' PROVE claims <= arms' /\ (~asked.flag => claims < arms')
    <2>1. /\ post.notified = asked.seen /\ claims <= arms /\ (~post.notified => claims < arms)
          /\ arms \in Nat /\ claims \in Nat
        BY <1>1, <1>2, <1>7 DEF NewsInvariant, NewsTyped, Armed
    <2> QED BY <1>2, <1>3, <2>1
<1>8. Armed'
    BY <1>1, <1>4, <1>7 DEF Armed
<1>9. Pending'
    BY <1>1, <1>4, <1>5 DEF NewsInvariant, Pending
<1> QED BY <1>6, <1>8, <1>9 DEF NewsInvariant

LEMMA NewsClaimed ==
    ASSUME Announcements!PeopleAssumption, NewsInvariant, NEW c \in Cron, Announcements!Claim(c)
    PROVE  NewsInvariant'
<1>1. /\ UNCHANGED <<placed, children, assigned, taught, edit, arms, overwritten>>
      /\ post \in Posted /\ post # None
      /\ tick' \in [Cron -> BOOLEAN]
    BY DEF Announcements!Claim, Announcements!people, NewsInvariant, NewsTyped, Pending
<1>2. CASE ~post.notified
    <2>1. post' = [post EXCEPT !.notified = TRUE] /\ claims' = claims + 1
        BY <1>2 DEF Announcements!Claim
    <2>2. post' \in Posted /\ post'.notified = TRUE
        BY <1>1, <2>1 DEF Posted
    <2>3. post' # None
        BY <2>2, NoneIs
    <2>4. NewsTyped'
        BY <1>1, <2>1, <2>2 DEF NewsInvariant, NewsTyped
    <2>5. Armed'
        <3>1. ~overwritten => claims < arms
            BY <1>1, <1>2 DEF NewsInvariant, Armed
        <3>2. arms \in Nat /\ claims \in Nat
            BY DEF NewsInvariant, NewsTyped
        <3> QED BY <1>1, <2>1, <2>2, <2>3, <3>1, <3>2 DEF Armed
    <2>6. Pending'
        BY <1>1, <2>3 DEF NewsInvariant, Pending
    <2> QED BY <2>4, <2>5, <2>6 DEF NewsInvariant
<1>3. CASE post.notified
    <2>1. UNCHANGED <<post, claims>>
        BY <1>3 DEF Announcements!Claim
    <2> QED BY <1>1, <2>1 DEF NewsInvariant, NewsTyped, Armed, Pending
<1> QED BY <1>2, <1>3

LEMMA NewsNext ==
    ASSUME Announcements!PeopleAssumption, NewsInvariant, [Announcements!Next]_(Announcements!vars)
    PROVE  NewsInvariant'
<1>1. ASSUME \/ UNCHANGED Announcements!vars
             \/ Announcements!Clock
             \/ \E u \in Person : \/ Announcements!MarkRead(u) \/ Announcements!Dismiss(u)
                                  \/ Announcements!MarkAllRead(u)
      PROVE  NewsInvariant'
    <2>1. UNCHANGED <<placed, children, assigned, taught, post, edit, tick, arms, claims, overwritten>>
        BY <1>1 DEF Announcements!vars, Announcements!people, Announcements!Clock,
                    Announcements!MarkRead, Announcements!Dismiss, Announcements!MarkAllRead
    <2> QED BY <2>1, NewsRead DEF NewsInvariant, NewsTyped, Pending
<1>2. ASSUME NEW u \in Person, NEW s \in Room, Announcements!Move(u, s) PROVE NewsInvariant'
    <2>1. /\ placed' \subseteq Pupil \X Room /\ taught' \subseteq Instructor \X Room
          /\ UNCHANGED <<children, assigned, post, edit, tick, arms, claims, overwritten>>
        BY <1>2 DEF Announcements!Move, NewsInvariant, NewsTyped
    <2> QED BY <2>1, NewsRead DEF NewsInvariant, NewsTyped, Pending
<1>3. ASSUME NEW u \in Person, Announcements!Remove(u) PROVE NewsInvariant'
    <2>1. /\ post' = None /\ arms' = 0 /\ claims' = 0 /\ overwritten' = FALSE
          /\ edit' = [e \in Editor |-> None] /\ tick' = [c \in Cron |-> FALSE]
          /\ UNCHANGED <<placed, children, assigned, taught>>
        BY <1>3 DEF Announcements!Remove, Announcements!people
    <2>2. NewsTyped'
        BY <2>1 DEF NewsInvariant, NewsTyped
    <2>3. Armed' /\ Pending'
        BY <2>1 DEF Armed, Pending
    <2> QED BY <2>2, <2>3 DEF NewsInvariant
<1>4. ASSUME NEW c \in Cron, Announcements!Tick(c) PROVE NewsInvariant'
    <2>1. /\ tick' = [tick EXCEPT ![c] = TRUE] /\ post # None
          /\ UNCHANGED <<placed, children, assigned, taught, post, edit, arms, claims, overwritten>>
        BY <1>4 DEF Announcements!Tick, Announcements!DueNow, Announcements!people
    <2> QED BY <2>1, NewsRead DEF NewsInvariant, NewsTyped
<1> QED BY <1>1, <1>2, <1>3, <1>4, NewsCreated, NewsEdited, NewsUpdated, NewsClaimed
    DEF Announcements!Next, Person

\* Who is in a section sees what is for it, whichever side asks.
LEMMA SectionIs ==
    ASSUME NewsTyped, NEW u \in Person, NEW s \in Room
    PROVE  u \in Announcements!PeopleOf(s) <=> s \in Announcements!SectionsOf(u)
<1>1. u \in Announcements!PeopleOf(s) <=>
        \/ <<u, s>> \in placed
        \/ \E c \in Pupil : <<u, c>> \in children /\ <<c, s>> \in placed
        \/ <<u, s>> \in assigned \union taught
    BY DEF NewsTyped, Announcements!PeopleOf
<1> QED BY <1>1 DEF Announcements!SectionsOf

\* A reader finds, and is let in to, what is addressed to them.
LEMMA AddressedIs ==
    ASSUME Announcements!PeopleAssumption, NewsTyped,
           NEW u \in Person \ Admin, NEW t \in Announcements!Target
    PROVE  /\ u \in Announcements!Addressed(t) <=> t \in Announcements!TargetOr(u)
           /\ u \in Announcements!Addressed(t) <=>
                \/ t.kind = "SCHOOL" \/ t.kind = Announcements!RoleAllKind(u)
                \/ t.kind = "SECTION" /\ t.ref \in Announcements!SectionsOf(u)
                \/ t.kind = "CLASS" /\ \E s \in Announcements!SectionsOf(u) : t.ref = RoomClass[s]
<1> DEFINE door == \/ t.kind = "SCHOOL" \/ t.kind = Announcements!RoleAllKind(u)
                   \/ t.kind = "SECTION" /\ t.ref \in Announcements!SectionsOf(u)
                   \/ t.kind = "CLASS" /\ \E s \in Announcements!SectionsOf(u) : t.ref = RoomClass[s]
<1>1. u \in Pupil \union Guardian \union Instructor
    BY DEF Person, Announcements!User
<1>2. /\ u \in Pupil => Announcements!RoleAllKind(u) = "ALL_STUDENTS"
      /\ u \in Guardian => Announcements!RoleAllKind(u) = "ALL_PARENTS"
      /\ u \in Instructor => Announcements!RoleAllKind(u) = "ALL_TEACHERS"
    BY DEF Announcements!PeopleAssumption, Announcements!RoleAllKind
<1>3. t \in Announcements!TargetOr(u) <=> door
    BY DEF Announcements!TargetOr
<1>4. CASE t.kind = "SCHOOL"
    BY <1>3, <1>4 DEF Announcements!Addressed, Person
<1>5. CASE t.kind \in {"ALL_STUDENTS", "ALL_TEACHERS", "ALL_PARENTS"}
    BY <1>1, <1>2, <1>3, <1>5 DEF Announcements!Addressed, Announcements!PeopleAssumption
<1>6. CASE t.kind = "SECTION"
    <2>1. t.ref \in Room
        BY <1>6 DEF Announcements!Target, Announcements!Kinds
    <2>2. u \in Announcements!Addressed(t) <=> u \in Announcements!PeopleOf(t.ref)
        BY <1>6 DEF Announcements!Addressed
    <2> QED BY <1>1, <1>2, <1>3, <1>6, <2>1, <2>2, SectionIs
<1>7. CASE t.kind = "CLASS"
    <2>1. u \in Announcements!Addressed(t) <=>
            \E s \in Room : RoomClass[s] = t.ref /\ u \in Announcements!PeopleOf(s)
        BY <1>7 DEF Announcements!Addressed
    <2>2. \A s : s \in Announcements!SectionsOf(u) => s \in Room
        BY DEF Announcements!SectionsOf
    <2>3. door <=> \E s \in Announcements!SectionsOf(u) : t.ref = RoomClass[s]
        BY <1>1, <1>2, <1>7
    <2> HIDE DEF door
    <2>4. u \in Announcements!Addressed(t) <=> door
        BY <2>1, <2>2, <2>3, SectionIs
    <2> QED BY <1>3, <2>4 DEF door
<1> QED BY <1>4, <1>5, <1>6, <1>7 DEF Announcements!Target, Announcements!Kinds

LEMMA NewsKept ==
    ASSUME Announcements!PeopleAssumption, NewsInvariant
    PROVE  Announcements!AudienceAgrees /\ Announcements!NotifiedOnce
<1>1. ASSUME post # None, NEW u \in Announcements!User \ Admin
      PROVE  LET out == ~Announcements!Future /\ \E t \in post.targets : u \in Announcements!Addressed(t)
             IN  /\ Announcements!Visible(u) <=> out
                 /\ Announcements!CanView(u) <=> out \/ u = post.author
    <2>1. post.targets \subseteq Announcements!Target
        BY <1>1 DEF NewsInvariant, NewsTyped, Posted
    <2>2. Announcements!Visible(u) <=>
            ~Announcements!Future /\ \E t \in post.targets : t \in Announcements!TargetOr(u)
        BY <1>1 DEF Announcements!Visible
    <2>3. \A t \in post.targets : u \in Announcements!Addressed(t) <=> t \in Announcements!TargetOr(u)
        BY <1>1, <2>1, AddressedIs DEF NewsInvariant, Person
    <2>4. Announcements!CanView(u) <=>
            \/ u = post.author
            \/ ~Announcements!Future /\ \E t \in post.targets : u \in Announcements!Addressed(t)
        BY <1>1, <2>1, AddressedIs DEF Announcements!CanView, NewsInvariant, Person
    <2> QED BY <2>2, <2>3, <2>4
<1>2. Announcements!AudienceAgrees
    BY <1>1, Zenon DEF Announcements!AudienceAgrees
<1>3. Announcements!NotifiedOnce
    BY DEF NewsInvariant, Armed, Announcements!NotifiedOnce
<1> QED BY <1>2, <1>3

\* In every school: an announcement is listed for, and opened by, exactly those its targets
\* name, wherever they have moved, and its author; and a scheduled one is claimed once each
\* time it is scheduled, however many ticks of the cron and edits overlap, unless an edit
\* wrote back a flag that had changed (announcements.service.ts, visibilityWhere,
\* assertCanView, publishDueScheduledAnnouncements, update).
THEOREM NewsReachesItsAudience ==
    ASSUME Announcements!PeopleAssumption
    PROVE  Announcements!Spec => [](Announcements!AudienceAgrees /\ Announcements!NotifiedOnce)
<1>1. NewsInvariant /\ [Announcements!Next]_(Announcements!vars) => NewsInvariant'
    BY NewsNext
<1> QED BY <1>1, NewsInit, NewsKept, PTL DEF Announcements!Spec

-----------------------------------------------------------------------------
(* The parts of a school day beside each other *)

\* Graded and marked work stands in every day of a school (quizzes.service.ts,
\* assignments.service.ts).
THEOREM WorkAlwaysStands ==
    ASSUME Quizzes!QuizAssumption, Assignments!WorkAssumption
    PROVE  MCSpec => []WorkStands
<1> DEFINE Inv == /\ part = "quiz" => QuizInvariant
                  /\ part = "assignment" => WorkInvariant
<1>1. Inv => WorkStands
    BY QuizKept DEF WorkStands, WorkInvariant, Apart, Assignments!MarkStands
<1>2. MCInit => Inv
    BY QuizInit, WorkInit DEF MCInit
<1>3. Inv /\ [MCNext]_allVars => Inv'
    <2>1. CASE UNCHANGED allVars
        <3>1. UNCHANGED part /\ UNCHANGED Quizzes!vars /\ UNCHANGED Assignments!vars
            BY <2>1 DEF allVars, quizVars, workVars, Quizzes!vars, Assignments!vars
        <3> QED BY <3>1, QuizNext, WorkNext
    <2>2. CASE MCNext
        <3>1. /\ UNCHANGED part
              /\ part = "quiz" => Quizzes!Next
              /\ part = "assignment" => Assignments!Next
            BY <2>2 DEF MCNext, OthersRest, QuizStep, WorkStep
        <3> QED BY <3>1, QuizNext, WorkNext
    <2> QED BY <2>1, <2>2
<1> QED BY <1>1, <1>2, <1>3, PTL DEF MCSpec

\* So does what makes a quiz fit to be taken, and by whom (quizzes.service.ts, publish,
\* available and startAttempt).
THEOREM QuizAlwaysOpen ==
    ASSUME Quizzes!QuizAssumption PROVE MCSpec => []QuizOpen
<1> DEFINE Inv == part = "quiz" => QuizInvariant
<1>1. Inv => QuizOpen
    BY QuizKept DEF QuizOpen
<1>2. MCInit => Inv
    BY QuizInit DEF MCInit
<1>3. Inv /\ [MCNext]_allVars => Inv'
    <2>1. CASE UNCHANGED allVars
        <3>1. UNCHANGED part /\ UNCHANGED Quizzes!vars
            BY <2>1 DEF allVars, quizVars, Quizzes!vars
        <3> QED BY <3>1, QuizNext
    <2>2. CASE MCNext
        <3>1. UNCHANGED part /\ (part = "quiz" => Quizzes!Next)
            BY <2>2 DEF MCNext, OthersRest, QuizStep
        <3> QED BY <3>1, QuizNext
    <2> QED BY <2>1, <2>2
<1> QED BY <1>1, <1>2, <1>3, PTL DEF MCSpec

\* And the thread of a school day misses nothing and stays orderly (messaging.service.ts).
THEOREM ThreadsAlwaysKept ==
    ASSUME Messaging!MessagingAssumption PROVE MCSpec => []ThreadsKept
<1> DEFINE Inv == part = "messages" => ThreadInvariant
<1>1. Inv => ThreadsKept
    BY ThreadKept DEF ThreadsKept
<1>2. MCInit => Inv
    BY ThreadInit DEF MCInit
<1>3. Inv /\ [MCNext]_allVars => Inv'
    <2>1. CASE UNCHANGED allVars
        <3>1. UNCHANGED part /\ UNCHANGED Messaging!vars
            BY <2>1 DEF allVars, messageVars, Messaging!vars
        <3> QED BY <3>1, ThreadNext
    <2>2. CASE MCNext
        <3>1. UNCHANGED part /\ (part = "messages" => Messaging!Next)
            BY <2>2 DEF MCNext, OthersRest, MessageStep
        <3> QED BY <3>1, ThreadNext
    <2> QED BY <2>1, <2>2
<1> QED BY <1>1, <1>2, <1>3, PTL DEF MCSpec

\* And in every day of a school whoever an assignment is for is told of it and may open it,
\* an announcement is listed for and opened by those it is addressed to, and people write to
\* exactly those they are offered, in one thread unless two requests for it overlapped
\* (assignments.service.ts, announcements.service.ts, messaging.service.ts).
THEOREM AudiencesAlwaysAgree ==
    ASSUME Assignments!RosterAssumption, Announcements!PeopleAssumption, Correspondents!SchoolAssumption
    PROVE  MCSpec => []AudiencesAgree
<1> DEFINE Inv == /\ part = "assignment" => AudienceInvariant
                  /\ part = "announcement" => NewsInvariant
                  /\ part = "writers" => WriterInvariant
<1>1. Inv => AudiencesAgree
    BY AudienceKept, NewsKept, WritersKept DEF AudiencesAgree
<1>2. MCInit => Inv
    BY AudienceInit, NewsInit, WriterInit DEF MCInit
<1>3. Inv /\ [MCNext]_allVars => Inv'
    <2>1. CASE UNCHANGED allVars
        <3>1. /\ UNCHANGED part /\ UNCHANGED Assignments!vars
              /\ UNCHANGED Announcements!vars /\ UNCHANGED Correspondents!vars
            BY <2>1 DEF allVars, workVars, announcementVars, writerVars, Announcements!people,
                        Assignments!vars, Announcements!vars, Correspondents!vars
        <3> QED BY <3>1, AudienceNext, NewsNext, WriterNext
    <2>2. CASE MCNext
        <3>1. /\ UNCHANGED part
              /\ part = "assignment" => Assignments!Next
              /\ part = "announcement" => Announcements!Next
              /\ part = "writers" => Correspondents!Next
            BY <2>2 DEF MCNext, OthersRest, WorkStep, AnnouncementStep, WriterStep
        <3> QED BY <3>1, AudienceNext, NewsNext, WriterNext
    <2> QED BY <2>1, <2>2
<1> QED BY <1>1, <1>2, <1>3, PTL DEF MCSpec

=============================================================================
