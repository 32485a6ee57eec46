-------------------------- MODULE FeeOfficeProofs --------------------------
(***************************************************************************)
(* The fee office, for any schedule, any year and any number of            *)
(* administrators, heads, codes and students.                              *)
(*                                                                         *)
(* Plans: that a bill points at the row it bills needs no more than the    *)
(* numbering of the rows; that no installment is billed twice needs that   *)
(* what a call has read is still so when it writes, which holds only until *)
(* two calls overlap: PlanInvariant.  The set-up: a save in flight knows   *)
(* whether it changes what is stored until another save comes between:     *)
(* SetupInvariant.  Subjects: a student has one open place in a session:   *)
(* SubjectInvariant.                                                       *)
(***************************************************************************)
EXTENDS MCFeeOffice, SequenceTheorems, FiniteSetTheorems, TLAPS

\* The rows of the plan are numbered apart from each other, below nextId.
LEMMA PlanRows ==
    ASSUME TypeOK, RowsNumbered, PlanAssumption
    PROVE  /\ Len(plan.rows) \in Nat /\ DOMAIN plan.rows = 1..Len(plan.rows)
           /\ nextId \in Nat
           /\ \A i \in DOMAIN plan.rows :
                plan.rows[i] \in Entry /\ plan.rows[i].id \in 1..nextId /\ plan.rows[i].id \in RowIds
           /\ \A i, j \in DOMAIN plan.rows : plan.rows[i].id = plan.rows[j].id => i = j
           /\ \A n \in RowIds : n \in 1..nextId
<1>1. plan.rows \in Seq(Entry) /\ nextId \in Nat
    BY DEF TypeOK, PlanAssumption
<1>2. Len(plan.rows) \in Nat /\ DOMAIN plan.rows = 1..Len(plan.rows)
    BY <1>1, LenProperties
<1>3. \A i \in DOMAIN plan.rows : plan.rows[i] \in Entry
    BY <1>1, <1>2, LenProperties
<1>4. \A i \in DOMAIN plan.rows :
        plan.rows[i].id = nextId - Len(plan.rows) + i /\ Len(plan.rows) <= nextId
    BY DEF RowsNumbered
<1>5. \A i \in DOMAIN plan.rows : plan.rows[i].id \in 1..nextId
    BY <1>1, <1>2, <1>4
<1>6. \A i, j \in DOMAIN plan.rows : plan.rows[i].id = plan.rows[j].id => i = j
    BY <1>1, <1>2, <1>4
<1> QED BY <1>1, <1>2, <1>3, <1>5, <1>6 DEF RowIds

LEMMA PlanInit ==
    ASSUME PlanAssumption, Init PROVE PlanInvariant
<1>1. NoRow \in Entry \cup {NoRow} /\ NoBill \in Bill
    BY DEF NoBill, Bill
<1>2. NoCall \in Call
    BY <1>1 DEF NoCall, Call, PlanAssumption
<1>3. <<>> \in Seq(Entry) /\ Len(<<>>) = 0 /\ DOMAIN <<>> = {}
    OBVIOUS
<1>4. TypeOK
    <2>1. plan \in [exists : BOOLEAN, active : BOOLEAN, rows : Seq(Entry)]
        BY <1>3 DEF Init
    <2>2. nextId \in 0..MaxRows /\ overlapped \in BOOLEAN
        <3>1. MaxRows \in Nat /\ nextId = 0 /\ overlapped = FALSE
            BY DEF Init, PlanAssumption
        <3>2. nextId \in 0..MaxRows
            BY <3>1
        <3> QED BY <3>1, <3>2, Zenon
    <2>3. challan \in [Month -> Bill] /\ call \in [Admin -> Call]
        BY <1>1, <1>2 DEF Init
    <2> QED BY <2>1, <2>2, <2>3 DEF TypeOK
<1>5. Taken = {} /\ OnPlan = {}
    BY DEF Init, Taken, OnPlan, NoBill
<1>6. RowsNumbered /\ LinkedRowAgrees
    BY <1>3, <1>5 DEF Init, RowsNumbered, LinkedRowAgrees
<1>7. \A a \in Admin : call[a].pc = "idle"
    BY DEF Init, NoCall
<1> QED BY <1>4, <1>5, <1>6, <1>7
    DEF PlanInvariant, BatchesInOrder, Undisturbed, StillSo, InFlight

-----------------------------------------------------------------------------
(* Calls that begin and end *)

\* What stays when neither the plan nor a bill is touched.
LEMMA SameBooks ==
    ASSUME PlanInvariant, UNCHANGED <<plan, nextId, challan>>
    PROVE  /\ RowsNumbered' /\ LinkedRowAgrees' /\ RowIds' = RowIds
           /\ Taken' = Taken /\ OnPlan' = OnPlan
BY DEF PlanInvariant, RowsNumbered, LinkedRowAgrees, RowIds, Taken, OnPlan

LEMMA StillSoKept ==
    ASSUME NEW b \in Admin, call'[b] = call[b], plan' = plan, OnPlan = {} => OnPlan' = {},
           StillSo(b)
    PROVE  StillSo(b)'
BY DEF StillSo, SameRows, Differs

\* A call that knows what it has read begins.
LEMMA StartKeeps ==
    ASSUME PlanAssumption, PlanInvariant, NEW a \in Admin, NEW c \in Call, c.pc # "idle",
           Start(a, c), UNCHANGED <<plan, nextId, challan>>,
           c.pc = "batch" => /\ c.seq \in DOMAIN plan.rows /\ c.item = plan.rows[c.seq]
                             /\ c.item.id \in 1..nextId,
           StillSo(a)'
    PROVE  PlanInvariant'
<1>1. /\ call' = [call EXCEPT ![a] = c] /\ call \in [Admin -> Call]
      /\ overlapped' = (overlapped \/ \E b \in Admin : InFlight(b))
    BY DEF Start, PlanInvariant, TypeOK
<1>2. call'[a] = c /\ \A b \in Admin : b # a => call'[b] = call[b]
    BY <1>1
<1>3. TypeOK'
    <2>1. call' \in [Admin -> Call] /\ overlapped' \in BOOLEAN
        BY <1>1 DEF PlanInvariant, TypeOK
    <2> QED BY <2>1 DEF PlanInvariant, TypeOK
<1>4. BatchesInOrder'
    BY <1>2, SameBooks DEF PlanInvariant, BatchesInOrder
<1>5. Undisturbed'
    <2> SUFFICES ASSUME ~overlapped' PROVE Undisturbed'
        BY DEF Undisturbed
    <2>1. ~overlapped /\ \A b \in Admin : call[b].pc = "idle"
        BY <1>1, <1>3 DEF InFlight, PlanInvariant, TypeOK
    <2>2. \A b, d \in Admin : InFlight(b)' /\ InFlight(d)' => b = d
        BY <1>2, <2>1 DEF InFlight
    <2>3. \A b \in Admin : StillSo(b)'
        BY <1>2, <2>1 DEF StillSo
    <2>4. \A m \in OnPlan' : /\ challan'[m].seq \in DOMAIN plan'.rows
                             /\ plan'.rows[challan'[m].seq].due = m
        BY <2>1, SameBooks DEF PlanInvariant, Undisturbed
    <2> QED BY <2>2, <2>3, <2>4 DEF Undisturbed
<1> QED BY <1>3, <1>4, <1>5, SameBooks DEF PlanInvariant

\* A call that leaves without having written.
LEMMA ReturnKeeps ==
    ASSUME PlanAssumption, PlanInvariant, NEW a \in Admin, Return(a),
           UNCHANGED <<plan, nextId, challan>>
    PROVE  PlanInvariant'
<1>1. call' = [call EXCEPT ![a] = NoCall] /\ overlapped' = overlapped /\ call \in [Admin -> Call]
    BY DEF Return, PlanInvariant, TypeOK
<1>2. call'[a].pc = "idle" /\ \A b \in Admin : b # a => call'[b] = call[b]
    BY <1>1 DEF NoCall
<1>3. TypeOK'
    <2>1. NoCall \in Call
        BY DEF NoCall, Call, PlanAssumption
    <2> QED BY <1>1, <2>1 DEF PlanInvariant, TypeOK
<1>4. BatchesInOrder'
    BY <1>2, SameBooks DEF PlanInvariant, BatchesInOrder
<1>5. \A b \in Admin : StillSo(b) => StillSo(b)'
    <2>1. StillSo(a)'
        BY <1>2 DEF StillSo
    <2>2. ASSUME NEW b \in Admin, b # a, StillSo(b) PROVE StillSo(b)'
        BY <1>2, <2>2, SameBooks, StillSoKept
    <2> QED BY <2>1, <2>2
<1>6. Undisturbed'
    <2>1. \A b \in Admin : InFlight(b)' => InFlight(b)
        BY <1>2 DEF InFlight
    <2> QED BY <1>1, <1>5, <2>1, SameBooks DEF PlanInvariant, Undisturbed
<1> QED BY <1>3, <1>4, <1>6, SameBooks DEF PlanInvariant

-----------------------------------------------------------------------------
(* Saving a plan *)

\* What a form sends, and what it has found, make a call.
LEMMA FormCalls ==
    ASSUME PlanAssumption, NEW schedule \in Schedules, NEW active \in BOOLEAN,
           NEW existed \in BOOLEAN, NEW changed \in BOOLEAN
    PROVE  [NoCall EXCEPT !.pc = "read", !.rows = schedule, !.active = active,
                          !.existed = existed, !.changed = changed] \in Call
<1>1. 0 \in 0..Months
    BY DEF PlanAssumption
<1> QED BY <1>1 DEF NoCall, Call

LEMMA ReadPlanStep ==
    ASSUME PlanAssumption, PlanInvariant, NEW a \in Admin, NEW schedule \in Schedules,
           NEW active \in BOOLEAN, ReadPlan(a, schedule, active)
    PROVE  PlanInvariant'
<1> DEFINE c == [NoCall EXCEPT
            !.pc = "read", !.rows = schedule, !.active = active,
            !.existed = plan.exists, !.changed = Differs(schedule, active)]
<1>1. /\ c.pc = "read" /\ c.rows = schedule /\ c.active = active /\ c.existed = plan.exists
      /\ c.changed = Differs(schedule, active)
    BY DEF NoCall
<1>2. Differs(schedule, active) \in BOOLEAN
    BY DEF Differs
<1>3. c \in Call
    <2>1. plan.exists \in BOOLEAN
        BY DEF PlanInvariant, TypeOK
    <2> QED BY <1>2, <2>1, FormCalls
<1>4. Start(a, c) /\ UNCHANGED <<plan, nextId, challan>>
    BY DEF ReadPlan
<1> HIDE DEF c
<1>5. call'[a] = c
    BY <1>4 DEF Start, PlanInvariant, TypeOK
<1>6. StillSo(a)'
    BY <1>1, <1>4, <1>5 DEF StillSo, Differs
<1> QED BY <1>1, <1>3, <1>4, <1>6, StartKeeps

\* A call that goes on to save has the schedule of the plan, or nothing is billed on it.
LEMMA CheckBilledStep ==
    ASSUME PlanAssumption, PlanInvariant, NEW a \in Admin, CheckBilled(a)
    PROVE  PlanInvariant'
<1>1. CASE call[a].existed /\ call[a].changed /\ Billed # {}
    BY <1>1, ReturnKeeps DEF CheckBilled
<1>2. CASE ~(call[a].existed /\ call[a].changed /\ Billed # {})
    <2>1. /\ call[a].pc = "read" /\ call' = [call EXCEPT ![a].pc = "checked"]
          /\ UNCHANGED <<overlapped, plan, nextId, challan>> /\ call \in [Admin -> Call]
        BY <1>2 DEF CheckBilled, PlanInvariant, TypeOK
    <2>2. /\ call'[a] = [call[a] EXCEPT !.pc = "checked"]
          /\ \A b \in Admin : b # a => call'[b] = call[b]
        BY <2>1
    <2>3. call'[a] \in Call /\ call'[a].pc = "checked" /\ call'[a].rows = call[a].rows
        BY <2>1, <2>2 DEF Call
    <2>4. TypeOK'
        <3>1. call' \in [Admin -> Call]
            BY <2>1, <2>2, <2>3
        <3> QED BY <2>1, <3>1 DEF PlanInvariant, TypeOK
    <2>5. BatchesInOrder'
        BY <2>1, <2>2, <2>3, SameBooks DEF PlanInvariant, BatchesInOrder
    <2>6. Undisturbed'
        <3> SUFFICES ASSUME ~overlapped' PROVE Undisturbed'
            BY DEF Undisturbed
        <3>1. /\ StillSo(a)
              /\ \A m \in OnPlan : challan[m].seq \in DOMAIN plan.rows
            BY <2>1 DEF PlanInvariant, Undisturbed
        <3>2. OnPlan = {} \/ SameRows(call[a].rows)
            <4>1. CASE ~call[a].existed
                <5>1. plan.rows = <<>>
                    BY <2>1, <3>1, <4>1 DEF StillSo, PlanInvariant, RowsNumbered
                <5> QED BY <3>1, <5>1
            <4>2. CASE Billed = {}
                BY <4>2 DEF Billed
            <4>3. CASE ~call[a].changed
                <5>1. ~Differs(call[a].rows, call[a].active)
                    BY <2>1, <3>1, <4>3 DEF StillSo
                <5>2. call[a].rows \in Seq([amount : Nat \ {0}, due : Month])
                    <6>1. call[a].rows \in Schedules \cup {<<>>}
                        BY <2>1 DEF Call
                    <6>2. \A r \in Schedules : r \in Seq([amount : Nat \ {0}, due : Month])
                        BY DEF PlanAssumption
                    <6>3. <<>> \in Seq([amount : Nat \ {0}, due : Month])
                        OBVIOUS
                    <6>4. CASE call[a].rows = <<>>
                        BY <6>3, <6>4
                    <6>5. CASE call[a].rows \in Schedules
                        BY <6>2, <6>5
                    <6> QED BY <6>1, <6>4, <6>5
                <5>3. DOMAIN call[a].rows = 1..Len(call[a].rows)
                    BY <5>2, LenProperties
                <5>4. DOMAIN plan.rows = 1..Len(plan.rows)
                    BY PlanRows DEF PlanInvariant
                <5> QED BY <5>1, <5>3, <5>4 DEF Differs, SameRows
            <4> QED BY <1>2, <4>1, <4>2, <4>3
        <3>3. StillSo(a)'
            BY <2>1, <2>3, <3>2, SameBooks DEF StillSo, SameRows
        <3>4. \A b \in Admin : b # a => StillSo(b)'
            <4>1. \A b \in Admin : StillSo(b)
                BY <2>1 DEF PlanInvariant, Undisturbed
            <4>2. ASSUME NEW b \in Admin, b # a PROVE StillSo(b)'
                <5>1. StillSo(b) /\ call'[b] = call[b]
                    BY <2>2, <4>1, <4>2
                <5> QED BY <2>1, <5>1, SameBooks, StillSoKept
            <4> QED BY <4>2
        <3>5. \A b \in Admin : InFlight(b)' => InFlight(b)
            BY <2>1, <2>2 DEF InFlight
        <3> QED BY <2>1, <3>3, <3>4, <3>5, SameBooks DEF PlanInvariant, Undisturbed
    <2> QED BY <2>1, <2>4, <2>5, <2>6, SameBooks DEF PlanInvariant
<1> QED BY <1>1, <1>2

\* The new rows have new numbers, so no bill points at one and no batch holds one; and
\* if anything is billed they are due as the old ones were.
LEMMA SavePlanStep ==
    ASSUME PlanAssumption, PlanInvariant, NEW a \in Admin, SavePlan(a)
    PROVE  PlanInvariant'
<1> DEFINE schedule == call[a].rows
<1>1. /\ TypeOK /\ RowsNumbered /\ LinkedRowAgrees /\ BatchesInOrder /\ Undisturbed
      /\ call[a].pc = "checked" /\ nextId + Len(schedule) <= MaxRows
      /\ plan' = [exists |-> TRUE, active |-> call[a].active, rows |-> Numbered(schedule)]
      /\ nextId' = nextId + Len(schedule)
      /\ challan' = [m \in Month |->
            IF challan[m].row \in RowIds THEN [challan[m] EXCEPT !.row = 0] ELSE challan[m]]
      /\ call' = [call EXCEPT ![a] = NoCall] /\ overlapped' = overlapped
      /\ call[a] \in Call
    BY DEF SavePlan, Return, PlanInvariant, TypeOK
<1>2. schedule \in Seq([amount : Nat \ {0}, due : Month]) /\ call[a].active \in BOOLEAN
    <2>1. schedule \in Schedules \cup {<<>>} /\ call[a].active \in BOOLEAN
        BY <1>1 DEF Call
    <2>2. \A r \in Schedules : r \in Seq([amount : Nat \ {0}, due : Month])
        BY DEF PlanAssumption
    <2>3. <<>> \in Seq([amount : Nat \ {0}, due : Month])
        OBVIOUS
    <2>4. CASE schedule = <<>>
        BY <2>1, <2>3, <2>4
    <2>5. CASE schedule \in Schedules
        BY <2>1, <2>2, <2>5
    <2> QED BY <2>1, <2>4, <2>5
<1>3. /\ Len(schedule) \in Nat /\ DOMAIN schedule = 1..Len(schedule)
      /\ \A i \in DOMAIN schedule : schedule[i].amount \in Nat /\ schedule[i].due \in Month
    <2> HIDE DEF schedule
    <2>1. Len(schedule) \in Nat /\ DOMAIN schedule = 1..Len(schedule)
        BY <1>2, LenProperties
    <2>2. \A i \in DOMAIN schedule : schedule[i] \in [amount : Nat \ {0}, due : Month]
        BY <1>2, <2>1, LenProperties
    <2> QED BY <2>1, <2>2
<1>4. nextId \in Nat /\ MaxRows \in Nat
    BY <1>1, PlanRows DEF PlanAssumption
<1> HIDE DEF schedule
<1>5. /\ plan'.rows = [i \in 1..Len(schedule) |->
                [id |-> nextId + i, amount |-> schedule[i].amount, due |-> schedule[i].due]]
      /\ plan'.exists = TRUE /\ plan'.active = call[a].active
    BY <1>1, <1>3 DEF Numbered
<1>6. plan'.rows \in Seq(Entry) /\ Len(plan'.rows) = Len(schedule)
    <2>1. \A i \in 1..Len(schedule) :
            [id |-> nextId + i, amount |-> schedule[i].amount, due |-> schedule[i].due] \in Entry
        BY <1>3, <1>4 DEF Entry
    <2> QED BY <1>3, <1>5, <2>1
<1>7. \A i \in DOMAIN plan'.rows : plan'.rows[i].id \in (nextId + 1)..nextId'
    BY <1>1, <1>3, <1>4, <1>5
<1>8. RowIds' \subseteq (nextId + 1)..nextId'
    BY <1>7 DEF RowIds
<1>9. /\ \A m \in Month : /\ challan'[m].status = challan[m].status
                          /\ challan'[m].type = challan[m].type
                          /\ challan'[m].seq = challan[m].seq
      /\ challan' \in [Month -> Bill]
    BY <1>1 DEF TypeOK, Bill
<1>10. Taken' = Taken /\ OnPlan' = OnPlan
    BY <1>9 DEF Taken, OnPlan
<1>11. \A m \in Taken : challan'[m].row = 0
    BY <1>1 DEF TypeOK, Bill, Taken, LinkedRowAgrees, RowIds
<1>12. \A b \in Admin : b # a => call'[b] = call[b]
    BY <1>1 DEF TypeOK
<1>13. call'[a].pc = "idle"
    BY <1>1 DEF TypeOK, NoCall
<1>14. TypeOK'
    <2>1. NoCall \in Call
        BY DEF NoCall, Call, PlanAssumption
    <2>2. call' \in [Admin -> Call] /\ overlapped' \in BOOLEAN
        BY <1>1, <2>1 DEF TypeOK
    <2>3. plan' \in [exists : BOOLEAN, active : BOOLEAN, rows : Seq(Entry)]
        BY <1>1, <1>2, <1>5, <1>6
    <2>4. nextId' \in 0..MaxRows
        BY <1>1, <1>3, <1>4
    <2> QED BY <1>9, <2>2, <2>3, <2>4 DEF TypeOK
<1>15. RowsNumbered'
    BY <1>1, <1>3, <1>4, <1>5, <1>6 DEF RowsNumbered
<1>16. LinkedRowAgrees'
    BY <1>10, <1>11 DEF LinkedRowAgrees
<1>17. BatchesInOrder'
    <2> SUFFICES ASSUME NEW b \in Admin, call'[b].pc = "batch"
                 PROVE  call'[b].item.id \in 1..nextId' /\ call'[b].item.id \notin RowIds'
        BY DEF BatchesInOrder
    <2>1. call'[b] = call[b] /\ call[b].item.id \in 1..nextId
        BY <1>1, <1>12, <1>13 DEF BatchesInOrder
    <2> QED BY <1>1, <1>3, <1>4, <1>8, <2>1
<1>18. Undisturbed'
    <2> SUFFICES ASSUME ~overlapped' PROVE Undisturbed'
        BY DEF Undisturbed
    <2>1. /\ \A b, d \in Admin : InFlight(b) /\ InFlight(d) => b = d
          /\ \A m \in OnPlan : /\ challan[m].seq \in DOMAIN plan.rows
                              /\ plan.rows[challan[m].seq].due = m
          /\ OnPlan = {} \/ SameRows(schedule)
        BY <1>1 DEF Undisturbed, StillSo, schedule
    <2>2. \A b \in Admin : call'[b].pc = "idle"
        BY <1>1, <1>12, <1>13, <2>1 DEF InFlight
    <2>3. \A m \in OnPlan' : /\ challan'[m].seq \in DOMAIN plan'.rows
                             /\ plan'.rows[challan'[m].seq].due = m
        <3> SUFFICES ASSUME NEW m \in OnPlan
                     PROVE  /\ challan[m].seq \in DOMAIN plan'.rows
                            /\ plan'.rows[challan[m].seq].due = m
            BY <1>9, <1>10 DEF OnPlan, Taken
        <3>1. SameRows(schedule) /\ DOMAIN plan.rows = 1..Len(plan.rows)
            BY <1>1, <2>1, PlanRows
        <3> QED BY <1>3, <1>5, <2>1, <3>1 DEF SameRows
    <2>4. \A b \in Admin : StillSo(b)'
        BY <2>2 DEF StillSo
    <2> QED BY <2>2, <2>3, <2>4 DEF Undisturbed, InFlight
<1> QED BY <1>14, <1>15, <1>16, <1>17, <1>18 DEF PlanInvariant

-----------------------------------------------------------------------------
(* Billing *)

\* A batch begins with its row as the plan has it.
LEMMA ReadBatchStep ==
    ASSUME PlanAssumption, PlanInvariant, NEW a \in Admin, NEW seq \in Month, ReadBatch(a, seq)
    PROVE  PlanInvariant'
<1> DEFINE c == [NoCall EXCEPT !.pc = "batch", !.item = plan.rows[seq], !.seq = seq]
<1>1. c.pc = "batch" /\ c.item = plan.rows[seq] /\ c.seq = seq
    BY DEF NoCall
<1>2. seq \in DOMAIN plan.rows /\ plan.rows[seq] \in Entry /\ plan.rows[seq].id \in 1..nextId
    BY PlanRows DEF ReadBatch, Billable, PlanInvariant
<1>3. c \in Call
    <2>1. seq \in 0..Months
        BY DEF Month, PlanAssumption
    <2> QED BY <1>2, <2>1 DEF NoCall, Call
<1>4. Start(a, c) /\ UNCHANGED <<plan, nextId, challan>>
    BY DEF ReadBatch
<1> HIDE DEF c
<1>5. call'[a] = c
    BY <1>4 DEF Start, PlanInvariant, TypeOK
<1>6. StillSo(a)'
    BY <1>1, <1>2, <1>4, <1>5 DEF StillSo
<1> QED BY <1>1, <1>2, <1>3, <1>4, <1>6, StartKeeps

\* A bill is issued for a row that still exists, in the month it is due.
LEMMA IssueInstallmentStep ==
    ASSUME PlanAssumption, PlanInvariant, NEW a \in Admin, IssueInstallment(a)
    PROVE  PlanInvariant'
<1> DEFINE item == call[a].item
           bill == [status |-> "ISSUED", type |-> "INSTALLMENT", row |-> item.id,
                    seq |-> call[a].seq, amount |-> item.amount]
<1>1. /\ TypeOK /\ RowsNumbered /\ LinkedRowAgrees /\ BatchesInOrder /\ Undisturbed
      /\ call[a].pc = "batch" /\ Writable(item) /\ challan' = [challan EXCEPT ![item.due] = bill]
      /\ call' = [call EXCEPT ![a] = NoCall] /\ overlapped' = overlapped
      /\ UNCHANGED <<plan, nextId>> /\ call[a] \in Call
    BY DEF IssueInstallment, Return, PlanInvariant, TypeOK
<1>2. call[a].seq \in DOMAIN plan.rows /\ item = plan.rows[call[a].seq]
    BY <1>1 DEF BatchesInOrder, Writable
<1>3. item \in Entry /\ item.due \in Month /\ item.due \notin Taken /\ call[a].seq \in Nat
    BY <1>1, <1>2, PlanRows DEF Entry, Writable
<1>4. bill \in Bill
    BY <1>3 DEF Bill, Entry
<1>5. challan'[item.due] = bill /\ \A m \in Month : m # item.due => challan'[m] = challan[m]
    BY <1>1, <1>3 DEF TypeOK
<1>6. bill.status = "ISSUED" /\ bill.row = item.id /\ bill.seq = call[a].seq /\ bill.amount = item.amount
    OBVIOUS
<1> HIDE DEF bill, item
<1>7. call'[a].pc = "idle" /\ \A b \in Admin : b # a => call'[b] = call[b]
    BY <1>1 DEF TypeOK, NoCall
<1>8. TypeOK'
    <2>1. NoCall \in Call
        BY DEF NoCall, Call, PlanAssumption
    <2>2. call' \in [Admin -> Call] /\ overlapped' \in BOOLEAN
        BY <1>1, <2>1 DEF TypeOK
    <2>3. challan' \in [Month -> Bill]
        BY <1>1, <1>4 DEF TypeOK
    <2> QED BY <1>1, <2>2, <2>3 DEF TypeOK
<1>9. RowsNumbered'
    BY <1>1 DEF RowsNumbered
<1>10. \A m \in Taken' : m # item.due => m \in Taken /\ challan'[m] = challan[m]
    BY <1>5 DEF Taken
<1>11. LinkedRowAgrees'
    <2> SUFFICES ASSUME NEW m \in Taken', challan'[m].row # 0
                 PROVE  \E i \in DOMAIN plan.rows :
                            /\ plan.rows[i].id = challan'[m].row /\ challan'[m].seq = i
                            /\ challan'[m].amount = plan.rows[i].amount /\ m = plan.rows[i].due
        BY <1>1 DEF LinkedRowAgrees
    <2>1. CASE m = item.due
        BY <1>2, <1>5, <1>6, <2>1
    <2>2. CASE m # item.due
        BY <1>1, <1>10, <2>2 DEF LinkedRowAgrees
    <2> QED BY <2>1, <2>2
<1>12. BatchesInOrder'
    BY <1>1, <1>7 DEF BatchesInOrder, RowIds
<1>13. Undisturbed'
    <2> SUFFICES ASSUME ~overlapped' PROVE Undisturbed'
        BY DEF Undisturbed
    <2>1. /\ \A b, d \in Admin : InFlight(b) /\ InFlight(d) => b = d
          /\ \A m \in OnPlan : /\ challan[m].seq \in DOMAIN plan.rows
                              /\ plan.rows[challan[m].seq].due = m
        BY <1>1 DEF Undisturbed
    <2>2. \A b \in Admin : call'[b].pc = "idle"
        BY <1>1, <1>7, <2>1 DEF InFlight
    <2>3. \A m \in OnPlan' : /\ challan'[m].seq \in DOMAIN plan'.rows
                             /\ plan'.rows[challan'[m].seq].due = m
        BY <1>1, <1>2, <1>5, <1>6, <1>10, <2>1 DEF OnPlan
    <2>4. \A b \in Admin : StillSo(b)'
        BY <2>2 DEF StillSo
    <2> QED BY <2>2, <2>3, <2>4 DEF Undisturbed, InFlight
<1> QED BY <1>8, <1>9, <1>11, <1>12, <1>13 DEF PlanInvariant

LEMMA ReadRosterStep ==
    ASSUME PlanAssumption, PlanInvariant, NEW a \in Admin, NEW m \in Month, ReadRoster(a, m)
    PROVE  PlanInvariant'
<1> DEFINE item == [NoRow EXCEPT !.due = m]
           c == [NoCall EXCEPT !.pc = "planned", !.item = item]
<1>1. c.pc = "planned" /\ c.item = item
    BY DEF NoCall
<1>2. c \in Call
    <2>1. item \in Entry
        BY DEF NoRow, Entry
    <2>2. 0 \in 0..Months
        BY DEF PlanAssumption
    <2> HIDE DEF item
    <2> QED BY <2>1, <2>2 DEF NoCall, Call
<1>3. Start(a, c) /\ UNCHANGED <<plan, nextId, challan>> /\ ~plan.active
    BY DEF ReadRoster
<1> HIDE DEF c, item
<1>4. call'[a] = c
    BY <1>3 DEF Start, PlanInvariant, TypeOK
<1>5. StillSo(a)'
    BY <1>1, <1>3, <1>4 DEF StillSo
<1> QED BY <1>1, <1>2, <1>3, <1>5, StartKeeps

\* A bill that points at no row, or one whose status alone has changed.
LEMMA BillsApart ==
    ASSUME PlanAssumption, PlanInvariant, UNCHANGED <<plan, nextId>>, TypeOK',
           \A m \in Taken' : challan'[m].row # 0 =>
                /\ m \in Taken /\ challan'[m].row = challan[m].row
                /\ challan'[m].seq = challan[m].seq /\ challan'[m].amount = challan[m].amount,
           \A m \in OnPlan' : m \in OnPlan /\ challan'[m].seq = challan[m].seq,
           OnPlan = {} => OnPlan' = {},
           \A b \in Admin : call'[b] = call[b] \/ call'[b].pc = "idle",
           overlapped' = overlapped
    PROVE  PlanInvariant'
<1>1. RowsNumbered' /\ LinkedRowAgrees'
    BY DEF PlanInvariant, RowsNumbered, LinkedRowAgrees
<1>2. BatchesInOrder'
    BY DEF PlanInvariant, BatchesInOrder, RowIds
<1>3. Undisturbed'
    <2> SUFFICES ASSUME ~overlapped' PROVE Undisturbed'
        BY DEF Undisturbed
    <2>1. /\ \A b, d \in Admin : InFlight(b)' /\ InFlight(d)' => b = d
          /\ \A m \in OnPlan' : /\ challan'[m].seq \in DOMAIN plan'.rows
                               /\ plan'.rows[challan'[m].seq].due = m
        BY DEF PlanInvariant, Undisturbed, InFlight
    <2>2. ASSUME NEW b \in Admin PROVE StillSo(b)'
        <3>1. CASE call'[b].pc = "idle"
            BY <3>1 DEF StillSo
        <3>2. CASE call'[b] = call[b]
            <4>1. StillSo(b)
                BY DEF PlanInvariant, Undisturbed
            <4> QED BY <3>2, <4>1, StillSoKept
        <3> QED BY <3>1, <3>2
    <2> QED BY <2>1, <2>2 DEF Undisturbed
<1> QED BY <1>1, <1>2, <1>3 DEF PlanInvariant

LEMMA IssueMonthlyStep ==
    ASSUME PlanAssumption, PlanInvariant, NEW a \in Admin, IssueMonthly(a)
    PROVE  PlanInvariant'
<1> DEFINE m == call[a].item.due
<1>1. CASE m \in Taken
    BY <1>1, ReturnKeeps DEF IssueMonthly
<1>2. CASE m \notin Taken
    <2> DEFINE bill == [NoBill EXCEPT !.status = "ISSUED", !.amount = MonthlyFee]
    <2>1. /\ TypeOK /\ UNCHANGED <<plan, nextId, overlapped>> /\ call[a].pc = "planned"
          /\ challan' = [challan EXCEPT ![m] = bill]
          /\ call' = [call EXCEPT ![a] = NoCall]
        BY <1>2 DEF IssueMonthly, Return, PlanInvariant
    <2>2. bill \in Bill /\ bill.row = 0 /\ bill.type = "NORMAL"
        BY DEF NoBill, Bill, PlanAssumption
    <2> HIDE DEF m, bill
    <2>3. challan' \in [Month -> Bill]
        BY <2>1, <2>2 DEF TypeOK
    <2>4. \A k \in Month : challan'[k] = challan[k] \/ challan'[k] = bill
        BY <2>1 DEF TypeOK
    <2>5. TypeOK'
        <3>1. NoCall \in Call
            BY DEF NoCall, Call, PlanAssumption
        <3>2. call' \in [Admin -> Call]
            BY <2>1, <3>1 DEF TypeOK
        <3> QED BY <2>1, <2>3, <3>2 DEF TypeOK
    <2>6. \A k \in Taken' : challan'[k].row # 0 => k \in Taken /\ challan'[k] = challan[k]
        BY <2>2, <2>4 DEF Taken
    <2>7. \A k \in OnPlan' : k \in OnPlan /\ challan'[k] = challan[k]
        BY <2>2, <2>4 DEF OnPlan, Taken
    <2>8. \A b \in Admin : call'[b] = call[b] \/ call'[b].pc = "idle"
        BY <2>1 DEF TypeOK, NoCall
    <2>9. OnPlan = {} => OnPlan' = {}
        BY <2>7
    <2> QED BY <2>1, <2>5, <2>6, <2>7, <2>8, <2>9, BillsApart
<1> QED BY <1>1, <1>2

LEMMA CancelStep ==
    ASSUME PlanAssumption, PlanInvariant, NEW m \in Month, Cancel(m)
    PROVE  PlanInvariant'
<1>1. /\ TypeOK /\ UNCHANGED <<plan, nextId, call, overlapped>>
      /\ challan[m].status = "ISSUED"
      /\ challan' = [challan EXCEPT ![m].status = "CANCELLED"]
    BY DEF Cancel, PlanInvariant
<1>2. /\ challan' \in [Month -> Bill]
      /\ \A k \in Month : /\ challan'[k].row = challan[k].row /\ challan'[k].seq = challan[k].seq
                          /\ challan'[k].amount = challan[k].amount
                          /\ challan'[k].type = challan[k].type
                          /\ challan'[k].status = "NONE" <=> challan[k].status = "NONE"
    BY <1>1 DEF TypeOK, Bill
<1>3. Taken' = Taken /\ OnPlan' = OnPlan
    BY <1>2 DEF Taken, OnPlan
<1>4. TypeOK'
    BY <1>1, <1>2 DEF TypeOK
<1> QED BY <1>1, <1>2, <1>3, <1>4, BillsApart DEF Taken, OnPlan

-----------------------------------------------------------------------------
(* The theorems *)

LEMMA PlanStep ==
    ASSUME PlanAssumption, PlanInvariant, [Next]_vars
    PROVE  PlanInvariant'
<1>1. ASSUME NEW a \in Admin, NEW schedule \in Schedules, NEW active \in BOOLEAN,
             ReadPlan(a, schedule, active)
      PROVE  PlanInvariant'
    BY <1>1, ReadPlanStep
<1>2. ASSUME NEW a \in Admin, CheckBilled(a) PROVE PlanInvariant'
    BY <1>2, CheckBilledStep
<1>3. ASSUME NEW a \in Admin, SavePlan(a) PROVE PlanInvariant'
    BY <1>3, SavePlanStep
<1>4. ASSUME NEW a \in Admin, NEW seq \in Month, ReadBatch(a, seq) PROVE PlanInvariant'
    BY <1>4, ReadBatchStep
<1>5. ASSUME NEW a \in Admin, IssueInstallment(a) PROVE PlanInvariant'
    BY <1>5, IssueInstallmentStep
<1>6. ASSUME NEW a \in Admin, RefuseInstallment(a) \/ FailCall(a) PROVE PlanInvariant'
    BY <1>6, ReturnKeeps DEF RefuseInstallment, FailCall
<1>7. ASSUME NEW a \in Admin, NEW m \in Month, ReadRoster(a, m) PROVE PlanInvariant'
    BY <1>7, ReadRosterStep
<1>8. ASSUME NEW a \in Admin, IssueMonthly(a) PROVE PlanInvariant'
    BY <1>8, IssueMonthlyStep
<1>9. ASSUME NEW m \in Month, Cancel(m) PROVE PlanInvariant'
    BY <1>9, CancelStep
<1>10. CASE UNCHANGED vars
    <2>1. UNCHANGED <<plan, nextId, challan, call, overlapped>>
        BY <1>10 DEF vars
    <2>2. TypeOK' /\ BatchesInOrder'
        BY <2>1, SameBooks DEF PlanInvariant, TypeOK, BatchesInOrder
    <2>3. ASSUME NEW b \in Admin, StillSo(b) PROVE StillSo(b)'
        BY <2>1, <2>3, SameBooks, StillSoKept
    <2>4. Undisturbed'
        BY <2>1, <2>3, SameBooks DEF PlanInvariant, Undisturbed, InFlight
    <2> QED BY <2>1, <2>2, <2>4, SameBooks DEF PlanInvariant
<1> QED BY <1>1, <1>2, <1>3, <1>4, <1>5, <1>6, <1>7, <1>8, <1>9, <1>10 DEF Next

\* The inductive invariant: rows are numbered apart, a bill that points at a row bills
\* that row, and until two calls overlap what a call has read is still so when it writes.
THEOREM PlanIsInvariant ==
    ASSUME PlanAssumption
    PROVE  Spec => []PlanInvariant
<1>1. Init => PlanInvariant
    BY PlanInit
<1>2. PlanInvariant /\ [Next]_vars => PlanInvariant'
    BY PlanStep
<1> QED BY <1>1, <1>2, PTL DEF Spec

\* However saving and billing interleave, a bill that points at an installment has its
\* position, its amount and its month; and no installment stands on two bills while calls
\* come one at a time, however often the plan is saved in between and its bills unlinked
\* (installment-plans.service.ts set, challans.service.ts generateInstallments).
THEOREM InstallmentsAreBilledOnce ==
    ASSUME PlanAssumption
    PROVE  Spec => []InstallmentsBilledOnce
<1>1. PlanInvariant => InstallmentsBilledOnce
    <2>1. ASSUME PlanInvariant, ~overlapped, NEW m \in Standing, NEW k \in Standing,
                 challan[m].seq = challan[k].seq
          PROVE  m = k
        <3>1. m \in OnPlan /\ k \in OnPlan
            BY DEF Standing
        <3> QED BY <2>1, <3>1 DEF PlanInvariant, Undisturbed
    <2>2. BillableOffered
        BY DEF BillableOffered, Billable, Eligible, Available, Linked, Standing, OnPlan, Taken
    <2> QED BY <2>1, <2>2 DEF InstallmentsBilledOnce, BilledOnce, PlanInvariant
<1>2. Spec => []PlanInvariant
    BY PlanIsInvariant
<1> QED BY <1>1, <1>2, PTL

\* A call that begins has only read.
LEMMA ReadsChangeNothing ==
    ASSUME NEW a \in Admin
    PROVE  /\ \A schedule \in Schedules, active \in BOOLEAN :
                ReadPlan(a, schedule, active) => plan' = plan /\ challan' = challan
           /\ \A m \in Month :
                ReadBatch(a, m) \/ ReadRoster(a, m) => plan' = plan /\ challan' = challan
<1>1. ASSUME NEW schedule \in Schedules, NEW active \in BOOLEAN, ReadPlan(a, schedule, active)
      PROVE  plan' = plan /\ challan' = challan
    BY <1>1 DEF ReadPlan
<1>2. ASSUME NEW m \in Month, ReadBatch(a, m) PROVE plan' = plan /\ challan' = challan
    BY <1>2 DEF ReadBatch
<1>3. ASSUME NEW m \in Month, ReadRoster(a, m) PROVE plan' = plan /\ challan' = challan
    BY <1>3 DEF ReadRoster
<1> QED BY <1>1, <1>2, <1>3

\* Until two calls overlap, a save of a billed plan writes its schedule back as it was,
LEMMA FrozenKept ==
    ASSUME PlanAssumption, PlanInvariant, Next PROVE FrozenStep
<1> SUFFICES ASSUME ~overlapped, OnPlan # {}
             PROVE  Shape' = Shape
    BY DEF FrozenStep
<1>1. CASE plan' = plan
    BY <1>1 DEF Shape
<1>2. ASSUME NEW a \in Admin, SavePlan(a) PROVE Shape' = Shape
    <2>1. SameRows(call[a].rows) /\ plan'.rows = Numbered(call[a].rows)
        BY <1>2 DEF SavePlan, PlanInvariant, Undisturbed, StillSo
    <2>2. DOMAIN plan.rows = 1..Len(plan.rows)
        BY PlanRows DEF PlanInvariant
    <2>3. call[a].rows \in Schedules \cup {<<>>}
        BY DEF PlanInvariant, TypeOK, Call
    <2>4. DOMAIN call[a].rows = 1..Len(call[a].rows)
        <3>1. ASSUME NEW r \in Schedules PROVE DOMAIN r = 1..Len(r)
            BY LenProperties DEF PlanAssumption
        <3> QED BY <2>3, <3>1
    <2>5. /\ DOMAIN plan'.rows = DOMAIN plan.rows
          /\ \A i \in DOMAIN plan.rows : /\ plan'.rows[i].amount = plan.rows[i].amount
                                        /\ plan'.rows[i].due = plan.rows[i].due
        BY <2>1, <2>2, <2>4 DEF SameRows, Numbered
    <2> QED BY <2>5 DEF Shape
<1>3. ASSUME NEW a \in Admin,
             \/ CheckBilled(a) \/ IssueInstallment(a) \/ RefuseInstallment(a)
             \/ IssueMonthly(a) \/ FailCall(a)
      PROVE  plan' = plan
    BY <1>3 DEF CheckBilled, IssueInstallment, RefuseInstallment, IssueMonthly, FailCall
<1>4. ASSUME NEW m \in Month, Cancel(m) PROVE plan' = plan
    BY <1>4 DEF Cancel
<1> QED BY <1>1, <1>2, <1>3, <1>4, ReadsChangeNothing DEF Next

\* and a monthly run finds the plan switched off.
LEMMA ByMonthKept ==
    ASSUME PlanAssumption, PlanInvariant, Next PROVE ByMonthStep
<1> SUFFICES ASSUME ~overlapped, NEW m \in Month,
                    challan[m].status = "NONE", challan'[m].status = "ISSUED",
                    challan'[m].type = "NORMAL"
             PROVE  ~plan.active
    BY DEF ByMonthStep
<1>1. challan' # challan /\ challan \in [Month -> Bill]
    BY DEF PlanInvariant, TypeOK
<1>2. ASSUME NEW a \in Admin, IssueMonthly(a) PROVE ~plan.active
    BY <1>2 DEF IssueMonthly, PlanInvariant, Undisturbed, StillSo
<1>3. ASSUME NEW a \in Admin, IssueInstallment(a) PROVE FALSE
    BY <1>1, <1>3 DEF IssueInstallment
<1>4. ASSUME NEW a \in Admin, SavePlan(a) PROVE FALSE
    BY <1>1, <1>4 DEF SavePlan, Bill
<1>5. ASSUME NEW k \in Month, Cancel(k) PROVE FALSE
    BY <1>1, <1>5 DEF Cancel, Bill
<1>6. ASSUME NEW a \in Admin, CheckBilled(a) \/ RefuseInstallment(a) \/ FailCall(a)
      PROVE  FALSE
    BY <1>1, <1>6 DEF CheckBilled, RefuseInstallment, FailCall
<1> QED BY <1>1, <1>2, <1>3, <1>4, <1>5, <1>6, ReadsChangeNothing DEF Next

LEMMA PlansStand ==
    ASSUME PlanAssumption, PlanInvariant, [Next]_vars PROVE FrozenStep /\ ByMonthStep
<1>1. CASE UNCHANGED vars
    BY <1>1 DEF FrozenStep, ByMonthStep, Shape, vars
<1>2. CASE Next
    BY <1>2, FrozenKept, ByMonthKept
<1> QED BY <1>1, <1>2

\* An invoiced schedule keeps its amounts and its months as long as no calls overlap: a
\* save that goes through writes them back as they were ("refusing is right: an invoiced
\* schedule is no longer a draft"); and a student on an active plan is not billed by month
\* (buildPlan: "billing both would charge them twice for the same year").
THEOREM BilledPlansStand ==
    ASSUME PlanAssumption
    PROVE  Spec => [][FrozenStep /\ ByMonthStep]_vars
<1>1. PlanInvariant /\ [Next]_vars => FrozenStep /\ ByMonthStep
    BY PlansStand
<1>2. Spec => []PlanInvariant
    BY PlanIsInvariant
<1> QED BY <1>1, <1>2, PTL DEF Spec

-----------------------------------------------------------------------------
(* The set-up of fees *)

\* A save of overrides in flight: whether it changes what is stored, as long as no other
\* came between.
SavesOverrides(x) ==
    calls[x].op = "overrides" =>
        /\ calls[x] \in [op : {"overrides"}, to : Setup!Overrides, changed : BOOLEAN, fresh : BOOLEAN]
        /\ calls[x].fresh => (calls[x].changed <=> Setup!Differs(own, calls[x].to))

SetupInvariant ==
    /\ own \in Setup!Overrides
    /\ DOMAIN calls = Clerk
    /\ \A x \in Clerk : SavesOverrides(x)

\* Overrides that say the same of every head.
SaySame(before, after) ==
    /\ DOMAIN before = DOMAIN after
    /\ \A h \in DOMAIN before :
        /\ before[h].excluded <=> after[h].excluded
        /\ ~before[h].excluded => before[h].amount = after[h].amount

LEMMA OverridesAre ==
    ASSUME NEW o \in Setup!Overrides
    PROVE  /\ DOMAIN o \subseteq FeeHead
           /\ \A h \in DOMAIN o : o[h].amount \in Prices /\ o[h].excluded \in BOOLEAN
BY DEF Setup!Overrides, Setup!Override

\* The rows of one save are as many as, and among, those of another exactly when they say
\* the same.
LEMMA DiffersIs ==
    ASSUME Setup!SetupAssumption, NEW before \in Setup!Overrides, NEW after \in Setup!Overrides
    PROVE  Setup!Differs(before, after) <=> ~SaySame(before, after)
<1>1. \A S : Setup!Cardinality(S) = Cardinality(S)
    BY DEF Setup!Cardinality, Setup!IsFiniteSet, Cardinality, IsFiniteSet
<1>2. IsFiniteSet(DOMAIN before)
    <2>1. IsFiniteSet(FeeHead)
        BY DEF Setup!SetupAssumption, Setup!IsFiniteSet, IsFiniteSet
    <2> QED BY <2>1, OverridesAre, FS_Subset
<1> DEFINE says(o) == IF o.excluded THEN {} ELSE {o.amount}
<1>3. \A h, o : Setup!Key(h, o) = <<h, says(o)>>
    BY DEF Setup!Key
<1>6. \A o, p : o.excluded \in BOOLEAN /\ p.excluded \in BOOLEAN =>
        (says(o) = says(p) <=> (o.excluded <=> p.excluded) /\ (~o.excluded => o.amount = p.amount))
    OBVIOUS
<1> HIDE DEF says
<1>4. ASSUME SaySame(before, after) PROVE ~Setup!Differs(before, after)
    <2>1. ASSUME NEW k \in Setup!Keys(after) PROVE k \in Setup!Keys(before)
        <3>1. PICK h \in DOMAIN after : k = Setup!Key(h, after[h])
            BY DEF Setup!Keys
        <3>2. says(after[h]) = says(before[h])
            BY <1>4, <1>6, OverridesAre DEF SaySame
        <3>3. Setup!Key(h, after[h]) = Setup!Key(h, before[h])
            BY <1>3, <3>2
        <3> QED BY <1>4, <3>1, <3>3 DEF SaySame, Setup!Keys
    <2> QED BY <1>4, <2>1 DEF SaySame, Setup!Differs
<1>5. ASSUME ~Setup!Differs(before, after) PROVE SaySame(before, after)
    <2>1. ASSUME NEW h \in DOMAIN after
          PROVE  h \in DOMAIN before /\ says(before[h]) = says(after[h])
        <3>1. Setup!Key(h, after[h]) \in Setup!Keys(before)
            BY <1>5 DEF Setup!Differs, Setup!Keys
        <3>2. PICK g \in DOMAIN before : Setup!Key(h, after[h]) = Setup!Key(g, before[g])
            BY <3>1 DEF Setup!Keys
        <3>3. <<h, says(after[h])>> = <<g, says(before[g])>>
            BY <1>3, <3>2
        <3> QED BY <3>3
    <2>2. DOMAIN after = DOMAIN before
        <3>1. DOMAIN after \subseteq DOMAIN before /\ Cardinality(DOMAIN after) = Cardinality(DOMAIN before)
            BY <1>1, <1>5, <2>1 DEF Setup!Differs
        <3> QED BY <1>2, <3>1, FS_Subset
    <2>3. ASSUME NEW h \in DOMAIN before
          PROVE  /\ before[h].excluded <=> after[h].excluded
                 /\ ~before[h].excluded => before[h].amount = after[h].amount
        <3>1. says(before[h]) = says(after[h])
            BY <2>1, <2>2
        <3> QED BY <1>6, <2>2, <3>1, OverridesAre
    <2> QED BY <2>2, <2>3 DEF SaySame
<1> QED BY <1>4, <1>5

\* What a student is billed depends on just that.
LEMMA BilledSame ==
    ASSUME Setup!SetupAssumption, NEW before \in Setup!Overrides, NEW after \in Setup!Overrides
    PROVE  SaySame(before, after) <=>
            Setup!Billed(Setup!Unpriced, before) = Setup!Billed(Setup!Unpriced, after)
<1> DEFINE kept(o) == {h \in FeeHead : h \in DOMAIN o => ~o[h].excluded}
           price(o, h) == IF h \in DOMAIN o THEN o[h].amount ELSE None
<1>1. \A o : Setup!Billed(Setup!Unpriced, o) = [h \in kept(o) |-> price(o, h)]
    BY DEF Setup!Billed, Setup!Unpriced
<1>2. ASSUME NEW o, NEW p
      PROVE  [h \in kept(o) |-> price(o, h)] = [h \in kept(p) |-> price(p, h)] <=>
                kept(o) = kept(p) /\ \A h \in kept(o) : price(o, h) = price(p, h)
    <2> HIDE DEF kept, price
    <2> DEFINE f == [h \in kept(o) |-> price(o, h)]
               g == [h \in kept(p) |-> price(p, h)]
    <2>1. DOMAIN f = kept(o) /\ DOMAIN g = kept(p)
        OBVIOUS
    <2>2. /\ \A h \in kept(o) : f[h] = price(o, h)
          /\ \A h \in kept(p) : g[h] = price(p, h)
        OBVIOUS
    <2>3. kept(o) = kept(p) /\ (\A h \in kept(o) : price(o, h) = price(p, h)) => f = g
        OBVIOUS
    <2> HIDE DEF f, g
    <2>4. f = g => kept(o) = kept(p) /\ \A h \in kept(o) : price(o, h) = price(p, h)
        BY <2>1, <2>2
    <2> QED BY <2>3, <2>4 DEF f, g
<1>3. ASSUME SaySame(before, after)
      PROVE  kept(before) = kept(after) /\ \A h \in kept(before) : price(before, h) = price(after, h)
    BY <1>3, OverridesAre DEF SaySame
<1>4. ASSUME kept(before) = kept(after), \A h \in kept(before) : price(before, h) = price(after, h)
      PROVE  SaySame(before, after)
    <2>1. None \notin Prices
        BY DEF Setup!SetupAssumption
    <2>2. ASSUME NEW h \in FeeHead
          PROVE  /\ h \in DOMAIN before <=> h \in DOMAIN after
                 /\ h \in DOMAIN before => /\ before[h].excluded <=> after[h].excluded
                                           /\ ~before[h].excluded => before[h].amount = after[h].amount
        <3>1. h \in kept(before) <=> h \in kept(after)
            BY <1>4
        <3>2. CASE h \in kept(before)
            <4>1. price(before, h) = price(after, h)
                BY <1>4, <3>2
            <4> QED BY <2>1, <3>1, <3>2, <4>1, OverridesAre
        <3>3. CASE h \notin kept(before)
            BY <3>1, <3>3
        <3> QED BY <3>2, <3>3
    <2>3. DOMAIN before = DOMAIN after
        BY <2>2, OverridesAre
    <2> QED BY <2>2, <2>3, OverridesAre DEF SaySame
<1> HIDE DEF kept, price
<1> QED BY <1>1, <1>2, <1>3, <1>4

LEMMA SetupStarts ==
    ASSUME Setup!Init PROVE SetupInvariant
<1>1. own \in Setup!Overrides
    <2>1. own \in [{} -> Setup!Override] /\ {} \in SUBSET FeeHead
        BY DEF Setup!Init
    <2> QED BY <2>1 DEF Setup!Overrides
<1>2. \A x \in Clerk : calls[x].op # "overrides"
    BY DEF Setup!Init, Setup!Idle
<1> QED BY <1>1, <1>2 DEF SetupInvariant, SavesOverrides, Setup!Init

\* A step that leaves the overrides, and the saves of overrides, alone.
LEMMA SetupRests ==
    ASSUME SetupInvariant, own' = own, DOMAIN calls' = Clerk,
           \A x \in Clerk : calls'[x].op = "overrides" => calls'[x] = calls[x]
    PROVE  SetupInvariant'
BY DEF SetupInvariant, SavesOverrides, Setup!Differs, Setup!Keys, Setup!Key

\* One that changes them makes the other saves outdated.
LEMMA OutdatedIs ==
    ASSUME SetupInvariant, NEW a, NEW x \in Clerk, x # a
    PROVE  calls[x].op = "overrides" =>
            /\ Setup!Outdated(a)[x].op = "overrides" /\ Setup!Outdated(a)[x].to = calls[x].to
            /\ Setup!Outdated(a)[x].fresh = FALSE
            /\ Setup!Outdated(a)[x] \in
                [op : {"overrides"}, to : Setup!Overrides, changed : BOOLEAN, fresh : BOOLEAN]
<1> SUFFICES ASSUME calls[x].op = "overrides"
             PROVE  Setup!Outdated(a)[x] = [calls[x] EXCEPT !.fresh = FALSE]
    BY DEF SetupInvariant, SavesOverrides
<1> QED BY DEF Setup!Outdated

LEMMA OthersOutdated ==
    ASSUME SetupInvariant, NEW a, own' \in Setup!Overrides, DOMAIN calls' = Clerk,
           \A x \in Clerk : calls'[x].op = "overrides" => x # a /\ calls'[x] = Setup!Outdated(a)[x]
    PROVE  SetupInvariant'
<1>1. ASSUME NEW x \in Clerk, calls'[x].op = "overrides" PROVE SavesOverrides(x)'
    <2>1. calls[x].op = "overrides"
        BY <1>1 DEF Setup!Outdated
    <2> QED BY <1>1, <2>1, OutdatedIs DEF SavesOverrides
<1> QED BY <1>1 DEF SetupInvariant, SavesOverrides

LEMMA SetupNext ==
    ASSUME Setup!SetupAssumption, SetupInvariant, [Setup!Next]_(Setup!vars)
    PROVE  SetupInvariant'
<1> USE DEF SetupInvariant
<1>1. CASE UNCHANGED Setup!vars
    BY <1>1, SetupRests DEF Setup!vars
<1>2. ASSUME NEW h \in FeeHead, Setup!RemoveHead(h) PROVE SetupInvariant'
    <2>1. own' \in Setup!Overrides
        <3>1. PICK D \in SUBSET FeeHead : own \in [D -> Setup!Override]
            BY DEF Setup!Overrides
        <3>2. own' \in [D \ {h} -> Setup!Override] /\ D \ {h} \in SUBSET FeeHead
            BY <1>2, <3>1 DEF Setup!RemoveHead
        <3> QED BY <3>2 DEF Setup!Overrides
    <2>2. CASE h \in DOMAIN own
        <3>1. calls' = Setup!Outdated(None) /\ None \notin Clerk
            BY <1>2, <2>2 DEF Setup!RemoveHead, Setup!SetupAssumption
        <3>2. DOMAIN calls' = Clerk
            BY <3>1 DEF Setup!Outdated
        <3> QED BY <2>1, <3>1, <3>2, OthersOutdated
    <2>3. CASE h \notin DOMAIN own
        <3>1. calls' = calls /\ own' = [x \in DOMAIN own |-> own[x]]
            BY <1>2, <2>3 DEF Setup!RemoveHead
        <3>2. own = [x \in DOMAIN own |-> own[x]]
            BY DEF Setup!Overrides
        <3> QED BY <3>1, <3>2, SetupRests
    <2> QED BY <2>2, <2>3
<1>3. ASSUME NEW a \in Clerk, Setup!CommitOverrides(a) PROVE SetupInvariant'
    <2>1. own' \in Setup!Overrides
        BY <1>3 DEF Setup!CommitOverrides, SavesOverrides
    <2>2. /\ DOMAIN calls' = Clerk
          /\ \A x \in Clerk : calls'[x] = IF x = a THEN Setup!Idle ELSE Setup!Outdated(a)[x]
        BY <1>3 DEF Setup!CommitOverrides, Setup!Outdated
    <2> QED BY <2>1, <2>2, OthersOutdated DEF Setup!Idle
<1>4. ASSUME NEW a \in Clerk, NEW incoming \in Setup!Overrides, Setup!AskOverrides(a, incoming)
      PROVE  SetupInvariant'
    <2>1. /\ own' = own
          /\ calls' = [calls EXCEPT ![a] =
                [op |-> "overrides", to |-> incoming,
                 changed |-> Setup!Differs(own, incoming), fresh |-> TRUE]]
        BY <1>4 DEF Setup!AskOverrides, Setup!Start, Setup!heads_vars
    <2>2. Setup!Differs(own, incoming) \in BOOLEAN
        BY DEF Setup!Differs
    <2>3. SavesOverrides(a)'
        <3>1. calls'[a] = [op |-> "overrides", to |-> incoming,
                           changed |-> Setup!Differs(own, incoming), fresh |-> TRUE]
            BY <2>1
        <3> QED BY <2>1, <2>2, <3>1 DEF SavesOverrides, Setup!Differs, Setup!Keys, Setup!Key
    <2>4. ASSUME NEW x \in Clerk, x # a PROVE SavesOverrides(x)'
        BY <2>1, <2>4 DEF SavesOverrides, Setup!Differs, Setup!Keys, Setup!Key
    <2> QED BY <2>1, <2>3, <2>4
<1>5. ASSUME NEW a \in Clerk, NEW c, calls' = [calls EXCEPT ![a] = c], c.op # "overrides", own' = own
      PROVE  SetupInvariant'
    <2>1. DOMAIN calls' = Clerk /\ \A x \in Clerk : calls'[x] = IF x = a THEN c ELSE calls[x]
        BY <1>5
    <2> QED BY <1>5, <2>1, SetupRests
<1>6. ASSUME UNCHANGED <<own, calls>> PROVE SetupInvariant'
    BY <1>6, SetupRests
<1>7. ASSUME NEW a \in Clerk,
             \/ Setup!CommitDiscount(a) \/ Setup!ReadFees(a) \/ Setup!WriteFees(a)
             \/ Setup!Demote(a) \/ Setup!CommitAccount(a) \/ Setup!Aborted(a)
             \/ \E d \in Rebate, patch \in Setup!DiscountPatch : Setup!AskDiscount(a, d, patch)
             \/ \E D \in SUBSET FeeCode : \E items \in [D -> Prices \cup {None}] : Setup!AskFees(a, items)
             \/ \E x \in BankAccount, patch \in Setup!AccountPatch : Setup!AskAccount(a, x, patch)
      PROVE  SetupInvariant'
    <2>1. own' = own /\ \E c : calls' = [calls EXCEPT ![a] = c] /\ c.op # "overrides"
        BY <1>7 DEF Setup!CommitDiscount, Setup!ReadFees, Setup!WriteFees, Setup!Demote,
            Setup!CommitAccount, Setup!Aborted, Setup!AskDiscount, Setup!AskFees, Setup!AskAccount,
            Setup!Start, Setup!Finish, Setup!Idle, Setup!heads_vars
    <2> QED BY <1>5, <2>1
<1>8. ASSUME \/ \E h \in FeeHead, row \in Setup!HeadRow : Setup!SaveHead(h, row)
             \/ \E d \in Rebate : Setup!RemoveDiscount(d) \/ Setup!Award(d)
             \/ \E d \in Rebate, row \in Setup!DiscountRow : Setup!CreateDiscount(d, row)
             \/ \E codes \in SUBSET FeeCode : Setup!Teach(codes)
             \/ \E x \in BankAccount : Setup!RemoveAccount(x)
      PROVE  SetupInvariant'
    BY <1>6, <1>8 DEF Setup!SaveHead, Setup!RemoveDiscount, Setup!Award, Setup!CreateDiscount,
        Setup!Teach, Setup!RemoveAccount, Setup!heads_vars
<1> QED BY <1>1, <1>2, <1>3, <1>4, <1>7, <1>8 DEF Setup!Next

\* What is shown is what is billed, in whatever state.
LEMMA ShownIsBilled == Setup!BilledAsShown
<1> DEFINE overridden(h) == h \in DOMAIN own
           listed == {h \in FeeHead : heads[h] # None /\ heads[h].active}
           billed == {h \in listed : overridden(h) => ~own[h].excluded}
           price(h) == IF overridden(h) THEN own[h].amount ELSE heads[h].amount
<1>1. Setup!Billed(Setup!ActiveHeads, own) = [h \in billed |-> price(h)]
    BY DEF Setup!Billed, Setup!ActiveHeads
<1>2. /\ DOMAIN Setup!Shown = listed
      /\ \A h \in listed :
            /\ Setup!Shown[h].excluded = (overridden(h) /\ own[h].excluded)
            /\ Setup!Shown[h].amount = IF overridden(h) /\ ~own[h].excluded THEN own[h].amount
                                       ELSE heads[h].amount
    BY DEF Setup!Shown, Setup!ListedHeads
<1>3. {x \in DOMAIN Setup!Shown : ~Setup!Shown[x].excluded} = billed
    BY <1>2
<1>4. \A h \in billed : Setup!Shown[h].amount = price(h)
    BY <1>2
<1> HIDE DEF billed, price
<1> QED BY <1>1, <1>3, <1>4 DEF Setup!BilledAsShown

\* A save sent again is not heard of, and one that says something else is.
LEMMA SavesAreHeard ==
    ASSUME Setup!SetupAssumption, SetupInvariant, own' \in Setup!Overrides PROVE Setup!HeardStep
<1> SUFFICES ASSUME NEW x \in Clerk, calls[x].op = "overrides", calls[x].fresh, own' = calls[x].to
             PROVE  calls[x].changed <=>
                        Setup!Billed(Setup!Unpriced, own) # Setup!Billed(Setup!Unpriced, own')
    BY Zenon DEF Setup!HeardStep
<1>1. calls[x].changed <=> Setup!Differs(own, own')
    BY DEF SetupInvariant, SavesOverrides
<1> QED BY <1>1, DiffersIs, BilledSame DEF SetupInvariant

\* Whatever administrators cross: what is shown of a student's heads is what the next bill
\* asks, and a save of overrides that no other save came between is heard of exactly when it
\* changes that bill (student-fee-heads.service.ts list and set, buildPlan).
THEOREM HeadsAreShownAndHeard ==
    ASSUME Setup!SetupAssumption
    PROVE  Setup!Spec => []Setup!BilledAsShown /\ [][Setup!HeardStep]_(Setup!vars)
<1>1. Setup!Init => SetupInvariant
    BY SetupStarts
<1>2. SetupInvariant /\ [Setup!Next]_(Setup!vars) => SetupInvariant'
    BY SetupNext
<1>3. SetupInvariant /\ SetupInvariant' => Setup!HeardStep
    BY SavesAreHeard DEF SetupInvariant
<1>4. Setup!BilledAsShown
    BY ShownIsBilled
<1> QED BY <1>1, <1>2, <1>3, <1>4, PTL DEF Setup!Spec

-----------------------------------------------------------------------------
(* The subjects of a bill *)

SubjectInvariant ==
    /\ rows \subseteq Subjects!Placement /\ picks \subseteq Subjects!Pick
    \* Enrollment_one_active_per_year
    /\ \A p, q \in rows :
        p.student = q.student /\ p.year = q.year /\ p.status = "ACTIVE" /\ q.status = "ACTIVE" => p = q

LEMMA SubjectsStart ==
    ASSUME Subjects!Init PROVE SubjectInvariant
BY DEF Subjects!Init, SubjectInvariant

LEMMA SubjectsNext ==
    ASSUME SubjectInvariant, [Subjects!Next]_(Subjects!vars) PROVE SubjectInvariant'
<1> USE DEF SubjectInvariant
<1>1. ASSUME UNCHANGED <<rows, picks>> PROVE SubjectInvariant'
    BY <1>1
<1>2. ASSUME NEW s \in Child, NEW y \in Year, NEW placed \in Subjects!PlacedSo(s, y),
             Subjects!Place(s, y, placed)
      PROVE  SubjectInvariant'
    <2>1. placed \subseteq Subjects!Placement
        BY DEF Subjects!PlacedSo, Subjects!Placement
    <2>2. /\ rows' = {p \in rows : p.student # s \/ p.year # y} \cup placed
          /\ picks' \subseteq picks
          /\ \A p \in placed : p.student = s /\ p.year = y
          /\ \A p, q \in placed : p # q => ~(p.status = "ACTIVE" /\ q.status = "ACTIVE")
        BY <1>2 DEF Subjects!Place
    <2>3. rows' \subseteq Subjects!Placement /\ picks' \subseteq Subjects!Pick
        BY <2>1, <2>2
    <2>4. ASSUME NEW p \in rows', NEW q \in rows', p.student = q.student, p.year = q.year,
                 p.status = "ACTIVE", q.status = "ACTIVE"
          PROVE  p = q
        BY <2>2, <2>4
    <2> QED BY <2>3, <2>4
<1>3. ASSUME NEW k \in Subjects!Pick, Subjects!Choose(k) PROVE SubjectInvariant'
    BY <1>3 DEF Subjects!Choose
<1>4. ASSUME \/ \E x \in Section, m \in {"MONTHLY", "SUBJECT"} : Subjects!SetMode(x, m)
             \/ \E c \in Subjects!Code, n \in Charges \union {NoFee} : Subjects!SetFee(c, n)
             \/ \E s \in Child, amounts \in [fee : Charges, heads : Charges] :
                    Subjects!SetMonthly(s, amounts)
             \/ UNCHANGED Subjects!vars
      PROVE  SubjectInvariant'
    BY <1>1, <1>4 DEF Subjects!SetMode, Subjects!SetFee, Subjects!SetMonthly, Subjects!subject_vars,
        Subjects!vars
<1> QED BY <1>2, <1>3, <1>4 DEF Subjects!Next

\* Whoever is billed has a code and a price for every subject that makes a line.
LEMMA BilledIs ==
    ASSUME NEW y \in Year, NEW p \in Subjects!Billed(y)
    PROVE  /\ p \in rows /\ p.status = "ACTIVE" /\ p.year = y
           /\ \A o \in Subjects!Charged(p) : Subjects!Coded(o) \in Subjects!Codes(p)
           /\ \A c \in Subjects!Codes(p) : fee[c] # NoFee
<1>1. /\ p \in rows /\ p.status = "ACTIVE" /\ p.year = y /\ Subjects!Blocked(p) = "no"
    BY DEF Subjects!Billed
<1>2. /\ ~\E o \in Subjects!Charged(p) : Subjects!Coded(o) = NoCode
      /\ Subjects!Unpriced(p) = {}
    BY <1>1 DEF Subjects!Blocked
<1>3. \A o \in Subjects!Charged(p) : Subjects!Coded(o) \in Subjects!Codes(p)
    BY <1>2 DEF Subjects!Codes
<1>4. \A c \in Subjects!Codes(p) : fee[c] # NoFee
    BY <1>2 DEF Subjects!Unpriced
<1> QED BY <1>1, <1>3, <1>4

\* A subject of a sibling section makes a line exactly when that section counts the student.
LEMMA SiblingsAre ==
    ASSUME SubjectInvariant, NEW y \in Year, NEW p \in rows,
           p.status = "ACTIVE", p.year = y, NEW o \in Offering
    PROVE  o \in Subjects!Charged(p) /\ SectionOf[o] # p.section <=>
            /\ p.student \in Subjects!CrossSectionTakers(rows, picks, {o}, y, {"ACTIVE"})
            /\ ClassOf[p.section] = Subjects!ClassFor(o)
<1> DEFINE k == [student |-> p.student, year |-> y, offering |-> o]
<1>1. p \in Subjects!Placement /\ p.student \in Child
    BY DEF SubjectInvariant, Subjects!Placement
<1>2. o \in Subjects!Charged(p) /\ SectionOf[o] # p.section <=>
        k \in picks /\ ClassOf[p.section] = Subjects!ClassFor(o) /\ SectionOf[o] # p.section
    <2>1. ASSUME NEW i \in picks, i.student = p.student, i.year = y, i.offering = o PROVE i = k
        BY <2>1 DEF SubjectInvariant, Subjects!Pick
    <2>2. o \in {i.offering : i \in Subjects!PicksOf(picks, p.student, y, ClassOf[p.section])} <=>
            k \in picks /\ Subjects!ClassFor(o) = ClassOf[p.section]
        BY <2>1 DEF Subjects!PicksOf
    <2> HIDE DEF k
    <2> QED BY <2>2 DEF Subjects!Charged, Subjects!SubjectsOf
<1>3. (\E q \in Subjects!Of(rows, p.student, y) : q.status = "ACTIVE" /\ q.section = SectionOf[o]) <=>
        p.section = SectionOf[o]
    <2>1. p \in Subjects!Of(rows, p.student, y)
        BY DEF Subjects!Of
    <2>2. \A q \in Subjects!Of(rows, p.student, y) : q.status = "ACTIVE" => q = p
        BY DEF Subjects!Of, SubjectInvariant
    <2> QED BY <2>1, <2>2
<1>4. (\E q \in Subjects!Of(rows, p.student, y) :
            q.status \in {"ACTIVE"} /\ ClassOf[q.section] = Subjects!ClassFor(o)) <=>
        ClassOf[p.section] = Subjects!ClassFor(o)
    <2>1. p \in Subjects!Of(rows, p.student, y)
        BY DEF Subjects!Of
    <2>2. \A q \in Subjects!Of(rows, p.student, y) : q.status = "ACTIVE" => q = p
        BY DEF Subjects!Of, SubjectInvariant
    <2> QED BY <2>1, <2>2
<1>5. p.student \in Subjects!CrossSectionTakers(rows, picks, {o}, y, {"ACTIVE"}) <=>
        k \in picks /\ SectionOf[o] # p.section /\ ClassOf[p.section] = Subjects!ClassFor(o)
    BY <1>1, <1>3, <1>4 DEF Subjects!CrossSectionTakers, Subjects!Picked
<1> HIDE DEF k
<1> QED BY <1>2, <1>5

LEMMA TakenIsPaid ==
    ASSUME SubjectInvariant PROVE Subjects!TaughtIsPaidFor
<1> SUFFICES ASSUME NEW y \in Year, NEW p \in Subjects!Billed(y)
             PROVE  /\ \A o \in Subjects!SubjectsOf(picks, electives, p.student, p.section, y) :
                        \/ Subjects!Coded(o) \in Subjects!Codes(p)
                        \/ SectionOf[o] = p.section /\ ~Subjects!BySubject(p)
                    /\ {o \in Subjects!Charged(p) : SectionOf[o] # p.section} =
                        {o \in Offering :
                            /\ p.student \in Subjects!CrossSectionTakers(rows, picks, {o}, y, {"ACTIVE"})
                            /\ ClassOf[p.section] = Subjects!ClassFor(o)}
                    /\ \A c \in Subjects!Codes(p) : fee[c] # NoFee
    BY Zenon DEF Subjects!TaughtIsPaidFor
<1>1. /\ p \in rows /\ p.status = "ACTIVE" /\ p.year = y
      /\ \A o \in Subjects!Charged(p) : Subjects!Coded(o) \in Subjects!Codes(p)
      /\ \A c \in Subjects!Codes(p) : fee[c] # NoFee
    BY BilledIs
<1>2. ASSUME NEW o \in Subjects!SubjectsOf(picks, electives, p.student, p.section, y)
      PROVE  \/ Subjects!Coded(o) \in Subjects!Codes(p)
             \/ SectionOf[o] = p.section /\ ~Subjects!BySubject(p)
    BY <1>1 DEF Subjects!Charged
<1>3. Subjects!Charged(p) \subseteq Offering
    BY DEF Subjects!Charged, Subjects!SubjectsOf, Subjects!PicksOf, SubjectInvariant, Subjects!Pick
<1> QED BY <1>1, <1>2, <1>3, SiblingsAre

\* A student who is billed pays once for everything they take, and of a sibling section for
\* exactly what that section counts them for (challans.service.ts subjectCharges, buildPlan).
THEOREM SubjectsArePaidFor == Subjects!Spec => []Subjects!TaughtIsPaidFor
<1>1. Subjects!Init => SubjectInvariant
    BY SubjectsStart
<1>2. SubjectInvariant /\ [Subjects!Next]_(Subjects!vars) => SubjectInvariant'
    BY SubjectsNext
<1>3. SubjectInvariant => Subjects!TaughtIsPaidFor
    BY TakenIsPaid
<1> QED BY <1>1, <1>2, <1>3, PTL DEF Subjects!Spec

-----------------------------------------------------------------------------
(* The parts of the fee office beside each other *)

\* Whichever part is at work, the bill is what was shown, and the subjects of a child are
\* charged once each (student-fee-heads.service.ts, challans.service.ts).
THEOREM ChargesAlwaysShown == MCSpec => []ChargesAsShown
<1> DEFINE Inv == part = "subjects" => SubjectInvariant
<1>1. Inv => ChargesAsShown
    BY ShownIsBilled, TakenIsPaid DEF ChargesAsShown
<1>2. MCInit => Inv
    BY SubjectsStart DEF MCInit, SubjectsInit
<1>3. Inv /\ [MCNext]_allVars => Inv'
    <2>1. CASE UNCHANGED allVars
        <3>1. UNCHANGED part /\ UNCHANGED Subjects!vars
            BY <2>1 DEF allVars, subjectVars, Subjects!vars
        <3> QED BY <3>1, SubjectsNext
    <2>2. CASE MCNext
        <3>1. UNCHANGED part /\ (part = "subjects" => Subjects!Next)
            BY <2>2 DEF MCNext, OthersRest, SubjectStep
        <3> QED BY <3>1, SubjectsNext
    <2> QED BY <2>1, <2>2
<1> QED BY <1>1, <1>2, <1>3, PTL DEF MCSpec

\* And saves keep faith: of a billed plan, of a monthly run, and of what parents hear
\* (installment-plans set, buildPlan, student-fee-heads.service.ts set).
THEOREM SavesAlwaysKeepFaith ==
    ASSUME PlanAssumption, Setup!SetupAssumption
    PROVE  MCSpec => SavesKeepFaith
<1> DEFINE Inv == PlanInvariant /\ (part = "setup" => SetupInvariant)
           Step == FrozenStep /\ ByMonthStep /\ (part = "setup" => Setup!HeardStep)
<1>1. MCInit => Inv
    BY PlanInit, SetupStarts DEF MCInit, SetupInit
<1>2. [MCNext]_allVars => /\ UNCHANGED part /\ [Next]_vars
                          /\ part = "setup" => [Setup!Next]_(Setup!vars)
    <2>1. UNCHANGED allVars => UNCHANGED part /\ UNCHANGED vars /\ UNCHANGED Setup!vars
        BY DEF allVars, setupVars, Setup!vars
    <2>2. MCNext => UNCHANGED part /\ [Next]_vars /\ (part = "setup" => Setup!Next)
        BY DEF MCNext, OthersRest, SetupStep
    <2> QED BY <2>1, <2>2
<1>3. Inv /\ [MCNext]_allVars => Inv'
    BY <1>2, PlanStep, SetupNext
<1>4. Inv /\ Inv' /\ [MCNext]_allVars => Step
    BY <1>2, PlansStand, SavesAreHeard DEF SetupInvariant
<1>5. MCSpec => [][Step]_allVars
    BY <1>1, <1>3, <1>4, PTL DEF MCSpec
<1> QED BY <1>5 DEF SavesKeepFaith

=============================================================================
