------------------------------ MODULE FeeSetup ------------------------------
(***************************************************************************)
(* What a school's fees are made of: its fee heads, one student's own      *)
(* heads, its discounts, its prices by subject code and its bank accounts, *)
(* as fee-heads.service.ts, student-fee-heads.service.ts,                   *)
(* discounts.service.ts, subject-fees.service.ts and                       *)
(* bank-accounts.service.ts keep them, and what the next challan reads of   *)
(* them.  One school, one student; an admin's call reads before it writes, *)
(* so calls of several admins cross.                                       *)
(***************************************************************************)
EXTENDS Naturals, FiniteSets, TLC

CONSTANTS Admin, FeeHead, Account, Discount, Code,
          Amounts,     \* minor units
          Percents,    \* values a discount is given
          None         \* no row

SetupAssumption == IsFiniteSet(FeeHead) /\ None \notin Amounts /\ None \notin Admin

VARIABLES heads,       \* [FeeHead -> head or None]
          own,         \* the student's overrides: a function on the heads overridden
          discounts,   \* [Discount -> discount or None]
          held,        \* the discount the student holds, or None
          fees,        \* [Code -> amount or None]
          taught,      \* codes some subject has
          accounts,    \* [Account -> account or None]
          calls        \* [Admin -> the call in flight]

heads_vars == <<heads, own>>
discount_vars == <<discounts, held>>
code_vars == <<fees, taught>>
vars == <<heads, own, discounts, held, fees, taught, accounts, calls>>

Idle == [op |-> "idle"]
HeadRow == [amount : Amounts, active : BOOLEAN]
Override == [amount : Amounts, excluded : BOOLEAN]
Overrides == UNION {[D -> Override] : D \in SUBSET FeeHead}
DiscountRow == [type : {"PERCENT", "FIXED"}, value : Percents, active : BOOLEAN]

\* Part of a row, as a form sends it.
DiscountPatch == {[f \in D |-> row[f]] : row \in DiscountRow, D \in SUBSET {"type", "value", "active"}}
AccountPatch == UNION {[D -> BOOLEAN] : D \in SUBSET {"active", "default"}}

Init ==
    /\ heads \in [FeeHead -> HeadRow \cup {None}]
    /\ own = [h \in {} |-> None]
    /\ discounts = [d \in Discount |-> None] /\ held = None
    /\ fees = [c \in Code |-> None] /\ taught \in SUBSET Code
    /\ accounts = [x \in Account |-> None]
    /\ calls = [a \in Admin |-> Idle]

Start(a, call) == calls[a] = Idle /\ calls' = [calls EXCEPT ![a] = call]
Finish(a) == calls' = [calls EXCEPT ![a] = Idle]

-----------------------------------------------------------------------------
(* Fee heads *)

SaveHead(h, row) ==
    /\ heads' = [heads EXCEPT ![h] = row]
    /\ UNCHANGED <<own, discount_vars, code_vars, accounts, calls>>

\* The calls in flight but a's no longer hold what is stored: fresh is a history
\* variable.
Outdated(a) == [b \in Admin |-> IF b # a /\ calls[b].op = "overrides"
                                THEN [calls[b] EXCEPT !.fresh = FALSE] ELSE calls[b]]

\* Issued challans keep their copy; the overrides of the head go with it.
RemoveHead(h) ==
    /\ heads[h] # None
    /\ heads' = [heads EXCEPT ![h] = None]
    /\ own' = [x \in DOMAIN own \ {h} |-> own[x]]
    /\ calls' = IF h \in DOMAIN own THEN Outdated(None) ELSE calls
    /\ UNCHANGED <<discount_vars, code_vars, accounts>>

-----------------------------------------------------------------------------
(* One student's heads *)

\* What an override says: an excluded head's amount says nothing.
Key(h, o) == <<h, IF o.excluded THEN {} ELSE {o.amount}>>
Keys(overrides) == {Key(h, overrides[h]) : h \in DOMAIN overrides}

\* As many rows as before, and every one of them said before.
Differs(before, after) ==
    \/ Cardinality(DOMAIN before) # Cardinality(DOMAIN after)
    \/ Keys(after) \ Keys(before) # {}

\* Mutant of ListedHeads: an override shows a head that is switched off.
ListedWithOverridden ==
    {h \in FeeHead : heads[h] # None /\ (heads[h].active \/ h \in DOMAIN own)}

\* The heads the screen of a student's fees lists.
ListedHeads == {h \in FeeHead : heads[h] # None /\ heads[h].active}

\* list: what the student is shown to be billed, the excluded heads marked.
Shown == [h \in ListedHeads |->
    [amount |-> IF h \in DOMAIN own /\ ~own[h].excluded THEN own[h].amount
                ELSE heads[h].amount,
     excluded |-> h \in DOMAIN own /\ own[h].excluded]]

\* buildPlan: the school's active heads, with the student's overrides on them.
Billed(active, overrides) ==
    LET kept == {h \in DOMAIN active :
                    h \in DOMAIN overrides => ~overrides[h].excluded} IN
    [h \in kept |-> IF h \in DOMAIN overrides THEN overrides[h].amount ELSE active[h]]

ActiveHeads == [h \in {x \in FeeHead : heads[x] # None /\ heads[x].active}
                    |-> heads[h].amount]

\* set, up to its transaction: heads of this school only, and whether what is
\* stored would change.
AskOverrides(a, incoming) ==
    /\ \A h \in DOMAIN incoming : heads[h] # None
    /\ Start(a, [op |-> "overrides", to |-> incoming,
                 changed |-> Differs(own, incoming), fresh |-> TRUE])
    /\ UNCHANGED <<heads_vars, discount_vars, code_vars, accounts>>

\* The transaction replaces every row; a head deleted since fails it whole.
CommitOverrides(a) ==
    LET call == calls[a] IN
    /\ call.op = "overrides"
    /\ own' = IF \A h \in DOMAIN call.to : heads[h] # None THEN call.to ELSE own
    /\ calls' = [Outdated(a) EXCEPT ![a] = Idle]
    /\ UNCHANGED <<heads, discount_vars, code_vars, accounts>>

-----------------------------------------------------------------------------
(* Discounts *)

InRange(row) == row.type = "PERCENT" => row.value <= 100

CreateDiscount(d, row) ==
    /\ discounts[d] = None /\ InRange(row)
    /\ discounts' = [discounts EXCEPT ![d] = row]
    /\ UNCHANGED <<heads_vars, held, code_vars, accounts, calls>>

\* update checks the patch against the row it has read...
AskDiscount(a, d, patch) ==
    /\ discounts[d] # None
    /\ InRange(patch @@ discounts[d])
    /\ Start(a, [op |-> "discount", of |-> d, patch |-> patch])
    /\ UNCHANGED <<heads_vars, discount_vars, code_vars, accounts>>

\* ...and writes the fields of the patch alone.
CommitDiscount(a) ==
    LET call == calls[a] IN
    /\ call.op = "discount"
    /\ discounts' = IF discounts[call.of] = None THEN discounts
                    ELSE [discounts EXCEPT ![call.of] = call.patch @@ @]
    /\ Finish(a)
    /\ UNCHANGED <<heads_vars, held, code_vars, accounts>>

RemoveDiscount(d) ==
    /\ discounts[d] # None
    /\ discounts' = [discounts EXCEPT ![d] = None]
    /\ held' = IF held = d THEN None ELSE held
    /\ UNCHANGED <<heads_vars, code_vars, accounts, calls>>

Award(d) ==
    /\ discounts[d] # None /\ held' = d
    /\ UNCHANGED <<heads_vars, discounts, code_vars, accounts, calls>>

-----------------------------------------------------------------------------
(* Prices by subject code *)

Known == taught \cup {c \in Code : fees[c] # None}

AskFees(a, items) ==
    /\ DOMAIN items # {} /\ DOMAIN items \subseteq Known
    /\ Start(a, [op |-> "fees", items |-> items])
    /\ UNCHANGED <<heads_vars, discount_vars, code_vars, accounts>>

\* In the transaction: the items that differ from what is stored now.
ReadFees(a) ==
    LET call == calls[a] IN
    /\ call.op = "fees"
    /\ calls' = [calls EXCEPT ![a] =
            [op |-> "write", items |->
                [c \in {x \in DOMAIN call.items : fees[x] # call.items[x]}
                    |-> call.items[c]]]]
    /\ UNCHANGED <<heads_vars, discount_vars, code_vars, accounts>>

WriteFees(a) ==
    /\ calls[a].op = "write"
    /\ fees' = calls[a].items @@ fees
    /\ Finish(a)
    /\ UNCHANGED <<heads_vars, discount_vars, taught, accounts>>

\* External: a subject is given the code, or the last one with it goes.
Teach(codes) ==
    /\ taught' = codes
    /\ UNCHANGED <<heads_vars, discount_vars, fees, accounts, calls>>

-----------------------------------------------------------------------------
(* Bank accounts *)

\* A call holds the rows it has demoted until its transaction ends.
LockedByOther(a) == UNION {calls[b].demoted : b \in {b \in Admin \ {a} :
                                                    calls[b].op = "account"}}
Defaults == {x \in Account : accounts[x] # None /\ accounts[x].default}

\* create, or update of an account that exists: a patch that does not make it
\* the default demotes nothing.
AskAccount(a, x, patch) ==
    /\ accounts[x] = None => DOMAIN patch = {"active", "default"}
    /\ Start(a, [op |-> "demote", of |-> x, patch |-> patch,
                 new |-> accounts[x] = None])
    /\ UNCHANGED <<heads_vars, discount_vars, code_vars, accounts>>

MakesDefault(call) == "default" \in DOMAIN call.patch /\ call.patch.default

\* The first write of the transaction: every other default of the school, as
\* committed.
Demoted(call) == IF MakesDefault(call) THEN Defaults \ {call.of} ELSE {}

Demote(a) ==
    LET call == calls[a] IN
    /\ call.op = "demote"
    /\ Demoted(call) \cap LockedByOther(a) = {}
    /\ calls' = [calls EXCEPT ![a] =
            [op |-> "account", of |-> call.of, patch |-> call.patch,
             new |-> call.new, demoted |-> Demoted(call)]]
    /\ UNCHANGED <<heads_vars, discount_vars, code_vars, accounts>>

\* The second, and the commit: an account created twice or deleted since fails.
CommitAccount(a) ==
    LET call == calls[a]
        fails == call.new # (accounts[call.of] = None) IN
    /\ call.op = "account"
    /\ call.of \notin LockedByOther(a)
    /\ accounts' = [x \in Account |->
            CASE fails -> accounts[x]
              [] ~fails /\ x = call.of -> IF call.new THEN call.patch
                                          ELSE call.patch @@ accounts[x]
              [] ~fails /\ x # call.of /\ x \in call.demoted ->
                    [accounts[x] EXCEPT !.default = FALSE]
              [] ~fails /\ x # call.of /\ x \notin call.demoted -> accounts[x]]
    /\ Finish(a)
    /\ UNCHANGED <<heads_vars, discount_vars, code_vars>>

\* Two transactions waiting for each other's rows: the database ends one.
Aborted(a) ==
    /\ calls[a].op = "account" /\ calls[a].of \in LockedByOther(a)
    /\ Finish(a)
    /\ UNCHANGED <<heads_vars, discount_vars, code_vars, accounts>>

RemoveAccount(x) ==
    /\ accounts[x] # None
    /\ \A a \in Admin : calls[a].op = "account" => x \notin calls[a].demoted
    /\ accounts' = [accounts EXCEPT ![x] = None]
    /\ UNCHANGED <<heads_vars, discount_vars, code_vars, calls>>

Next ==
    \/ \E h \in FeeHead : RemoveHead(h) \/ \E row \in HeadRow : SaveHead(h, row)
    \/ \E a \in Admin : CommitOverrides(a) \/ \E incoming \in Overrides : AskOverrides(a, incoming)
    \/ \E d \in Discount : \/ RemoveDiscount(d) \/ Award(d)
                            \/ \E row \in DiscountRow : CreateDiscount(d, row)
    \/ \E a \in Admin : \/ CommitDiscount(a)
                         \/ \E d \in Discount, patch \in DiscountPatch : AskDiscount(a, d, patch)
    \/ \E codes \in SUBSET Code : Teach(codes)
    \/ \E a \in Admin : \/ ReadFees(a) \/ WriteFees(a)
                         \/ \E D \in SUBSET Code : \E items \in [D -> Amounts \cup {None}] : AskFees(a, items)
    \/ \E a \in Admin : \/ Demote(a) \/ CommitAccount(a) \/ Aborted(a)
                         \/ \E x \in Account, patch \in AccountPatch : AskAccount(a, x, patch)
    \/ \E x \in Account : RemoveAccount(x)

Spec == Init /\ [][Next]_vars

-----------------------------------------------------------------------------
(* Properties *)

\* What an admin is shown a student will be billed for their heads is what the
\* next challan bills: the screen (student-fee-heads list) and the billing
\* (buildPlan with resolveStudentFeeHeads) apply the overrides each in their
\* own way.
BilledAsShown ==
    Billed(ActiveHeads, own) =
        [h \in {x \in DOMAIN Shown : ~Shown[x].excluded} |-> Shown[h].amount]

\* Every head switched on, at no price of its own.
Unpriced == [h \in FeeHead |-> None]

\* The parents hear of a save exactly when it changes what the student is
\* billed, unless another save came between its reading and its writing: a save
\* sent again says nothing.
HeardStep == \A a \in Admin :
    (calls[a].op = "overrides" /\ calls[a].fresh /\ calls'[a] = Idle
        /\ own' = calls[a].to) =>
    (calls[a].changed <=> Billed(Unpriced, own) # Billed(Unpriced, own'))

=============================================================================
