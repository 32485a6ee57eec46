------------------------ MODULE PaymentReviewProofs ------------------------
(***************************************************************************)
(* The review of online receipts, for any number of submissions, reviewers *)
(* and payments and for every plan.  ClaimsInOrder holds whatever fails;   *)
(* that a receipt is paid once needs every commit to be answered, and that *)
(* no receipt is stranded needs handlers that run to their end.            *)
(* Then the cache in front of the figures a review changes, for any number *)
(* of readers and writers (CacheInvariant), and the figures themselves:    *)
(* whatever is asked of the ledger, for any school, year and filters, the  *)
(* answers agree (ViewsInvariant, and sums taken apart and put together).  *)
(***************************************************************************)
EXTENDS MCPayments, FiniteSetTheorems, FunctionTheorems, WellFoundedInduction, TLAPS

-----------------------------------------------------------------------------
(* Sums *)

\* A finite set of rows with natural amounts has finitely many units.
LEMMA UnitsFinite ==
    ASSUME NEW S, IsFiniteSet(S), NEW amount, \A x \in S : amount[x] \in Nat
    PROVE  IsFiniteSet(Units(S, amount))
<1> DEFINE U == {UnitsOf(x, amount) : x \in S}
           f == [x \in S |-> UnitsOf(x, amount)]
<1>1. f \in Surjection(S, U)
    BY DEF Surjection
<1>2. IsFiniteSet(U)
    BY <1>1, FS_Surjection
<1>3. ASSUME NEW x \in S PROVE IsFiniteSet(UnitsOf(x, amount))
    <2>1. IsFiniteSet({x})
        BY FS_Singleton
    <2>2. amount[x] \in Int
        OBVIOUS
    <2>3. IsFiniteSet(1..amount[x])
        BY <2>2, FS_Interval
    <2>4. IsFiniteSet({x} \X (1..amount[x]))
        BY <2>1, <2>3, FS_Product
    <2> QED BY <2>4 DEF UnitsOf
<1>4. \A T \in U : IsFiniteSet(T)
    BY <1>3
<1> HIDE DEF U
<1>5. IsFiniteSet(UNION U)
    BY <1>2, <1>4, FS_UNION
<1> QED BY <1>5 DEF U, Units

\* A sum of natural amounts is a natural number.
LEMMA TotalIsNat ==
    ASSUME NEW S, IsFiniteSet(S), NEW amount, \A x \in S : amount[x] \in Nat
    PROVE  Total(S, amount) \in Nat
BY UnitsFinite, FS_CardinalityType DEF Total

\* The sum over no rows is 0 (agg._sum.amount ?? 0).
LEMMA TotalOfNone ==
    ASSUME NEW amount PROVE Total({}, amount) = 0
<1>1. Units({}, amount) = {}
    BY DEF Units
<1> QED BY <1>1, FS_EmptySet DEF Total

\* The sum over one row is its amount.
LEMMA TotalOfOne ==
    ASSUME NEW x, NEW amount, amount[x] \in Nat
    PROVE  Total({x}, amount) = amount[x]
<1>1. Units({x}, amount) = {x} \X (1..amount[x])
    BY DEF Units, UnitsOf
<1>2. IsFiniteSet(1..amount[x]) /\ Cardinality(1..amount[x]) = amount[x]
    BY FS_Interval
<1>3. IsFiniteSet({x}) /\ Cardinality({x}) = 1
    BY FS_Singleton
<1>4. Cardinality({x} \X (1..amount[x])) = Cardinality({x}) * Cardinality(1..amount[x])
    BY <1>2, <1>3, FS_Product
<1>5. Cardinality({x} \X (1..amount[x])) = amount[x]
    BY <1>2, <1>3, <1>4
<1> QED BY <1>1, <1>5 DEF Total

\* A sum depends on nothing but the amounts of the rows it ranges over.
LEMMA TotalOfSame ==
    ASSUME NEW S, NEW a, NEW b, \A x \in S : a[x] = b[x]
    PROVE  Total(S, a) = Total(S, b)
<1>1. Units(S, a) = Units(S, b)
    BY DEF Units, UnitsOf
<1> QED BY <1>1 DEF Total

\* Sums over disjoint sets of rows add up.
LEMMA TotalOfDisjoint ==
    ASSUME NEW S, NEW T, NEW amount, IsFiniteSet(S), IsFiniteSet(T),
           S \cap T = {}, \A x \in S \cup T : amount[x] \in Nat
    PROVE  Total(S \cup T, amount) = Total(S, amount) + Total(T, amount)
<1>1. Units(S \cup T, amount) = Units(S, amount) \cup Units(T, amount)
    BY DEF Units
<1>2. Units(S, amount) \cap Units(T, amount) = {}
    BY DEF Units, UnitsOf
<1>3. IsFiniteSet(Units(S, amount)) /\ IsFiniteSet(Units(T, amount))
    BY UnitsFinite
<1>4. /\ Cardinality(Units(S, amount)) \in Nat
      /\ Cardinality(Units(T, amount)) \in Nat
    BY <1>3, FS_CardinalityType
<1>5. Cardinality(Units(S, amount) \cup Units(T, amount)) =
        Cardinality(Units(S, amount)) + Cardinality(Units(T, amount)) - Cardinality({})
    BY <1>2, <1>3, FS_Union
<1>6. Cardinality({}) = 0
    BY FS_EmptySet
<1>7. /\ Total(S \cup T, amount) = Cardinality(Units(S, amount) \cup Units(T, amount))
      /\ Total(S, amount) = Cardinality(Units(S, amount))
      /\ Total(T, amount) = Cardinality(Units(T, amount))
    BY <1>1 DEF Total
<1> QED BY <1>4, <1>5, <1>6, <1>7

\* A count of a set numbers each of its members once.
LEMMA CountIs ==
    ASSUME NEW D, NEW T, NEW f \in Bijection(D, T)
    PROVE  /\ \A i \in D : f[i] \in T
           /\ \A i, j \in D : f[i] = f[j] => i = j
           /\ \A m \in T : \E i \in D : f[i] = m
<1>1. f \in [D -> T] /\ IsInjective(f) /\ \A m \in T : \E i \in D : f[i] = m
    BY DEF Bijection, Injection, Surjection
<1> QED BY <1>1 DEF IsInjective

\* Parts that share nothing: the sizes of the parts add up to the size of the whole.
LEMMA PartsAddUp ==
    ASSUME NEW S, NEW share, \A x \in S : IsFiniteSet(share[x]),
           \A x, y \in S : x # y => share[x] \cap share[y] = {},
           IsFiniteSet(UNION {share[x] : x \in S})
    PROVE  Total(S, [x \in S |-> Cardinality(share[x])]) = Cardinality(UNION {share[x] : x \in S})
<1> DEFINE size == [x \in S |-> Cardinality(share[x])]
           whole == UNION {share[x] : x \in S}
<1>1. \A x \in S : \E f : f \in Bijection(1..size[x], share[x])
    BY FS_CardinalityType DEF ExistsBijection
<1> HIDE DEF size
<1>2. PICK count : \A x \in S : count[x] \in Bijection(1..size[x], share[x])
    <2>1. \A x \in S : [y \in S |-> CHOOSE f : f \in Bijection(1..size[y], share[y])][x]
                            \in Bijection(1..size[x], share[x])
        BY <1>1
    <2> QED BY <2>1
<1>3. ASSUME NEW x \in S
      PROVE  /\ \A i \in 1..size[x] : count[x][i] \in share[x]
             /\ \A i, j \in 1..size[x] : count[x][i] = count[x][j] => i = j
             /\ \A m \in share[x] : \E i \in 1..size[x] : count[x][i] = m
    <2>1. count[x] \in Bijection(1..size[x], share[x])
        BY <1>2
    <2> DEFINE D == 1..size[x]
               f == count[x]
               T == share[x]
    <2>2. f \in Bijection(D, T)
        BY <2>1
    <2> HIDE DEF D, f, T
    <2>3. /\ \A i \in D : f[i] \in T
          /\ \A i, j \in D : f[i] = f[j] => i = j
          /\ \A m \in T : \E i \in D : f[i] = m
        BY <2>2, CountIs
    <2> QED BY <2>3 DEF D, f, T
<1> DEFINE at == [u \in Units(S, size) |-> count[u[1]][u[2]]]
<1>4. \A u : u \in Units(S, size) <=> \E x \in S : \E i \in 1..size[x] : u = <<x, i>>
    BY DEF Units, UnitsOf
<1>5. at \in Bijection(Units(S, size), whole)
    <2>1. \A u \in Units(S, size) : at[u] \in whole
        BY <1>3, <1>4
    <2>2. ASSUME NEW u \in Units(S, size), NEW v \in Units(S, size), at[u] = at[v] PROVE u = v
        <3>1. PICK x \in S : \E i \in 1..size[x] : u = <<x, i>>
            BY <1>4
        <3>2. PICK i \in 1..size[x] : u = <<x, i>>
            BY <3>1
        <3>3. PICK y \in S : \E j \in 1..size[y] : v = <<y, j>>
            BY <1>4
        <3>4. PICK j \in 1..size[y] : v = <<y, j>>
            BY <3>3
        <3>5. at[u] = count[x][i] /\ at[v] = count[y][j]
            BY <3>2, <3>4
        <3>6. count[x][i] \in share[x] /\ count[y][j] \in share[y]
            BY <1>3
        <3>7. x = y
            BY <2>2, <3>5, <3>6
        <3> QED BY <1>3, <2>2, <3>2, <3>4, <3>5, <3>7
    <2>3. \A m \in whole : \E u \in Units(S, size) : at[u] = m
        <3> SUFFICES ASSUME NEW x \in S, NEW m \in share[x] PROVE \E u \in Units(S, size) : at[u] = m
            OBVIOUS
        <3>1. PICK i \in 1..size[x] : count[x][i] = m
            BY <1>3
        <3>2. <<x, i>> \in Units(S, size)
            BY <1>4
        <3> QED BY <3>1, <3>2
    <2>4. at \in [Units(S, size) -> whole]
        BY <2>1
    <2> HIDE DEF at, whole
    <2> QED BY <2>2, <2>3, <2>4 DEF Bijection, Injection, Surjection, IsInjective
<1>6. ExistsBijection(whole, Units(S, size))
    BY <1>5, Fun_ExistsBijSymmetric DEF ExistsBijection
<1>7. Cardinality(Units(S, size)) = Cardinality(whole)
    BY <1>6, FS_Bijection
<1> QED BY <1>7 DEF Total, size

\* So do the sums over parts that share no rows.
LEMMA TotalsAddUp ==
    ASSUME NEW S, NEW share, NEW amount,
           \A x, y \in S : x # y => share[x] \cap share[y] = {},
           IsFiniteSet(UNION {share[x] : x \in S}),
           \A b \in UNION {share[x] : x \in S} : amount[b] \in Nat
    PROVE  Total(S, [x \in S |-> Total(share[x], amount)]) = Total(UNION {share[x] : x \in S}, amount)
<1> DEFINE whole == UNION {share[x] : x \in S}
           units == [x \in S |-> Units(share[x], amount)]
<1>1. ASSUME NEW x \in S PROVE IsFiniteSet(units[x])
    <2>1. share[x] \subseteq whole
        OBVIOUS
    <2>2. IsFiniteSet(share[x]) /\ \A b \in share[x] : amount[b] \in Nat
        BY <2>1, FS_Subset
    <2> QED BY <2>2, UnitsFinite
<1>2. ASSUME NEW x \in S, NEW y \in S, x # y PROVE units[x] \cap units[y] = {}
    <2>1. share[x] \cap share[y] = {}
        BY <1>2
    <2> QED BY <2>1 DEF Units, UnitsOf
<1>3. UNION {units[x] : x \in S} = Units(whole, amount)
    BY DEF Units
<1>4. IsFiniteSet(Units(whole, amount)) /\ IsFiniteSet(UNION {units[x] : x \in S})
    <2>1. IsFiniteSet(Units(whole, amount))
        BY UnitsFinite
    <2> QED BY <1>3, <2>1
<1> HIDE DEF units, whole
<1>5. Total(S, [x \in S |-> Cardinality(units[x])]) = Cardinality(Units(whole, amount))
    <2>1. Total(S, [x \in S |-> Cardinality(units[x])]) = Cardinality(UNION {units[x] : x \in S})
        BY <1>1, <1>2, <1>3, <1>4, PartsAddUp
    <2> QED BY <1>3, <2>1
<1>6. [x \in S |-> Cardinality(units[x])] = [x \in S |-> Total(share[x], amount)]
    BY DEF units, Total
<1> QED BY <1>5, <1>6 DEF Total, whole

\* Rows of nothing do not count.
LEMMA TotalOfSome ==
    ASSUME NEW S, NEW T, NEW amount, S \subseteq T, \A x \in T \ S : amount[x] = 0
    PROVE  Total(S, amount) = Total(T, amount)
<1>1. Units(S, amount) \subseteq Units(T, amount)
    BY DEF Units
<1>2. ASSUME NEW x \in T, NEW u \in UnitsOf(x, amount) PROVE x \in S
    <2>1. CASE x \in T \ S
        <3>1. 1..amount[x] = {}
            BY <2>1
        <3> QED BY <3>1, <1>2 DEF UnitsOf
    <2> QED BY <2>1
<1>3. Units(T, amount) \subseteq Units(S, amount)
    BY <1>2 DEF Units
<1> QED BY <1>1, <1>3 DEF Total

\* A sum of sums, row by row: each row stands for two, one for each amount.
LEMMA TotalOfSums ==
    ASSUME NEW S, IsFiniteSet(S), NEW a, NEW b, \A x \in S : a[x] \in Nat /\ b[x] \in Nat
    PROVE  Total(S, [x \in S |-> a[x] + b[x]]) = Total(S, a) + Total(S, b)
<1> DEFINE amount == [u \in S \X {1, 2} |-> IF u[2] = 1 THEN a[u[1]] ELSE b[u[1]]]
           first == [x \in S |-> {<<x, 1>>}]
           second == [x \in S |-> {<<x, 2>>}]
           both == [x \in S |-> {<<x, 1>>, <<x, 2>>}]
<1>1. \A x \in S : amount[<<x, 1>>] = a[x] /\ amount[<<x, 2>>] = b[x]
    OBVIOUS
<1>2. /\ UNION {first[x] : x \in S} = S \X {1}
      /\ UNION {second[x] : x \in S} = S \X {2}
      /\ UNION {both[x] : x \in S} = (S \X {1}) \cup (S \X {2})
    OBVIOUS
<1>3. IsFiniteSet(S \X {1}) /\ IsFiniteSet(S \X {2}) /\ IsFiniteSet((S \X {1}) \cup (S \X {2}))
    <2>1. IsFiniteSet({1}) /\ IsFiniteSet({2})
        BY FS_Singleton
    <2> QED BY <2>1, FS_Product, FS_Union
<1>4. \A u \in (S \X {1}) \cup (S \X {2}) : amount[u] \in Nat
    OBVIOUS
<1>5. \A x, y \in S : x # y => /\ first[x] \cap first[y] = {}
                               /\ second[x] \cap second[y] = {}
                               /\ both[x] \cap both[y] = {}
    OBVIOUS
<1>6. ASSUME NEW x \in S
      PROVE  /\ Total(first[x], amount) = a[x]
             /\ Total(second[x], amount) = b[x]
             /\ Total(both[x], amount) = a[x] + b[x]
    <2>1. first[x] = {<<x, 1>>} /\ second[x] = {<<x, 2>>} /\ both[x] = first[x] \cup second[x]
        OBVIOUS
    <2>2. amount[<<x, 1>>] = a[x] /\ amount[<<x, 2>>] = b[x]
        BY <1>1
    <2>3. first[x] \cap second[x] = {} /\ IsFiniteSet(first[x]) /\ IsFiniteSet(second[x])
        <3>1. IsFiniteSet({<<x, 1>>}) /\ IsFiniteSet({<<x, 2>>})
            BY FS_Singleton
        <3> QED BY <2>1, <3>1
    <2> HIDE DEF amount, first, second, both
    <2>4. Total(first[x], amount) = a[x] /\ Total(second[x], amount) = b[x]
        BY <2>1, <2>2, TotalOfOne
    <2>5. \A u \in first[x] \cup second[x] : amount[u] \in Nat
        BY <2>1, <2>2
    <2>6. Total(first[x] \cup second[x], amount) = Total(first[x], amount) + Total(second[x], amount)
        BY <2>3, <2>5, TotalOfDisjoint
    <2> QED BY <2>1, <2>4, <2>6
<1> HIDE DEF amount, first, second, both
<1>7. Total(S \X {1}, amount) = Total(S, a)
    <2>1. Total(S, [x \in S |-> Total(first[x], amount)]) = Total(S \X {1}, amount)
        <3> DEFINE whole == UNION {first[x] : x \in S}
        <3>1. IsFiniteSet(whole) /\ \A u \in whole : amount[u] \in Nat
            BY <1>2, <1>3, <1>4
        <3>2. \A x, y \in S : x # y => first[x] \cap first[y] = {}
            BY <1>5
        <3>3. Total(S, [x \in S |-> Total(first[x], amount)]) = Total(whole, amount)
            BY <3>1, <3>2, TotalsAddUp
        <3> QED BY <1>2, <3>3
    <2>2. Total(S, [x \in S |-> Total(first[x], amount)]) = Total(S, a)
        BY <1>6, TotalOfSame
    <2> QED BY <2>1, <2>2
<1>8. Total(S \X {2}, amount) = Total(S, b)
    <2>1. Total(S, [x \in S |-> Total(second[x], amount)]) = Total(S \X {2}, amount)
        <3> DEFINE whole == UNION {second[x] : x \in S}
        <3>1. IsFiniteSet(whole) /\ \A u \in whole : amount[u] \in Nat
            BY <1>2, <1>3, <1>4
        <3>2. \A x, y \in S : x # y => second[x] \cap second[y] = {}
            BY <1>5
        <3>3. Total(S, [x \in S |-> Total(second[x], amount)]) = Total(whole, amount)
            BY <3>1, <3>2, TotalsAddUp
        <3> QED BY <1>2, <3>3
    <2>2. Total(S, [x \in S |-> Total(second[x], amount)]) = Total(S, b)
        BY <1>6, TotalOfSame
    <2> QED BY <2>1, <2>2
<1>9. Total((S \X {1}) \cup (S \X {2}), amount) = Total(S, [x \in S |-> a[x] + b[x]])
    <2>1. Total(S, [x \in S |-> Total(both[x], amount)]) = Total((S \X {1}) \cup (S \X {2}), amount)
        BY <1>2, <1>3, <1>4, <1>5, TotalsAddUp
    <2>2. [x \in S |-> Total(both[x], amount)] = [x \in S |-> a[x] + b[x]]
        BY <1>6
    <2> QED BY <2>1, <2>2
<1>10. (S \X {1}) \cap (S \X {2}) = {}
    OBVIOUS
<1>11. Total((S \X {1}) \cup (S \X {2}), amount) = Total(S \X {1}, amount) + Total(S \X {2}, amount)
    BY <1>3, <1>4, <1>10, TotalOfDisjoint
<1> QED BY <1>7, <1>8, <1>9, <1>11

\* Rows grouped by a key: the sums of the groups add up to the sum of the rows.
LEMMA GroupsAddUp ==
    ASSUME NEW rows, IsFiniteSet(rows), NEW K, NEW key, \A b \in rows : key[b] \in K,
           NEW amount, \A b \in rows : amount[b] \in Nat
    PROVE  Total(K, [k \in K |-> Total({b \in rows : key[b] = k}, amount)]) = Total(rows, amount)
<1> DEFINE share == [k \in K |-> {b \in rows : key[b] = k}]
<1>1. UNION {share[k] : k \in K} = rows
    OBVIOUS
<1>2. \A k, m \in K : k # m => share[k] \cap share[m] = {}
    OBVIOUS
<1>3. \A k \in K : share[k] = {b \in rows : key[b] = k}
    OBVIOUS
<1> HIDE DEF share
<1>4. Total(K, [k \in K |-> Total(share[k], amount)]) = Total(rows, amount)
    BY <1>1, <1>2, TotalsAddUp
<1>5. [k \in K |-> Total(share[k], amount)] = [k \in K |-> Total({b \in rows : key[b] = k}, amount)]
    BY <1>3
<1> QED BY <1>4, <1>5

-----------------------------------------------------------------------------
(* The account below *)

\* The account counts money the way the review does.
LEMMA LedgerSums ==
    /\ \A S, amount : Ledger!Total(S, amount) = Total(S, amount)
    /\ Ledger!Bill = Challan
<1>1. \A S : Ledger!Cardinality(S) = Cardinality(S)
    BY DEF Ledger!Cardinality, Cardinality
<1>2. \A S, amount : Ledger!Units(S, amount) = Units(S, amount)
    BY DEF Ledger!Units, Ledger!UnitsOf, Units, UnitsOf
<1> QED BY <1>1, <1>2 DEF Ledger!Total, Total, Ledger!Bill, Challan

\* Billing runs over finitely many bills.
LEMMA ChallanIsFinite ==
    ASSUME ReviewAssumption PROVE IsFiniteSet(Challan)
<1>1. IsFiniteSet(1..Periods)
    BY FS_Interval DEF ReviewAssumption
<1> QED BY <1>1, FS_Product DEF ReviewAssumption, Challan

\* Billing keeps the account's types: what a bill takes over is an amount.
LEMMA IssueTyped ==
    ASSUME ReviewAssumption, Ledger!TypeOK,
           NEW students \in SUBSET Student, NEW period \in 1..Periods,
           NEW old \in SUBSET Ledger!Open, NEW charge \in [students -> Charge],
           Ledger!Issue(students, period, old, charge)
    PROVE  Ledger!TypeOK'
<1>1. old \subseteq Challan /\ asked \in [Challan -> Nat]
    BY LedgerSums DEF Ledger!Open, Ledger!TypeOK
<1>2. \A s \in students : Total({d \in old : d[1] = s}, asked) \in Nat
    <2> TAKE s \in students
    <2>1. IsFiniteSet({d \in old : d[1] = s})
        BY <1>1, ChallanIsFinite, FS_Subset
    <2> QED BY <1>1, <2>1, TotalIsNat
<1>3. asked' \in [Challan -> Nat]
    <2> SUFFICES ASSUME NEW b \in Challan, b \in students \X {period}
                 PROVE  charge[b[1]] + Ledger!Total({d \in old : d[1] = b[1]}, asked) \in Nat
        BY <1>1, LedgerSums DEF Ledger!Issue
    <2>1. b[1] \in students
        OBVIOUS
    <2>2. charge[b[1]] \in Nat
        BY <2>1 DEF ReviewAssumption
    <2>3. Ledger!Total({d \in old : d[1] = b[1]}, asked) \in Nat
        BY <1>2, <2>1, LedgerSums
    <2> QED BY <2>2, <2>3
<1>4. state' \in [Challan -> {"none", "open", "absorbed", "written off"}]
    BY LedgerSums DEF Ledger!Issue, Ledger!TypeOK
<1>5. into' \in [Challan -> Challan \cup {NoChallan}]
    <2>1. \A b \in Challan : <<b[1], period>> \in Challan
        BY DEF Challan
    <2> QED BY <2>1, LedgerSums DEF Ledger!Issue, Ledger!TypeOK
<1> QED BY <1>3, <1>4, <1>5, LedgerSums DEF Ledger!Issue, Ledger!TypeOK

\* A receipt that was taken keeps its challan and its amount.
ReceiptsKept ==
    \A p \in Payment : receipts[p].of # NoChallan =>
        receipts'[p].of = receipts[p].of /\ receipts'[p].amount = receipts[p].amount

\* Receiving money is typed, and rewrites no receipt.
LEMMA ReceiveEffect ==
    ASSUME ReviewAssumption, Ledger!TypeOK, NEW p \in Payment, NEW b \in Challan,
           NEW amount \in Nat, Ledger!Receive(p, b, amount)
    PROVE  /\ Ledger!TypeOK' /\ ReceiptsKept
           /\ receipts[p].of = NoChallan
           /\ receipts'[p] = [of |-> b, amount |-> amount, voided |-> FALSE]
<1>1. receipts' = [receipts EXCEPT ![p] = [of |-> b, amount |-> amount, voided |-> FALSE]]
    BY DEF Ledger!Receive
<1>2. Ledger!TypeOK'
    <2>1. receipts' \in [Payment -> [of : Ledger!Bill \cup {NoChallan}, amount : Nat,
                                    voided : BOOLEAN]]
        BY <1>1, LedgerSums DEF Ledger!TypeOK
    <2> QED BY <2>1 DEF Ledger!Receive, Ledger!TypeOK
<1>3. ReceiptsKept /\ receipts[p].of = NoChallan
    BY <1>1 DEF Ledger!Receive, Ledger!TypeOK, ReceiptsKept
<1> QED BY <1>1, <1>2, <1>3 DEF Ledger!TypeOK

\* So is every other step of the account.
LEMMA AccountEffect ==
    ASSUME ReviewAssumption, Ledger!TypeOK, Ledger!Next
    PROVE  Ledger!TypeOK' /\ ReceiptsKept
<1>1. ASSUME NEW students \in SUBSET Student, NEW period \in 1..Periods,
             NEW old \in SUBSET Ledger!Open, NEW charge \in [students -> Charge],
             Ledger!Issue(students, period, old, charge)
      PROVE  Ledger!TypeOK' /\ ReceiptsKept
    <2>1. receipts' = receipts
        BY <1>1 DEF Ledger!Issue
    <2> QED BY <1>1, <2>1, IssueTyped DEF ReceiptsKept
<1>2. ASSUME NEW p \in Payment, NEW b \in Challan, NEW amount \in Amount,
             Ledger!Receive(p, b, amount)
      PROVE  Ledger!TypeOK' /\ ReceiptsKept
    BY <1>2, ReceiveEffect DEF ReviewAssumption
<1>3. ASSUME NEW p \in Payment, Ledger!Strike(p)
      PROVE  Ledger!TypeOK' /\ ReceiptsKept
    <2>1. receipts' = [receipts EXCEPT ![p].voided = TRUE]
        BY <1>3 DEF Ledger!Strike
    <2>2. /\ receipts' \in [Payment -> [of : Ledger!Bill \cup {NoChallan}, amount : Nat,
                                       voided : BOOLEAN]]
          /\ ReceiptsKept
        BY <2>1 DEF Ledger!TypeOK, ReceiptsKept
    <2> QED BY <1>3, <2>2 DEF Ledger!Strike, Ledger!TypeOK
<1>4. ASSUME NEW b \in Challan, Ledger!WriteOff(b)
      PROVE  Ledger!TypeOK' /\ ReceiptsKept
    BY <1>4, LedgerSums DEF Ledger!WriteOff, Ledger!TypeOK, ReceiptsKept
<1> QED BY <1>1, <1>2, <1>3, <1>4, LedgerSums DEF Ledger!Next

-----------------------------------------------------------------------------
(* Claims in order *)

\* Nothing is claimed before anything was submitted.
LEMMA ClaimsInit ==
    ASSUME ReviewAssumption, Init PROVE ClaimsInOrder
<1>1. Ledger!TypeOK
    BY LedgerSums DEF ReviewAssumption, Init, Ledger!Init, Ledger!TypeOK
<1>2. TypeOK
    BY <1>1 DEF Init, TypeOK, NoRow, Rest, Row, Review
<1> QED BY <1>2 DEF ReviewAssumption, Init, ClaimsInOrder, RowsInOrder, CallsInOrder, OneHolder,
                    PaymentsInOrder, NoRow, Rest, Holds, Made, InTable

\* A step that touches no payment, and rows only before they are in the table.
LEMMA UploadStep ==
    ASSUME ReviewAssumption, ClaimsInOrder, NEW n \in Submission, NEW row \in Row,
           submission[n].status \in {"NONE", "UPLOADING"},
           row.status # "VERIFIED", row.paymentId = NoPayment,
           row.status # "NONE" => row.challan \in Challan /\ row.amount \in Amount,
           submission' = [submission EXCEPT ![n] = row],
           UNCHANGED <<ledger, review, evidence>>
    PROVE  ClaimsInOrder'
<1>1. Made(n) = {} /\ \A m : Made(m)' = Made(m)
    BY DEF ClaimsInOrder, PaymentsInOrder, InTable, Made
<1>2. \A m \in Submission : m # n => submission'[m] = submission[m]
    BY DEF ClaimsInOrder, TypeOK
<1>3. submission'[n] = row
    BY DEF ClaimsInOrder, TypeOK
<1>4. \A v \in Reviewer : review[v].pc # "idle" => review[v].of # n
    BY DEF ClaimsInOrder, CallsInOrder, InTable
<1>5. TypeOK'
    BY DEF ClaimsInOrder, TypeOK, ledger, Ledger!TypeOK
<1>6. RowsInOrder'
    BY <1>2, <1>3 DEF ClaimsInOrder, RowsInOrder
<1>7. CallsInOrder'
    BY <1>1, <1>2, <1>4 DEF ClaimsInOrder, CallsInOrder, InTable
<1>8. OneHolder'
    BY <1>2, <1>4 DEF ClaimsInOrder, OneHolder, Holds
<1>9. PaymentsInOrder'
    BY <1>1, <1>2, <1>3 DEF ClaimsInOrder, PaymentsInOrder, InTable, ledger
<1> QED BY <1>5, <1>6, <1>7, <1>8, <1>9 DEF ClaimsInOrder

\* A call that comes, goes, looks, or fails holds nothing that it did not hold.
LEMMA CallStep ==
    ASSUME ReviewAssumption, ClaimsInOrder, NEW v \in Reviewer, NEW call \in Review,
           \/ call.pc \in {"idle", "loaded", "checked"}
           \/ review[v].pc = "claimed" /\ call.pc = "failed" /\ call.of = review[v].of,
           call.pc # "idle" => call.of \in Submission /\ InTable(call.of),
           review' = [review EXCEPT ![v] = call],
           UNCHANGED <<ledger, submission, evidence>>
    PROVE  ClaimsInOrder'
<1>1. review'[v] = call /\ \A w \in Reviewer : w # v => review'[w] = review[w]
    BY DEF ClaimsInOrder, TypeOK
<1>2. \A m : Made(m)' = Made(m)
    BY DEF Made
<1>3. TypeOK'
    BY DEF ClaimsInOrder, TypeOK, ledger, Ledger!TypeOK
<1>4. RowsInOrder'
    BY DEF ClaimsInOrder, RowsInOrder
<1>5. CallsInOrder'
    BY <1>1, <1>2 DEF ClaimsInOrder, CallsInOrder, InTable
<1>6. \A w \in Reviewer, n \in Submission : Holds(w, n)' => Holds(w, n)
    BY <1>1 DEF Holds
<1>7. OneHolder'
    BY <1>6 DEF ClaimsInOrder, OneHolder
<1>8. PaymentsInOrder'
    BY <1>2 DEF ClaimsInOrder, PaymentsInOrder, InTable, ledger
<1> QED BY <1>3, <1>4, <1>5, <1>7, <1>8 DEF ClaimsInOrder

\* A row in the table changes its status and nothing else.
Judged(n, verdict) == submission' = [submission EXCEPT ![n].status = verdict]

\* What a change of status leaves alone.
LEMMA JudgedEffect ==
    ASSUME TypeOK, NEW n \in Submission, InTable(n),
           NEW verdict \in {"PENDING_VERIFICATION", "VERIFIED", "REJECTED"}, Judged(n, verdict)
    PROVE  /\ submission' \in [Submission -> Row]
           /\ submission'[n].status = verdict
           /\ \A m \in Submission :
                /\ m # n => submission'[m] = submission[m]
                /\ submission'[m].challan = submission[m].challan
                /\ submission'[m].amount = submission[m].amount
                /\ submission'[m].paymentId = submission[m].paymentId
                /\ InTable(m)' <=> InTable(m)
<1>1. \A m \in Submission :
        /\ submission[m] \in Row
        /\ submission'[m] = IF m = n THEN [submission[m] EXCEPT !.status = verdict]
                            ELSE submission[m]
    BY DEF TypeOK, Judged
<1> QED BY <1>1 DEF TypeOK, Judged, Row, InTable

\* Judging a row that nobody holds, or that its holder lets go, or that a reviewer
\* takes from the queue, keeps claims in order.
LEMMA JudgedStep ==
    ASSUME ReviewAssumption, ClaimsInOrder, NEW n \in Submission, InTable(n),
           NEW verdict \in {"PENDING_VERIFICATION", "VERIFIED", "REJECTED"}, Judged(n, verdict),
           review' \in [Reviewer -> Review],
           \A v \in Reviewer : \/ review'[v] = review[v] \/ review'[v] = Rest
                               \/ /\ review'[v].pc = "claimed" /\ review'[v].of = n
                                  /\ verdict = "VERIFIED",
           \A v, w \in Reviewer : Holds(v, n)' /\ Holds(w, n)' => v = w,
           verdict # "VERIFIED" => \A v \in Reviewer : ~Holds(v, n)',
           UNCHANGED <<ledger, evidence>>
    PROVE  ClaimsInOrder'
<1>1. /\ submission' \in [Submission -> Row]
      /\ submission'[n].status = verdict
      /\ \A m \in Submission :
            /\ m # n => submission'[m] = submission[m]
            /\ submission'[m].challan = submission[m].challan
            /\ submission'[m].amount = submission[m].amount
            /\ submission'[m].paymentId = submission[m].paymentId
            /\ InTable(m)' <=> InTable(m)
    BY JudgedEffect DEF ClaimsInOrder
<1>2. \A m : Made(m)' = Made(m)
    BY DEF Made
<1>3. TypeOK'
    BY <1>1 DEF ClaimsInOrder, TypeOK, ledger, Ledger!TypeOK
<1>4. RowsInOrder'
    BY <1>1 DEF ClaimsInOrder, RowsInOrder, InTable
<1>5. CallsInOrder'
    <2> SUFFICES ASSUME NEW v \in Reviewer, review'[v].pc # "idle"
                 PROVE  (/\ review[v].of \in Submission /\ InTable(review[v].of)
                         /\ review[v].pc = "recorded" => review[v].payment \in Made(review[v].of))'
        BY DEF CallsInOrder
    <2>1. CASE review'[v] = review[v]
        BY <1>1, <1>2, <2>1 DEF ClaimsInOrder, CallsInOrder, InTable
    <2>2. CASE review'[v] = Rest
        BY <2>2 DEF Rest
    <2>3. CASE review'[v].pc = "claimed" /\ review'[v].of = n
        BY <1>1, <2>3 DEF InTable
    <2> QED BY <2>1, <2>2, <2>3
<1>6. \A v \in Reviewer, m \in Submission : m # n /\ Holds(v, m)' => Holds(v, m)
    BY DEF Holds, Rest
<1>7. OneHolder'
    BY <1>1, <1>6 DEF ClaimsInOrder, OneHolder
<1>8. PaymentsInOrder'
    BY <1>1, <1>2 DEF ClaimsInOrder, PaymentsInOrder, ledger
<1> QED BY <1>3, <1>4, <1>5, <1>7, <1>8 DEF ClaimsInOrder

\* Only a row that was in the queue gets a new holder.
LEMMA ClaimStep ==
    ASSUME ReviewAssumption, ClaimsInOrder, NEW v \in Reviewer, Claim(v)
    PROVE  ClaimsInOrder'
<1>1. PICK n \in Submission : n = review[v].of /\ review[v].pc = "checked" /\ InTable(n)
    BY DEF Claim, ClaimsInOrder, CallsInOrder
<1>2. CASE submission[n].status = "PENDING_VERIFICATION"
    <2>1. /\ Judged(n, "VERIFIED")
          /\ review' = [review EXCEPT ![v].pc = "claimed"]
          /\ UNCHANGED <<ledger, evidence>>
        BY <1>1, <1>2 DEF Claim, Judged
    <2>2. /\ review' \in [Reviewer -> Review]
          /\ review'[v].pc = "claimed" /\ review'[v].of = n
          /\ \A w \in Reviewer : w # v => review'[w] = review[w]
        BY <1>1, <2>1 DEF ClaimsInOrder, TypeOK, Review
    <2>3. \A w \in Reviewer : ~Holds(w, n)
        BY <1>2 DEF ClaimsInOrder, OneHolder
    <2>4. \A u, w \in Reviewer : Holds(u, n)' /\ Holds(w, n)' => u = w
        BY <2>2, <2>3 DEF Holds
    <2> QED BY <1>1, <2>1, <2>2, <2>4, JudgedStep
<1>3. CASE submission[n].status # "PENDING_VERIFICATION"
    <2>1. review' = [review EXCEPT ![v] = Rest] /\ UNCHANGED <<ledger, submission, evidence>>
        BY <1>1, <1>3 DEF Claim
    <2>2. Rest \in Review /\ Rest.pc = "idle"
        BY DEF Rest, Review
    <2> QED BY <2>1, <2>2, CallStep
<1> QED BY <1>2, <1>3

\* A claim is given back by its holder.
LEMMA ReleaseStep ==
    ASSUME ReviewAssumption, ClaimsInOrder, NEW v \in Reviewer, Release(v)
    PROVE  ClaimsInOrder'
<1>1. PICK n \in Submission : n = review[v].of /\ review[v].pc = "failed" /\ InTable(n)
    BY DEF Release, ClaimsInOrder, CallsInOrder
<1>2. /\ review' = [review EXCEPT ![v] = Rest] /\ UNCHANGED <<ledger, evidence>>
      /\ Judged(n, "PENDING_VERIFICATION") \/ UNCHANGED submission
    BY <1>1 DEF Release, Judged
<1>3. Rest \in Review /\ Rest.pc = "idle"
    BY DEF Rest, Review
<1>4. CASE UNCHANGED submission
    BY <1>2, <1>3, <1>4, CallStep
<1>5. CASE Judged(n, "PENDING_VERIFICATION")
    <2>1. /\ review' \in [Reviewer -> Review] /\ review'[v] = Rest
          /\ \A w \in Reviewer : w # v => review'[w] = review[w]
        BY <1>2, <1>3 DEF ClaimsInOrder, TypeOK
    <2>2. Holds(v, n) /\ \A w \in Reviewer : Holds(w, n) => w = v
        BY <1>1 DEF Holds, ClaimsInOrder, OneHolder
    <2>3. \A w \in Reviewer : ~Holds(w, n)'
        BY <1>3, <2>1, <2>2 DEF Holds
    <2> QED BY <1>1, <1>2, <1>5, <2>1, <2>3, JudgedStep
<1> QED BY <1>2, <1>4, <1>5

\* Nobody holds what is rejected: it was in the queue.
LEMMA RejectStep ==
    ASSUME ReviewAssumption, ClaimsInOrder, NEW n \in Submission, Reject(n)
    PROVE  ClaimsInOrder'
<1>1. InTable(n) /\ Judged(n, "REJECTED") /\ UNCHANGED <<ledger, review, evidence>>
    BY DEF Reject, InTable, Judged
<1>2. review' \in [Reviewer -> Review] /\ review' = review
    BY <1>1 DEF ClaimsInOrder, TypeOK
<1>3. \A w \in Reviewer : ~Holds(w, n)'
    BY <1>2 DEF Reject, Holds, ClaimsInOrder, OneHolder
<1> QED BY <1>1, <1>2, <1>3, JudgedStep

\* While receipts are kept, so is what was paid for a submission.
LEMMA PaidKept ==
    ASSUME ReviewAssumption, ClaimsInOrder, ReceiptsKept, NEW m \in Submission, NEW q \in Made(m)
    PROVE  /\ receipts'[q].of = submission[m].challan
           /\ receipts'[q].amount = submission[m].amount
<1>1. /\ q \in Payment /\ submission[m].status # "NONE"
      /\ receipts[q].of = submission[m].challan
      /\ receipts[q].amount = submission[m].amount
    BY DEF Made, ClaimsInOrder, PaymentsInOrder, InTable
<1>2. receipts[q].of # NoChallan
    BY <1>1 DEF ClaimsInOrder, RowsInOrder, ReviewAssumption
<1> QED BY <1>1, <1>2 DEF ReceiptsKept

\* Call v records payment p for the submission it holds, in the amount it claims.
Recorded(v, p, n) ==
    /\ n = review[v].of /\ Holds(v, n) /\ InTable(n)
    /\ submission[n].challan \in Challan /\ submission[n].amount \in Amount
    /\ Ledger!Receive(p, submission[n].challan, submission[n].amount)
    /\ Ledger!TypeOK' /\ ReceiptsKept
    /\ receipts'[p].of = submission[n].challan /\ receipts'[p].amount = submission[n].amount
    /\ evidence[p] = NoSubmission
    /\ evidence' = [evidence EXCEPT ![p] = n] /\ submission' = submission
    /\ review' \in [Reviewer -> Review]
    /\ \A w \in Reviewer \ {v} : review'[w] = review[w]
    /\ review'[v].of = n
    /\ \/ review'[v].pc = "recorded" /\ review'[v].payment = p
       \/ review'[v].pc = "failed" /\ "lost ack" \in Faults

\* A step that records is of that kind.
LEMMA RecordEffect ==
    ASSUME ReviewAssumption, ClaimsInOrder, NEW v \in Reviewer, NEW p \in Payment, Record(v, p)
    PROVE  \E n \in Submission : Recorded(v, p, n)
<1>1. PICK n \in Submission : n = review[v].of
    BY DEF Record, ClaimsInOrder, CallsInOrder
<1>2. /\ Holds(v, n) /\ InTable(n)
      /\ submission[n].challan \in Challan /\ submission[n].amount \in Amount
      /\ Ledger!Receive(p, submission[n].challan, submission[n].amount)
    BY <1>1 DEF Record, Holds, ClaimsInOrder, CallsInOrder, RowsInOrder, InTable
<1>3. /\ Ledger!TypeOK' /\ ReceiptsKept /\ receipts[p].of = NoChallan
      /\ receipts'[p] = [of |-> submission[n].challan, amount |-> submission[n].amount,
                         voided |-> FALSE]
    BY <1>2, ReceiveEffect DEF ClaimsInOrder, TypeOK, ReviewAssumption
<1>4. evidence[p] = NoSubmission
    BY <1>3 DEF ClaimsInOrder, TypeOK, PaymentsInOrder, RowsInOrder, Made, InTable, ReviewAssumption
<1>5. evidence' = [evidence EXCEPT ![p] = n] /\ submission' = submission
    BY <1>1 DEF Record
<1>6. /\ review' \in [Reviewer -> Review]
      /\ \A w \in Reviewer \ {v} : review'[w] = review[w]
      /\ review'[v].of = n
      /\ \/ review'[v].pc = "recorded" /\ review'[v].payment = p
         \/ review'[v].pc = "failed" /\ "lost ack" \in Faults
    <2>1. CASE review' = [review EXCEPT ![v].pc = "recorded", ![v].payment = p]
        BY <1>1, <2>1 DEF ClaimsInOrder, TypeOK, Review
    <2>2. CASE review' = [review EXCEPT ![v].pc = "failed"] /\ "lost ack" \in Faults
        BY <1>1, <2>2 DEF ClaimsInOrder, TypeOK, Review
    <2> QED BY <2>1, <2>2 DEF Record
<1>7. receipts'[p].of = submission[n].challan /\ receipts'[p].amount = submission[n].amount
    BY <1>3
<1> QED BY <1>1, <1>2, <1>3, <1>4, <1>5, <1>6, <1>7 DEF Recorded

\* Recording keeps claims in order: the payment is the claimed money.
LEMMA RecordStep ==
    ASSUME ReviewAssumption, ClaimsInOrder, NEW v \in Reviewer, NEW p \in Payment, Record(v, p)
    PROVE  ClaimsInOrder'
<1>1. PICK n \in Submission : Recorded(v, p, n)
    BY RecordEffect
<1>2. /\ evidence[p] = NoSubmission /\ evidence'[p] = n
      /\ \A q \in Payment \ {p} : evidence'[q] = evidence[q]
      /\ evidence' \in [Payment -> Submission \cup {NoSubmission}]
    BY <1>1 DEF Recorded, ClaimsInOrder, TypeOK
<1>3. /\ Made(n)' = Made(n) \cup {p}
      /\ \A m \in Submission : m # n => Made(m)' = Made(m)
    BY <1>2 DEF Made, ReviewAssumption
<1>4. TypeOK'
    BY <1>1, <1>2 DEF Recorded, ClaimsInOrder, TypeOK
<1>5. RowsInOrder'
    BY <1>1 DEF Recorded, ClaimsInOrder, RowsInOrder
<1>6. CallsInOrder'
    BY <1>1, <1>3 DEF Recorded, ClaimsInOrder, CallsInOrder, InTable
<1>7. \A w \in Reviewer, m \in Submission : Holds(w, m)' => Holds(w, m)
    BY <1>1 DEF Recorded, Holds
<1>8. OneHolder'
    BY <1>1, <1>7 DEF Recorded, ClaimsInOrder, OneHolder
<1>9. PaymentsInOrder'
    <2>1. \A m \in Submission : \A q \in Made(m) :
            /\ receipts'[q].of = submission[m].challan
            /\ receipts'[q].amount = submission[m].amount
        BY <1>1, PaidKept DEF Recorded
    <2>2. submission' = submission
        BY <1>1 DEF Recorded
    <2>3. \A m \in Submission : \A q \in Made(m)' :
            /\ InTable(m)
            /\ receipts'[q].of = submission[m].challan
            /\ receipts'[q].amount = submission[m].amount
        BY <1>1, <1>3, <2>1 DEF Recorded, ClaimsInOrder, PaymentsInOrder
    <2>4. \A m \in Submission :
            submission[m].paymentId = NoPayment \/ submission[m].paymentId \in Made(m)'
        BY <1>3 DEF ClaimsInOrder, PaymentsInOrder
    <2> QED BY <2>2, <2>3, <2>4 DEF PaymentsInOrder, InTable
<1> QED BY <1>4, <1>5, <1>6, <1>8, <1>9 DEF ClaimsInOrder

\* The link a call writes is the payment that it made.
LEMMA LinkStep ==
    ASSUME ReviewAssumption, ClaimsInOrder, NEW v \in Reviewer, LinkPayment(v)
    PROVE  ClaimsInOrder'
<1>1. PICK n \in Submission : n = review[v].of
    BY DEF LinkPayment, ClaimsInOrder, CallsInOrder
<1> DEFINE p == review[v].payment
<1>2. /\ review[v].pc = "recorded" /\ p \in Made(n) /\ InTable(n) /\ p \in Payment
    BY <1>1 DEF LinkPayment, ClaimsInOrder, CallsInOrder, Made
<1>3. PICK q \in {p, submission[n].paymentId} :
        submission' = [submission EXCEPT ![n].paymentId = q]
    BY <1>1 DEF LinkPayment
<1>4. /\ review' = [review EXCEPT ![v] = Rest] /\ UNCHANGED <<ledger, evidence>>
      /\ \A m : Made(m)' = Made(m)
    BY DEF LinkPayment, Made
<1>5. /\ review' \in [Reviewer -> Review] /\ review'[v] = Rest
      /\ \A w \in Reviewer \ {v} : review'[w] = review[w]
    BY <1>4 DEF ClaimsInOrder, TypeOK, Rest, Review
<1>6. q \in Payment \cup {NoPayment} /\ (q = NoPayment \/ q \in Made(n))
    BY <1>2, <1>3 DEF ClaimsInOrder, PaymentsInOrder, Made
<1>7. /\ submission' \in [Submission -> Row]
      /\ \A m \in Submission :
            /\ submission'[m].status = submission[m].status
            /\ submission'[m].challan = submission[m].challan
            /\ submission'[m].amount = submission[m].amount
            /\ submission'[m].paymentId = IF m = n THEN q ELSE submission[m].paymentId
    BY <1>3, <1>6 DEF ClaimsInOrder, TypeOK, Row
<1>8. TypeOK'
    BY <1>4, <1>5, <1>7 DEF ClaimsInOrder, TypeOK, ledger, Ledger!TypeOK
<1>9. RowsInOrder'
    BY <1>7 DEF ClaimsInOrder, RowsInOrder
<1>10. CallsInOrder'
    BY <1>4, <1>5, <1>7 DEF ClaimsInOrder, CallsInOrder, InTable, Rest
<1>11. \A w \in Reviewer, m \in Submission : Holds(w, m)' => Holds(w, m)
    BY <1>5 DEF Holds, Rest
<1>12. OneHolder'
    BY <1>7, <1>11 DEF ClaimsInOrder, OneHolder
<1>13. PaymentsInOrder'
    BY <1>4, <1>6, <1>7 DEF ClaimsInOrder, PaymentsInOrder, InTable, ledger
<1> QED BY <1>8, <1>9, <1>10, <1>12, <1>13 DEF ClaimsInOrder

\* The office goes on billing, receiving, voiding and cancelling meanwhile.
LEMMA AccountStep ==
    ASSUME ReviewAssumption, ClaimsInOrder, Account
    PROVE  ClaimsInOrder'
<1>1. /\ Ledger!TypeOK' /\ ReceiptsKept
      /\ UNCHANGED <<submission, review, evidence>> /\ \A m : Made(m)' = Made(m)
    BY AccountEffect DEF Account, ClaimsInOrder, TypeOK, Made
<1>2. TypeOK' /\ RowsInOrder'
    BY <1>1 DEF ClaimsInOrder, TypeOK, RowsInOrder
<1>3. CallsInOrder' /\ OneHolder'
    BY <1>1 DEF ClaimsInOrder, CallsInOrder, InTable, OneHolder, Holds
<1>4. PaymentsInOrder'
    <2>1. \A m \in Submission : \A q \in Made(m) :
            /\ receipts'[q].of = submission[m].challan
            /\ receipts'[q].amount = submission[m].amount
        BY <1>1, PaidKept
    <2> QED BY <1>1, <2>1 DEF ClaimsInOrder, PaymentsInOrder, InTable
<1> QED BY <1>2, <1>3, <1>4 DEF ClaimsInOrder

\* Submitting is a matter of one row that is not in the table yet.
LEMMA UploadSteps ==
    ASSUME ReviewAssumption, ClaimsInOrder, NEW n \in Submission,
           \/ \E c \in Challan, a \in Amount, i \in 0..Periods : Submit(n, c, i, a)
           \/ CreateSubmission(n) \/ FailUpload(n)
    PROVE  ClaimsInOrder'
<1>1. ASSUME NEW c \in Challan, NEW a \in Amount, NEW i \in 0..Periods, Submit(n, c, i, a)
      PROVE  ClaimsInOrder'
    <2> DEFINE row == [NoRow EXCEPT !.status = "UPLOADING", !.challan = c,
                                    !.installment = i, !.amount = a]
    <2>0. i \in Nat /\ a \in Nat
        BY DEF ReviewAssumption
    <2>1. /\ row \in Row /\ row.status = "UPLOADING" /\ row.paymentId = NoPayment
          /\ row.challan = c /\ row.amount = a
        BY <2>0 DEF NoRow, Row
    <2>2. /\ submission[n].status = "NONE" /\ submission' = [submission EXCEPT ![n] = row]
          /\ UNCHANGED <<ledger, review, evidence>>
        BY <1>1 DEF Submit
    <2> HIDE DEF row
    <2> QED BY <2>1, <2>2, UploadStep
<1>2. CASE CreateSubmission(n)
    <2> DEFINE row == [submission[n] EXCEPT !.status = "PENDING_VERIFICATION"]
    <2>1. submission[n] \in Row /\ submission[n].status = "UPLOADING"
        BY <1>2 DEF CreateSubmission, ClaimsInOrder, TypeOK
    <2>2. /\ submission[n].paymentId = NoPayment
          /\ submission[n].challan \in Challan /\ submission[n].amount \in Amount
        BY <2>1 DEF ClaimsInOrder, PaymentsInOrder, RowsInOrder, InTable
    <2>3. /\ row \in Row /\ row.status = "PENDING_VERIFICATION" /\ row.paymentId = NoPayment
          /\ row.challan \in Challan /\ row.amount \in Amount
        BY <2>1, <2>2 DEF Row
    <2>4. /\ submission' = [submission EXCEPT ![n] = row]
          /\ UNCHANGED <<ledger, review, evidence>>
        BY <1>2 DEF CreateSubmission
    <2> HIDE DEF row
    <2> QED BY <2>1, <2>3, <2>4, UploadStep
<1>3. CASE FailUpload(n)
    <2>1. NoRow \in Row /\ NoRow.status = "NONE" /\ NoRow.paymentId = NoPayment
        BY DEF NoRow, Row
    <2>2. /\ submission[n].status = "UPLOADING" /\ submission' = [submission EXCEPT ![n] = NoRow]
          /\ UNCHANGED <<ledger, review, evidence>>
        BY <1>3 DEF FailUpload
    <2> QED BY <2>1, <2>2, UploadStep
<1> QED BY <1>1, <1>2, <1>3

\* Starting, checking, failing and crashing are steps of one call.
LEMMA CallSteps ==
    ASSUME ReviewAssumption, ClaimsInOrder, NEW v \in Reviewer,
           \/ \E n \in Submission : StartVerify(v, n)
           \/ CheckInstallment(v) \/ FailRecord(v) \/ Crash(v)
    PROVE  ClaimsInOrder'
<1> DEFINE Fits(call) ==
        /\ \/ call.pc \in {"idle", "loaded", "checked"}
           \/ review[v].pc = "claimed" /\ call.pc = "failed" /\ call.of = review[v].of
        /\ call.pc # "idle" => call.of \in Submission /\ InTable(call.of)
        /\ review' = [review EXCEPT ![v] = call]
<1>1. \E call \in Review : Fits(call)
    <2>1. review[v] \in Review /\ Rest \in Review /\ Rest.pc = "idle"
        BY DEF ClaimsInOrder, TypeOK, Rest, Review
    <2>2. ASSUME NEW n \in Submission, StartVerify(v, n)
          PROVE  \E call \in Review : Fits(call)
        <3>1. [review[v] EXCEPT !.pc = "loaded", !.of = n] \in Review
            BY <2>1 DEF Review
        <3>2. review' = [review EXCEPT ![v] = [review[v] EXCEPT !.pc = "loaded", !.of = n]]
            BY <2>2 DEF StartVerify, ClaimsInOrder, TypeOK
        <3> QED BY <2>1, <2>2, <3>1, <3>2 DEF StartVerify, Review
    <2>3. CASE CheckInstallment(v)
        BY <2>1, <2>3 DEF CheckInstallment, ClaimsInOrder, CallsInOrder, Review
    <2>4. CASE FailRecord(v)
        BY <2>1, <2>4 DEF FailRecord, ClaimsInOrder, CallsInOrder, Review
    <2>5. CASE Crash(v)
        BY <2>1, <2>5 DEF Crash
    <2> QED BY <2>2, <2>3, <2>4, <2>5
<1>2. UNCHANGED <<ledger, submission, evidence>>
    BY DEF StartVerify, CheckInstallment, FailRecord, Crash
<1> QED BY <1>1, <1>2, CallStep

\* Claims stay in order, whatever fails.
LEMMA ClaimsNext ==
    ASSUME ReviewAssumption, ClaimsInOrder, [Next]_vars
    PROVE  ClaimsInOrder'
<1>1. CASE UNCHANGED vars
    <2>1. TypeOK'
        BY <1>1 DEF vars, ClaimsInOrder, TypeOK, Ledger!TypeOK
    <2>2. RowsInOrder' /\ CallsInOrder' /\ OneHolder'
        BY <1>1 DEF vars, ClaimsInOrder, RowsInOrder, CallsInOrder, OneHolder, Holds, Made, InTable
    <2>3. PaymentsInOrder'
        BY <1>1 DEF vars, ClaimsInOrder, PaymentsInOrder, Made, InTable
    <2> QED BY <2>1, <2>2, <2>3 DEF ClaimsInOrder
<1>2. ASSUME NEW n \in Submission, NEW c \in Challan, NEW a \in Amount, NEW i \in 0..Periods,
             Submit(n, c, i, a)
      PROVE  ClaimsInOrder'
    BY <1>2, UploadSteps
<1>3. ASSUME NEW n \in Submission, CreateSubmission(n) \/ FailUpload(n) PROVE ClaimsInOrder'
    BY <1>3, UploadSteps
<1>4. ASSUME NEW n \in Submission, Reject(n) PROVE ClaimsInOrder'
    BY <1>4, RejectStep
<1>5. ASSUME NEW v \in Reviewer, NEW n \in Submission, StartVerify(v, n) PROVE ClaimsInOrder'
    BY <1>5, CallSteps
<1>6. ASSUME NEW v \in Reviewer, CheckInstallment(v) \/ FailRecord(v) \/ Crash(v)
      PROVE  ClaimsInOrder'
    BY <1>6, CallSteps
<1>7. ASSUME NEW v \in Reviewer, Claim(v) PROVE ClaimsInOrder'
    BY <1>7, ClaimStep
<1>8. ASSUME NEW v \in Reviewer, NEW p \in Payment, Record(v, p) PROVE ClaimsInOrder'
    BY <1>8, RecordStep
<1>9. ASSUME NEW v \in Reviewer, Release(v) PROVE ClaimsInOrder'
    BY <1>9, ReleaseStep
<1>10. ASSUME NEW v \in Reviewer, LinkPayment(v) PROVE ClaimsInOrder'
    BY <1>10, LinkStep
<1>11. CASE Account
    BY <1>11, AccountStep
<1> QED BY <1>1, <1>2, <1>3, <1>4, <1>5, <1>6, <1>7, <1>8, <1>9, <1>10, <1>11
        DEF Next, VerifyStep

-----------------------------------------------------------------------------
(* One payment *)

\* Nobody who holds a submission has made a payment for it, and none stands for one
\* that is not verified.
PaidOnce ==
    /\ \A n \in Submission : Made(n) # {} => submission[n].status = "VERIFIED"
    /\ \A n \in Submission : \A p, q \in Made(n) : p = q
    /\ \A v \in Reviewer, n \in Submission : Holds(v, n) => Made(n) = {}

\* The invariant says no more than that.
LEMMA ReviewInvariantIs ==
    ReviewInvariant <=> ClaimsInOrder /\ PaidOnce
BY DEF ReviewInvariant, ClaimsInOrder, PaidOnce, SubmissionsPaidOnce, OnePaymentPerSubmission,
       MoneyOnlyFromVerified, PaymentsInOrder

\* A step that makes no payment keeps PaidOnce if no paid submission loses its verdict
\* or gets a holder.
LEMMA NothingPaid ==
    ASSUME PaidOnce, \A n \in Submission : Made(n)' = Made(n),
           \A n \in Submission : Made(n) # {} =>
                /\ submission'[n].status = submission[n].status
                /\ \A v \in Reviewer : ~Holds(v, n)'
    PROVE  PaidOnce'
BY DEF PaidOnce

\* A paid submission has no holder who could record or release it.
LEMMA PaidOnceNext ==
    ASSUME ReviewAssumption, "lost ack" \notin Faults, ClaimsInOrder, PaidOnce, [Next]_vars
    PROVE  PaidOnce'
<1>1. ASSUME NEW v \in Reviewer, NEW p \in Payment, Record(v, p) PROVE PaidOnce'
    <2>1. PICK n \in Submission : Recorded(v, p, n)
        BY <1>1, RecordEffect
    <2>2. /\ evidence[p] = NoSubmission /\ evidence'[p] = n
          /\ \A q \in Payment \ {p} : evidence'[q] = evidence[q]
          /\ submission' = submission /\ review'[v].pc = "recorded"
          /\ \A w \in Reviewer \ {v} : review'[w] = review[w]
        BY <2>1 DEF Recorded, ClaimsInOrder, TypeOK
    <2>3. /\ Made(n) = {} /\ submission[n].status = "VERIFIED"
          /\ \A w \in Reviewer : Holds(w, n) => w = v
        BY <2>1 DEF Recorded, ClaimsInOrder, OneHolder, PaidOnce
    <2>4. /\ Made(n)' = {p}
          /\ \A m \in Submission : m # n => Made(m)' = Made(m)
        <3>1. NoSubmission \notin Submission
            BY DEF ReviewAssumption
        <3>2. \A q \in Payment : evidence[q] # n
            BY <2>3 DEF Made
        <3>3. \A q \in Payment : evidence'[q] = n <=> q = p
            BY <2>2, <3>2
        <3>4. \A q \in Payment, m \in Submission : m # n => (evidence'[q] = m <=> evidence[q] = m)
            BY <2>2, <3>1
        <3> QED BY <3>3, <3>4 DEF Made
    <2>5. \A w \in Reviewer, m \in Submission : Holds(w, m)' => Holds(w, m) /\ m # n
        BY <2>2, <2>3 DEF Holds
    <2>6. \A m \in Submission :
            /\ m = n => Made(m)' = {p} /\ submission'[m].status = "VERIFIED"
            /\ m # n => /\ Made(m)' = Made(m) /\ submission'[m].status = submission[m].status
                        /\ \A w \in Reviewer : Holds(w, m)' => Holds(w, m)
            /\ m = n => \A w \in Reviewer : ~Holds(w, m)'
        BY <2>2, <2>3, <2>4, <2>5
    <2> QED BY <2>6 DEF PaidOnce
<1>2. ASSUME evidence' = evidence,
             \A n \in Submission : Made(n) # {} =>
                 /\ submission'[n].status = submission[n].status
                 /\ \A v \in Reviewer : ~Holds(v, n)'
      PROVE  PaidOnce'
    BY <1>2, NothingPaid DEF Made
<1>3. CASE UNCHANGED vars \/ Account
    BY <1>2, <1>3 DEF vars, Account, Holds, PaidOnce
<1>4. ASSUME NEW n \in Submission,
             \/ \E c \in Challan, a \in Amount, i \in 0..Periods : Submit(n, c, i, a)
             \/ CreateSubmission(n) \/ FailUpload(n) \/ Reject(n)
      PROVE  PaidOnce'
    <2>1. /\ submission[n].status # "VERIFIED" /\ review' = review /\ evidence' = evidence
          /\ \A m \in Submission : m # n => submission'[m] = submission[m]
        BY <1>4 DEF Submit, CreateSubmission, FailUpload, Reject, ClaimsInOrder, TypeOK
    <2> QED BY <1>2, <2>1 DEF Holds, PaidOnce
<1>5. ASSUME NEW v \in Reviewer,
             \/ \E n \in Submission : StartVerify(v, n)
             \/ CheckInstallment(v) \/ FailRecord(v) \/ Crash(v) \/ LinkPayment(v)
      PROVE  PaidOnce'
    <2>1. evidence' = evidence
        BY <1>5 DEF StartVerify, CheckInstallment, FailRecord, Crash, LinkPayment
    <2>2. \A n \in Submission : submission'[n].status = submission[n].status
        <3>1. CASE LinkPayment(v)
            BY <3>1 DEF LinkPayment, ClaimsInOrder, TypeOK, Row
        <3>2. CASE submission' = submission
            BY <3>2
        <3> QED BY <1>5, <3>1, <3>2 DEF StartVerify, CheckInstallment, FailRecord, Crash
    <2>3. \A w \in Reviewer, n \in Submission : Holds(w, n)' => Holds(w, n)
        <3>1. review \in [Reviewer -> Review] /\ Rest.pc = "idle"
            BY DEF ClaimsInOrder, TypeOK, Rest
        <3>2. /\ \A w \in Reviewer : w # v => review'[w] = review[w]
              /\ \/ review'[v].pc \in {"idle", "loaded", "checked"}
                 \/ review[v].pc = "claimed" /\ review'[v].of = review[v].of
            <4>1. CASE \E n \in Submission : StartVerify(v, n)
                BY <3>1, <4>1 DEF StartVerify, Review
            <4>2. CASE CheckInstallment(v)
                BY <3>1, <4>2 DEF CheckInstallment, Review
            <4>3. CASE FailRecord(v)
                BY <3>1, <4>3 DEF FailRecord, Review
            <4>4. CASE Crash(v) \/ LinkPayment(v)
                BY <3>1, <4>4 DEF Crash, LinkPayment
            <4> QED BY <1>5, <4>1, <4>2, <4>3, <4>4
        <3> QED BY <3>2 DEF Holds
    <2> QED BY <1>2, <2>1, <2>2, <2>3 DEF PaidOnce
<1>6. ASSUME NEW v \in Reviewer, Claim(v) PROVE PaidOnce'
    <2>1. PICK n \in Submission : n = review[v].of
        BY <1>6 DEF Claim, ClaimsInOrder, CallsInOrder
    <2>2. /\ evidence' = evidence
          /\ \A m \in Submission :
                Made(m) # {} => submission[m].status = "VERIFIED" /\ submission'[m] = submission[m]
        BY <1>6, <2>1 DEF Claim, ClaimsInOrder, TypeOK, PaidOnce
    <2>3. \A w \in Reviewer, m \in Submission :
            Holds(w, m)' => \/ Holds(w, m)
                            \/ m = n /\ submission[n].status = "PENDING_VERIFICATION"
        <3>1. review \in [Reviewer -> Review] /\ Rest.pc = "idle"
            BY DEF ClaimsInOrder, TypeOK, Rest
        <3>2. /\ \A w \in Reviewer : w # v => review'[w] = review[w]
              /\ \/ review'[v].pc = "idle"
                 \/ /\ submission[n].status = "PENDING_VERIFICATION"
                    /\ review'[v].of = n
            BY <1>6, <2>1, <3>1 DEF Claim, Review
        <3> QED BY <3>2 DEF Holds
    <2> QED BY <1>2, <2>2, <2>3 DEF PaidOnce
<1>7. ASSUME NEW v \in Reviewer, Release(v) PROVE PaidOnce'
    <2>1. PICK n \in Submission : n = review[v].of /\ Holds(v, n)
        BY <1>7 DEF Release, ClaimsInOrder, CallsInOrder, Holds
    <2>2. /\ evidence' = evidence
          /\ \A m \in Submission : m # n => submission'[m] = submission[m]
        BY <1>7, <2>1 DEF Release, ClaimsInOrder, TypeOK
    <2>3. \A w \in Reviewer, m \in Submission : Holds(w, m)' => Holds(w, m)
        BY <1>7 DEF Release, ClaimsInOrder, TypeOK, Rest, Holds
    <2> QED BY <1>2, <2>1, <2>2, <2>3 DEF PaidOnce
<1> QED BY <1>1, <1>3, <1>4, <1>5, <1>6, <1>7 DEF Next, VerifyStep

-----------------------------------------------------------------------------
(* Verdicts, and what is left behind *)

\* A verdict changes only where a holder gives its claim back.
LEMMA VerdictNext ==
    ASSUME ReviewAssumption, ClaimsInOrder, PaidOnce, [Next]_vars
    PROVE  VerdictStep \/ UNCHANGED vars
<1>1. ASSUME \A n \in Submission : submission[n].status \in {"VERIFIED", "REJECTED"} =>
                 submission'[n].status = submission[n].status
      PROVE  VerdictStep
    BY <1>1 DEF VerdictStep
<1>2. CASE Account
    BY <1>1, <1>2 DEF Account
<1>3. ASSUME NEW n \in Submission,
             \/ \E c \in Challan, a \in Amount, i \in 0..Periods : Submit(n, c, i, a)
             \/ CreateSubmission(n) \/ FailUpload(n) \/ Reject(n)
      PROVE  VerdictStep
    BY <1>1, <1>3 DEF Submit, CreateSubmission, FailUpload, Reject, ClaimsInOrder, TypeOK
<1>4. ASSUME NEW v \in Reviewer,
             \/ \E n \in Submission : StartVerify(v, n)
             \/ CheckInstallment(v) \/ FailRecord(v) \/ Crash(v)
             \/ \E p \in Payment : Record(v, p)
      PROVE  VerdictStep
    BY <1>1, <1>4 DEF StartVerify, CheckInstallment, FailRecord, Crash, Record
<1>5. ASSUME NEW v \in Reviewer, LinkPayment(v) PROVE VerdictStep
    BY <1>1, <1>5 DEF LinkPayment, ClaimsInOrder, TypeOK, Row
<1>6. ASSUME NEW v \in Reviewer, Claim(v) PROVE VerdictStep
    BY <1>1, <1>6 DEF Claim, ClaimsInOrder, TypeOK
<1>7. ASSUME NEW v \in Reviewer, Release(v) PROVE VerdictStep
    <2>1. PICK n \in Submission : n = review[v].of /\ Holds(v, n)
        BY <1>7 DEF Release, ClaimsInOrder, CallsInOrder, Holds
    <2>2. /\ submission[n].status = "VERIFIED" /\ Made(n) = {}
        BY <2>1 DEF ClaimsInOrder, OneHolder, PaidOnce
    <2>3. /\ \A m \in Submission : m # n => submission'[m] = submission[m]
          /\ submission'[n].status \in {"VERIFIED", "PENDING_VERIFICATION"}
        BY <1>7, <2>1, <2>2 DEF Release, ClaimsInOrder, TypeOK, Row
    <2> QED BY <2>2, <2>3 DEF VerdictStep
<1> QED BY <1>2, <1>3, <1>4, <1>5, <1>6, <1>7 DEF Next, VerifyStep

\* While handlers run to their end, a verified submission keeps its holder until it has
\* its payment or is back in the queue.
LEMMA StrandedNext ==
    ASSUME ReviewAssumption, "crash" \notin Faults, "release" \notin Faults,
           ClaimsInOrder, NoneStranded, [Next]_vars
    PROVE  NoneStranded'
<1>1. ASSUME NEW v \in Reviewer, NEW p \in Payment, Record(v, p) PROVE NoneStranded'
    <2>1. PICK n \in Submission : Recorded(v, p, n)
        BY <1>1, RecordEffect
    <2>2. /\ evidence[p] = NoSubmission /\ evidence'[p] = n
          /\ \A q \in Payment \ {p} : evidence'[q] = evidence[q]
          /\ submission' = submission
          /\ \A w \in Reviewer \ {v} : review'[w] = review[w]
          /\ Holds(v, n)
        BY <2>1 DEF Recorded, ClaimsInOrder, TypeOK
    <2>3. /\ p \in Made(n)'
          /\ \A m \in Submission : m # n => Made(m)' = Made(m)
        BY <2>2 DEF Made, ReviewAssumption
    <2>4. \A w \in Reviewer, m \in Submission : m # n /\ Holds(w, m) => Holds(w, m)'
        BY <2>2 DEF Holds
    <2>5. ASSUME NEW m \in Submission, submission'[m].status = "VERIFIED"
          PROVE  Made(m)' # {} \/ \E w \in Reviewer : Holds(w, m)'
        <3>1. CASE m = n
            BY <2>3, <3>1
        <3>2. CASE m # n
            BY <2>2, <2>3, <2>4, <2>5, <3>2 DEF NoneStranded
        <3> QED BY <3>1, <3>2
    <2> QED BY <2>5 DEF NoneStranded
<1>2. ASSUME evidence' = evidence,
             \A n \in Submission : submission'[n].status = "VERIFIED" =>
                 \/ /\ submission[n].status = "VERIFIED"
                    /\ \A v \in Reviewer : Holds(v, n) => Holds(v, n)'
                 \/ \E v \in Reviewer : Holds(v, n)'
      PROVE  NoneStranded'
    <2>1. \A n : Made(n)' = Made(n)
        BY <1>2 DEF Made
    <2> QED BY <1>2, <2>1 DEF NoneStranded
<1>3. CASE UNCHANGED vars \/ Account
    BY <1>2, <1>3 DEF vars, Account, Holds
<1>4. ASSUME NEW n \in Submission,
             \/ \E c \in Challan, a \in Amount, i \in 0..Periods : Submit(n, c, i, a)
             \/ CreateSubmission(n) \/ FailUpload(n) \/ Reject(n)
      PROVE  NoneStranded'
    <2>1. /\ submission'[n].status # "VERIFIED" /\ review' = review /\ evidence' = evidence
          /\ \A m \in Submission : m # n => submission'[m] = submission[m]
        <3>1. CASE \E c \in Challan, a \in Amount, i \in 0..Periods : Submit(n, c, i, a)
            BY <3>1 DEF Submit, ClaimsInOrder, TypeOK, NoRow
        <3>2. CASE FailUpload(n)
            BY <3>2 DEF FailUpload, ClaimsInOrder, TypeOK, NoRow
        <3>3. CASE CreateSubmission(n) \/ Reject(n)
            BY <3>3 DEF CreateSubmission, Reject, ClaimsInOrder, TypeOK, Row
        <3> QED BY <1>4, <3>1, <3>2, <3>3
    <2> QED BY <1>2, <2>1 DEF Holds
<1>5. ASSUME NEW v \in Reviewer,
             \/ \E n \in Submission : StartVerify(v, n)
             \/ CheckInstallment(v) \/ FailRecord(v) \/ LinkPayment(v)
      PROVE  NoneStranded'
    <2>1. review \in [Reviewer -> Review]
        BY DEF ClaimsInOrder, TypeOK
    <2>2. evidence' = evidence
        BY <1>5 DEF StartVerify, CheckInstallment, FailRecord, LinkPayment
    <2>3. \A n \in Submission : submission'[n].status = submission[n].status
        <3>1. CASE LinkPayment(v)
            BY <3>1 DEF LinkPayment, ClaimsInOrder, TypeOK, Row
        <3>2. CASE submission' = submission
            BY <3>2
        <3> QED BY <1>5, <3>1, <3>2 DEF StartVerify, CheckInstallment, FailRecord
    <2>4. /\ \A w \in Reviewer : w # v => review'[w] = review[w]
          /\ \/ review[v].pc \in {"idle", "loaded", "recorded"}
             \/ review'[v].pc = "failed" /\ review'[v].of = review[v].of
        <3>1. CASE \E n \in Submission : StartVerify(v, n)
            BY <2>1, <3>1 DEF StartVerify
        <3>2. CASE CheckInstallment(v)
            BY <2>1, <3>2 DEF CheckInstallment
        <3>3. CASE FailRecord(v)
            BY <2>1, <3>3 DEF FailRecord, Review
        <3>4. CASE LinkPayment(v)
            BY <2>1, <3>4 DEF LinkPayment
        <3> QED BY <1>5, <3>1, <3>2, <3>3, <3>4
    <2>5. \A w \in Reviewer, n \in Submission : Holds(w, n) => Holds(w, n)'
        BY <2>4 DEF Holds
    <2> QED BY <1>2, <2>2, <2>3, <2>5
<1>6. ASSUME NEW v \in Reviewer, Claim(v) PROVE NoneStranded'
    <2>1. PICK n \in Submission : n = review[v].of
        BY <1>6 DEF Claim, ClaimsInOrder, CallsInOrder
    <2>2. /\ evidence' = evidence
          /\ \A m \in Submission : m # n => submission'[m] = submission[m]
          /\ \A w \in Reviewer : w # v => review'[w] = review[w]
          /\ review[v].pc = "checked"
          /\ \/ review'[v].pc = "claimed" /\ review'[v].of = n
             \/ submission' = submission
        BY <1>6, <2>1 DEF Claim, ClaimsInOrder, TypeOK, Review
    <2>3. \A w \in Reviewer, m \in Submission : Holds(w, m) => Holds(w, m)'
        BY <2>2 DEF Holds
    <2>4. submission' = submission \/ Holds(v, n)'
        BY <2>2 DEF Holds
    <2> QED BY <1>2, <2>2, <2>3, <2>4
<1>7. ASSUME NEW v \in Reviewer, Release(v) PROVE NoneStranded'
    <2>1. PICK n \in Submission : n = review[v].of /\ Holds(v, n)
        BY <1>7 DEF Release, ClaimsInOrder, CallsInOrder, Holds
    <2>2. /\ evidence' = evidence
          /\ \A m \in Submission : m # n => submission'[m] = submission[m]
          /\ submission'[n].status = "PENDING_VERIFICATION"
          /\ \A w \in Reviewer : w # v => review'[w] = review[w]
        BY <1>7, <2>1 DEF Release, ClaimsInOrder, TypeOK, Row
    <2>3. \A w \in Reviewer, m \in Submission : m # n /\ Holds(w, m) => Holds(w, m)'
        BY <2>1, <2>2 DEF Holds
    <2> QED BY <1>2, <2>2, <2>3
<1>8. ASSUME NEW v \in Reviewer, Crash(v) PROVE FALSE
    BY <1>8 DEF Crash
<1> QED BY <1>1, <1>3, <1>4, <1>5, <1>6, <1>7, <1>8 DEF Next, VerifyStep

\* What a step of the review does to the ledger is a step of the account.
LEMMA AccountNext ==
    ASSUME ReviewAssumption, ClaimsInOrder, [Next]_vars
    PROVE  [Ledger!Next]_(Ledger!account)
<1>1. ASSUME NEW v \in Reviewer, NEW p \in Payment, Record(v, p) PROVE Ledger!Next
    <2>1. PICK n \in Submission : Recorded(v, p, n)
        BY <1>1, RecordEffect
    <2>2. \E b \in Ledger!Bill, amount \in Amount : Ledger!Receive(p, b, amount)
        BY <2>1, LedgerSums DEF Recorded
    <2> QED BY <2>2 DEF Ledger!Next
<1>2. CASE UNCHANGED ledger
    BY <1>2 DEF ledger, Ledger!account
<1>3. UNCHANGED ledger \/ Account \/ \E v \in Reviewer, p \in Payment : Record(v, p)
    BY DEF Next, vars, ledger, VerifyStep, Submit, CreateSubmission, FailUpload, Reject,
           StartVerify, CheckInstallment, Claim, FailRecord, Release, LinkPayment, Crash
<1> QED BY <1>1, <1>2, <1>3 DEF Account

-----------------------------------------------------------------------------
(* The theorems *)

\* Whatever fails, a submission has one holder at a time, and every payment recorded
\* for one or linked to it is the money it claimed (payment-submissions.service.ts).
THEOREM ClaimsStayInOrder ==
    ASSUME ReviewAssumption PROVE Spec => []ClaimsInOrder
BY ClaimsInit, ClaimsNext, PTL DEF Spec

\* However many administrators verify one receipt at once, and whatever else fails, it
\* is turned into at most one payment, and only while it stands verified, as long as
\* the answer to a committed payment is not lost (verify: "Double-verification is
\* blocked twice over").
THEOREM ReceiptsArePaidOnce ==
    ASSUME ReviewAssumption, "lost ack" \notin Faults
    PROVE  Spec => [](SubmissionsPaidOnce /\ ReviewInvariant)
<1>1. Init => PaidOnce
    BY DEF Init, PaidOnce, Made, Holds, Rest, ReviewAssumption
<1>2. ClaimsInOrder /\ PaidOnce /\ [Next]_vars => ClaimsInOrder' /\ PaidOnce'
    BY ClaimsNext, PaidOnceNext
<1>3. ClaimsInOrder /\ PaidOnce => SubmissionsPaidOnce /\ ReviewInvariant
    BY ReviewInvariantIs DEF ReviewInvariant
<1> QED BY <1>1, <1>2, <1>3, ClaimsInit, PTL DEF Spec

\* No step takes a verdict back, except a claim no payment came of.
THEOREM VerdictsAreFinal ==
    ASSUME ReviewAssumption, "lost ack" \notin Faults
    PROVE  Spec => VerdictIsFinal
<1>1. ReviewInvariant /\ [Next]_vars => [VerdictStep]_vars
    BY VerdictNext, ReviewInvariantIs
<1> QED BY <1>1, ReceiptsArePaidOnce, PTL DEF Spec, VerdictIsFinal

\* A verified receipt has its payment or somebody at work on it, as long as handlers
\* run to their end: the catch block gives every failed claim back, lost answers
\* included.
THEOREM NobodyIsStranded ==
    ASSUME ReviewAssumption, "crash" \notin Faults, "release" \notin Faults
    PROVE  Spec => []NoneStranded
<1>1. Init => NoneStranded
    BY DEF Init, NoneStranded, NoRow
<1>2. ClaimsInOrder /\ NoneStranded /\ [Next]_vars => NoneStranded'
    BY StrandedNext
<1> QED BY <1>1, <1>2, ClaimsStayInOrder, PTL DEF Spec

\* The review moves money only as the account allows, so that what the account
\* promises holds with reviewers at work (verify records through payments.record).
THEOREM ReviewKeepsAccount ==
    ASSUME ReviewAssumption PROVE Spec => Ledger!Spec
<1>1. Init => Ledger!Init
    BY DEF Init
<1>2. ClaimsInOrder /\ [Next]_vars => [Ledger!Next]_(Ledger!account)
    BY AccountNext
<1> QED BY <1>1, <1>2, ClaimsStayInOrder, PTL DEF Spec, Ledger!Spec

-----------------------------------------------------------------------------
(* The statistics cache *)

\* An entry that is old and was not made across a write has a writer who is yet to
\* delete it.
CacheInvariant ==
    /\ entry = None \/ entry = [version |-> entry.version, left |-> entry.left]
    /\ writer \in [Writer -> BOOLEAN]
    /\ Cache!Stale => crossed \/ \E w \in Writer : writer[w]

LEMMA CacheInit == Cache!Init => CacheInvariant
BY DEF Cache!Init, Cache!Stale, CacheInvariant

\* A step that changes neither the data nor the version held keeps what is stale.
LEMMA CacheNext == CacheInvariant /\ [Cache!Next]_cacheVars => CacheInvariant'
<1> SUFFICES ASSUME CacheInvariant, [Cache!Next]_cacheVars PROVE CacheInvariant'
    OBVIOUS
<1> USE DEF CacheInvariant, Cache!Stale
<1>1. CASE Cache!Expire
    BY <1>1 DEF Cache!Expire, Cache!Lapsed
<1>2. ASSUME NEW r \in Reader, Cache!Compute(r) PROVE CacheInvariant'
    BY <1>2 DEF Cache!Compute
<1>3. ASSUME NEW r \in Reader, Cache!Store(r) PROVE CacheInvariant'
    \* What a reader stores is old only if somebody wrote since it was computed.
    BY <1>3 DEF Cache!Store
<1>4. ASSUME NEW w \in Writer, Cache!Commit(w) PROVE CacheInvariant'
    \* Whatever was current becomes old, and the writer who made it so is at work.
    BY <1>4 DEF Cache!Commit
<1>5. ASSUME NEW w \in Writer, Cache!Invalidate(w) PROVE CacheInvariant'
    BY <1>5 DEF Cache!Invalidate
<1>6. ASSUME NEW w \in Writer, Cache!Crash(w) PROVE CacheInvariant'
    BY <1>6 DEF Cache!Crash
<1>7. CASE UNCHANGED cacheVars
    BY <1>7 DEF cacheVars
<1> QED BY <1>1, <1>2, <1>3, <1>4, <1>5, <1>6, <1>7 DEF Cache!Next

\* However readers and writers cross, and whatever the backend fails to answer, once the
\* writers are done only a figure computed across a write, or one whose deletion was lost,
\* is stale (cache.service.ts, wrap and invalidateSchoolStats).
THEOREM OnlyCrossedIsStale == MCSpec => []StaleOnlyAcrossWrite
<1>1. CacheInvariant => StaleOnlyAcrossWrite
    BY DEF CacheInvariant, StaleOnlyAcrossWrite, Cache!StaleOnlyAcrossWrite
<1>2. MCInit => CacheInvariant
    BY CacheInit DEF MCInit
<1>3. CacheInvariant /\ [MCNext]_allVars => CacheInvariant'
    BY CacheNext DEF MCNext, InReview, InViews, InCache, allVars
<1> QED BY <1>1, <1>2, <1>3, PTL DEF MCSpec

-----------------------------------------------------------------------------
(* What is shown of the ledger *)

LEMMA ViewsSums ==
    /\ \A S : Views!Cardinality(S) = Cardinality(S) /\ (Views!IsFiniteSet(S) <=> IsFiniteSet(S))
    /\ \A S, amount : Views!Total(S, amount) = Total(S, amount)
<1>1. \A S : Views!Cardinality(S) = Cardinality(S) /\ (Views!IsFiniteSet(S) <=> IsFiniteSet(S))
    BY DEF Views!Cardinality, Views!IsFiniteSet, Cardinality, IsFiniteSet
<1>2. \A S, amount : Views!Units(S, amount) = Units(S, amount)
    BY DEF Views!Units, Views!UnitsOf, Units, UnitsOf
<1> QED BY <1>1, <1>2 DEF Views!Total, Total

\* A challan is paid up to what it asks for, has the status that follows from it, no
\* money if it was cancelled, and asks for something if a later one carries it.
RowInOrder(r) ==
    /\ r.paid <= r.net /\ r.due > 0
    /\ r.status = "CANCELLED" => r.paid = 0
    /\ r.status # "CANCELLED" => r.status = Views!StatusFor(r.net, r.paid)
    /\ r.into # 0 => r.status = "CANCELLED" /\ r.net > 0

ViewsInvariant ==
    /\ place \in [Child -> Section] /\ day \in Nat \ {0}
    /\ bill \in [Views!Slot -> Views!Row \cup {None}]
    /\ \A b \in Views!Issued : RowInOrder(bill[b])

NetOf == [b \in Views!Slot |-> bill[b].net]
PaidOf == [b \in Views!Slot |-> bill[b].paid]
OwedOf == [b \in Views!Slot |-> Views!Balance(b)]

LEMMA SlotsAreFew ==
    ASSUME Views!ViewsAssumption PROVE IsFiniteSet(Views!Slot)
<1>1. IsFiniteSet(Child) /\ IsFiniteSet(1..Months)
    BY ViewsSums, FS_Interval DEF Views!ViewsAssumption
<1> QED BY <1>1, FS_Product DEF Views!Slot, Views!Period

LEMMA RowOf ==
    ASSUME Views!ViewsAssumption, ViewsInvariant, NEW b \in Views!Issued
    PROVE  /\ b \in Views!Slot /\ bill[b] \in Views!Row
           /\ bill[b].net \in Nat /\ bill[b].paid \in Nat /\ bill[b].due \in Nat /\ bill[b].issued \in Nat
           /\ bill[b].section \in Section /\ ClassOf[bill[b].section] \in Class
           /\ bill[b].status \in {"UNPAID", "PARTIALLY_PAID", "PAID", "CANCELLED"}
           /\ bill[b].paid <= bill[b].net /\ bill[b].due > 0
           /\ Views!Balance(b) = bill[b].net - bill[b].paid /\ Views!Balance(b) \in Nat
           /\ bill[b].status = "CANCELLED" => bill[b].paid = 0
           /\ bill[b].status # "CANCELLED" => bill[b].status = Views!StatusFor(bill[b].net, bill[b].paid)
           /\ bill[b].status = "PAID" => Views!Balance(b) = 0
           /\ bill[b].status \in {"UNPAID", "PARTIALLY_PAID"} => Views!Balance(b) > 0
<1>1. b \in Views!Slot /\ bill[b] \in Views!Row
    BY DEF Views!Issued, ViewsInvariant
<1>2. /\ bill[b].net \in Nat /\ bill[b].paid \in Nat /\ bill[b].due \in Nat /\ bill[b].issued \in Nat
      /\ bill[b].section \in Section
      /\ bill[b].status \in {"UNPAID", "PARTIALLY_PAID", "PAID", "CANCELLED"}
    BY <1>1 DEF Views!Row, Views!Unsettled
<1>3. ClassOf[bill[b].section] \in Class
    BY <1>2 DEF Views!ViewsAssumption
<1>4. /\ bill[b].paid <= bill[b].net /\ bill[b].due > 0
      /\ bill[b].status = "CANCELLED" => bill[b].paid = 0
      /\ bill[b].status # "CANCELLED" => bill[b].status = Views!StatusFor(bill[b].net, bill[b].paid)
    BY DEF ViewsInvariant, RowInOrder
<1>5. Views!Balance(b) = bill[b].net - bill[b].paid /\ Views!Balance(b) \in Nat
    BY <1>2, <1>4 DEF Views!Balance, Views!Floor
<1>6. /\ bill[b].status = "PAID" => Views!Balance(b) = 0
      /\ bill[b].status \in {"UNPAID", "PARTIALLY_PAID"} => Views!Balance(b) > 0
    BY <1>2, <1>4, <1>5 DEF Views!StatusFor
<1> QED BY <1>1, <1>2, <1>3, <1>4, <1>5, <1>6

\* Of any challans: what they ask for is what came in and what is owed.
LEMMA BooksOf ==
    ASSUME Views!ViewsAssumption, ViewsInvariant, NEW R \in SUBSET Views!Issued
    PROVE  /\ IsFiniteSet(R)
           /\ Views!Nets(R) = Total(R, NetOf) /\ Views!Payments(R) = Total(R, PaidOf)
           /\ Views!Balances(R) = Total(R, OwedOf)
           /\ Views!Nets(R) \in Nat /\ Views!Payments(R) \in Nat /\ Views!Balances(R) \in Nat
           /\ Views!Nets(R) = Views!Payments(R) + Views!Balances(R)
           /\ Views!Floor(Views!Nets(R), Views!Payments(R)) = Views!Balances(R)
<1>1. IsFiniteSet(R)
    BY SlotsAreFew, FS_Subset DEF Views!Issued
<1>2. ASSUME NEW b \in R
      PROVE  /\ NetOf[b] = bill[b].net /\ PaidOf[b] = bill[b].paid /\ OwedOf[b] = Views!Balance(b)
             /\ NetOf[b] \in Nat /\ PaidOf[b] \in Nat /\ OwedOf[b] \in Nat
             /\ NetOf[b] = PaidOf[b] + OwedOf[b]
    BY RowOf DEF NetOf, PaidOf, OwedOf
<1>3. Views!Nets(R) = Total(R, NetOf) /\ Views!Payments(R) = Total(R, PaidOf) /\ Views!Balances(R) = Total(R, OwedOf)
    <2>1. Total(R, [b \in R |-> bill[b].net]) = Total(R, NetOf)
        BY <1>2, TotalOfSame
    <2>2. Total(R, [b \in R |-> bill[b].paid]) = Total(R, PaidOf)
        BY <1>2, TotalOfSame
    <2>3. Total(R, [b \in R |-> Views!Balance(b)]) = Total(R, OwedOf)
        BY <1>2, TotalOfSame
    <2> QED BY <2>1, <2>2, <2>3, ViewsSums DEF Views!Nets, Views!Payments, Views!Balances
<1>4. Total(R, NetOf) \in Nat /\ Total(R, PaidOf) \in Nat /\ Total(R, OwedOf) \in Nat
    BY <1>1, <1>2, TotalIsNat
<1>5. Total(R, NetOf) = Total(R, PaidOf) + Total(R, OwedOf)
    <2>1. Total(R, [b \in R |-> PaidOf[b] + OwedOf[b]]) = Total(R, PaidOf) + Total(R, OwedOf)
        BY <1>1, <1>2, TotalOfSums
    <2>2. Total(R, [b \in R |-> PaidOf[b] + OwedOf[b]]) = Total(R, NetOf)
        BY <1>2, TotalOfSame
    <2> QED BY <2>1, <2>2
<1>6. Views!Floor(Views!Nets(R), Views!Payments(R)) = Views!Balances(R)
    BY <1>3, <1>4, <1>5 DEF Views!Floor
<1> QED BY <1>1, <1>3, <1>4, <1>5, <1>6

\* Two sets that share nothing count as their sum.
LEMMA CountOfDisjoint ==
    ASSUME NEW S, NEW T, IsFiniteSet(S), IsFiniteSet(T), S \cap T = {}
    PROVE  /\ IsFiniteSet(S \cup T)
           /\ Cardinality(S) \in Nat /\ Cardinality(T) \in Nat
           /\ Cardinality(S \cup T) = Cardinality(S) + Cardinality(T)
<1>1. Cardinality(S) \in Nat /\ Cardinality(T) \in Nat /\ Cardinality({}) = 0
    BY FS_CardinalityType, FS_EmptySet
<1>2. IsFiniteSet(S \cup T)
      /\ Cardinality(S \cup T) = Cardinality(S) + Cardinality(T) - Cardinality(S \cap T)
    BY FS_Union
<1>3. Cardinality(S \cap T) = 0
    BY <1>1
<1> QED BY <1>1, <1>2, <1>3

\* Challans that are not cancelled, counted status by status.
LEMMA StatusesAddUp ==
    ASSUME Views!ViewsAssumption, ViewsInvariant, NEW R \in SUBSET Views!Standing
    PROVE  /\ Cardinality(Views!WithStatus(R, "PAID")) \in Nat
           /\ Cardinality(Views!WithStatus(R, "PARTIALLY_PAID")) \in Nat
           /\ Cardinality(Views!WithStatus(R, "UNPAID")) \in Nat
           /\ Cardinality(R) = Cardinality(Views!WithStatus(R, "PAID"))
                                + Cardinality(Views!WithStatus(R, "PARTIALLY_PAID"))
                                + Cardinality(Views!WithStatus(R, "UNPAID"))
<1> DEFINE P == Views!WithStatus(R, "PAID")
           H == Views!WithStatus(R, "PARTIALLY_PAID")
           U == Views!WithStatus(R, "UNPAID")
<1>1. IsFiniteSet(R) /\ R \subseteq Views!Issued
    BY SlotsAreFew, FS_Subset DEF Views!Standing, Views!Issued
<1>2. P \subseteq R /\ H \subseteq R /\ U \subseteq R
    BY DEF Views!WithStatus
<1>3. IsFiniteSet(P) /\ IsFiniteSet(H) /\ IsFiniteSet(U)
    BY <1>1, <1>2, FS_Subset
<1>4. P \cap H = {} /\ (P \cup H) \cap U = {}
    BY DEF Views!WithStatus
<1>5. R = (P \cup H) \cup U
    <2>1. \A b \in R : bill[b].status \in {"UNPAID", "PARTIALLY_PAID", "PAID"}
        BY <1>1, RowOf DEF Views!Standing
    <2> QED BY <2>1 DEF Views!WithStatus
<1> HIDE DEF P, H, U
<1>6. IsFiniteSet(P \cup H) /\ Cardinality(P) \in Nat /\ Cardinality(H) \in Nat
      /\ Cardinality(P \cup H) = Cardinality(P) + Cardinality(H)
    BY <1>3, <1>4, CountOfDisjoint
<1>7. Cardinality(U) \in Nat /\ Cardinality((P \cup H) \cup U) = Cardinality(P \cup H) + Cardinality(U)
    BY <1>3, <1>4, <1>6, CountOfDisjoint
<1> QED BY <1>5, <1>6, <1>7 DEF P, H, U

\* The segments count every challan once, and carve the late ones out of the unsettled.
LEMMA SegmentsAddUp ==
    ASSUME Views!ViewsAssumption, ViewsInvariant, NEW q \in Views!Filter
    PROVE  /\ Views!Breakdown(q).paid + Views!Breakdown(q).partial + Views!Breakdown(q).unpaid
                + Views!Breakdown(q).overdue = Views!Summary(q).count
           /\ Views!Breakdown(q).overdue = Views!Summary(q).late
<1> DEFINE R == Views!Where(q)
           L == Views!LateIn(R)
<1>1. R \subseteq Views!Standing /\ L \subseteq R
    BY DEF Views!Where, Views!LateIn
<1>2. Views!WithStatus(L, "PAID") = {}
    BY DEF Views!WithStatus, Views!LateIn, Views!Unsettled
<1>3. Views!Breakdown(q) =
        [paid |-> Cardinality(Views!WithStatus(R, "PAID")),
         partial |-> Cardinality(Views!WithStatus(R, "PARTIALLY_PAID")) - Cardinality(Views!WithStatus(L, "PARTIALLY_PAID")),
         unpaid |-> Cardinality(Views!WithStatus(R, "UNPAID")) - Cardinality(Views!WithStatus(L, "UNPAID")),
         overdue |-> Cardinality(Views!WithStatus(L, "UNPAID")) + Cardinality(Views!WithStatus(L, "PARTIALLY_PAID"))]
    BY ViewsSums DEF Views!Breakdown
<1>4. Views!Summary(q).count = Cardinality(R) /\ Views!Summary(q).late = Cardinality(L)
    BY ViewsSums DEF Views!Summary
<1> HIDE DEF R, L
<1>5. /\ Cardinality(Views!WithStatus(R, "PAID")) \in Nat
      /\ Cardinality(Views!WithStatus(R, "PARTIALLY_PAID")) \in Nat
      /\ Cardinality(Views!WithStatus(R, "UNPAID")) \in Nat
      /\ Cardinality(R) = Cardinality(Views!WithStatus(R, "PAID"))
                            + Cardinality(Views!WithStatus(R, "PARTIALLY_PAID"))
                            + Cardinality(Views!WithStatus(R, "UNPAID"))
    BY <1>1, StatusesAddUp
<1>6. /\ Cardinality(Views!WithStatus(L, "PARTIALLY_PAID")) \in Nat
      /\ Cardinality(Views!WithStatus(L, "UNPAID")) \in Nat
      /\ Cardinality(L) = Cardinality(Views!WithStatus(L, "PAID"))
                            + Cardinality(Views!WithStatus(L, "PARTIALLY_PAID"))
                            + Cardinality(Views!WithStatus(L, "UNPAID"))
    BY <1>1, StatusesAddUp
<1>7. Cardinality({}) = 0
    BY FS_EmptySet
<1>8. Cardinality(Views!WithStatus(L, "PAID")) = 0
    BY <1>2, <1>7
<1>9. /\ Views!Breakdown(q).paid = Cardinality(Views!WithStatus(R, "PAID"))
      /\ Views!Breakdown(q).partial
            = Cardinality(Views!WithStatus(R, "PARTIALLY_PAID")) - Cardinality(Views!WithStatus(L, "PARTIALLY_PAID"))
      /\ Views!Breakdown(q).unpaid
            = Cardinality(Views!WithStatus(R, "UNPAID")) - Cardinality(Views!WithStatus(L, "UNPAID"))
      /\ Views!Breakdown(q).overdue
            = Cardinality(Views!WithStatus(L, "UNPAID")) + Cardinality(Views!WithStatus(L, "PARTIALLY_PAID"))
    BY <1>3
<1> QED BY <1>4, <1>5, <1>6, <1>8, <1>9

\* Part of the challans owes no more than all of them.
LEMMA PartOwesLess ==
    ASSUME Views!ViewsAssumption, ViewsInvariant,
           NEW R \in SUBSET Views!Issued, NEW S \in SUBSET R
    PROVE  Views!Balances(S) <= Views!Balances(R)
<1>1. S \subseteq Views!Issued /\ R \ S \subseteq Views!Issued /\ R = S \cup (R \ S)
      /\ S \cap (R \ S) = {}
    OBVIOUS
<1>2. /\ IsFiniteSet(S) /\ IsFiniteSet(R \ S)
      /\ Views!Balances(R) = Total(R, OwedOf) /\ Views!Balances(S) = Total(S, OwedOf)
      /\ Views!Balances(R \ S) = Total(R \ S, OwedOf)
      /\ Views!Balances(S) \in Nat /\ Views!Balances(R \ S) \in Nat
    BY <1>1, BooksOf
<1>3. \A b \in R : OwedOf[b] \in Nat
    BY RowOf DEF OwedOf
<1>4. Total(S \cup (R \ S), OwedOf) = Total(S, OwedOf) + Total(R \ S, OwedOf)
    BY <1>1, <1>2, <1>3, TotalOfDisjoint
<1>5. Views!Balances(R) = Views!Balances(S) + Views!Balances(R \ S)
    BY <1>1, <1>2, <1>4
<1> QED BY <1>2, <1>5

LEMMA OverdueIsOwed ==
    ASSUME Views!ViewsAssumption, ViewsInvariant, NEW q \in Views!Filter
    PROVE  Views!Summary(q).overdue <= Views!Summary(q).pending
<1> DEFINE R == Views!Where(q)
           L == Views!LateIn(R)
<1>1. R \subseteq Views!Issued /\ L \subseteq R /\ L \subseteq Views!Issued
    BY DEF Views!Where, Views!LateIn, Views!Standing
<1>2. /\ Views!Summary(q).pending = Views!Floor(Views!Nets(R), Views!Payments(R))
      /\ Views!Summary(q).overdue = Views!Floor(Views!Nets(L), Views!Payments(L))
    BY DEF Views!Summary
<1> HIDE DEF R, L
<1>3. /\ Views!Floor(Views!Nets(R), Views!Payments(R)) = Views!Balances(R)
      /\ Views!Floor(Views!Nets(L), Views!Payments(L)) = Views!Balances(L)
    BY <1>1, BooksOf
<1> QED BY <1>1, <1>2, <1>3, PartOwesLess

\* What is billed, class by class or day by day or month by month, is what is billed.
LEMMA NetsByKey ==
    ASSUME Views!ViewsAssumption, ViewsInvariant, NEW R \in SUBSET Views!Issued, NEW key
    PROVE  Views!SumOver([k \in {key[b] : b \in R} |-> Views!Nets({b \in R : key[b] = k})]) = Views!Nets(R)
<1> DEFINE K == {key[b] : b \in R}
           f == [k \in K |-> Views!Nets({b \in R : key[b] = k})]
<1>1. IsFiniteSet(R) /\ Views!Nets(R) = Total(R, NetOf)
    BY BooksOf
<1>2. \A b \in R : NetOf[b] \in Nat
    BY RowOf DEF NetOf
<1>3. \A b \in R : key[b] \in K
    OBVIOUS
<1>4. ASSUME NEW k \in K PROVE Views!Nets({b \in R : key[b] = k}) = Total({b \in R : key[b] = k}, NetOf)
    <2>1. {b \in R : key[b] = k} \in SUBSET Views!Issued
        OBVIOUS
    <2> QED BY <2>1, BooksOf
<1>5. f = [k \in K |-> Total({b \in R : key[b] = k}, NetOf)]
    BY <1>4
<1>6. DOMAIN f = K
    OBVIOUS
<1> HIDE DEF K
<1>7. Total(K, [k \in K |-> Total({b \in R : key[b] = k}, NetOf)]) = Total(R, NetOf)
    BY <1>1, <1>2, <1>3, GroupsAddUp
<1> HIDE DEF f
<1>8. Views!SumOver(f) = Total(K, f)
    BY <1>6, ViewsSums DEF Views!SumOver
<1> QED BY <1>1, <1>5, <1>7, <1>8 DEF f, K

LEMMA ClassesAddUp ==
    ASSUME Views!ViewsAssumption, ViewsInvariant, NEW q \in Views!Filter
    PROVE  Views!SumOver([c \in DOMAIN Views!ByClass(q) |-> Views!ByClass(q)[c].expected]) = Views!Summary(q).expected
<1> DEFINE R == Views!Where(q)
           key == [b \in Views!Slot |-> ClassOf[bill[b].section]]
           e == [c \in DOMAIN Views!ByClass(q) |-> Views!ByClass(q)[c].expected]
<1>1. R \in SUBSET Views!Issued
    BY DEF Views!Where, Views!Standing
<1>2. Views!Summary(q).expected = Views!Nets(R)
    BY DEF Views!Summary
<1>3. \A b \in R : key[b] = ClassOf[bill[b].section]
    BY <1>1, RowOf
<1>4. /\ {key[b] : b \in R} = {ClassOf[bill[b].section] : b \in R}
      /\ \A c : {b \in R : key[b] = c} = {b \in R : ClassOf[bill[b].section] = c}
    <2> HIDE DEF R, key
    <2> QED BY <1>3
<1>5. e = [c \in {ClassOf[bill[b].section] : b \in R} |-> Views!Nets({b \in R : ClassOf[bill[b].section] = c})]
    BY DEF Views!ByClass
<1> HIDE DEF R, key, e
<1>6. Views!SumOver([c \in {key[b] : b \in R} |-> Views!Nets({b \in R : key[b] = c})]) = Views!Nets(R)
    BY <1>1, NetsByKey
<1>7. e = [c \in {key[b] : b \in R} |-> Views!Nets({b \in R : key[b] = c})]
    BY <1>4, <1>5
<1>8. Views!SumOver(e) = Views!Nets(R)
    BY <1>6, <1>7
<1> QED BY <1>2, <1>8 DEF e

LEMMA ChartAddsUp ==
    ASSUME Views!ViewsAssumption, ViewsInvariant, NEW q \in Views!Filter,
           Views!HasWindow(q) \/ q.periods = Views!Period
    PROVE  Views!SumOver(Views!Trend(q)) = Views!Summary(q).expected
<1> DEFINE R == Views!Where(q)
<1>1. R \in SUBSET Views!Issued
    BY DEF Views!Where, Views!Standing
<1>2. Views!Summary(q).expected = Views!Nets(R)
    BY DEF Views!Summary
<1>3. CASE Views!HasWindow(q)
    <2> DEFINE key == [b \in Views!Slot |-> bill[b].issued]
    <2>1. Views!TrendRows(q) = R
        BY <1>3 DEF Views!TrendRows, Views!Where, Views!Standing
    <2>2. \A b \in R : key[b] = bill[b].issued
        BY <1>1, RowOf
    <2>3. /\ {key[b] : b \in R} = {bill[b].issued : b \in R}
          /\ \A d : {b \in R : key[b] = d} = {b \in R : bill[b].issued = d}
        BY <2>2
    <2>4. Views!Trend(q) = [d \in {bill[b].issued : b \in R} |-> Views!Nets({b \in R : bill[b].issued = d})]
        BY <1>3, <2>1 DEF Views!Trend
    <2> HIDE DEF R, key
    <2>5. Views!SumOver([d \in {key[b] : b \in R} |-> Views!Nets({b \in R : key[b] = d})]) = Views!Nets(R)
        BY <1>1, NetsByKey
    <2> QED BY <1>2, <2>3, <2>4, <2>5
<1>4. CASE ~Views!HasWindow(q)
    <2> DEFINE key == [b \in Views!Slot |-> Views!PeriodOf(b)]
    <2>1. [q EXCEPT !.periods = Views!Period] = q
        BY <1>4 DEF Views!Filter
    <2>2. \A b \in R : key[b] = Views!PeriodOf(b)
        BY <1>1, RowOf
    <2>3. /\ {key[b] : b \in R} = {Views!PeriodOf(b) : b \in R}
          /\ \A p : {b \in R : key[b] = p} = {b \in R : Views!PeriodOf(b) = p}
        BY <2>2
    <2>4. Views!Trend(q) = [p \in {Views!PeriodOf(b) : b \in R} |-> Views!Nets({b \in R : Views!PeriodOf(b) = p})]
        BY <1>4, <2>1 DEF Views!Trend
    <2> HIDE DEF R, key
    <2>5. Views!SumOver([p \in {key[b] : b \in R} |-> Views!Nets({b \in R : key[b] = p})]) = Views!Nets(R)
        BY <1>1, NetsByKey
    <2> QED BY <1>2, <2>3, <2>4, <2>5
<1> QED BY <1>3, <1>4

\* What students owe each adds up to what is owed.
LEMMA StudentsAddUp ==
    ASSUME Views!ViewsAssumption, ViewsInvariant, NEW R \in SUBSET Views!Issued,
           NEW K, {Views!StudentOf(b) : b \in R} \subseteq K
    PROVE  Total(K, [s \in K |-> Views!Balances({b \in R : Views!StudentOf(b) = s})]) = Views!Balances(R)
<1> DEFINE own == [s \in K |-> {b \in R : Views!StudentOf(b) = s}]
<1>1. UNION {own[s] : s \in K} = R
    OBVIOUS
<1>2. \A s, m \in K : s # m => own[s] \cap own[m] = {}
    OBVIOUS
<1>3. \A s \in K : own[s] = {b \in R : Views!StudentOf(b) = s} /\ own[s] \in SUBSET Views!Issued
    OBVIOUS
<1>4. IsFiniteSet(R) /\ \A b \in R : OwedOf[b] \in Nat
    BY BooksOf, RowOf DEF OwedOf
<1> HIDE DEF own
<1>5. Total(K, [s \in K |-> Total(own[s], OwedOf)]) = Total(R, OwedOf)
    BY <1>1, <1>2, <1>4, TotalsAddUp
<1>6. \A s \in K : Views!Balances(own[s]) = Total(own[s], OwedOf)
    BY <1>3, BooksOf
<1>7. [s \in K |-> Views!Balances({b \in R : Views!StudentOf(b) = s})] = [s \in K |-> Total(own[s], OwedOf)]
    BY <1>3, <1>6
<1> QED BY <1>5, <1>7, BooksOf

\* Nothing is owed of a challan that is paid, so who owes owes everything.
LEMMA OwedAddsUp ==
    ASSUME Views!ViewsAssumption, ViewsInvariant, NEW q \in Views!Filter
    PROVE  Views!SumOver(Views!Outstanding(q)) = Views!Summary(q).pending
<1> DEFINE R == Views!Where(q)
           open == {b \in R : bill[b].status \in Views!Unsettled}
           own(s) == {b \in open : Views!StudentOf(b) = s}
           w == [s \in Child |-> Views!Balances(own(s))]
           debtors == {s \in Child : w[s] > 0}
<1>1. R \subseteq Views!Standing /\ R \subseteq Views!Issued /\ open \subseteq R /\ open \subseteq Views!Issued
    BY DEF Views!Where, Views!Standing
<1>2. Views!Summary(q).pending = Total(R, OwedOf)
    <2>1. Views!Summary(q).pending = Views!Floor(Views!Nets(R), Views!Payments(R))
        BY DEF Views!Summary
    <2> HIDE DEF R
    <2> QED BY <1>1, <2>1, BooksOf
<1>3. Total(open, OwedOf) = Total(R, OwedOf)
    <2>1. ASSUME NEW b \in R \ open PROVE OwedOf[b] = 0
        <3>1. b \in Views!Issued /\ bill[b].status # "CANCELLED" /\ bill[b].status \notin Views!Unsettled
            BY <1>1 DEF Views!Standing
        <3>2. bill[b].status = "PAID"
            BY <3>1, RowOf DEF Views!Unsettled
        <3> QED BY <3>1, <3>2, RowOf DEF OwedOf
    <2> QED BY <1>1, <2>1, TotalOfSome
<1>4. ASSUME NEW s \in Child
      PROVE  /\ Views!Floor(Views!Nets(own(s)), Views!Payments(own(s))) = w[s]
             /\ w[s] \in Nat
    <2> DEFINE mine == own(s)
    <2>1. mine \in SUBSET Views!Issued
        BY <1>1
    <2>2. w[s] = Views!Balances(mine)
        OBVIOUS
    <2> HIDE DEF mine, w
    <2>3. Views!Floor(Views!Nets(mine), Views!Payments(mine)) = Views!Balances(mine)
          /\ Views!Balances(mine) \in Nat
        BY <2>1, BooksOf
    <2> QED BY <2>2, <2>3 DEF mine
<1>5. Views!Outstanding(q) = [s \in {s \in Child : Views!Floor(Views!Nets(own(s)), Views!Payments(own(s))) > 0} |->
                                Views!Floor(Views!Nets(own(s)), Views!Payments(own(s)))]
    BY DEF Views!Outstanding
<1>6. Views!Outstanding(q) = [s \in debtors |-> w[s]]
    BY <1>4, <1>5
<1>7. {Views!StudentOf(b) : b \in open} \subseteq Child
    BY <1>1 DEF Views!Issued, Views!Slot, Views!StudentOf
<1>8. Total(Child, w) = Total(open, OwedOf)
    <2> HIDE DEF open
    <2>1. Total(Child, w) = Views!Balances(open)
        BY <1>1, <1>7, StudentsAddUp
    <2> QED BY <1>1, <2>1, BooksOf
<1>9. \A s \in Child \ debtors : w[s] = 0
    BY <1>4
<1>10. debtors \subseteq Child /\ DOMAIN [s \in debtors |-> w[s]] = debtors
    OBVIOUS
<1> HIDE DEF w, debtors, own, open, R
<1>11. Total(debtors, w) = Total(Child, w)
    BY <1>9, <1>10, TotalOfSome
<1>12. Total(debtors, [s \in debtors |-> w[s]]) = Total(debtors, w)
    BY TotalOfSame
<1>13. Views!SumOver(Views!Outstanding(q)) = Total(debtors, [s \in debtors |-> w[s]])
    BY <1>6, <1>10, ViewsSums DEF Views!SumOver
<1> QED BY <1>2, <1>3, <1>8, <1>11, <1>12, <1>13

\* What the reports call collected is every receipt that stands, on whatever challan.
LEMMA CollectedIsReceived ==
    ASSUME Views!ViewsAssumption, ViewsInvariant
    PROVE  Views!Summary(Views!Everything).collected = Views!Payments(Views!Issued)
<1>1. ~Views!HasWindow(Views!Everything)
    BY DEF Views!HasWindow, Views!Everything
<1>2. Views!Standing \subseteq Views!Issued
    BY DEF Views!Standing
<1>3. ASSUME NEW b \in Views!Standing
      PROVE  /\ ClassOf[bill[b].section] \in Views!Everything.classes
             /\ bill[b].section \in Views!Everything.sections
             /\ Views!PeriodOf(b) \in Views!Everything.periods
    <2>1. b \in Views!Issued
        BY <1>2
    <2>2. b \in Views!Slot /\ bill[b].section \in Section /\ ClassOf[bill[b].section] \in Class
        BY <2>1, RowOf
    <2> QED BY <2>2 DEF Views!Everything, Views!Slot, Views!PeriodOf
<1>4. Views!Where(Views!Everything) = Views!Standing
    BY <1>1, <1>3 DEF Views!Where
<1>5. Views!Summary(Views!Everything).collected = Views!Payments(Views!Standing)
    BY <1>4 DEF Views!Summary
<1>6. ASSUME NEW b \in Views!Issued \ Views!Standing PROVE PaidOf[b] = 0
    BY RowOf DEF Views!Standing, PaidOf
<1>7. Total(Views!Standing, PaidOf) = Total(Views!Issued, PaidOf)
    BY <1>2, <1>6, TotalOfSome
<1> QED BY <1>2, <1>5, <1>7, BooksOf

\* The fee reports contradict neither each other nor the receipts.
LEMMA ReportsStand ==
    ASSUME Views!ViewsAssumption, ViewsInvariant PROVE Views!ReportsAgree
<1>1. ASSUME NEW q \in Queries PROVE q \in Views!Filter
    BY DEF Views!ViewsAssumption
<1> QED BY <1>1, CollectedIsReceived, SegmentsAddUp, OverdueIsOwed, ClassesAddUp, ChartAddsUp, OwedAddsUp
        DEF Views!ReportsAgree

\* A class is called CREATED only when everybody in it is billed: a challan of the month
\* for each of as many students, and no two for one.
LEMMA CreatedStands ==
    ASSUME Views!ViewsAssumption, ViewsInvariant PROVE Views!CreatedMeansEverybody
<1> SUFFICES ASSUME NEW c \in Class, NEW p \in Views!Period, Views!Coverage(c, p) = "CREATED",
                    \A b \in Views!Standing : Views!PeriodOf(b) = p => bill[b].section = place[Views!StudentOf(b)],
                    NEW s \in Child, ClassOf[place[s]] = c
             PROVE  <<s, p>> \in Views!Standing
    BY DEF Views!CreatedMeansEverybody
<1> DEFINE sections == {x \in Section : ClassOf[x] = c}
           billed == Views!InMonth(p, sections)
           pupils == {m \in Child : place[m] \in sections}
           f == [b \in billed |-> Views!StudentOf(b)]
<1>1. IsFiniteSet(billed) /\ IsFiniteSet(pupils)
    <2>1. billed \subseteq Views!Slot /\ pupils \subseteq Child
        BY DEF Views!InMonth, Views!Standing, Views!Issued
    <2>2. IsFiniteSet(Child)
        BY ViewsSums DEF Views!ViewsAssumption
    <2> QED BY <2>1, <2>2, SlotsAreFew, FS_Subset
<1>2. Cardinality(billed) \in Nat /\ Cardinality(pupils) \in Nat
    BY <1>1, FS_CardinalityType
<1>3. Cardinality(billed) >= Cardinality(pupils)
    <2>1. Views!Coverage(c, p) =
            CASE Cardinality(pupils) = 0 -> "NO_STUDENTS"
              [] Cardinality(pupils) > 0 /\ Cardinality(billed) = 0 -> "NOT_CREATED"
              [] Cardinality(pupils) > 0 /\ Cardinality(billed) >= Cardinality(pupils) -> "CREATED"
              [] Cardinality(billed) > 0 /\ Cardinality(billed) < Cardinality(pupils) -> "PARTIAL"
        BY ViewsSums DEF Views!Coverage
    <2> HIDE DEF billed, pupils
    <2> QED BY <1>2, <2>1
<1>4. ASSUME NEW b \in billed PROVE b = <<f[b], p>> /\ f[b] \in pupils /\ b \in Views!Standing
    <2>1. b \in Views!Standing /\ Views!PeriodOf(b) = p /\ bill[b].section \in sections
        BY DEF Views!InMonth
    <2>2. b \in Views!Slot
        BY <2>1 DEF Views!Standing, Views!Issued
    <2>3. b = <<Views!StudentOf(b), p>> /\ Views!StudentOf(b) \in Child
        BY <2>1, <2>2 DEF Views!Slot, Views!StudentOf, Views!PeriodOf
    <2>4. place[Views!StudentOf(b)] \in sections
        BY <2>1
    <2> QED BY <2>1, <2>3, <2>4
<1>5. f \in Injection(billed, pupils)
    <2>1. f \in [billed -> pupils]
        BY <1>4
    <2>2. \A a, b \in billed : f[a] = f[b] => a = b
        BY <1>4
    <2> HIDE DEF f, billed, pupils
    <2> QED BY <2>1, <2>2 DEF Injection, IsInjective
<1>6. s \in pupils
    <2>1. place[s] \in Section
        BY DEF ViewsInvariant
    <2> QED BY <2>1
<1>7. \E b \in billed : f[b] = s
    <2> HIDE DEF f, billed, pupils
    <2>1. Cardinality(billed) <= Cardinality(pupils)
          /\ (Cardinality(billed) = Cardinality(pupils) <=> f \in Surjection(billed, pupils))
        BY <1>1, <1>5, FS_Injection
    <2>2. f \in Surjection(billed, pupils)
        BY <1>2, <1>3, <2>1
    <2> QED BY <1>6, <2>2 DEF Surjection
<1> QED BY <1>4, <1>7

\* The least of some natural numbers is one of them.
LEMMA LeastIsOne ==
    ASSUME NEW S \in SUBSET Nat, S # {}
    PROVE  Views!Min(S) \in S
<1> DEFINE below == {ss \in Nat \X Nat : ss[1] < ss[2]}
<1>1. IsWellFoundedOn(below, Nat)
    BY NatLessThanWellFounded DEF OpToRel
<1>2. PICK x \in S : \A y \in S : <<y, x>> \notin below
    <2> HIDE DEF below
    <2> QED BY <1>1, WFMin
<1>3. ASSUME NEW y \in S PROVE x <= y
    <2>1. <<y, x>> \in Nat \X Nat /\ <<y, x>> \notin below
        BY <1>2
    <2>2. ~(y < x)
        BY <2>1
    <2> QED BY <2>2
<1> QED BY <1>3 DEF Views!Min

\* A student's own rows, as the pages of the family and of the office select them.
LEMMA OwnRows ==
    ASSUME NEW s PROVE /\ Views!HistoryRows(s) \cap Views!Standing = {b \in Views!Standing : Views!StudentOf(b) = s}
                       /\ Views!HistoryRows(s) \cap Views!Standing \in SUBSET Views!Issued
BY DEF Views!HistoryRows, Views!Standing

\* A parent's statement adds up its children's pages, of the challans they may open.
LEMMA StatementAddsUp ==
    ASSUME Views!ViewsAssumption, ViewsInvariant, NEW g \in Parent, NEW children
    PROVE  /\ Views!Statement(g, children, Views!Period).outstanding
                = Views!SumOver([s \in Views!ChildrenOf(g) \cap children |-> Views!History(s).totals.outstanding])
           /\ Views!StatementRows(g, Child, Views!Period) = {b \in Views!Issued : Views!MayOpen(g, b)}
<1> DEFINE C == Views!ChildrenOf(g) \cap children
           R == Views!StatementRows(g, children, Views!Period) \cap Views!Standing
           own(s) == Views!HistoryRows(s) \cap Views!Standing
           e == [s \in C |-> Views!History(s).totals.outstanding]
<1>1. \A b \in Views!Issued : Views!StudentOf(b) \in Child /\ Views!PeriodOf(b) \in Views!Period
    BY DEF Views!Issued, Views!Slot, Views!StudentOf, Views!PeriodOf
<1>2. R \in SUBSET Views!Issued /\ {Views!StudentOf(b) : b \in R} \subseteq C
    BY DEF Views!StatementRows, Views!Standing
<1>3. ASSUME NEW s \in C
      PROVE  Views!History(s).totals.outstanding = Views!Balances({b \in R : Views!StudentOf(b) = s})
    <2>1. own(s) = {b \in R : Views!StudentOf(b) = s}
        BY <1>1 DEF Views!StatementRows, Views!HistoryRows, Views!Standing
    <2> QED BY <2>1 DEF Views!History, Views!Totals
<1>4. e = [s \in C |-> Views!Balances({b \in R : Views!StudentOf(b) = s})]
    BY <1>3
<1>5. Views!Statement(g, children, Views!Period).outstanding = Views!Balances(R)
    BY DEF Views!Statement, Views!Totals
<1>6. DOMAIN e = C
    OBVIOUS
<1>7. Views!StatementRows(g, Child, Views!Period) = {b \in Views!Issued : Views!MayOpen(g, b)}
    BY <1>1 DEF Views!StatementRows, Views!ChildrenOf, Views!MayOpen
<1> HIDE DEF R, C, e
<1>8. Total(C, e) = Views!Balances(R)
    BY <1>2, <1>4, StudentsAddUp
<1>9. Views!SumOver(e) = Total(C, e)
    BY <1>6, ViewsSums DEF Views!SumOver
<1> QED BY <1>5, <1>7, <1>8, <1>9 DEF e, C

\* The family's page, the badge and the printed challans of a student: one debt.
LEMMA PageAgrees ==
    ASSUME Views!ViewsAssumption, ViewsInvariant, NEW s \in Child
    PROVE  /\ Views!Badge(s).outstanding = Views!History(s).totals.outstanding
           /\ Views!Badge(s).status = {"OVERDUE"} <=> Views!History(s).overdue > 0
           /\ Views!History(s).overdue = Views!Cardinality({b \in Views!ListOverdue : Views!StudentOf(b) = s})
           /\ Views!Badge(s).status \subseteq {"PAID", "NO_CHALLANS"} <=> Views!History(s).nextDue = 0
           /\ Views!Balances({b \in Views!Printed \cap Views!Standing : Views!StudentOf(b) = s})
                = Views!History(s).totals.outstanding
<1> DEFINE own == {b \in Views!Standing : Views!StudentOf(b) = s}
           late == {b \in own : Views!IsOverdue(b)}
           owed == {b \in own : Views!Balance(b) > 0}
           dues == {bill[b].due : b \in owed}
           shown == {b \in Views!Printed \cap Views!Standing : Views!StudentOf(b) = s}
           status == CASE own = {} -> {"NO_CHALLANS"}
                       [] \E b \in own : Views!IsOverdue(b) -> {"OVERDUE"}
                       [] own # {} /\ \A b \in own : ~Views!IsOverdue(b) ->
                            IF \A b \in own : bill[b].status = "PAID" THEN {"PAID"}
                            ELSE {bill[b].status : b \in own} \ {"PAID"}
<1>1. own \in SUBSET Views!Issued /\ Views!HistoryRows(s) \cap Views!Standing = own
    BY OwnRows DEF Views!Standing
<1>2. /\ Views!History(s).totals.outstanding = Views!Balances(own)
      /\ Views!History(s).nextDue = IF owed = {} THEN 0 ELSE Views!Min(dues)
      /\ Views!History(s).overdue = Cardinality(late)
    BY <1>1, ViewsSums DEF Views!History, Views!Totals
<1>3. Views!Badge(s).outstanding = Views!Balances(own) /\ Views!Badge(s).status = status
    BY DEF Views!Badge
<1>4. ASSUME NEW b \in own
      PROVE  /\ bill[b].status \in {"UNPAID", "PARTIALLY_PAID", "PAID"}
             /\ bill[b].due \in Nat /\ bill[b].due > 0
             /\ bill[b].status = "PAID" <=> ~(Views!Balance(b) > 0)
             /\ bill[b].status = "PAID" => OwedOf[b] = 0
             /\ Views!IsOverdue(b) <=> bill[b].due < day /\ bill[b].status \in Views!Unsettled
    <2>1. b \in Views!Issued /\ bill[b].status # "CANCELLED"
        BY DEF Views!Standing
    <2>2. bill[b].status \in {"UNPAID", "PARTIALLY_PAID", "PAID"}
        BY <2>1, RowOf
    <2>3. b \in Views!Slot /\ bill[b].due \in Nat /\ bill[b].due > 0
        BY <2>1, RowOf
    <2>4. /\ bill[b].status = "PAID" => Views!Balance(b) = 0
          /\ bill[b].status \in {"UNPAID", "PARTIALLY_PAID"} => Views!Balance(b) > 0
        BY <2>1, RowOf
    <2>5. bill[b].status = "PAID" => OwedOf[b] = 0
        BY <2>3, <2>4 DEF OwedOf
    <2> QED BY <2>1, <2>2, <2>3, <2>4, <2>5 DEF Views!IsOverdue, Views!Unsettled
<1>5. late = {b \in Views!ListOverdue : Views!StudentOf(b) = s}
    <2>1. ASSUME NEW b \in Views!ListOverdue, Views!StudentOf(b) = s PROVE b \in own
        BY <2>1 DEF Views!ListOverdue, Views!Standing, Views!Unsettled
    <2>2. ASSUME NEW b \in own PROVE b \in late <=> b \in Views!ListOverdue
        BY <1>1, <1>4 DEF Views!ListOverdue
    <2> QED BY <2>1, <2>2
<1>6. IsFiniteSet(own) /\ IsFiniteSet(late)
    BY <1>1, BooksOf, FS_Subset
<1>7. Cardinality(late) > 0 <=> late # {}
    BY <1>6, FS_EmptySet, FS_CardinalityType
<1>8. status = {"OVERDUE"} <=> late # {}
    <2>1. late # {} <=> \E b \in own : Views!IsOverdue(b)
        OBVIOUS
    <2> HIDE DEF own, late
    <2>2. CASE own = {}
        BY <2>1, <2>2
    <2>3. CASE \E b \in own : Views!IsOverdue(b)
        BY <2>1, <2>3
    <2>4. CASE own # {} /\ \A b \in own : ~Views!IsOverdue(b)
        BY <1>4, <2>1, <2>4
    <2> QED BY <2>2, <2>3, <2>4
<1>9. Views!History(s).nextDue = 0 <=> owed = {}
    <2>1. \A d \in dues : d \in Nat /\ d > 0
        BY <1>4
    <2>2. owed # {} => dues # {}
        OBVIOUS
    <2> HIDE DEF dues, owed
    <2>3. dues # {} => Views!Min(dues) \in dues
        BY <2>1, LeastIsOne
    <2> QED BY <1>2, <2>1, <2>2, <2>3
<1>10. status \subseteq {"PAID", "NO_CHALLANS"} <=> owed = {}
    <2>1. owed = {} <=> \A b \in own : bill[b].status = "PAID"
        BY <1>4
    <2>2. ASSUME NEW b \in own, Views!IsOverdue(b) PROVE owed # {}
        BY <1>4, <2>2 DEF Views!Unsettled
    <2> HIDE DEF own, owed
    <2>3. CASE own = {}
        BY <2>1, <2>3
    <2>4. CASE \E b \in own : Views!IsOverdue(b)
        BY <2>2, <2>4
    <2>5. CASE own # {} /\ \A b \in own : ~Views!IsOverdue(b)
        BY <1>4, <2>1, <2>5
    <2> QED BY <2>3, <2>4, <2>5
<1>11. Views!Balances(shown) = Views!Balances(own)
    <2>1. shown \subseteq own
        OBVIOUS
    <2>2. ASSUME NEW b \in own \ shown PROVE OwedOf[b] = 0
        BY <1>1, <1>4 DEF Views!Printed, Views!WithStatus
    <2> HIDE DEF shown, own
    <2>3. Total(shown, OwedOf) = Total(own, OwedOf)
        BY <2>1, <2>2, TotalOfSome
    <2> QED BY <1>1, <2>1, <2>3, BooksOf
<1> HIDE DEF own, late, owed, dues, shown, status
<1> QED BY <1>2, <1>3, <1>5, <1>7, <1>8, <1>9, <1>10, <1>11, ViewsSums DEF late, shown

\* The family, the office and the reports read one debt.
LEMMA DebtStands ==
    ASSUME Views!ViewsAssumption, ViewsInvariant PROVE Views!OneDebt
BY StatementAddsUp, PageAgrees DEF Views!OneDebt

LEMMA ViewsStart ==
    ASSUME Views!Init PROVE ViewsInvariant
BY DEF Views!Init, ViewsInvariant, Views!Issued

\* A row of the ledger is in order, and so is no challan.
InOrder(r) == r \in Views!Row \cup {None} /\ (r # None => RowInOrder(r))

LEMMA SlotsInOrder ==
    ASSUME ViewsInvariant, NEW b \in Views!Slot
    PROVE  InOrder(bill[b])
BY DEF ViewsInvariant, InOrder, Views!Issued

LEMMA InOrderSuffices ==
    ASSUME place' \in [Child -> Section], day' \in Nat \ {0},
           NEW f, bill' = [b \in Views!Slot |-> f[b]], \A b \in Views!Slot : InOrder(f[b])
    PROVE  ViewsInvariant'
<1>1. \A b \in Views!Slot : bill'[b] = f[b]
    OBVIOUS
<1>2. bill' \in [Views!Slot -> Views!Row \cup {None}]
    BY DEF InOrder
<1>3. ASSUME NEW b \in Views!Slot, bill'[b] # None PROVE RowInOrder(bill'[b])
    BY <1>1, <1>3 DEF InOrder
<1> QED BY <1>2, <1>3 DEF ViewsInvariant, Views!Issued

\* A new challan is in order: what it carries was never paid on.
LEMMA NewBillInOrder ==
    ASSUME Views!ViewsAssumption, ViewsInvariant, NEW s \in Child, NEW p \in Views!Period
    PROVE  InOrder(Views!NewBill(s, p))
<1> DEFINE C == Views!Carried(s, p)
           net == MonthCharge + Views!Nets(C) - Views!Payments(C)
           r == Views!NewBill(s, p)
<1>1. C \in SUBSET Views!Issued
    BY DEF Views!Carried
<1>2. net \in Nat
    <2> HIDE DEF C
    <2> QED BY <1>1, BooksOf DEF Views!ViewsAssumption
<1>3. r = [section |-> place[s], net |-> net, paid |-> 0, status |-> Views!StatusFor(net, 0),
           issued |-> day, due |-> day + DueIn, into |-> 0]
    BY DEF Views!NewBill
<1> HIDE DEF C, net, r
<1>4. Views!StatusFor(net, 0) \in {"PAID", "UNPAID"}
    BY <1>2 DEF Views!StatusFor
<1>5. place[s] \in Section /\ day \in Nat \ {0} /\ day + DueIn \in Nat /\ day + DueIn > 0
    BY DEF ViewsInvariant, Views!ViewsAssumption
<1>6. r \in Views!Row
    BY <1>2, <1>3, <1>4, <1>5 DEF Views!Row, Views!Unsettled
<1>7. RowInOrder(r)
    BY <1>2, <1>3, <1>4, <1>5 DEF RowInOrder
<1> QED BY <1>6, <1>7 DEF InOrder, r

\* A standing challan whose paid amount and status change together stays in order, one
\* that nothing was paid on may be cancelled, be it carried or not, and one that is carried
\* may be opened again.
LEMMA PaidInOrder ==
    ASSUME Views!ViewsAssumption, NEW r \in Views!Row, RowInOrder(r), NEW paid \in 0..r.net,
           r.status # "CANCELLED"
    PROVE  InOrder([r EXCEPT !.paid = paid, !.status = Views!StatusFor(r.net, paid)])
<1> DEFINE m == [r EXCEPT !.paid = paid, !.status = Views!StatusFor(r.net, paid)]
<1>1. r.net \in Nat /\ paid \in Nat /\ paid <= r.net
    BY DEF Views!Row
<1>2. Views!StatusFor(r.net, paid) \in {"PAID", "PARTIALLY_PAID", "UNPAID"}
    BY <1>1 DEF Views!StatusFor
<1>3. m \in Views!Row
    BY <1>1, <1>2 DEF Views!Row, Views!Unsettled
<1>4. m.paid = paid /\ m.net = r.net /\ m.due = r.due /\ m.into = 0 /\ m.status = Views!StatusFor(r.net, paid)
    BY DEF Views!Row, RowInOrder
<1>5. RowInOrder(m)
    <2> HIDE DEF m
    <2> QED BY <1>1, <1>2, <1>4 DEF RowInOrder
<1> QED BY <1>3, <1>5 DEF InOrder

LEMMA CancelledInOrder ==
    ASSUME NEW r \in Views!Row, RowInOrder(r), r.paid = 0
    PROVE  InOrder([r EXCEPT !.status = "CANCELLED"])
BY DEF Views!Row, Views!Unsettled, RowInOrder, InOrder

LEMMA CarriedInOrder ==
    ASSUME Views!ViewsAssumption, NEW r \in Views!Row, RowInOrder(r),
           r.status = "UNPAID", r.paid = 0, NEW p \in Views!Period
    PROVE  InOrder([r EXCEPT !.status = "CANCELLED", !.into = p])
<1> DEFINE m == [r EXCEPT !.status = "CANCELLED", !.into = p]
<1>1. r.net \in Nat /\ p \in Nat /\ r.net > 0
    BY DEF Views!Row, RowInOrder, Views!StatusFor, Views!Period, Views!ViewsAssumption
<1>2. m \in Views!Row
    BY <1>1 DEF Views!Row, Views!Unsettled
<1>3. m.paid = r.paid /\ m.net = r.net /\ m.due = r.due /\ m.status = "CANCELLED"
    BY DEF Views!Row
<1>4. RowInOrder(m)
    <2> HIDE DEF m
    <2> QED BY <1>1, <1>3 DEF RowInOrder
<1> QED BY <1>2, <1>4 DEF InOrder

LEMMA ReopenedInOrder ==
    ASSUME NEW r \in Views!Row, RowInOrder(r), r.into # 0
    PROVE  InOrder([r EXCEPT !.status = "UNPAID", !.into = 0])
<1> DEFINE m == [r EXCEPT !.status = "UNPAID", !.into = 0]
<1>1. r.net \in Nat /\ r.net > 0 /\ r.paid = 0
    BY DEF Views!Row, RowInOrder
<1>2. m \in Views!Row
    BY <1>1 DEF Views!Row, Views!Unsettled
<1>3. m.paid = 0 /\ m.net = r.net /\ m.due = r.due /\ m.status = "UNPAID" /\ m.into = 0
    BY <1>1 DEF Views!Row
<1>4. RowInOrder(m)
    <2>1. Views!StatusFor(r.net, 0) = "UNPAID"
        BY <1>1 DEF Views!StatusFor
    <2> HIDE DEF m
    <2> QED BY <1>1, <1>3, <2>1 DEF RowInOrder
<1> QED BY <1>2, <1>4 DEF InOrder

LEMMA ViewsNext ==
    ASSUME Views!ViewsAssumption, ViewsInvariant, Views!Next
    PROVE  ViewsInvariant'
<1>1. place \in [Child -> Section] /\ day \in Nat \ {0} /\ bill \in [Views!Slot -> Views!Row \cup {None}]
    BY DEF ViewsInvariant
<1>2. ASSUME NEW b \in Views!Slot, bill[b] # None PROVE bill[b] \in Views!Row /\ RowInOrder(bill[b])
    BY <1>2, SlotsInOrder DEF InOrder
<1>3. ASSUME NEW x \in Section, NEW p \in Views!Period, Views!Issue(x, p) PROVE ViewsInvariant'
    <2> DEFINE roster == {s \in Child : place[s] = x /\ bill[s, p] = None}
               carried == UNION {Views!Carried(s, p) : s \in roster}
               f == [b \in Views!Slot |->
                        IF b \in roster \X {p} THEN Views!NewBill(Views!StudentOf(b), p)
                        ELSE IF b \in carried THEN [bill[b] EXCEPT !.status = "CANCELLED", !.into = p]
                        ELSE bill[b]]
    <2>1. bill' = f /\ place' = place /\ day' = day
        BY <1>3 DEF Views!Issue
    <2>2. ASSUME NEW b \in Views!Slot PROVE InOrder(f[b])
        <3>1. CASE b \in roster \X {p}
            <4>1. Views!StudentOf(b) \in Child
                BY DEF Views!Slot, Views!StudentOf
            <4> QED BY <3>1, <4>1, NewBillInOrder
        <3>2. CASE b \notin roster \X {p} /\ b \in carried
            <4>1. b \in Views!Issued /\ bill[b].paid = 0 /\ bill[b].status = "UNPAID"
                BY <3>2 DEF Views!Carried
            <4>2. bill[b] \in Views!Row /\ RowInOrder(bill[b])
                BY <1>2, <4>1 DEF Views!Issued
            <4> QED BY <3>2, <4>1, <4>2, CarriedInOrder
        <3>3. CASE b \notin roster \X {p} /\ b \notin carried
            BY <3>3, SlotsInOrder
        <3> QED BY <3>1, <3>2, <3>3
    <2>3. f = [b \in Views!Slot |-> f[b]]
        OBVIOUS
    <2> HIDE DEF f
    <2> QED BY <1>1, <2>1, <2>2, <2>3, InOrderSuffices
<1>4. ASSUME NEW b \in Views!Slot, NEW n \in 0..(MonthCharge * Months), Views!SetPaid(b, n) PROVE ViewsInvariant'
    <2> DEFINE m == [bill[b] EXCEPT !.paid = n, !.status = Views!StatusFor(bill[b].net, n)]
               f == [bill EXCEPT ![b] = m]
    <2>1. place' = place /\ day' = day
          /\ bill' = [bill EXCEPT ![b].paid = n, ![b].status = Views!StatusFor(bill[b].net, n)]
        BY <1>4 DEF Views!SetPaid
    <2>2. bill[b] # None /\ bill[b].status # "CANCELLED" /\ n \in 0..bill[b].net
        BY <1>4 DEF Views!SetPaid, Views!Standing, Views!Issued
    <2>3. bill' = f
        BY <1>1, <2>1
    <2>4. InOrder(m)
        BY <1>2, <2>2, PaidInOrder
    <2> HIDE DEF m
    <2>5. \A c \in Views!Slot : InOrder(f[c])
        BY <1>1, <2>4, SlotsInOrder
    <2>6. f = [c \in Views!Slot |-> f[c]]
        BY <1>1
    <2> HIDE DEF f
    <2> QED BY <1>1, <2>1, <2>3, <2>5, <2>6, InOrderSuffices
<1>5. ASSUME NEW b \in Views!Slot, Views!CancelBill(b) PROVE ViewsInvariant'
    <2> DEFINE again == Views!CarriedInto(b)
               f == [c \in Views!Slot |->
                        IF c \in again THEN [bill[c] EXCEPT !.status = "UNPAID", !.into = 0]
                        ELSE IF c = b THEN [bill[c] EXCEPT !.status = "CANCELLED"]
                        ELSE bill[c]]
    <2>1. place' = place /\ day' = day /\ bill' = f
        BY <1>5 DEF Views!CancelBill
    <2>2. bill[b] # None /\ bill[b].paid = 0
        BY <1>5 DEF Views!CancelBill, Views!Standing, Views!Issued
    <2>3. \A c \in again : bill[c] # None /\ bill[c].into # 0
        BY DEF Views!CarriedInto, Views!Issued, Views!Slot, Views!PeriodOf, Views!Period
    <2>4. ASSUME NEW c \in Views!Slot PROVE InOrder(f[c])
        <3> HIDE DEF again
        <3>1. CASE c \in again
            BY <1>2, <2>3, <3>1, ReopenedInOrder
        <3>2. CASE c \notin again /\ c = b
            BY <1>2, <2>2, <3>2, CancelledInOrder
        <3>3. CASE c \notin again /\ c # b
            BY <3>3, SlotsInOrder
        <3> QED BY <3>1, <3>2, <3>3
    <2>5. f = [c \in Views!Slot |-> f[c]]
        OBVIOUS
    <2> HIDE DEF f
    <2> QED BY <1>1, <2>1, <2>4, <2>5, InOrderSuffices
<1>6. ASSUME NEW s \in Child, NEW x \in Section, Views!Move(s, x) PROVE ViewsInvariant'
    BY <1>1, <1>6 DEF Views!Move, ViewsInvariant, Views!Issued
<1>7. ASSUME NEW g \in Parent, NEW s \in Child, Views!Relink(g, s) PROVE ViewsInvariant'
    BY <1>7 DEF Views!Relink, ViewsInvariant, Views!Issued
<1>8. CASE Views!NextDay
    BY <1>8 DEF Views!NextDay, ViewsInvariant, Views!Issued
<1> QED BY <1>3, <1>4, <1>5, <1>6, <1>7, <1>8 DEF Views!Next

\* Whatever is billed, paid, cancelled and moved, the fee reports contradict neither each
\* other nor the receipts, the family, the office and the reports read one debt, and a
\* class is called CREATED only when everybody in it is billed (fee-reports.service.ts;
\* challans.service.ts).
THEOREM FiguresAreOfOneLedger ==
    ASSUME Views!ViewsAssumption
    PROVE  Views!Spec => [](Views!ReportsAgree /\ Views!OneDebt /\ Views!CreatedMeansEverybody)
<1>1. ViewsInvariant => Views!ReportsAgree /\ Views!OneDebt /\ Views!CreatedMeansEverybody
    BY ReportsStand, CreatedStands, DebtStands
<1>2. Views!Init => ViewsInvariant
    BY ViewsStart
<1>3. ViewsInvariant /\ [Views!Next]_(Views!vars) => ViewsInvariant'
    <2>1. CASE UNCHANGED Views!vars
        BY <2>1 DEF Views!vars, ViewsInvariant, Views!Issued
    <2> QED BY <2>1, ViewsNext
<1> QED BY <1>1, <1>2, <1>3, PTL DEF Views!Spec

\* The same of the ledger that is looked at beside the review and the cache.
THEOREM FiguresAlwaysAgree ==
    ASSUME Views!ViewsAssumption PROVE MCSpec => []FiguresAgree
<1> DEFINE Inv == part = "views" => ViewsInvariant
<1>1. Inv => FiguresAgree
    BY ReportsStand, CreatedStands, DebtStands DEF FiguresAgree
<1>2. MCInit => Inv
    BY ViewsStart DEF MCInit, ViewsInit
<1>3. Inv /\ [MCNext]_allVars => Inv'
    <2> SUFFICES ASSUME Inv, [MCNext]_allVars, part' = "views" PROVE ViewsInvariant'
        OBVIOUS
    <2>1. part = "views" /\ ViewsInvariant
        BY DEF MCNext, InReview, InViews, InCache, allVars
    <2>2. CASE UNCHANGED viewVars
        BY <2>1, <2>2 DEF viewVars, ViewsInvariant, Views!Issued
    <2>3. CASE Views!Next
        BY <2>1, <2>3, ViewsNext
    <2> QED BY <2>1, <2>2, <2>3 DEF MCNext, InReview, InViews, InCache, allVars, ViewStep
<1> QED BY <1>1, <1>2, <1>3, PTL DEF MCSpec
=============================================================================
