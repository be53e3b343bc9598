--------------------------- MODULE Ranking_proofs ---------------------------
(***************************************************************************)
(* The sort is correct for every number of products.  Positions below i    *)
(* are final: each holds a score no later one exceeds.  Within a pass,     *)
(* position i dominates the positions already compared with it.            *)
(***************************************************************************)
EXTENDS Ranking, TLAPS

Dominates(n, ps) == \A m \in ps : At(n) >= At(m)

\* At the loops, where i and j are.
LoopInv ==
  /\ pc = "inner" => i <= count /\ j > i
  /\ pc = "done" => i = count + 1

\* What a pass has achieved, and those before it.
OrderInv ==
  /\ \A n \in 1 .. i - 1 : Dominates(n, n + 1 .. count)
  /\ pc = "inner" => Dominates(i, i + 1 .. j - 1)

IInv == TypeOK /\ LoopInv /\ OrderInv

-----------------------------------------------------------------------------
LEMMA RankingTypeInit == Init => TypeOK /\ LoopInv
<1> SUFFICES ASSUME Init PROVE TypeOK /\ LoopInv
  OBVIOUS
<1>1. count \in Nat
  BY DEF Init
<1>2. QED
  BY <1>1 DEF Init, TypeOK, LoopInv, Positions

LEMMA RankingTypeNext == TypeOK /\ LoopInv /\ [Next]_vars => TypeOK' /\ LoopInv'
<1> SUFFICES ASSUME TypeOK, LoopInv, [Next]_vars PROVE TypeOK' /\ LoopInv'
  OBVIOUS
<1>1. count \in Nat
  BY DEF TypeOK
<1>2. CASE OuterLoop
  <2>1. CASE i <= count
    <3>1. j' = i + 1 /\ pc' = "inner" /\ UNCHANGED <<count, score, ranked, i>>
      BY <1>2, <2>1 DEF OuterLoop
    <3>2. i' \in 1 .. count + 1 /\ j' \in 1 .. count + 1 /\ LoopInv'
      BY <1>1, <2>1, <3>1 DEF TypeOK, LoopInv
    <3>3. QED
      BY <3>1, <3>2 DEF TypeOK, Positions
  <2>2. CASE ~(i <= count)
    <3>1. pc' = "done" /\ UNCHANGED <<count, score, ranked, i, j>>
      BY <1>2, <2>2 DEF OuterLoop
    <3>2. i' = count' + 1
      BY <1>1, <2>2, <3>1 DEF TypeOK
    <3>3. QED
      BY <3>1, <3>2 DEF TypeOK, LoopInv, Positions
  <2>3. QED
    BY <2>1, <2>2
<1>3. CASE Compare
  <2>1. i \in Positions /\ j \in Positions
    BY <1>1, <1>3 DEF Compare, TypeOK, LoopInv, Positions
  <2>2. ranked' \in [Positions -> Positions]
    BY <1>3, <2>1 DEF Compare, Exchanged, TypeOK
  <2>3. UNCHANGED <<count, score, i, pc>> /\ j' = j + 1 /\ j <= count
    BY <1>3 DEF Compare
  <2>4. j' \in 1 .. count + 1 /\ LoopInv'
    BY <1>1, <2>3 DEF TypeOK, LoopInv
  <2>5. QED
    BY <2>2, <2>3, <2>4 DEF TypeOK, Positions
<1>4. CASE EndInner
  BY <1>1, <1>4 DEF EndInner, TypeOK, LoopInv, Positions
<1>5. CASE UNCHANGED vars
  BY <1>5 DEF vars, TypeOK, LoopInv, Positions
<1>6. QED
  BY <1>2, <1>3, <1>4, <1>5 DEF Next

\* The sort's indices stay within the slice, whatever the catalog returns.
THEOREM RankingTypeCorrect == Spec => []TypeOK
<1>1. Spec => [](TypeOK /\ LoopInv)
  BY RankingTypeInit, RankingTypeNext, PTL DEF Spec
<1>2. QED
  BY <1>1, PTL

-----------------------------------------------------------------------------
LEMMA OrderInit == Init => OrderInv
BY DEF Init, OrderInv

LEMMA ScoresAreInt ==
  ASSUME TypeOK, NEW n \in Positions
  PROVE  At(n) \in Int
BY DEF TypeOK, At

\* Exchanging two positions exchanges their scores and no other.
LEMMA AtAfterCompare ==
  ASSUME TypeOK, LoopInv, Compare, NEW n \in Positions
  PROVE  At(n)' = IF At(j) > At(i)
                    THEN IF n = i THEN At(j) ELSE IF n = j THEN At(i) ELSE At(n)
                    ELSE At(n)
<1>1. count \in Nat
  BY DEF TypeOK
<1>2. i \in Positions /\ j \in Positions
  BY <1>1 DEF Compare, TypeOK, LoopInv, Positions
<1>3. score' = score
  BY DEF Compare
<1>4. CASE At(j) > At(i)
  <2>1. ranked'[n] = IF n = j THEN ranked[i] ELSE IF n = i THEN ranked[j] ELSE ranked[n]
    BY <1>2, <1>4 DEF Compare, Exchanged, TypeOK
  <2>2. i # j
    BY <1>1 DEF LoopInv, Compare, TypeOK
  <2>3. QED
    BY <1>3, <1>4, <2>1, <2>2 DEF At
<1>5. CASE ~(At(j) > At(i))
  BY <1>3, <1>5 DEF Compare, At
<1>6. QED
  BY <1>4, <1>5

LEMMA OrderNext == IInv /\ [Next]_vars => OrderInv'
<1> SUFFICES ASSUME TypeOK, LoopInv, OrderInv, [Next]_vars PROVE OrderInv'
  BY DEF IInv
<1>1. count \in Nat /\ i \in Nat /\ j \in Nat /\ i <= count + 1 /\ j <= count + 1
  BY DEF TypeOK
<1>2. CASE OuterLoop
  BY <1>1, <1>2 DEF OuterLoop, OrderInv, Dominates, At
<1>3. CASE Compare
  <2>1. i \in Positions /\ j \in Positions /\ i < j
    BY <1>1, <1>3 DEF Compare, LoopInv, TypeOK, Positions
  <2>2. UNCHANGED <<count, score, i, pc>> /\ j' = j + 1 /\ pc = "inner"
    BY <1>3 DEF Compare
  <2>3. ASSUME NEW n \in 1 .. i - 1 PROVE Dominates(n, n + 1 .. count)'
    <3>1. n \in Positions /\ n # i /\ n # j
      BY <1>1, <2>1 DEF Positions
    <3>2. At(n)' = At(n)
      BY <1>3, <3>1, AtAfterCompare
    <3>3. \A m \in n + 1 .. count : At(n) >= At(m)
      BY DEF OrderInv, Dominates
    <3>4. i \in n + 1 .. count /\ j \in n + 1 .. count
      BY <1>1, <2>1, <3>1 DEF Positions
    <3>5. ASSUME NEW m \in n + 1 .. count PROVE At(n)' >= At(m)'
      <4>1. m \in Positions
        BY <1>1, <3>1 DEF Positions
      <4>2. At(m)' \in {At(m), At(i), At(j)}
        BY <1>3, <4>1, AtAfterCompare
      <4>3. QED
        BY <3>2, <3>3, <3>4, <4>2
    <3>6. QED
      BY <2>2, <3>5 DEF Dominates, At
  <2>4. ASSUME NEW m \in i + 1 .. j PROVE At(i)' >= At(m)'
    <3>1. m \in Positions /\ m # i
      BY <1>1, <2>1 DEF Positions
    <3>2. At(i) \in Int /\ At(j) \in Int /\ At(m) \in Int
      BY <2>1, <3>1, ScoresAreInt
    <3>3. m = j \/ At(i) >= At(m)
      BY <1>1, <2>1, <2>2 DEF OrderInv, Dominates
    <3>4. At(i)' = IF At(j) > At(i) THEN At(j) ELSE At(i)
      <4>1. PICK n \in Positions : n = i
        BY <2>1
      <4>2. At(n)' = IF At(j) > At(i) THEN At(j) ELSE At(i)
        BY <1>3, <2>1, <4>1, AtAfterCompare
      <4>3. QED
        BY <2>2, <4>1, <4>2 DEF At
    <3>5. At(m)' = IF At(j) > At(i) /\ m = j THEN At(i) ELSE At(m)
      BY <1>3, <3>1, AtAfterCompare
    <3>6. QED
      BY <3>2, <3>3, <3>4, <3>5
  <2>5. Dominates(i, i + 1 .. j - 1)'
    <3>1. i' + 1 .. j' - 1 = i + 1 .. j /\ i' = i
      BY <1>1, <2>2
    <3>2. QED
      BY <2>2, <2>4, <3>1 DEF Dominates, At
  <2>6. QED
    BY <2>2, <2>3, <2>5 DEF OrderInv
<1>4. CASE EndInner
  <2>1. UNCHANGED <<count, score, ranked, j>> /\ i' = i + 1 /\ pc' = "outer"
    BY <1>4 DEF EndInner
  <2>2. j = count + 1
    BY <1>1, <1>4 DEF EndInner
  <2>3. Dominates(i, i + 1 .. count)
    BY <1>1, <1>4, <2>2 DEF EndInner, OrderInv, Dominates
  <2>4. \A n \in 1 .. i : Dominates(n, n + 1 .. count)
    BY <1>1, <2>3 DEF OrderInv
  <2>5. QED
    BY <1>1, <2>1, <2>4 DEF OrderInv, Dominates, At
<1>5. CASE UNCHANGED vars
  BY <1>5 DEF vars, OrderInv, Dominates, At
<1>6. QED
  BY <1>2, <1>3, <1>4, <1>5 DEF Next

LEMMA Ordered == Spec => []IInv
<1>1. Init => IInv
  BY RankingTypeInit, OrderInit DEF IInv
<1>2. IInv /\ [Next]_vars => IInv'
  BY RankingTypeNext, OrderNext DEF IInv
<1>3. QED
  BY <1>1, <1>2, PTL DEF Spec

\* The products come out by score, highest first, for every answer of the
\* catalog.
THEOREM RankingCorrect == Spec => []RankedByScore
<1>1. IInv => RankedByScore
  <2> SUFFICES ASSUME IInv, pc = "done", NEW m \in Positions, NEW n \in Positions, m < n
               PROVE  At(m) >= At(n)
    BY DEF RankedByScore
  <2>1. count \in Nat /\ i = count + 1
    BY DEF IInv, LoopInv, TypeOK
  <2>2. m \in 1 .. i - 1 /\ n \in m + 1 .. count
    BY <2>1 DEF Positions
  <2>3. QED
    BY <2>2 DEF IInv, OrderInv, Dominates
<1>2. QED
  BY <1>1, Ordered, PTL

-----------------------------------------------------------------------------
LEMMA PlacesNext == IInv /\ NoProductLost /\ [Next]_vars => NoProductLost'
<1> SUFFICES ASSUME TypeOK, LoopInv, NoProductLost, [Next]_vars PROVE NoProductLost'
  BY DEF IInv
<1>1. count \in Nat
  BY DEF TypeOK
<1>2. CASE UNCHANGED <<count, ranked>>
  BY <1>2 DEF NoProductLost, Positions
<1>3. CASE Compare /\ At(j) > At(i)
  <2>1. i \in Positions /\ j \in Positions /\ count' = count /\ ranked' = Exchanged
    BY <1>1, <1>3 DEF Compare, LoopInv, TypeOK, Positions
  <2> DEFINE swap(n) == IF n = i THEN j ELSE IF n = j THEN i ELSE n
  <2>2. \A n \in Positions : swap(n) \in Positions /\ ranked'[n] = ranked[swap(n)]
    BY <2>1 DEF Exchanged, TypeOK
  <2>3. SUFFICES ASSUME NEW p \in Positions
                 PROVE  \E n \in Positions : ranked'[n] = p /\ \A m \in Positions \ {n} : ranked'[m] # p
    BY <2>1 DEF NoProductLost, Positions
  <2>4. PICK n \in Positions : ranked[n] = p /\ \A m \in Positions \ {n} : ranked[m] # p
    BY DEF NoProductLost
  <2>5. swap(n) \in Positions /\ ranked'[swap(n)] = p
    BY <2>1, <2>2, <2>4
  <2>6. \A m \in Positions \ {swap(n)} : ranked'[m] # p
    BY <2>1, <2>2, <2>4
  <2>7. QED
    BY <2>5, <2>6
<1>4. QED
  BY <1>2, <1>3 DEF Next, OuterLoop, Compare, EndInner, vars

\* Whatever the exchanges, each product keeps exactly one place.
THEOREM RankingKeepsProducts == Spec => []NoProductLost
<1>1. Init => NoProductLost
  BY DEF Init, NoProductLost
<1>2. QED
  BY <1>1, PlacesNext, Ordered, PTL DEF Spec

=============================================================================
