------------------------------ MODULE Ranking ------------------------------
(***************************************************************************)
(* The sort that ends Server.scoreProducts: every pair i < j is compared   *)
(* once, in order, and exchanged when the later product scores higher.     *)
(* A product is its position in the catalog's answer.  RuleMatching gives  *)
(* the sort its products and scores.                                       *)
(***************************************************************************)
EXTENDS Integers

VARIABLES
  count,   \* len(scored)
  score,   \* the score of each product
  ranked,  \* the product at each position of scored
  i, j,    \* loop variables
  pc

vars == <<count, score, ranked, i, j, pc>>

Positions == 1 .. count

Init ==
  /\ count \in Nat
  /\ score \in [Positions -> Int]
  /\ ranked = [n \in Positions |-> n]
  /\ i = 1 /\ j = 1
  /\ pc = "outer"

At(n) == score[ranked[n]]

\* Mutant: the inner loop skips the next product.
OuterLoop_Skips ==
  /\ pc = "outer"
  /\ IF i <= count
       THEN pc' = "inner" /\ j' = i + 2
       ELSE pc' = "done" /\ j' = j
  /\ UNCHANGED <<count, score, ranked, i>>

OuterLoop ==
  /\ pc = "outer"
  /\ IF i <= count
       THEN pc' = "inner" /\ j' = i + 1
       ELSE pc' = "done" /\ j' = j
  /\ UNCHANGED <<count, score, ranked, i>>

\* Mutant: the first assignment overwrites what the second needs.
Exchanged_Lossy == [ranked EXCEPT ![i] = ranked[j]]

Exchanged == [ranked EXCEPT ![i] = ranked[j], ![j] = ranked[i]]

Compare ==
  /\ pc = "inner" /\ j <= count
  /\ ranked' = IF At(j) > At(i) THEN Exchanged ELSE ranked
  /\ j' = j + 1
  /\ UNCHANGED <<count, score, i, pc>>

EndInner ==
  /\ pc = "inner" /\ j > count
  /\ i' = i + 1
  /\ pc' = "outer"
  /\ UNCHANGED <<count, score, ranked, j>>

Next == OuterLoop \/ Compare \/ EndInner

Spec == Init /\ [][Next]_vars

-----------------------------------------------------------------------------
TypeOK ==
  /\ count \in Nat
  /\ score \in [Positions -> Int]
  /\ ranked \in [Positions -> Positions]
  /\ i \in 1 .. count + 1
  /\ j \in 1 .. count + 1
  /\ pc \in {"outer", "inner", "done"}

\* The products come out by score, highest first, for every number of products
\* and every order the catalog sent them in.
RankedByScore ==
  pc = "done" => \A m, n \in Positions : m < n => At(m) >= At(n)

\* At every step each product of the catalog's answer has exactly one place.
NoProductLost ==
  \A p \in Positions : \E n \in Positions :
    ranked[n] = p /\ \A m \in Positions \ {n} : ranked[m] # p

=============================================================================
