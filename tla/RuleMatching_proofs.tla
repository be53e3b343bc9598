------------------------ MODULE RuleMatching_proofs ------------------------
(***************************************************************************)
(* Evaluate, the filters, the scores and the ranking are correct for every *)
(* list of rules, every request and every catalog.                         *)
(*                                                                         *)
(* The invariant says how much of its work each loop has done: which rules *)
(* the index holds, which candidates have been matched, what the filters   *)
(* have from the matched rules, and what the sort has achieved.  Sums and  *)
(* bounds over sets are the subject of the first lemmas: induction over    *)
(* finite sets, as the choice of a smallest counterexample.  The last but  *)
(* one section is about the lists and versions the repository returns.     *)
(***************************************************************************)
EXTENDS RuleMatching, RuleRepository, FiniteSetTheorems, SequenceTheorems, TLAPS

Sort == INSTANCE Ranking_proofs WITH count <- Len(scored), pc <- loop,
                                     score <- [n \in DOMAIN scored |-> scored[n].score]

\* The rules buildIndex has been through.
Indexing == IF pc = "index" THEN 1 .. pos - 1 ELSE 1 .. Len(rules)

\* A rule comes twice only if it names a mood twice.
OncePerMood(s) ==
  \A m, n \in DOMAIN s : m # n /\ s[m] = s[n] => ~IsInjective(s[m].mood)

Requested == pc \in {"match", "filters", "fetch", "rank", "answered"}

\* The loops' bounds, and what each part of a request has still to fill.
PhaseInv ==
  /\ rules \in RuleLists \cup {<<>>}
  /\ pos \in Nat \ {0}
  /\ pc \in {"idle", "index", "match", "filters", "fetch", "rank", "answered"}
  /\ pc = "index" => pos <= Len(rules) + 1
  /\ ctx \in Contexts \cup {None}
  /\ Requested => ctx \in Contexts
  /\ pc \in {"index", "match"} => filters = None
  /\ pc \notin {"rank", "answered"} => scored = <<>>

\* A mood's bucket holds the rules indexed so far that belong to it.
IndexInv ==
  /\ index \in [Moods \cup {"*"} -> Seq(ToSet(rules))]
  /\ \A m \in DOMAIN index :
       /\ ToSet(index[m]) = {rules[n] : n \in {k \in Indexing : m \in ToSet(Buckets(rules[k]))}}
       /\ OncePerMood(index[m])

\* The candidates looked at so far are matched if they match.
MatchInv ==
  /\ matched \in Seq(ToSet(rules))
  /\ OncePerMood(matched)
  /\ pc = "match" =>
       /\ pos <= Len(Candidates) + 1
       /\ ToSet(matched) =
            {Candidates[n] : n \in {k \in 1 .. pos - 1 : Matches(Candidates[k], ctx)}}
  /\ Evaluated => ToSet(matched) = {r \in ToSet(Candidates) : Matches(r, ctx)}

\* The filters are those of the matched rules.
Aggregated ==
  /\ filters.tags = UNION {r.actionTags : r \in ToSet(matched)}
  /\ filters.min \in Nat /\ filters.max \in 0 .. Ceiling
  /\ \A r \in Priced :
       /\ filters.min >= r.price.min
       /\ r.price.max > 0 => filters.max <= r.price.max

FilterInv ==
  /\ filters = None \/ Aggregated
  /\ pc \in {"fetch", "rank"} \/ scored # <<>> => Aggregated

\* Every scored product was asked for, and has the score of its rules.
ScoreInv ==
  /\ scored \in Seq(ToSet(scored))
  /\ \A n \in DOMAIN scored :
       /\ scored[n] = Scored(scored[n].product)
       /\ scored[n].product \in Products
       /\ scored[n].product.price \in filters.min .. filters.max
       /\ scored[n].score \in Int

RankInv ==
  /\ Sort!IInv /\ Sort!NoProductLost
  /\ pc = "answered" => scored = <<>> \/ loop = "done"

IInv == PhaseInv /\ IndexInv /\ MatchInv /\ FilterInv /\ ScoreInv /\ RankInv

-----------------------------------------------------------------------------
(***************************************************************************)
(* Numbers, bounds and sums.                                               *)
(***************************************************************************)
LEMMA LeastNatural ==
  ASSUME NEW T \in SUBSET Nat, T # {}
  PROVE  \E x \in T : \A y \in T : x <= y
<1> DEFINE Below == {s \in Nat \X Nat : s[1] < s[2]}
<1>1. IsWellFoundedOn(Below, Nat)
  BY NatLessThanWellFounded DEF OpToRel
<1> HIDE DEF Below
<1>2. PICK x \in T : \A y \in T : ~ (<<y, x>> \in Below)
  BY <1>1, WFMin
<1>3. ASSUME NEW y \in T, y < x PROVE FALSE
  <2>1. <<y, x>> \in Below
    BY <1>3 DEF Below
  <2>2. QED
    BY <1>2, <2>1
<1>4. QED
  BY <1>3

\* Among sets taken from the subsets of a finite set, one has no other within it.
LEMMA SmallestSet ==
  ASSUME NEW S, IsFiniteSet(S), NEW Bad, \A U \in Bad : U \subseteq S, Bad # {}
  PROVE  \E T \in Bad : \A U \in Bad : ~(U \subseteq T /\ U # T)
<1> DEFINE R == StrictSubsetOrdering(S)
<1>1. IsWellFoundedOn(R, FiniteSubsetsOf(S))
  BY FS_StrictSubsetOrderingWellFounded
<1>2. Bad \subseteq FiniteSubsetsOf(S)
  BY FS_Subset DEF FiniteSubsetsOf
<1> HIDE DEF R
<1>3. PICK T \in Bad : \A U \in Bad : ~ (<<U, T>> \in R)
  BY <1>1, <1>2, WFMin
<1>4. QED
  BY <1>3 DEF R, StrictSubsetOrdering

\* A finite set of integers that is not empty has a largest member.
LEMMA GreatestOfFinite ==
  ASSUME NEW S \in SUBSET Int, IsFiniteSet(S), S # {}
  PROVE  \E x \in S : \A y \in S : x >= y
<1> DEFINE Bad == {T \in SUBSET S : T # {} /\ ~ \E x \in T : \A y \in T : x >= y}
<1>1. SUFFICES ASSUME Bad # {} PROVE FALSE
  OBVIOUS
<1>2. PICK T \in Bad : \A U \in Bad : ~(U \subseteq T /\ U # T)
  <2>1. \A U \in Bad : U \subseteq S
    OBVIOUS
  <2> HIDE DEF Bad
  <2>2. QED
    BY <1>1, <2>1, SmallestSet
<1>3. PICK x \in T : TRUE
  OBVIOUS
<1>4. T \ {x} \notin Bad
  BY <1>2, <1>3
<1>5. CASE T \ {x} = {}
  BY <1>5
<1>6. CASE T \ {x} # {}
  <2>1. PICK y \in T \ {x} : \A z \in T \ {x} : y >= z
    BY <1>4, <1>6
  <2>2. (\A z \in T : x >= z) \/ (\A z \in T : y >= z)
    BY <1>3, <2>1
  <2>3. QED
    BY <1>3, <2>1, <2>2
<1>7. QED
  BY <1>5, <1>6

LEMMA MaxIsBound ==
  ASSUME NEW S \in SUBSET Int, IsFiniteSet(S), S # {}
  PROVE  Max(S) \in S /\ \A y \in S : Max(S) >= y
BY GreatestOfFinite DEF Max

LEMMA MinIsBound ==
  ASSUME NEW S \in SUBSET Int, IsFiniteSet(S), S # {}
  PROVE  Min(S) \in S /\ \A y \in S : Min(S) <= y
<1> DEFINE N == {-x : x \in S}
           f == [x \in S |-> -x]
<1>1. N \in SUBSET Int /\ N # {}
  <2>1. \A x \in S : x \in Int /\ -x \in Int
    OBVIOUS
  <2>2. QED
    BY <2>1
<1>2. f \in Surjection(S, N)
  BY DEF Surjection
<1>3. PICK x \in N : \A y \in N : x >= y
  <2>1. IsFiniteSet(N)
    BY <1>2, FS_Surjection
  <2>2. QED
    BY <1>1, <2>1, GreatestOfFinite
<1>4. PICK z \in S : x = -z
  OBVIOUS
<1>5. \A y \in S : -y \in N
  OBVIOUS
<1>6. \A y \in S : z <= y
  BY <1>3, <1>4, <1>5
<1>7. QED
  BY <1>6 DEF Min

\* A strict order has a last member of every finite set, and so an enumeration
\* of it that follows the order.
StrictOrder(R, S) ==
  /\ \A x \in S : <<x, x>> \notin R
  /\ \A x, y, z \in S : <<x, y>> \in R /\ <<y, z>> \in R => <<x, z>> \in R

LEMMA LastOfFinite ==
  ASSUME NEW S, IsFiniteSet(S), NEW R, StrictOrder(R, S), S # {}
  PROVE  \E x \in S : \A y \in S : <<x, y>> \notin R
<1> DEFINE Bad == {T \in SUBSET S : T # {} /\ \A x \in T : \E y \in T : <<x, y>> \in R}
<1>1. SUFFICES ASSUME Bad # {} PROVE FALSE
  OBVIOUS
<1>2. PICK T \in Bad : \A U \in Bad : ~(U \subseteq T /\ U # T)
  <2>1. \A U \in Bad : U \subseteq S
    OBVIOUS
  <2> HIDE DEF Bad
  <2>2. QED
    BY <1>1, <2>1, SmallestSet
<1>3. PICK x \in T : TRUE
  OBVIOUS
<1> DEFINE U == {y \in T : <<x, y>> \in R}
<1>4. U \subseteq T /\ U # T /\ U # {} /\ U \in SUBSET S
  BY <1>3 DEF StrictOrder
<1>5. PICK z \in U : \A w \in U : <<z, w>> \notin R
  BY <1>2, <1>4
<1>6. PICK w \in T : <<z, w>> \in R
  BY <1>2, <1>5
<1>7. w \in U
  BY <1>3, <1>5, <1>6 DEF StrictOrder
<1>8. QED
  BY <1>5, <1>6, <1>7

Enumerations(R, S) ==
  {o \in Bijection(1 .. Cardinality(S), S) :
     \A m, n \in 1 .. Cardinality(S) : m < n => <<o[n], o[m]>> \notin R}

LEMMA EnumerationExists ==
  ASSUME NEW S, IsFiniteSet(S), NEW R, StrictOrder(R, S)
  PROVE  Enumerations(R, S) # {}
<1> DEFINE Bad == {T \in SUBSET S : Enumerations(R, T) = {}}
<1>1. SUFFICES ASSUME Bad # {} PROVE FALSE
  OBVIOUS
<1>2. PICK T \in Bad : \A U \in Bad : ~(U \subseteq T /\ U # T)
  <2>1. \A U \in Bad : U \subseteq S
    OBVIOUS
  <2> HIDE DEF Bad
  <2>2. QED
    BY <1>1, <2>1, SmallestSet
<1>3. T \subseteq S /\ IsFiniteSet(T) /\ StrictOrder(R, T)
  BY FS_Subset DEF StrictOrder
<1>4. T # {}
  <2>1. SUFFICES ASSUME T = {} PROVE FALSE
    OBVIOUS
  <2>2. Cardinality(T) = 0 /\ 1 .. 0 = {}
    BY <2>1, FS_EmptySet
  <2>3. <<>> \in Enumerations(R, T)
    BY <2>1, <2>2 DEF Enumerations, Bijection, Injection, Surjection, IsInjective
  <2>4. QED
    BY <2>3
<1>5. PICK x \in T : \A y \in T : <<x, y>> \notin R
  BY <1>3, <1>4, LastOfFinite
<1> DEFINE U == T \ {x}
           k == Cardinality(U)
<1>6. k \in Nat /\ Cardinality(T) = k + 1
  <2>1. IsFiniteSet(T \ {x}) /\ Cardinality(T \ {x}) = Cardinality(T) - 1
    BY <1>3, <1>5, FS_RemoveElement
  <2>2. Cardinality(T) \in Nat /\ Cardinality(T \ {x}) \in Nat
    BY <1>3, <2>1, FS_CardinalityType
  <2>3. QED
    BY <2>1, <2>2
<1>7. PICK o \in Enumerations(R, U) : TRUE
  BY <1>2, <1>3, <1>5
<1>8. /\ o \in [1 .. k -> U]
      /\ \A a, b \in 1 .. k : o[a] = o[b] => a = b
      /\ \A y \in U : \E n \in 1 .. k : o[n] = y
      /\ \A m, n \in 1 .. k : m < n => <<o[n], o[m]>> \notin R
  BY DEF Enumerations, Bijection, Injection, Surjection, IsInjective
<1> DEFINE q == [n \in 1 .. k + 1 |-> IF n = k + 1 THEN x ELSE o[n]]
<1> HIDE DEF k
<1>9. q \in [1 .. k + 1 -> T]
  BY <1>5, <1>6, <1>8
<1>10. \A a, b \in 1 .. k + 1 : q[a] = q[b] => a = b
  BY <1>6, <1>8
<1>11. \A y \in T : \E n \in 1 .. k + 1 : q[n] = y
  BY <1>6, <1>8
<1>12. \A m, n \in 1 .. k + 1 : m < n => <<q[n], q[m]>> \notin R
  BY <1>5, <1>6, <1>8
<1> HIDE DEF q
<1>13. q \in Enumerations(R, T)
  BY <1>6, <1>9, <1>10, <1>11, <1>12
  DEF Enumerations, Bijection, Injection, Surjection, IsInjective
<1>14. QED
  BY <1>13

\* The recursion of a sum over the subsets of S in D.
Sums(g, f, D) ==
  g = [T \in D |-> IF T = {} THEN 0
                   ELSE f[CHOOSE x \in T : TRUE] + g[T \ {CHOOSE x \in T : TRUE}]]

LEMMA SumsExist ==
  ASSUME NEW S, IsFiniteSet(S), NEW f
  PROVE  \E g : Sums(g, f, SUBSET S)
<1> DEFINE UpTo(n) == {T \in SUBSET S : Cardinality(T) <= n}
           Bad == {n \in Nat : ~ \E g : Sums(g, f, UpTo(n))}
           pick(T) == CHOOSE x \in T : TRUE
<1>1. \A T \in SUBSET S : IsFiniteSet(T) /\ Cardinality(T) \in Nat
  BY FS_Subset, FS_CardinalityType
<1>2. UpTo(Cardinality(S)) = SUBSET S /\ Cardinality(S) \in Nat
  BY FS_Subset, FS_CardinalityType
<1>3. SUFFICES ASSUME Bad # {} PROVE FALSE
  BY <1>2
<1>4. PICK n \in Bad : \A k \in Bad : n <= k
  BY <1>3, LeastNatural
<1>5. n # 0
  <2>1. UpTo(0) = {{}}
    BY <1>1, FS_EmptySet
  <2>2. Sums([T \in UpTo(0) |-> 0], f, UpTo(0))
    BY <2>1 DEF Sums
  <2>3. QED
    BY <2>2
<1>6. n - 1 \in Nat /\ n - 1 \notin Bad
  <2>1. n \in Nat /\ n - 1 \in Nat
    BY <1>5
  <2>2. n - 1 \in Bad => n <= n - 1
    BY <1>4
  <2> HIDE DEF Bad
  <2>3. QED
    BY <2>1, <2>2
<1>7. PICK g : Sums(g, f, UpTo(n - 1))
  BY <1>6
<1> DEFINE h == [T \in UpTo(n) |-> IF T = {} THEN 0 ELSE f[pick(T)] + g[T \ {pick(T)}]]
<1>8. \A T \in UpTo(n) : T # {} => T \ {pick(T)} \in UpTo(n - 1)
  <2> SUFFICES ASSUME NEW T \in UpTo(n), T # {} PROVE T \ {pick(T)} \in UpTo(n - 1)
    OBVIOUS
  <2>1. pick(T) \in T
    OBVIOUS
  <2>2. Cardinality(T \ {pick(T)}) = Cardinality(T) - 1 /\ Cardinality(T) \in Nat
    BY <1>1, <2>1, FS_RemoveElement
  <2>3. QED
    BY <2>2
<1>9. UpTo(n - 1) \subseteq UpTo(n)
  BY <1>1
<1>10. \A T \in UpTo(n - 1) : h[T] = g[T]
  BY <1>7, <1>9 DEF Sums
<1>11. \A T \in UpTo(n) : T # {} => h[T] = f[pick(T)] + h[T \ {pick(T)}]
  BY <1>8, <1>10
<1>12. \A T \in UpTo(n) : T = {} => h[T] = 0
  OBVIOUS
<1>13. h = [T \in UpTo(n) |-> IF T = {} THEN 0 ELSE f[pick(T)] + h[T \ {pick(T)}]]
  BY <1>11, <1>12
<1>14. Sums(h, f, UpTo(n))
  BY <1>13 DEF Sums
<1>15. QED
  BY <1>4, <1>14

\* Finitely many integers add up to an integer.
LEMMA SumIsInt ==
  ASSUME NEW S, IsFiniteSet(S), NEW f, \A x \in S : f[x] \in Int
  PROVE  SumFunctionOnSet(f, S) \in Int
<1> DEFINE sum == CHOOSE g : Sums(g, f, SUBSET S)
           pick(T) == CHOOSE x \in T : TRUE
           Bad == {T \in SUBSET S : sum[T] \notin Int}
<1>1. SumFunctionOnSet(f, S) = sum[S]
  BY Zenon DEF SumFunctionOnSet, FoldFunctionOnSet, MapThenFoldSet, Sums
<1>2. Sums(sum, f, SUBSET S)
  BY SumsExist
<1> HIDE DEF sum
<1>3. SUFFICES ASSUME Bad # {} PROVE FALSE
  BY <1>1
<1>4. PICK T \in Bad : \A U \in Bad : ~(U \subseteq T /\ U # T)
  <2>1. \A U \in Bad : U \subseteq S
    OBVIOUS
  <2> HIDE DEF Bad
  <2>2. QED
    BY <1>3, <2>1, SmallestSet
<1>5. T # {} /\ pick(T) \in T
  BY <1>2 DEF Sums
<1>6. sum[T] = f[pick(T)] + sum[T \ {pick(T)}]
  BY <1>2, <1>5 DEF Sums
<1>7. sum[T \ {pick(T)}] \in Int
  BY <1>4, <1>5
<1>8. QED
  BY <1>5, <1>6, <1>7

-----------------------------------------------------------------------------
(***************************************************************************)
(* Sequences, buckets and conditions.                                      *)
(***************************************************************************)
LEMMA RangeOfAppend ==
  ASSUME NEW S, NEW s \in Seq(S), NEW e \in S
  PROVE  ToSet(Append(s, e)) = ToSet(s) \cup {e}
<1> DEFINE t == Append(s, e)
<1>1. t \in Seq(S) /\ Len(t) = Len(s) + 1 /\ t[Len(s) + 1] = e
  BY AppendProperties
<1>2. \A n \in 1 .. Len(s) : t[n] = s[n]
  BY AppendProperties
<1>3. DOMAIN s = 1 .. Len(s) /\ DOMAIN t = 1 .. Len(t) /\ Len(s) \in Nat
  BY <1>1, LenProperties
<1> HIDE DEF t
<1>4. DOMAIN t = DOMAIN s \cup {Len(s) + 1}
  BY <1>1, <1>3
<1>5. ToSet(t) = ToSet(s) \cup {e}
  BY <1>1, <1>2, <1>3, <1>4 DEF ToSet
<1>6. QED
  BY <1>5 DEF t

LEMMA RangeOfConcat ==
  ASSUME NEW S, NEW s \in Seq(S), NEW t \in Seq(S)
  PROVE  /\ ToSet(s \o t) = ToSet(s) \cup ToSet(t)
         /\ s \o t \in Seq(S)
<1>1. \A u : ToSet(u) = Range(u)
  BY DEF ToSet, Range
<1>2. QED
  BY <1>1, RangeConcatenation, ConcatProperties

\* Which buckets a rule belongs to.
LEMMA BucketOfRule ==
  ASSUME NEW r, r.mood \in Seq(Moods)
  PROVE  /\ Buckets(r) \in Seq(Moods \cup {"*"})
         /\ "*" \in ToSet(Buckets(r)) <=> r.mood = <<>>
         /\ \A m \in Moods : m \in ToSet(Buckets(r)) <=> m \in ToSet(r.mood)
         /\ ~IsInjective(Buckets(r)) => ~IsInjective(r.mood)
<1>1. CASE r.mood = <<>>
  <2>1. Buckets(r) = <<"*">>
    BY <1>1 DEF Buckets
  <2>2. ToSet(Buckets(r)) = {"*"} /\ IsInjective(Buckets(r)) /\ ToSet(r.mood) = {}
    BY <1>1, <2>1 DEF ToSet, IsInjective
  <2>3. QED
    BY <1>1, <2>1, <2>2, MoodAssumption
<1>2. CASE r.mood # <<>>
  <2>1. Buckets(r) = r.mood
    BY <1>2 DEF Buckets
  <2>2. ToSet(r.mood) \subseteq Moods
    BY LenProperties DEF ToSet
  <2>3. r.mood \in Seq(Moods \cup {"*"})
    BY SeqMonotonic
  <2>4. QED
    BY <1>2, <2>1, <2>2, <2>3, MoodAssumption
<1>3. QED
  BY <1>1, <1>2

\* How often: at all if it belongs there, and once unless it repeats a mood.
LEMMA TimesInBucket ==
  ASSUME NEW r, r.mood \in Seq(Moods), NEW m
  PROVE  /\ Times(r, m) \in Nat
         /\ Times(r, m) = 0 <=> m \notin ToSet(Buckets(r))
         /\ Times(r, m) > 1 => ~IsInjective(r.mood)
<1> DEFINE at == {n \in DOMAIN Buckets(r) : Buckets(r)[n] = m}
<1>1. IsFiniteSet(at)
  <2>1. DOMAIN Buckets(r) = 1 .. Len(Buckets(r)) /\ Len(Buckets(r)) \in Nat
    BY BucketOfRule, LenProperties
  <2>2. IsFiniteSet(DOMAIN Buckets(r))
    BY <2>1, FS_Interval
  <2>3. QED
    BY <2>2, FS_Subset
<1>2. Times(r, m) \in Nat /\ (Times(r, m) = 0 <=> at = {})
  BY <1>1, FS_CardinalityType, FS_EmptySet DEF Times
<1>3. at = {} <=> m \notin ToSet(Buckets(r))
  BY DEF ToSet
<1>4. ASSUME IsInjective(r.mood) PROVE ~(Times(r, m) > 1)
  <2>1. IsInjective(Buckets(r))
    BY <1>4, BucketOfRule
  <2>2. CASE at = {}
    BY <1>2, <2>2
  <2>3. CASE at # {}
    <3>1. PICK n \in at : TRUE
      BY <2>3
    <3>2. at \ {n} = {}
      BY <2>1, <3>1 DEF IsInjective
    <3>3. Cardinality(at \ {n}) = Cardinality(at) - 1
      BY <1>1, <3>1, FS_RemoveElement
    <3>4. Cardinality(at) - 1 = 0
      BY <3>2, <3>3, FS_EmptySet
    <3>5. QED
      BY <1>2, <3>4 DEF Times
  <2>4. QED
    BY <2>2, <2>3
<1>5. QED
  BY <1>2, <1>3, <1>4

\* A rule that asks for all its conditions matches no request of a mood it
\* leaves out.
LEMMA AndRuleHasMood ==
  ASSUME NEW r, NEW c, r.logic # "OR", Matches(r, c), r.mood # <<>>
  PROVE  c.mood \in ToSet(r.mood)
<1>1. "mood" \in Conditions(r)
  BY DEF Conditions
<1>2. Holds(r, "mood", c)
  BY <1>1 DEF Matches, Met
<1>3. QED
  BY <1>2 DEF Holds

-----------------------------------------------------------------------------
(***************************************************************************)
(* The loops.                                                              *)
(***************************************************************************)
LEMMA ListShape ==
  ASSUME NEW list \in RuleLists \cup {<<>>}
  PROVE  /\ list \in Seq(ToSet(list)) /\ IsInjective(list)
         /\ Len(list) \in Nat /\ DOMAIN list = 1 .. Len(list)
         /\ \A r \in ToSet(list) :
              /\ r.mood \in Seq(Moods)
              /\ r.priority \in Int /\ r.weight \in Int /\ r.boost \in Int
              /\ r.price # None => r.price.min \in Int /\ r.price.max \in Int
<1>1. CASE list = <<>>
  <2>1. ToSet(list) = {} /\ IsInjective(list) /\ list \in Seq(ToSet(list))
    BY <1>1 DEF ToSet, IsInjective
  <2>2. QED
    BY <2>1, LenProperties
<1>2. CASE list \in RuleLists
  BY <1>2, RuleAssumption, LenProperties
<1>3. QED
  BY <1>1, <1>2

LEMMA PhaseInit == Init => PhaseInv
BY DEF Init, PhaseInv, Requested

LEMMA PhaseNext == PhaseInv /\ [Next]_vars => PhaseInv'
<1> SUFFICES ASSUME PhaseInv, [Next]_vars PROVE PhaseInv'
  OBVIOUS
<1> USE DEF PhaseInv, Requested
<1>1. Len(rules) \in Nat /\ (rules' \in RuleLists \cup {<<>>} => Len(rules') \in Nat)
  BY ListShape
<1>2. CASE Install
  BY <1>1, <1>2 DEF Install
<1>3. CASE IndexRule
  BY <1>1, <1>3 DEF IndexRule
<1>4. CASE Indexed
  BY <1>4 DEF Indexed
<1>5. CASE Request
  BY <1>5 DEF Request
<1>6. CASE MatchCandidate
  BY <1>6 DEF MatchCandidate
<1>7. CASE SortMatched
  BY <1>7 DEF SortMatched
<1>8. CASE AggregateFilters
  BY <1>8 DEF AggregateFilters
<1>9. CASE GetProductsFails
  BY <1>9 DEF GetProductsFails
<1>10. CASE ScoreProducts
  BY <1>10 DEF ScoreProducts
<1>11. CASE SortProducts
  BY <1>11 DEF SortProducts
<1>12. CASE UNCHANGED vars
  BY <1>12 DEF vars
<1>13. QED
  BY <1>2, <1>3, <1>4, <1>5, <1>6, <1>7, <1>8, <1>9, <1>10, <1>11, <1>12 DEF Next

LEMMA EmptyIndex == index = NoIndex /\ Indexing = {} => IndexInv
<1> SUFFICES ASSUME index = NoIndex, Indexing = {} PROVE IndexInv
  OBVIOUS
<1>1. ToSet(<<>>) = {} /\ OncePerMood(<<>>)
  BY DEF ToSet, OncePerMood
<1>2. index \in [Moods \cup {"*"} -> Seq(ToSet(rules))]
  BY DEF NoIndex
<1>3. \A m \in DOMAIN index : index[m] = <<>>
  BY DEF NoIndex
<1>4. QED
  BY <1>1, <1>2, <1>3 DEF IndexInv

LEMMA IndexInit == Init => IndexInv
<1> SUFFICES ASSUME Init PROVE IndexInv
  OBVIOUS
<1>1. Len(rules) = 0 /\ pc = "idle" /\ index = NoIndex
  BY DEF Init
<1>2. Indexing = {}
  BY <1>1 DEF Indexing
<1>3. QED
  BY <1>1, <1>2, EmptyIndex

LEMMA InstallIndexes == Install => IndexInv'
<1> SUFFICES ASSUME Install PROVE IndexInv'
  OBVIOUS
<1>1. index' = NoIndex /\ pc' = "index" /\ pos' = 1
  BY DEF Install
<1>2. Indexing' = {}
  BY <1>1 DEF Indexing
<1>3. (index = NoIndex /\ Indexing = {})'
  BY <1>1, <1>2 DEF NoIndex
<1>4. QED
  BY <1>3, EmptyIndex, PTL

\* One rule more: the buckets it names get it, as often as they are named.
LEMMA IndexRuleIndexes ==
  ASSUME PhaseInv, IndexInv, IndexRule
  PROVE  IndexInv'
<1> DEFINE r == rules[pos]
           block(m) == [n \in 1 .. Times(r, m) |-> r]
<1>1. UNCHANGED <<rules, pc>> /\ pos' = pos + 1 /\ pc = "index"
  BY DEF IndexRule
<1>2. pos \in 1 .. Len(rules) /\ Len(rules) \in Nat
  BY ListShape DEF IndexRule, PhaseInv
<1>3. r \in ToSet(rules) /\ r.mood \in Seq(Moods)
  BY <1>2, ListShape DEF PhaseInv, ToSet
<1>4. \A m : /\ Times(r, m) \in Nat
             /\ Times(r, m) = 0 <=> m \notin ToSet(Buckets(r))
             /\ Times(r, m) > 1 => ~IsInjective(r.mood)
  BY <1>3, TimesInBucket
<1>5. index' = [m \in DOMAIN index |-> index[m] \o block(m)]
  BY DEF IndexRule
<1>6. DOMAIN index = Moods \cup {"*"} /\ \A m \in DOMAIN index : index[m] \in Seq(ToSet(rules))
  BY DEF IndexInv
<1>7. Indexing = 1 .. pos - 1 /\ Indexing' = Indexing \cup {pos}
  BY <1>1, <1>2 DEF Indexing
<1> HIDE DEF r
<1>8. \A m : /\ block(m) \in Seq(ToSet(rules))
             /\ Len(block(m)) = Times(r, m)
             /\ ToSet(block(m)) = IF m \in ToSet(Buckets(r)) THEN {r} ELSE {}
  <2> TAKE m
  <2>1. block(m) \in Seq(ToSet(rules)) /\ Len(block(m)) = Times(r, m)
    BY <1>3, <1>4, SeqDef, LenProperties
  <2>2. ToSet(block(m)) = IF Times(r, m) = 0 THEN {} ELSE {r}
    BY <1>4 DEF ToSet
  <2>3. QED
    BY <1>4, <2>1, <2>2
<1> HIDE DEF block
<1>9. ASSUME NEW m \in DOMAIN index
      PROVE  /\ index'[m] \in Seq(ToSet(rules))
             /\ ToSet(index'[m]) = ToSet(index[m]) \cup ToSet(block(m))
  BY <1>5, <1>6, <1>8, RangeOfConcat
<1>10. ASSUME NEW m \in DOMAIN index
       PROVE  ToSet(index'[m]) =
                {rules[n] : n \in {k \in Indexing' : m \in ToSet(Buckets(rules[k]))}}
  <2> DEFINE belong(ns) == {rules[n] : n \in {k \in ns : m \in ToSet(Buckets(rules[k]))}}
  <2>1. belong(Indexing \cup {pos}) =
          belong(Indexing) \cup (IF m \in ToSet(Buckets(rules[pos])) THEN {rules[pos]} ELSE {})
    OBVIOUS
  <2>2. ToSet(index[m]) = belong(Indexing)
    BY DEF IndexInv
  <2> HIDE DEF belong
  <2>3. ToSet(index'[m]) = belong(Indexing')
    BY <1>7, <1>8, <1>9, <2>1, <2>2 DEF r
  <2>4. QED
    BY <2>3 DEF belong
<1>11. ASSUME NEW m \in DOMAIN index
       PROVE  OncePerMood(index'[m])
  <2> DEFINE s == index[m]
             t == index'[m]
  <2>1. s \in Seq(ToSet(rules)) /\ block(m) \in Seq(ToSet(rules)) /\ t = s \o block(m)
    BY <1>5, <1>6, <1>8
  <2>2. /\ Len(s) \in Nat /\ DOMAIN s = 1 .. Len(s)
        /\ DOMAIN block(m) = 1 .. Len(block(m))
        /\ DOMAIN t = 1 .. Len(s) + Times(r, m)
        /\ \A n \in DOMAIN t : t[n] = IF n <= Len(s) THEN s[n] ELSE block(m)[n - Len(s)]
    BY <1>4, <1>8, <2>1, ConcatProperties, LenProperties
  <2>3. \A n \in DOMAIN t : n > Len(s) => t[n] = r
    BY <1>4, <1>8, <2>2 DEF block
  <2>4. \A n \in DOMAIN s : s[n] # r
    <3>1. SUFFICES ASSUME r \in ToSet(s) PROVE FALSE
      BY DEF ToSet
    <3>2. PICK k \in Indexing : rules[k] = r
      BY <3>1 DEF IndexInv
    <3>3. IsInjective(rules) /\ DOMAIN rules = 1 .. Len(rules)
      BY ListShape DEF PhaseInv
    <3>4. QED
      BY <1>2, <1>7, <3>2, <3>3 DEF r, IsInjective
  <2>5. OncePerMood(s)
    BY DEF IndexInv
  <2> SUFFICES ASSUME NEW a \in DOMAIN t, NEW b \in DOMAIN t, a < b, t[a] = t[b]
               PROVE  ~IsInjective(t[a].mood)
    BY <2>2 DEF OncePerMood
  <2> HIDE DEF s, t
  <2>6. CASE b <= Len(s)
    BY <2>2, <2>5, <2>6 DEF OncePerMood
  <2>7. CASE a <= Len(s) /\ b > Len(s)
    BY <2>2, <2>3, <2>4, <2>7
  <2>8. CASE a > Len(s)
    <3>1. t[a] = r /\ Times(r, m) > 1
      BY <1>4, <2>2, <2>3, <2>8
    <3>2. QED
      BY <1>4, <3>1
  <2>9. QED
    BY <2>2, <2>6, <2>7, <2>8
<1>12. index' \in [Moods \cup {"*"} -> Seq(ToSet(rules))]
  BY <1>5, <1>6, <1>9
<1>13. QED
  BY <1>1, <1>5, <1>6, <1>10, <1>11, <1>12 DEF IndexInv

LEMMA IndexNext == PhaseInv /\ IndexInv /\ [Next]_vars => IndexInv'
<1> SUFFICES ASSUME PhaseInv, IndexInv, [Next]_vars PROVE IndexInv'
  OBVIOUS
<1>1. CASE Indexed
  <2>1. UNCHANGED <<rules, index>> /\ pc = "index" /\ pc' # "index" /\ pos > Len(rules)
    BY <1>1 DEF Indexed
  <2>2. pos - 1 = Len(rules)
    BY <2>1, ListShape DEF PhaseInv
  <2>3. Indexing' = Indexing
    BY <2>1, <2>2 DEF Indexing
  <2>4. QED
    BY <2>1, <2>3 DEF IndexInv
<1>2. CASE UNCHANGED <<rules, index>> /\ pc # "index" /\ pc' # "index"
  <2>1. Indexing' = Indexing
    BY <1>2 DEF Indexing
  <2>2. QED
    BY <1>2, <2>1 DEF IndexInv
<1>3. CASE UNCHANGED vars
  <2>1. Indexing' = Indexing
    BY <1>3 DEF Indexing, vars
  <2>2. QED
    BY <1>3, <2>1 DEF IndexInv, vars
<1>4. CASE Next /\ ~Install /\ ~IndexRule /\ ~Indexed
  <2>1. UNCHANGED <<rules, index>> /\ pc # "index" /\ pc' # "index"
    BY <1>4 DEF Next, Request, MatchCandidate, SortMatched, AggregateFilters,
                GetProductsFails, ScoreProducts, SortProducts
  <2>2. QED
    BY <1>2, <2>1
<1>5. QED
  BY <1>1, <1>3, <1>4, InstallIndexes, IndexRuleIndexes

\* Once the index is built, a request's candidates are the rules that name its
\* mood or none.
Offered == {r \in ToSet(rules) : r.mood = <<>> \/ ctx.mood \in ToSet(r.mood)}

LEMMA CandidatesAreOffered ==
  ASSUME PhaseInv, IndexInv, pc # "index", ctx \in Contexts
  PROVE  /\ Candidates \in Seq(ToSet(rules))
         /\ ToSet(Candidates) = Offered
         /\ OncePerMood(Candidates)
<1> DEFINE s == index[ctx.mood]
           t == index["*"]
<1>1. ctx.mood \in Moods
  BY RequestAssumption
<1>2. /\ s \in Seq(ToSet(rules)) /\ OncePerMood(s)
      /\ t \in Seq(ToSet(rules)) /\ OncePerMood(t)
  BY <1>1 DEF IndexInv
<1>3. Indexing = DOMAIN rules /\ \A r \in ToSet(rules) : r.mood \in Seq(Moods)
  BY ListShape DEF PhaseInv, Indexing
<1>4. \A m \in Moods \cup {"*"} :
        ToSet(index[m]) = {r \in ToSet(rules) : m \in ToSet(Buckets(r))}
  <2> TAKE m \in Moods \cup {"*"}
  <2>1. ToSet(index[m]) = {rules[n] : n \in {k \in DOMAIN rules : m \in ToSet(Buckets(rules[k]))}}
    BY <1>3 DEF IndexInv
  <2>2. ToSet(rules) = {rules[n] : n \in DOMAIN rules}
    BY DEF ToSet
  <2>3. QED
    BY <2>1, <2>2
<1>5. ToSet(s) = {r \in ToSet(rules) : ctx.mood \in ToSet(r.mood)}
  BY <1>1, <1>3, <1>4, BucketOfRule
<1>6. ToSet(t) = {r \in ToSet(rules) : r.mood = <<>>}
  BY <1>3, <1>4, BucketOfRule
<1>7. Candidates = s \o t
  BY DEF Candidates
<1> HIDE DEF s, t
<1>8. Candidates \in Seq(ToSet(rules)) /\ ToSet(Candidates) = Offered
  BY <1>2, <1>5, <1>6, <1>7, RangeOfConcat DEF Offered
<1>9. /\ Len(s) \in Nat /\ DOMAIN s = 1 .. Len(s)
      /\ Len(t) \in Nat /\ DOMAIN t = 1 .. Len(t)
      /\ DOMAIN Candidates = 1 .. Len(s) + Len(t)
      /\ \A n \in DOMAIN Candidates :
           Candidates[n] = IF n <= Len(s) THEN s[n] ELSE t[n - Len(s)]
  BY <1>2, <1>7, ConcatProperties, LenProperties
<1>10. \A a \in DOMAIN s, b \in DOMAIN t : s[a] # t[b]
  <2>1. ToSet(<<>>) = {}
    BY DEF ToSet
  <2>2. ToSet(s) \cap ToSet(t) = {}
    BY <1>5, <1>6, <2>1
  <2>3. QED
    BY <2>2 DEF ToSet
<1>11. OncePerMood(Candidates)
  <2> SUFFICES ASSUME NEW a \in DOMAIN Candidates, NEW b \in DOMAIN Candidates, a < b,
                      Candidates[a] = Candidates[b]
               PROVE  ~IsInjective(Candidates[a].mood)
    BY <1>9 DEF OncePerMood
  <2>1. CASE b <= Len(s)
    BY <1>2, <1>9, <2>1 DEF OncePerMood
  <2>2. CASE a <= Len(s) /\ b > Len(s)
    BY <1>9, <1>10, <2>2
  <2>3. CASE a > Len(s)
    BY <1>2, <1>9, <2>3 DEF OncePerMood
  <2>4. QED
    BY <1>9, <2>1, <2>2, <2>3
<1>12. QED
  BY <1>8, <1>11

LEMMA MatchInit == Init => MatchInv
BY DEF Init, MatchInv, OncePerMood, Evaluated

LEMMA NothingMatchedYet ==
  ASSUME matched' = <<>>, pc' \in {"index", "match"}, pc' = "match" => pos' = 1 /\ Len(Candidates') \in Nat
  PROVE  MatchInv'
<1>1. ToSet(<<>>) = {} /\ OncePerMood(<<>>)
  BY DEF ToSet, OncePerMood
<1>2. QED
  BY <1>1 DEF MatchInv, Evaluated

\* One candidate more.
LEMMA MatchCandidateMatches ==
  ASSUME PhaseInv, IndexInv, MatchInv, MatchCandidate
  PROVE  MatchInv'
<1> DEFINE r == Candidates[pos]
           found(ns) == {Candidates[n] : n \in {k \in ns : Matches(Candidates[k], ctx)}}
<1>1. UNCHANGED <<rules, index, ctx, pc>> /\ pc = "match" /\ pos' = pos + 1 /\ Candidates' = Candidates
  BY DEF MatchCandidate, Candidates
<1>2. /\ Candidates \in Seq(ToSet(rules)) /\ OncePerMood(Candidates)
      /\ Len(Candidates) \in Nat /\ DOMAIN Candidates = 1 .. Len(Candidates)
  BY <1>1, CandidatesAreOffered, LenProperties DEF PhaseInv, Requested
<1>3. pos \in 1 .. Len(Candidates) /\ r \in ToSet(rules)
  BY <1>1, <1>2, ElementOfSeq DEF MatchCandidate, PhaseInv
<1>4. 1 .. pos' - 1 = (1 .. pos - 1) \cup {pos}
  BY <1>1, <1>3
<1>5. found((1 .. pos - 1) \cup {pos}) =
        found(1 .. pos - 1) \cup (IF Matches(r, ctx) THEN {r} ELSE {})
  OBVIOUS
<1>6. ToSet(matched) = found(1 .. pos - 1) /\ matched \in Seq(ToSet(rules)) /\ OncePerMood(matched)
  BY <1>1 DEF MatchInv
<1>7. CASE ~Matches(r, ctx)
  <2>1. matched' = matched
    BY <1>7 DEF MatchCandidate
  <2>2. ToSet(matched') = found(1 .. pos' - 1)
    BY <1>4, <1>5, <1>6, <1>7, <2>1
  <2>3. QED
    BY <1>1, <1>2, <1>3, <1>6, <2>1, <2>2 DEF MatchInv, Evaluated
<1>8. CASE Matches(r, ctx)
  <2>1. matched' = Append(matched, r)
    BY <1>8 DEF MatchCandidate
  <2>2. ToSet(matched') = found(1 .. pos' - 1)
    BY <1>3, <1>4, <1>5, <1>6, <1>8, <2>1, RangeOfAppend
  <2>3. /\ matched' \in Seq(ToSet(rules)) /\ Len(matched) \in Nat
        /\ DOMAIN matched = 1 .. Len(matched)
        /\ DOMAIN matched' = 1 .. Len(matched) + 1
        /\ matched'[Len(matched) + 1] = r
        /\ \A n \in DOMAIN matched : matched'[n] = matched[n]
    BY <1>3, <1>6, <2>1, AppendProperties, LenProperties
  <2>4. OncePerMood(matched')
    <3> SUFFICES ASSUME NEW a \in DOMAIN matched', NEW b \in DOMAIN matched', a < b,
                        matched'[a] = matched'[b]
                 PROVE  ~IsInjective(matched'[a].mood)
      BY <2>3 DEF OncePerMood
    <3>1. CASE b <= Len(matched)
      BY <1>6, <2>3, <3>1 DEF OncePerMood
    <3>2. CASE b = Len(matched) + 1
      <4>1. r \in found(1 .. pos - 1)
        <5>1. a \in DOMAIN matched /\ matched[a] = r
          BY <2>3, <3>2
        <5>2. matched[a] \in ToSet(matched)
          BY <5>1 DEF ToSet
        <5>3. QED
          BY <1>6, <5>1, <5>2
      <4>2. PICK k \in 1 .. pos - 1 : Candidates[k] = r
        BY <4>1
      <4>3. ~IsInjective(r.mood)
        BY <1>2, <1>3, <4>2 DEF OncePerMood
      <4>4. QED
        BY <2>3, <3>2, <4>3
    <3>3. QED
      BY <2>3, <3>1, <3>2
  <2>5. QED
    BY <1>1, <1>2, <1>3, <2>2, <2>3, <2>4 DEF MatchInv, Evaluated
<1>9. QED
  BY <1>7, <1>8

\* A sequence reordered has the same members, as often.
LEMMA Reordered ==
  ASSUME NEW S, NEW s \in Seq(S), NEW order \in [1 .. Len(s) -> 1 .. Len(s)], IsInjective(order),
         NEW t, t = [n \in 1 .. Len(s) |-> s[order[n]]]
  PROVE  /\ t \in Seq(S) /\ ToSet(t) = ToSet(s)
         /\ OncePerMood(s) => OncePerMood(t)
<1> DEFINE D == 1 .. Len(s)
<1>1. Len(s) \in Nat /\ DOMAIN s = D /\ DOMAIN t = D
  BY LenProperties
<1>2. order \in Injection(D, D)
  BY DEF Injection
<1>3. order \in Surjection(D, D)
  BY <1>1, <1>2, FS_Interval, FS_Injection
<1>4. \A n \in D : \E k \in D : order[k] = n
  BY <1>3 DEF Surjection
<1> HIDE DEF D
<1>5. \A n \in D : order[n] \in D /\ t[n] = s[order[n]]
  BY <1>2 DEF D
<1>6. t \in [1 .. Len(s) -> S]
  BY <1>1, <1>5, ElementOfSeq DEF D
<1>7. t \in Seq(S)
  BY <1>1, <1>6, SeqDef
<1>8. ToSet(t) = ToSet(s)
  BY <1>1, <1>4, <1>5 DEF ToSet
<1>9. ASSUME OncePerMood(s) PROVE OncePerMood(t)
  <2> SUFFICES ASSUME NEW a \in DOMAIN t, NEW b \in DOMAIN t, a # b, t[a] = t[b]
               PROVE  ~IsInjective(t[a].mood)
    BY DEF OncePerMood
  <2>1. order[a] # order[b]
    BY <1>1, <1>2 DEF Injection, IsInjective, D
  <2>2. QED
    BY <1>1, <1>5, <1>9, <2>1 DEF OncePerMood
<1>10. QED
  BY <1>7, <1>8, <1>9

LEMMA SortKeepsMatches ==
  ASSUME PhaseInv, IndexInv, MatchInv, SortMatched
  PROVE  MatchInv'
<1>1. /\ UNCHANGED <<rules, index, ctx>> /\ pc = "match" /\ pos > Len(Candidates)
      /\ pc' \in {"answered", "filters"}
  BY DEF SortMatched
<1>2. PICK order \in [1 .. Len(matched) -> 1 .. Len(matched)] :
        IsInjective(order) /\ matched' = [n \in 1 .. Len(matched) |-> matched[order[n]]]
  BY DEF SortMatched
<1>3. matched \in Seq(ToSet(rules)) /\ OncePerMood(matched)
  BY DEF MatchInv
<1>4. matched' \in Seq(ToSet(rules)) /\ ToSet(matched') = ToSet(matched) /\ OncePerMood(matched')
  BY <1>2, <1>3, Reordered
<1>5. Len(Candidates) \in Nat /\ DOMAIN Candidates = 1 .. Len(Candidates)
  BY <1>1, CandidatesAreOffered, LenProperties DEF PhaseInv, Requested
<1>6. 1 .. pos - 1 = DOMAIN Candidates
  BY <1>1, <1>5 DEF MatchInv, PhaseInv
<1>7. ToSet(matched) = {Candidates[n] : n \in {k \in DOMAIN Candidates : Matches(Candidates[k], ctx)}}
  BY <1>1, <1>6 DEF MatchInv
<1>8. ToSet(Candidates) = {Candidates[n] : n \in DOMAIN Candidates}
  BY DEF ToSet
<1>9. ToSet(matched) = {r \in ToSet(Candidates) : Matches(r, ctx)}
  BY <1>7, <1>8
<1>10. Candidates' = Candidates
  BY <1>1 DEF Candidates
<1>11. QED
  BY <1>1, <1>4, <1>9, <1>10 DEF MatchInv

LEMMA MatchNext == PhaseInv /\ IndexInv /\ MatchInv /\ [Next]_vars => MatchInv'
<1> SUFFICES ASSUME PhaseInv, IndexInv, MatchInv, [Next]_vars PROVE MatchInv'
  OBVIOUS
<1>1. CASE Install
  BY <1>1, NothingMatchedYet DEF Install
<1>2. CASE Request
  <2>1. /\ matched' = <<>> /\ pc' = "match" /\ pos' = 1
        /\ UNCHANGED <<rules, index>> /\ ctx' \in Contexts
    BY <1>2 DEF Request
  <2>2. ctx'.mood \in Moods
    BY <2>1, RequestAssumption
  <2>3. Candidates' \in Seq(ToSet(rules))
    BY <2>1, <2>2, ConcatProperties DEF Candidates, IndexInv
  <2>4. Len(Candidates') \in Nat
    BY <2>3, LenProperties
  <2>5. QED
    BY <2>1, <2>4, NothingMatchedYet
<1>3. CASE IndexRule \/ Indexed
  <2>1. /\ matched' = matched /\ rules' = rules /\ pc' \in {"index", "idle"}
    BY <1>3 DEF IndexRule, Indexed
  <2>2. QED
    BY <2>1 DEF MatchInv, Evaluated
<1>4. CASE AggregateFilters \/ GetProductsFails \/ ScoreProducts \/ SortProducts
  <2>1. /\ UNCHANGED <<rules, index, ctx, matched>> /\ Evaluated /\ pc' # "match"
    BY <1>4 DEF AggregateFilters, GetProductsFails, ScoreProducts, SortProducts, Evaluated
  <2>2. Candidates' = Candidates
    BY <2>1 DEF Candidates
  <2>3. QED
    BY <2>1, <2>2 DEF MatchInv
<1>5. CASE UNCHANGED vars
  <2>1. Candidates' = Candidates
    BY <1>5 DEF Candidates, vars
  <2>2. QED
    BY <1>5, <2>1 DEF MatchInv, Evaluated, vars
<1>6. QED
  BY <1>1, <1>2, <1>3, <1>4, <1>5, MatchCandidateMatches, SortKeepsMatches DEF Next

-----------------------------------------------------------------------------
(***************************************************************************)
(* Filters, scores and ranking.                                            *)
(***************************************************************************)
LEMMA MatchedAreFinite ==
  ASSUME MatchInv
  PROVE  IsFiniteSet(ToSet(matched)) /\ IsFiniteSet(DOMAIN matched)
<1>1. Len(matched) \in Nat /\ DOMAIN matched = 1 .. Len(matched)
  BY LenProperties DEF MatchInv
<1>2. IsFiniteSet(DOMAIN matched)
  BY <1>1, FS_Interval
<1>3. matched \in Surjection(DOMAIN matched, ToSet(matched))
  <2>1. matched \in [DOMAIN matched -> ToSet(matched)]
    BY LenProperties DEF MatchInv, ToSet
  <2>2. QED
    BY <2>1 DEF Surjection, ToSet
<1>4. QED
  BY <1>2, <1>3, FS_Surjection

LEMMA FilterInit == Init => FilterInv
BY DEF Init, FilterInv

LEMMA AggregateFiltersAggregates ==
  ASSUME PhaseInv, MatchInv, AggregateFilters
  PROVE  Aggregated'
<1> DEFINE Capped == {r \in Priced : r.price.max > 0}
           mins == {r.price.min : r \in Priced}
           maxs == {r.price.max : r \in Capped}
<1>1. \A r \in Priced : r.price.min \in Int /\ r.price.max \in Int
  <2>1. ToSet(matched) \subseteq ToSet(rules)
    BY LenProperties DEF MatchInv, ToSet
  <2>2. QED
    BY <2>1, ListShape DEF PhaseInv, Priced
<1>2. IsFiniteSet(Priced) /\ IsFiniteSet(Capped)
  BY MatchedAreFinite, FS_Subset DEF Priced
<1>3. IsFiniteSet(mins)
  <2>1. [r \in Priced |-> r.price.min] \in Surjection(Priced, mins)
    BY DEF Surjection
  <2>2. QED
    BY <1>2, <2>1, FS_Surjection
<1>4. IsFiniteSet(maxs)
  <2>1. [r \in Capped |-> r.price.max] \in Surjection(Capped, maxs)
    BY DEF Surjection
  <2>2. QED
    BY <1>2, <2>1, FS_Surjection
<1>5. /\ IsFiniteSet(mins \cup {0}) /\ mins \cup {0} \in SUBSET Int
      /\ IsFiniteSet(maxs \cup {Ceiling}) /\ maxs \cup {Ceiling} \in SUBSET Int
  <2>1. mins \in SUBSET Int /\ maxs \in SUBSET Int
    BY <1>1
  <2> HIDE DEF mins, maxs
  <2>2. QED
    BY <1>3, <1>4, <2>1, FS_AddElement, RequestAssumption
<1>6. UNCHANGED matched /\ filters' =
        [tags |-> UNION {r.actionTags : r \in ToSet(matched)},
         min  |-> Max({0} \cup mins), max |-> Min({Ceiling} \cup maxs)]
  BY DEF AggregateFilters
<1>7. /\ \A r \in Priced : r.price.min \in mins
      /\ \A r \in Priced : r.price.max > 0 => r.price.max \in maxs
      /\ \A y \in maxs : y > 0
  OBVIOUS
<1> HIDE DEF mins, maxs, Capped
<1>8. {0} \cup mins = mins \cup {0} /\ {Ceiling} \cup maxs = maxs \cup {Ceiling}
  OBVIOUS
<1>9. filters'.min \in Int /\ \A y \in mins \cup {0} : filters'.min >= y
  BY <1>5, <1>6, <1>8, MaxIsBound
<1>10. filters'.max \in maxs \cup {Ceiling} /\ \A y \in maxs \cup {Ceiling} : filters'.max <= y
  BY <1>5, <1>6, <1>8, MinIsBound
<1>11. filters'.min \in Nat /\ filters'.max \in 0 .. Ceiling
  BY <1>5, <1>7, <1>9, <1>10, RequestAssumption
<1>12. Priced' = Priced /\ ToSet(matched') = ToSet(matched)
  BY <1>6 DEF Priced
<1>13. \A r \in Priced : /\ filters'.min >= r.price.min
                         /\ r.price.max > 0 => filters'.max <= r.price.max
  BY <1>7, <1>9, <1>10
<1>14. QED
  BY <1>6, <1>11, <1>12, <1>13 DEF Aggregated

LEMMA FilterNext == PhaseInv /\ MatchInv /\ FilterInv /\ [Next]_vars => FilterInv'
<1> SUFFICES ASSUME PhaseInv, MatchInv, FilterInv, [Next]_vars PROVE FilterInv'
  OBVIOUS
<1>1. CASE Install \/ Request
  BY <1>1 DEF Install, Request, FilterInv
<1>2. CASE IndexRule \/ Indexed \/ MatchCandidate \/ SortMatched
  <2>1. filters' = None /\ scored' = <<>> /\ pc' \notin {"fetch", "rank"}
    BY <1>2 DEF IndexRule, Indexed, MatchCandidate, SortMatched, PhaseInv
  <2>2. QED
    BY <2>1 DEF FilterInv
<1>3. CASE AggregateFilters
  BY <1>3, AggregateFiltersAggregates DEF FilterInv
<1>4. CASE GetProductsFails \/ ScoreProducts \/ SortProducts
  <2>1. UNCHANGED <<matched, filters>> /\ pc \in {"fetch", "rank"}
    BY <1>4 DEF GetProductsFails, ScoreProducts, SortProducts
  <2>2. Aggregated'
    BY <2>1 DEF FilterInv, Aggregated, Priced
  <2>3. QED
    BY <2>2 DEF FilterInv
<1>5. CASE UNCHANGED vars
  BY <1>5 DEF vars, FilterInv, Aggregated, Priced
<1>6. QED
  BY <1>1, <1>2, <1>3, <1>4, <1>5 DEF Next

LEMMA RuleScores ==
  ASSUME PhaseInv, NEW r \in ToSet(rules)
  PROVE  r.priority \in Int /\ Score(r) \in Int
<1>1. r.priority \in Int /\ r.weight \in Int /\ r.boost \in Int
  BY ListShape DEF PhaseInv
<1>2. r.priority * r.weight \in Int /\ (IF r.boost > 0 THEN 1 + r.boost ELSE 1) \in Int
  BY <1>1
<1>3. Score(r) \in Int
  BY <1>2 DEF Score
<1>4. QED
  BY <1>1, <1>3

LEMMA ScoreIsInt ==
  ASSUME PhaseInv, MatchInv, NEW p
  PROVE  Scored(p).score \in Int
<1> DEFINE f == [n \in DOMAIN matched |-> Score(matched[n])]
<1>1. \A n \in DOMAIN matched : matched[n] \in ToSet(rules)
  BY LenProperties DEF MatchInv
<1>2. \A n \in DOMAIN matched : f[n] \in Int
  BY <1>1, RuleScores
<1>3. Credited(p) \subseteq DOMAIN matched
  BY DEF Credited
<1>4. IsFiniteSet(Credited(p))
  BY <1>3, MatchedAreFinite, FS_Subset
<1> HIDE DEF f
<1>5. SumFunctionOnSet(f, Credited(p)) \in Int
  BY <1>2, <1>3, <1>4, SumIsInt
<1>6. QED
  BY <1>5 DEF Scored, f

\* The catalog's answer, in whatever order, as a sequence.
LEMMA ScoreProductsScores ==
  ASSUME PhaseInv, MatchInv, ScoreProducts
  PROVE  /\ ScoreInv'
         /\ Unsorted(Len(scored'))
<1>1. PICK found \in SUBSET {p \in Products : p.price \in filters.min .. filters.max} :
        \E products \in SetToSeqs(found) :
          /\ scored' = [n \in 1 .. Len(products) |-> Scored(products[n])]
          /\ Unsorted(Len(products))
  BY DEF ScoreProducts
<1>2. PICK products \in SetToSeqs(found) :
          /\ scored' = [n \in 1 .. Len(products) |-> Scored(products[n])]
          /\ Unsorted(Len(products))
  BY <1>1
<1>3. Cardinality(found) \in Nat
  <2>1. found \in SUBSET Products
    OBVIOUS
  <2>2. QED
    BY <2>1, RequestAssumption, FS_Subset, FS_CardinalityType
<1>4. products \in [1 .. Cardinality(found) -> found]
  BY DEF SetToSeqs
<1>5. products \in Seq(found)
  BY <1>3, <1>4, SeqDef
<1>6. Len(products) \in Nat /\ \A n \in 1 .. Len(products) : products[n] \in found
  BY <1>5, LenProperties
<1>7. DOMAIN scored' = 1 .. Len(products)
  BY <1>2
<1>8. \A n \in DOMAIN scored' : scored'[n] \in ToSet(scored')
  BY DEF ToSet
<1>9. scored' \in [1 .. Len(products) -> ToSet(scored')]
  BY <1>2, <1>7, <1>8
<1>10. scored' \in Seq(ToSet(scored'))
  BY <1>6, <1>9, SeqDef
<1>11. Len(scored') = Len(products)
  BY <1>6, <1>7, <1>10, LenProperties
<1>12. UNCHANGED <<matched, filters>>
  BY DEF ScoreProducts
<1>13. ASSUME NEW n \in DOMAIN scored'
       PROVE  /\ (scored[n] = Scored(scored[n].product))'
              /\ scored'[n].product \in Products
              /\ scored'[n].product.price \in filters'.min .. filters'.max
              /\ scored'[n].score \in Int
  <2>1. products[n] \in found
    BY <1>6, <1>7
  <2>2. scored'[n] = Scored(products[n])
    BY <1>2, <1>7
  <2>3. scored'[n].product = products[n]
    BY <2>2 DEF Scored
  <2>4. (scored[n] = Scored(scored[n].product))'
    BY <1>12, <2>2, <2>3 DEF Scored, Credited
  <2>5. scored'[n].score \in Int
    BY <2>2, ScoreIsInt
  <2>6. QED
    BY <1>12, <2>1, <2>2, <2>3, <2>4, <2>5
<1>14. ScoreInv'
  BY <1>10, <1>13 DEF ScoreInv
<1>15. QED
  BY <1>2, <1>11, <1>14

LEMMA NothingScored == scored = <<>> => ScoreInv
<1>1. ToSet(<<>>) = {} /\ DOMAIN <<>> = {}
  BY DEF ToSet
<1>2. QED
  BY <1>1 DEF ScoreInv

LEMMA ScoreNext == PhaseInv /\ MatchInv /\ ScoreInv /\ [Next]_vars => ScoreInv'
<1> SUFFICES ASSUME PhaseInv, MatchInv, ScoreInv, [Next]_vars PROVE ScoreInv'
  OBVIOUS
<1>1. CASE UNCHANGED <<matched, filters, scored>>
  BY <1>1 DEF ScoreInv, Scored, Credited
<1>2. CASE scored' = <<>>
  <2>1. (scored = <<>>)'
    BY <1>2
  <2>2. QED
    BY <2>1, NothingScored, PTL
<1>3. CASE ScoreProducts
  BY <1>3, ScoreProductsScores
<1>4. CASE Next /\ ~ScoreProducts
  <2>1. UNCHANGED <<matched, filters, scored>> \/ scored' = <<>>
    BY <1>4 DEF Next, Install, IndexRule, Indexed, Request, MatchCandidate, SortMatched,
                AggregateFilters, GetProductsFails, SortProducts, PhaseInv
  <2>2. QED
    BY <1>1, <1>2, <2>1
<1>5. QED
  BY <1>1, <1>3, <1>4 DEF vars

\* The sort starts on what ScoreProducts leaves, or on nothing.
LEMMA SortStarts ==
  ASSUME ScoreInv', Unsorted(Len(scored'))
  PROVE  Sort!IInv' /\ Sort!NoProductLost'
<1>1. Len(scored') \in Nat /\ DOMAIN scored' = 1 .. Len(scored')
  BY LenProperties DEF ScoreInv
<1>2. \A n \in DOMAIN scored' : scored'[n].score \in Int
  BY DEF ScoreInv
<1>3. Sort!Init'
  BY <1>1, <1>2 DEF Sort!Init, Sort!Positions, Unsorted
<1>4. (Sort!Init => Sort!TypeOK /\ Sort!LoopInv /\ Sort!OrderInv)'
  BY Sort!RankingTypeInit, Sort!OrderInit, PTL
<1>5. Sort!NoProductLost'
  BY <1>3 DEF Sort!Init, Sort!NoProductLost
<1>6. QED
  BY <1>3, <1>4, <1>5 DEF Sort!IInv

\* A step of the sort is one of module Ranking.
LEMMA SortContinues ==
  Sort!IInv /\ Sort!NoProductLost /\ [Sort!Next]_(Sort!vars) => Sort!IInv' /\ Sort!NoProductLost'
BY Sort!RankingTypeNext, Sort!OrderNext, Sort!PlacesNext DEF Sort!IInv

LEMMA SortStep == Rank!Next => Sort!Next
BY DEF Rank!Next, Rank!OuterLoop, Rank!Compare, Rank!EndInner, Rank!At, Rank!Exchanged,
       Sort!Next, Sort!OuterLoop, Sort!Compare, Sort!EndInner, Sort!At, Sort!Exchanged

LEMMA RankInit == Init => RankInv
<1> SUFFICES ASSUME Init PROVE RankInv
  OBVIOUS
<1>1. scored = <<>> /\ Len(scored) = 0 /\ 1 .. Len(scored) = {} /\ DOMAIN scored = {}
  BY DEF Init
<1>2. Sort!Init
  BY <1>1 DEF Init, Sort!Init, Sort!Positions
<1>3. Sort!IInv
  BY <1>2, Sort!RankingTypeInit, Sort!OrderInit DEF Sort!IInv
<1>4. Sort!NoProductLost
  BY <1>1 DEF Sort!NoProductLost, Sort!Positions
<1>5. QED
  BY <1>1, <1>3, <1>4 DEF RankInv

LEMMA RankNext == PhaseInv /\ MatchInv /\ ScoreInv /\ RankInv /\ [Next]_vars => RankInv'
<1> SUFFICES ASSUME PhaseInv, MatchInv, ScoreInv, RankInv, [Next]_vars PROVE RankInv'
  OBVIOUS
<1>1. CASE Install \/ Request
  <2>1. scored' = <<>> /\ Unsorted(0) /\ pc' # "answered"
    BY <1>1 DEF Install, Request
  <2>2. Len(scored') = 0
    BY <2>1
  <2>3. ScoreInv'
    BY ScoreNext
  <2>4. QED
    BY <2>1, <2>2, <2>3, SortStarts DEF RankInv
<1>2. CASE ScoreProducts
  <2>1. ScoreInv' /\ Unsorted(Len(scored'))
    BY <1>2, ScoreProductsScores
  <2>2. pc' = "rank"
    BY <1>2 DEF ScoreProducts
  <2>3. QED
    BY <2>1, <2>2, SortStarts DEF RankInv
<1>3. CASE UNCHANGED <<scored, sorting>> /\ (pc' = "answered" => scored = <<>> \/ loop = "done")
  <2>1. UNCHANGED Sort!vars
    BY <1>3 DEF Sort!vars, sorting
  <2>2. QED
    BY <1>3, <2>1, SortContinues DEF RankInv, sorting
<1>4. CASE SortProducts
  <2>1. CASE Rank!Next /\ UNCHANGED pc
    <3>1. Sort!Next /\ pc' = "rank"
      BY <1>4, <2>1, SortStep DEF SortProducts
    <3>2. QED
      BY <3>1, SortContinues DEF RankInv
  <2>2. CASE loop = "done" /\ UNCHANGED sorting
    BY <1>3, <1>4, <2>2 DEF SortProducts
  <2>3. QED
    BY <1>4, <2>1, <2>2 DEF SortProducts
<1>5. CASE IndexRule \/ Indexed \/ MatchCandidate \/ SortMatched \/ AggregateFilters \/ GetProductsFails
  <2>1. UNCHANGED <<scored, sorting>> /\ (pc' = "answered" => scored = <<>>)
    BY <1>5 DEF IndexRule, Indexed, MatchCandidate, SortMatched, AggregateFilters,
                GetProductsFails, PhaseInv
  <2>2. QED
    BY <1>3, <2>1
<1>6. CASE UNCHANGED vars
  BY <1>3, <1>6 DEF vars, RankInv
<1>7. QED
  BY <1>1, <1>2, <1>4, <1>5, <1>6 DEF Next

LEMMA Invariant == Spec => []IInv
<1>1. Init => IInv
  <2> SUFFICES ASSUME Init PROVE IInv
    OBVIOUS
  <2>1. ScoreInv
    BY NothingScored DEF Init
  <2>2. QED
    BY <2>1, PhaseInit, IndexInit, MatchInit, FilterInit, RankInit DEF IInv
<1>2. IInv /\ [Next]_vars => IInv'
  BY PhaseNext, IndexNext, MatchNext, FilterNext, ScoreNext, RankNext DEF IInv
<1>3. QED
  BY <1>1, <1>2, PTL DEF Spec

-----------------------------------------------------------------------------
(***************************************************************************)
(* The repository: the query that makes the lists, and their versions.     *)
(***************************************************************************)
\* GetAllActiveRules returns the active rows, each once, and never one before a
\* row it should follow: what RuleAssumption takes for granted of a list, for
\* tables whose rows are told apart by a column (the id, which a rule carries).
THEOREM QueryListsActiveRows ==
  ASSUME NEW table, IsFiniteSet(DOMAIN table),
         \A a, b \in DOMAIN table : table[a] = table[b] => a = b,
         NEW list \in GetAllActiveRules(table)
  PROVE  /\ list \in Seq(ToSet(list)) /\ IsInjective(list)
         /\ ToSet(list) = {table[id] : id \in Active(table)}
         /\ \A m, n \in DOMAIN list : m < n => ~Precedes(list[n], list[m])
<1> DEFINE ids == Active(table)
<1>1. ids \subseteq DOMAIN table /\ Cardinality(ids) \in Nat
  <2>1. ids \in SUBSET DOMAIN table
    BY DEF Active
  <2>2. QED
    BY <2>1, FS_Subset, FS_CardinalityType
<1> DEFINE size == Cardinality(ids)
<1> HIDE DEF ids, size
<1>2. PICK order \in Bijection(1 .. size, ids) :
        /\ \A m, n \in DOMAIN order :
             m < n => ~Precedes(table[order[n]], table[order[m]])
        /\ list = [n \in DOMAIN order |-> table[order[n]]]
  BY DEF GetAllActiveRules, ids, size
<1>3. /\ order \in [1 .. size -> ids]
      /\ \A a, b \in 1 .. size : order[a] = order[b] => a = b
      /\ \A id \in ids : \E n \in 1 .. size : order[n] = id
  BY DEF Bijection, Injection, Surjection, IsInjective
<1>4. DOMAIN list = 1 .. size /\ \A n \in 1 .. size : list[n] = table[order[n]]
  BY <1>2, <1>3
<1>5. IsInjective(list)
  BY <1>1, <1>3, <1>4 DEF IsInjective
<1>6. ToSet(list) = {table[id] : id \in ids}
  BY <1>3, <1>4 DEF ToSet
<1>7. list \in Seq(ToSet(list))
  <2>1. list \in [1 .. size -> ToSet(list)] /\ size \in Nat
    BY <1>1, <1>2, <1>3 DEF ToSet, size
  <2>2. QED
    BY <2>1, SeqDef
<1>8. QED
  BY <1>2, <1>3, <1>4, <1>5, <1>6, <1>7 DEF ids

\* Every table has such a list: the order of the query is one its rows can be in.
THEOREM QueryHasAnswer ==
  ASSUME NEW table, IsFiniteSet(DOMAIN table),
         \A id \in DOMAIN table : table[id].priority \in Int /\ table[id].created \in Int
  PROVE  GetAllActiveRules(table) # {}
<1> DEFINE ids == Active(table)
           R == {e \in ids \X ids : Precedes(table[e[1]], table[e[2]])}
<1>1. ids \subseteq DOMAIN table /\ IsFiniteSet(ids)
  <2>1. ids \subseteq DOMAIN table
    BY DEF Active
  <2>2. QED
    BY <2>1, FS_Subset
<1>2. \A a, b \in ids : <<a, b>> \in R <=> Precedes(table[a], table[b])
  OBVIOUS
<1> HIDE DEF ids, R
<1>3. StrictOrder(R, ids)
  BY <1>1, <1>2 DEF StrictOrder, Precedes
<1>4. PICK o \in Enumerations(R, ids) : TRUE
  BY <1>1, <1>3, EnumerationExists
<1>5. o \in Bijection(1 .. Cardinality(ids), ids) /\ o \in [1 .. Cardinality(ids) -> ids]
  BY DEF Enumerations, Bijection, Injection
<1>6. \A m, n \in DOMAIN o : m < n => ~Precedes(table[o[n]], table[o[m]])
  BY <1>2, <1>5 DEF Enumerations
<1>7. [n \in DOMAIN o |-> table[o[n]]] \in GetAllActiveRules(table)
  BY <1>5, <1>6 DEF GetAllActiveRules, ids
<1>8. QED
  BY <1>7

\* The columns the versions depend on.
IsRow(row) ==
  /\ {"version", "active", "created"} \subseteq DOMAIN row
  /\ row = [c \in DOMAIN row |-> row[c]]
  /\ row.version \in Nat /\ row.active \in BOOLEAN

IsTable(table) == IsFiniteSet(DOMAIN table) /\ \A id \in DOMAIN table : IsRow(table[id])

LEMMA LargestVersion ==
  ASSUME NEW table, IsTable(table)
  PROVE  /\ GetMaxVersion(table) \in Nat
         /\ \A id \in Active(table) : table[id].version <= GetMaxVersion(table)
         /\ Active(table) = {} => GetMaxVersion(table) = 0
         /\ Active(table) # {} =>
              \E id \in Active(table) : table[id].version = GetMaxVersion(table)
<1> DEFINE versions == {table[id].version : id \in Active(table)}
<1>1. Active(table) \subseteq DOMAIN table
  BY DEF Active
<1>2. versions \in SUBSET Nat
  BY <1>1 DEF IsTable, IsRow
<1>3. IsFiniteSet(versions)
  <2>1. IsFiniteSet(Active(table))
    BY <1>1, FS_Subset DEF IsTable
  <2>2. [id \in Active(table) |-> table[id].version] \in Surjection(Active(table), versions)
    BY DEF Surjection
  <2>3. QED
    BY <2>1, <2>2, FS_Surjection
<1>4. CASE Active(table) = {}
  BY <1>4 DEF GetMaxVersion
<1>5. CASE Active(table) # {}
  <2>1. versions # {} /\ \A id \in Active(table) : table[id].version \in versions
    BY <1>5
  <2>2. GetMaxVersion(table) = Max(versions)
    BY <1>5 DEF GetMaxVersion
  <2>3. \A v \in versions : \E id \in Active(table) : table[id].version = v
    OBVIOUS
  <2> HIDE DEF versions
  <2>4. Max(versions) \in versions /\ \A v \in versions : Max(versions) >= v
    BY <1>2, <1>3, <2>1, MaxIsBound
  <2>5. QED
    BY <1>2, <1>5, <2>1, <2>2, <2>3, <2>4
<1>6. QED
  BY <1>4, <1>5

\* A rule created or updated with a version above the largest makes it the
\* largest: what an edit has to do for RaisingEdit of MoodRuleService_proofs.
THEOREM VersionedEditRaises ==
  ASSUME NEW table, IsTable(table), NEW id, NEW row, IsRow(row),
         row.active, row.version > GetMaxVersion(table),
         NEW edited,
         \/ id \notin DOMAIN table /\ edited = CreateRule(table, id, row)
         \/ id \in DOMAIN table /\ edited = UpdateRule(table, id, row)
  PROVE  /\ IsTable(edited)
         /\ GetMaxVersion(edited) = row.version
         /\ GetMaxVersion(edited) > GetMaxVersion(table)
<1>1. /\ DOMAIN edited = DOMAIN table \cup {id}
      /\ \A k \in DOMAIN table \ {id} : edited[k] = table[k]
      /\ IsRow(edited[id]) /\ edited[id].version = row.version /\ edited[id].active
  <2>1. CASE id \notin DOMAIN table /\ edited = CreateRule(table, id, row)
    BY <2>1 DEF CreateRule
  <2>2. CASE id \in DOMAIN table /\ edited = UpdateRule(table, id, row)
    <3>1. DOMAIN edited = DOMAIN table /\ \A k \in DOMAIN table \ {id} : edited[k] = table[k]
      BY <2>2 DEF UpdateRule
    <3>2. IsRow(edited[id]) /\ edited[id].version = row.version /\ edited[id].active
      BY <2>2 DEF UpdateRule, IsRow, IsTable
    <3>3. QED
      BY <2>2, <3>1, <3>2
  <2>3. QED
    BY <2>1, <2>2
<1>2. IsTable(edited)
  BY <1>1, FS_AddElement DEF IsTable
<1>3. id \in Active(edited) /\ \A k \in Active(edited) \ {id} : k \in Active(table)
  BY <1>1 DEF Active
<1>4. ASSUME NEW k \in Active(edited) PROVE edited[k].version <= row.version
  <2>1. row.version \in Nat /\ GetMaxVersion(table) \in Nat
    BY LargestVersion DEF IsRow
  <2>2. CASE k = id
    BY <1>1, <2>1, <2>2
  <2>3. CASE k # id
    <3>1. k \in Active(table) /\ edited[k] = table[k] /\ table[k].version \in Nat
      BY <1>1, <1>3, <2>3 DEF Active, IsTable, IsRow
    <3>2. table[k].version <= GetMaxVersion(table)
      BY <3>1, LargestVersion
    <3>3. QED
      BY <2>1, <3>1, <3>2
  <2>4. QED
    BY <2>2, <2>3
<1>5. QED
  BY <1>1, <1>2, <1>3, <1>4, LargestVersion DEF IsRow

\* Deleting or deactivating a rule never raises the largest version, and leaves
\* it as it was if and only if another active rule has it: then the reload finds
\* other rules under the version in force, and else a version of the past.
THEOREM RemovalNeverRaises ==
  ASSUME NEW table, IsTable(table), NEW id, NEW row, IsRow(row), ~row.active,
         NEW edited,
         \/ edited = DeleteRule(table, id)
         \/ id \in DOMAIN table /\ edited = UpdateRule(table, id, row)
  PROVE  /\ IsTable(edited)
         /\ GetMaxVersion(edited) <= GetMaxVersion(table)
         /\ GetMaxVersion(edited) = GetMaxVersion(table) <=>
              \/ GetMaxVersion(table) = 0
              \/ \E k \in Active(table) \ {id} : table[k].version = GetMaxVersion(table)
<1>1. /\ DOMAIN edited \subseteq DOMAIN table
      /\ Active(edited) = Active(table) \ {id}
      /\ \A k \in DOMAIN edited : IsRow(edited[k])
      /\ \A k \in DOMAIN edited \ {id} : edited[k] = table[k]
  <2>1. CASE edited = DeleteRule(table, id)
    BY <2>1 DEF DeleteRule, Restrict, Active, IsTable
  <2>2. CASE id \in DOMAIN table /\ edited = UpdateRule(table, id, row)
    <3>1. DOMAIN edited = DOMAIN table /\ \A k \in DOMAIN table \ {id} : edited[k] = table[k]
      BY <2>2 DEF UpdateRule
    <3>2. IsRow(edited[id]) /\ ~edited[id].active
      BY <2>2 DEF UpdateRule, IsRow
    <3>3. QED
      BY <2>2, <3>1, <3>2 DEF Active, IsTable
  <2>3. QED
    BY <2>1, <2>2
<1>2. IsTable(edited)
  BY <1>1, FS_Subset DEF IsTable
<1>3. \A k \in Active(edited) : k \in Active(table) \ {id} /\ edited[k].version = table[k].version
  BY <1>1 DEF Active
<1>4. /\ GetMaxVersion(edited) \in Nat /\ GetMaxVersion(table) \in Nat
      /\ \A k \in Active(edited) : edited[k].version <= GetMaxVersion(edited)
      /\ \A k \in Active(table) : table[k].version <= GetMaxVersion(table)
      /\ Active(edited) = {} => GetMaxVersion(edited) = 0
      /\ Active(edited) # {} =>
           \E k \in Active(edited) : edited[k].version = GetMaxVersion(edited)
  BY <1>2, LargestVersion
<1>5. GetMaxVersion(edited) <= GetMaxVersion(table)
  BY <1>3, <1>4
<1>6. ASSUME NEW k \in Active(table) \ {id}, table[k].version = GetMaxVersion(table)
      PROVE  GetMaxVersion(edited) >= GetMaxVersion(table)
  BY <1>1, <1>3, <1>4, <1>6
<1>7. QED
  BY <1>1, <1>2, <1>3, <1>4, <1>5, <1>6

-----------------------------------------------------------------------------
(***************************************************************************)
(* What the invariant says of every request.                               *)
(***************************************************************************)
\* Each variable stays within its type: among others, the index and the matched
\* rules come from the rules loaded, filters ask for a price the catalog has, and
\* every score is a number.
THEOREM MatchingTypeCorrect == Spec => []TypeOK
<1>1. IInv => TypeOK
  <2> SUFFICES ASSUME IInv PROVE TypeOK
    OBVIOUS
  <2>1. ASSUME NEW m \in DOMAIN index PROVE ToSet(index[m]) \subseteq ToSet(rules)
    <3>1. index[m] \in Seq(ToSet(rules))
      BY DEF IInv, IndexInv
    <3>2. \A n \in DOMAIN index[m] : index[m][n] \in ToSet(rules)
      BY <3>1, LenProperties
    <3>3. QED
      BY <3>2 DEF ToSet
  <2>2. ToSet(matched) \subseteq ToSet(rules)
    BY LenProperties DEF IInv, MatchInv, ToSet
  <2>3. filters # None => filters.min \in Nat /\ filters.max \in 0 .. Ceiling
    BY DEF IInv, FilterInv, Aggregated
  <2>4. \A n \in DOMAIN scored : scored[n].product \in Products /\ scored[n].score \in Int
    BY DEF IInv, ScoreInv
  <2>5. Rank!TypeOK
    BY DEF IInv, RankInv, Sort!IInv, Sort!TypeOK, Sort!Positions, Rank!TypeOK, Rank!Positions
  <2>6. QED
    BY <2>1, <2>2, <2>3, <2>4, <2>5 DEF IInv, PhaseInv, TypeOK
<1>2. QED
  BY <1>1, Invariant, PTL

\* Evaluate returns exactly the offered rules that match: none is lost to the
\* index, the loop or the sort, and none is added.  A rule with an OR over
\* another mood is not offered, which is how one that matches can be missed.
EvaluateExact ==
  Evaluated => ToSet(matched) = {r \in Offered : Matches(r, ctx)}

THEOREM EvaluateIsExact == Spec => []EvaluateExact
<1>1. IInv => EvaluateExact
  <2> SUFFICES ASSUME IInv, Evaluated PROVE ToSet(matched) = {r \in Offered : Matches(r, ctx)}
    BY DEF EvaluateExact
  <2>1. pc # "index" /\ ctx \in Contexts
    BY DEF IInv, PhaseInv, Evaluated, Requested
  <2>2. ToSet(Candidates) = Offered
    BY <2>1, CandidatesAreOffered DEF IInv
  <2>3. QED
    BY <2>2 DEF IInv, MatchInv
<1>2. QED
  BY <1>1, Invariant, PTL

\* sort.Slice asks of a comparison that it be a strict weak order.  The one of
\* Evaluate is: it is irreflexive and transitive, and so is being equal under it.
ComparisonIsWeakOrder ==
  \A r, s, t \in ToSet(rules) :
    /\ ~Before(r, r)
    /\ Before(r, s) /\ Before(s, t) => Before(r, t)
    /\ ~Before(r, s) /\ ~Before(s, t) => ~Before(r, t)

THEOREM ComparisonIsSound == Spec => []ComparisonIsWeakOrder
<1>1. IInv => ComparisonIsWeakOrder
  <2> SUFFICES ASSUME IInv PROVE ComparisonIsWeakOrder
    OBVIOUS
  <2>1. \A r \in ToSet(rules) : r.priority \in Int /\ Score(r) \in Int
    BY RuleScores DEF IInv
  <2>2. QED
    BY <2>1 DEF ComparisonIsWeakOrder, Before
<1>2. QED
  BY <1>1, Invariant, PTL

\* So the sort has a result for every list of matched rules, and no request stops
\* before it.
SortHasResult ==
  pc = "match" /\ pos > Len(Candidates) =>
    \E order \in [1 .. Len(matched) -> 1 .. Len(matched)] :
      /\ IsInjective(order)
      /\ \A m, n \in 1 .. Len(matched) :
           m < n => ~Before(matched[order[n]], matched[order[m]])

THEOREM MatchedCanBeSorted == Spec => []SortHasResult
<1>1. IInv /\ ComparisonIsWeakOrder => SortHasResult
  <2> SUFFICES ASSUME IInv, ComparisonIsWeakOrder
               PROVE  \E order \in [1 .. Len(matched) -> 1 .. Len(matched)] :
                        /\ IsInjective(order)
                        /\ \A m, n \in 1 .. Len(matched) :
                             m < n => ~Before(matched[order[n]], matched[order[m]])
    BY DEF SortHasResult
  <2> DEFINE D == 1 .. Len(matched)
             R == {e \in D \X D : Before(matched[e[1]], matched[e[2]])}
  <2>1. Len(matched) \in Nat /\ \A n \in D : matched[n] \in ToSet(rules)
    BY LenProperties DEF IInv, MatchInv
  <2>2. IsFiniteSet(D) /\ Cardinality(D) = Len(matched)
    BY <2>1, FS_Interval
  <2>3. \A a, b \in D : <<a, b>> \in R <=> Before(matched[a], matched[b])
    OBVIOUS
  <2> HIDE DEF R, D
  <2>4. StrictOrder(R, D)
    BY <2>1, <2>3 DEF StrictOrder, ComparisonIsWeakOrder
  <2>5. PICK order \in Enumerations(R, D) : TRUE
    BY <2>2, <2>4, EnumerationExists
  <2>6. order \in [D -> D] /\ IsInjective(order)
    BY <2>2 DEF Enumerations, Bijection, Injection, D
  <2>7. \A m, n \in D : m < n => ~Before(matched[order[n]], matched[order[m]])
    BY <2>2, <2>3, <2>6 DEF Enumerations, D
  <2>8. QED
    BY <2>6, <2>7 DEF D
<1>2. QED
  BY <1>1, Invariant, ComparisonIsSound, PTL

\* A rule that asks for all its conditions is returned if and only if it matches,
\* and once unless it repeats a mood, for every list of rules.
THEOREM AndRulesAreFound == Spec => []AndRulesFound
<1>1. IInv /\ EvaluateExact => AndRulesFound
  <2> SUFFICES ASSUME IInv, EvaluateExact, Evaluated PROVE AndRulesFound
    BY DEF AndRulesFound
  <2>1. ToSet(matched) = {r \in Offered : Matches(r, ctx)}
    BY DEF EvaluateExact
  <2>2. ASSUME NEW r \in ToSet(rules), r.logic # "OR", Matches(r, ctx)
        PROVE  r \in ToSet(matched)
    BY <2>1, <2>2, AndRuleHasMood DEF Offered
  <2>3. OncePerMood(matched)
    BY DEF IInv, MatchInv
  <2>4. QED
    BY <2>1, <2>2, <2>3 DEF AndRulesFound, OncePerMood
<1>2. QED
  BY <1>1, Invariant, EvaluateIsExact, PTL

\* Rules with an OR that the index can offer whenever they match: they name no
\* mood, or ask about nothing else.
OrRulesIndexable ==
  \A list \in RuleLists : \A r \in ToSet(list) :
    r.logic = "OR" => r.mood = <<>> \/ Conditions(r) = {"mood"}

\* An OR over a mood and something else is the only way for a rule that matches
\* to be missed: without one Evaluate returns every rule that matches.
THEOREM OrRulesAreFound == OrRulesIndexable => (Spec => []MatchingRulesFound)
<1> SUFFICES ASSUME OrRulesIndexable PROVE Spec => []MatchingRulesFound
  OBVIOUS
<1>1. IInv /\ EvaluateExact => MatchingRulesFound
  <2> SUFFICES ASSUME IInv, EvaluateExact, Evaluated, NEW r \in ToSet(rules), Matches(r, ctx)
               PROVE  r \in ToSet(matched)
    BY DEF MatchingRulesFound
  <2>1. r \in Offered => r \in ToSet(matched)
    BY DEF EvaluateExact
  <2>2. CASE r.mood = <<>>
    BY <2>1, <2>2 DEF Offered
  <2>3. CASE r.mood # <<>> /\ r.logic # "OR"
    BY <2>1, <2>3, AndRuleHasMood DEF Offered
  <2>4. CASE r.mood # <<>> /\ r.logic = "OR"
    <3>1. rules \in RuleLists
      <4>1. ToSet(<<>>) = {}
        BY DEF ToSet
      <4>2. QED
        BY <4>1 DEF IInv, PhaseInv
    <3>2. Conditions(r) = {"mood"}
      BY <2>4, <3>1 DEF OrRulesIndexable
    <3>3. "mood" \in Met(r, ctx)
      BY <2>4, <3>2 DEF Matches, Met
    <3>4. ctx.mood \in ToSet(r.mood)
      BY <3>3 DEF Met, Holds
    <3>5. QED
      BY <2>1, <3>4 DEF Offered
  <2>5. QED
    BY <2>2, <2>3, <2>4
<1>2. QED
  BY <1>1, Invariant, EvaluateIsExact, PTL

\* The intersection of the price ranges that the catalog is asked for keeps every
\* product within the range of each matched rule, however many there are.
THEOREM PricesRespected == Spec => []PricesWithinEachRule
<1>1. IInv => PricesWithinEachRule
  <2> SUFFICES ASSUME IInv, NEW n \in DOMAIN scored, NEW r \in ToSet(matched), r.price # None
               PROVE  /\ scored[n].product.price >= r.price.min
                      /\ r.price.max > 0 => scored[n].product.price <= r.price.max
    BY DEF PricesWithinEachRule
  <2>1. scored # <<>>
    OBVIOUS
  <2>2. Aggregated
    BY <2>1 DEF IInv, FilterInv
  <2>3. scored[n].product.price \in filters.min .. filters.max
    BY DEF IInv, ScoreInv
  <2>4. filters.min >= r.price.min /\ (r.price.max > 0 => filters.max <= r.price.max)
    BY <2>2 DEF Aggregated, Priced
  <2>5. r.price.min \in Int /\ r.price.max \in Int
    <3>1. ToSet(matched) \subseteq ToSet(rules)
      BY LenProperties DEF IInv, MatchInv, ToSet
    <3>2. QED
      BY <3>1, ListShape DEF IInv, PhaseInv
  <2>6. QED
    BY <2>2, <2>3, <2>4, <2>5 DEF Aggregated
<1>2. QED
  BY <1>1, Invariant, PTL

\* What the catalog is asked for and what scoreProducts credits agree: a product
\* with a tag asked for has the score of a matched rule, and no other has any.
THEOREM CreditAgrees == Spec => []CreditFollowsFilters
<1>1. IInv => CreditFollowsFilters
  <2> SUFFICES ASSUME IInv, NEW n \in DOMAIN scored
               PROVE  scored[n].rules # {} <=> scored[n].product.tags \cap filters.tags # {}
    BY DEF CreditFollowsFilters
  <2> DEFINE p == scored[n].product
  <2>1. scored[n].rules = Credited(p)
    <3>1. scored[n] = Scored(p)
      BY DEF IInv, ScoreInv
    <3>2. Scored(p).rules = Credited(p)
      BY DEF Scored
    <3>3. QED
      BY <3>1, <3>2
  <2>2. scored # <<>>
    OBVIOUS
  <2>3. filters.tags = UNION {r.actionTags : r \in ToSet(matched)}
    BY <2>2 DEF IInv, FilterInv, Aggregated
  <2>4. Credited(p) # {} <=> \E r \in ToSet(matched) : r.actionTags \cap p.tags # {}
    BY DEF Credited, ToSet
  <2>5. p.tags \cap filters.tags # {} <=> \E r \in ToSet(matched) : r.actionTags \cap p.tags # {}
    BY <2>3
  <2>6. QED
    BY <2>1, <2>4, <2>5
<1>2. QED
  BY <1>1, Invariant, PTL

\* An answer has every product of the catalog once, highest score first, with the
\* scores of this request's rules.
THEOREM AnswerRanked == Spec => []RankedByScore
<1>1. IInv => RankedByScore
  <2> SUFFICES ASSUME IInv, pc = "answered" PROVE RankedByScore
    BY DEF RankedByScore
  <2>1. Rank!NoProductLost
    BY DEF IInv, RankInv, Sort!NoProductLost, Sort!Positions,
           Rank!NoProductLost, Rank!Positions
  <2>2. ASSUME NEW m \in 1 .. Len(scored), NEW n \in 1 .. Len(scored), m < n
        PROVE  scored[ranked[m]].score >= scored[ranked[n]].score
    <3>1. Len(scored) \in Nat /\ DOMAIN scored = 1 .. Len(scored)
      BY LenProperties DEF IInv, ScoreInv
    <3>2. loop = "done"
      <4>1. scored # <<>>
        BY <3>1
      <4>2. QED
        BY <4>1 DEF IInv, RankInv
    <3>3. i = Len(scored) + 1 /\ ranked[m] \in DOMAIN scored /\ ranked[n] \in DOMAIN scored
      BY <3>1, <3>2 DEF IInv, RankInv, Sort!IInv, Sort!TypeOK, Sort!LoopInv, Sort!Positions
    <3>4. m \in 1 .. i - 1 /\ n \in m + 1 .. Len(scored)
      BY <2>2, <3>1, <3>3
    <3>5. Sort!At(m) >= Sort!At(n)
      BY <3>4 DEF IInv, RankInv, Sort!IInv, Sort!OrderInv, Sort!Dominates
    <3>6. QED
      BY <3>3, <3>5 DEF Sort!At
  <2>3. QED
    BY <2>1, <2>2 DEF RankedByScore
<1>2. QED
  BY <1>1, Invariant, PTL

=============================================================================
