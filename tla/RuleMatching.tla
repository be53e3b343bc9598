---------------------------- MODULE RuleMatching ----------------------------
(***************************************************************************)
(* What Recommend computes on a cache miss: buildIndex over the engine's   *)
(* rules, Evaluate over the candidates the index offers, aggregateFilters  *)
(* for the product catalog, and the scores of the products it returns.     *)
(* The engine can install other rules between two requests.  Locking is    *)
(* the subject of module RuleEngine; the sort of the products is Ranking.  *)
(*                                                                         *)
(* A rule's conditions are the values each kind admits, the empty set for  *)
(* a kind it does not ask about; its moods are a sequence, which may name  *)
(* a mood twice.  Preferences are pairs of a key and a value.              *)
(***************************************************************************)
EXTENDS Integers, Sequences, SequencesExt, FiniteSetsExt

CONSTANTS
  RuleLists,  \* what GetAllActiveRules returns: sequences of active rules
  Contexts,   \* what requests ask
  Moods,
  Products,   \* what the catalog sells: records of a price and tags
  Ceiling,    \* 1000000.0, the largest price asked for
  None

ASSUME MoodAssumption == "*" \notin Moods

\* A query returns each row once; a row carries its id, so no two are equal.
ASSUME RuleAssumption ==
  \A list \in RuleLists :
    /\ list \in Seq(ToSet(list)) /\ IsInjective(list)
    /\ \A r \in ToSet(list) :
         /\ r.mood \in Seq(Moods)
         /\ r.priority \in Int /\ r.weight \in Int /\ r.boost \in Int
         /\ r.price # None => r.price.min \in Int /\ r.price.max \in Int

ASSUME RequestAssumption ==
  /\ \A c \in Contexts : c.mood \in Moods
  /\ IsFiniteSet(Products)
  /\ Ceiling \in Nat

VARIABLES
  rules,    \* e.rules
  index,    \* e.rulesByMood
  pos,      \* loop variable of buildIndex and of Evaluate
  pc,
  ctx,      \* the request evaluated
  matched,  \* its matched rules
  filters,  \* what the catalog is asked for
  scored,   \* the products it returned, with the score of each and the
            \* positions in matched of the rules it comes from
  ranked,   \* their order
  i, j,     \* loop variables of the sort
  loop      \* its program counter

sorting == <<ranked, i, j, loop>>
vars    == <<rules, index, pos, pc, ctx, matched, filters, scored, sorting>>

Rank == INSTANCE Ranking WITH count <- Len(scored), pc <- loop,
                              score <- [n \in DOMAIN scored |-> scored[n].score]

NoIndex == [m \in Moods \cup {"*"} |-> <<>>]

\* The zero engine: no rules, no index.
Init ==
  /\ rules = <<>>
  /\ index = NoIndex
  /\ pos = 1
  /\ pc = "idle"
  /\ ctx = None
  /\ matched = <<>>
  /\ filters = None
  /\ scored = <<>>
  /\ ranked = <<>> /\ i = 1 /\ j = 1 /\ loop = "outer"

\* n products in the order the catalog sent them.
Unsorted(n) == ranked' = [k \in 1 .. n |-> k] /\ i' = 1 /\ j' = 1 /\ loop' = "outer"

-----------------------------------------------------------------------------
(***************************************************************************)
(* Rule.Matches.                                                           *)
(***************************************************************************)
Conditions(r) ==
  {k \in {"mood", "timeOfDay", "weather", "occasion", "preferences", "tags"} :
     IF k = "mood" THEN r.mood # <<>> ELSE r[k] # {}}

\* One of several values, every preference asked for, or a tag in common.
Holds(r, k, c) ==
  CASE k = "mood"        -> c.mood \in ToSet(r.mood)
    [] k = "preferences" -> r.preferences \subseteq c.preferences
    [] k = "tags"        -> r.tags \cap c.tags # {}
    [] OTHER             -> c[k] \in r[k]

Met(r, c) == {k \in Conditions(r) : Holds(r, k, c)}

Matches(r, c) ==
  IF r.logic = "OR" THEN Met(r, c) # {}
  ELSE Conditions(r) # {} /\ Met(r, c) = Conditions(r)

-----------------------------------------------------------------------------
(***************************************************************************)
(* buildIndex, from a new map, rule by rule; the locals of the last call   *)
(* of Recommend are gone.                                                  *)
(***************************************************************************)
\* Mutant: rules are indexed into the old map.
Install_KeepsIndex ==
  /\ pc \in {"idle", "answered"}
  /\ rules' \in RuleLists
  /\ pos' = 1
  /\ pc' = "index"
  /\ ctx' = None /\ matched' = <<>> /\ filters' = None /\ scored' = <<>>
  /\ Unsorted(0)
  /\ UNCHANGED index

Install ==
  /\ pc \in {"idle", "answered"}
  /\ rules' \in RuleLists
  /\ index' = NoIndex
  /\ pos' = 1
  /\ pc' = "index"
  /\ ctx' = None /\ matched' = <<>> /\ filters' = None /\ scored' = <<>>
  /\ Unsorted(0)

\* Mutant: every rule is a candidate for any mood too.
Buckets_Both(r) == Append(r.mood, "*")

Buckets(r) == IF r.mood = <<>> THEN <<"*">> ELSE r.mood

\* A rule is appended to a bucket as often as it names it.
Times(r, m) == Cardinality({n \in DOMAIN Buckets(r) : Buckets(r)[n] = m})

IndexRule ==
  /\ pc = "index" /\ pos <= Len(rules)
  /\ LET r == rules[pos]
     IN  index' = [m \in DOMAIN index |-> index[m] \o [n \in 1 .. Times(r, m) |-> r]]
  /\ pos' = pos + 1
  /\ UNCHANGED <<rules, pc, ctx, matched, filters, scored, sorting>>

Indexed ==
  /\ pc = "index" /\ pos > Len(rules)
  /\ pc' = "idle"
  /\ UNCHANGED <<rules, index, pos, ctx, matched, filters, scored, sorting>>

-----------------------------------------------------------------------------
(***************************************************************************)
(* Evaluate, candidate by candidate.                                       *)
(***************************************************************************)
\* Mutant: rules without moods are candidates only when none has the mood.
Candidates_Fallback == IF index[ctx.mood] = <<>> THEN index["*"] ELSE index[ctx.mood]

Candidates == index[ctx.mood] \o index["*"]

Request ==
  /\ pc \in {"idle", "answered"}
  /\ ctx' \in Contexts
  /\ pos' = 1
  /\ matched' = <<>>
  /\ filters' = None
  /\ scored' = <<>>
  /\ Unsorted(0)
  /\ pc' = "match"
  /\ UNCHANGED <<rules, index>>

MatchCandidate ==
  /\ pc = "match" /\ pos <= Len(Candidates)
  /\ matched' = IF Matches(Candidates[pos], ctx)
                  THEN Append(matched, Candidates[pos]) ELSE matched
  /\ pos' = pos + 1
  /\ UNCHANGED <<rules, index, pc, ctx, filters, scored, sorting>>

\* Rule.CalculateScore
Score(r) == r.priority * r.weight * (IF r.boost > 0 THEN 1 + r.boost ELSE 1)

\* sort.Slice: by priority, then by score, descending, equal rules in any order.
Before(r, s) ==
  r.priority > s.priority \/ (r.priority = s.priority /\ Score(r) > Score(s))

SortMatched ==
  /\ pc = "match" /\ pos > Len(Candidates)
  /\ \E order \in [1 .. Len(matched) -> 1 .. Len(matched)] :
       /\ IsInjective(order)
       /\ matched' = [n \in 1 .. Len(matched) |-> matched[order[n]]]
       /\ \A m, n \in 1 .. Len(matched) : m < n => ~Before(matched'[n], matched'[m])
  /\ pc' = IF matched = <<>> THEN "answered" ELSE "filters"
  /\ UNCHANGED <<rules, index, pos, ctx, filters, scored, sorting>>

-----------------------------------------------------------------------------
(***************************************************************************)
(* Server.aggregateFilters.  A price range [min, max] is None when absent, *)
(* and its max is 0 when it has none.                                      *)
(***************************************************************************)
Priced == {r \in ToSet(matched) : r.price # None}

\* Mutant: the ranges are merged instead of intersected.
AggregateFilters_Merged ==
  /\ pc = "filters"
  /\ filters' =
       [tags |-> UNION {r.actionTags : r \in ToSet(matched)},
        min  |-> Min({Ceiling} \cup {r.price.min : r \in Priced}),
        max  |-> Max({0} \cup {r.price.max : r \in Priced})]
  /\ pc' = "fetch"
  /\ UNCHANGED <<rules, index, pos, ctx, matched, scored, sorting>>

\* Mutant: only the first matched rule's tags are asked for.
AggregateFilters_First ==
  /\ pc = "filters"
  /\ filters' =
       [tags |-> matched[1].actionTags,
        min  |-> Max({0} \cup {r.price.min : r \in Priced}),
        max  |-> Min({Ceiling} \cup {r.price.max : r \in {s \in Priced : s.price.max > 0}})]
  /\ pc' = "fetch"
  /\ UNCHANGED <<rules, index, pos, ctx, matched, scored, sorting>>

AggregateFilters ==
  /\ pc = "filters"
  /\ filters' =
       [tags |-> UNION {r.actionTags : r \in ToSet(matched)},
        min  |-> Max({0} \cup {r.price.min : r \in Priced}),
        max  |-> Min({Ceiling} \cup {r.price.max : r \in {s \in Priced : s.price.max > 0}})]
  /\ pc' = "fetch"
  /\ UNCHANGED <<rules, index, pos, ctx, matched, scored, sorting>>

\* The catalog fails.
GetProductsFails ==
  /\ pc = "fetch"
  /\ pc' = "answered"
  /\ UNCHANGED <<rules, index, pos, ctx, matched, filters, scored, sorting>>

\* Server.scoreProducts up to the sort: a product earns the score of every
\* matched rule it shares a tag with.  The catalog returns products within the
\* price range, in some order, each at most once.
Credited(p) == {n \in DOMAIN matched : matched[n].actionTags \cap p.tags # {}}

Scored(p) == [product |-> p,
              score   |-> SumFunctionOnSet([n \in DOMAIN matched |-> Score(matched[n])],
                                           Credited(p)),
              rules   |-> Credited(p)]

ScoreProducts ==
  /\ pc = "fetch"
  /\ \E found \in SUBSET {p \in Products : p.price \in filters.min .. filters.max} :
       \E products \in SetToSeqs(found) :
         /\ scored' = [n \in 1 .. Len(products) |-> Scored(products[n])]
         /\ Unsorted(Len(products))
  /\ pc' = "rank"
  /\ UNCHANGED <<rules, index, pos, ctx, matched, filters>>

\* The sort, and what follows it: the answer is cached and returned.
SortProducts ==
  /\ pc = "rank"
  /\ UNCHANGED <<rules, index, pos, ctx, matched, filters, scored>>
  /\ \/ Rank!Next /\ UNCHANGED pc
     \/ loop = "done" /\ pc' = "answered" /\ UNCHANGED sorting

-----------------------------------------------------------------------------
Next ==
  \/ Install \/ IndexRule \/ Indexed
  \/ Request \/ MatchCandidate \/ SortMatched \/ AggregateFilters
  \/ GetProductsFails \/ ScoreProducts \/ SortProducts

Spec == Init /\ [][Next]_vars

-----------------------------------------------------------------------------

TypeOK ==
  /\ rules \in RuleLists \cup {<<>>}
  /\ \A m \in DOMAIN index : ToSet(index[m]) \subseteq ToSet(rules)
  /\ pos \in Nat
  /\ pc \in {"idle", "index", "match", "filters", "fetch", "rank", "answered"}
  /\ ctx \in Contexts \cup {None}
  /\ ToSet(matched) \subseteq ToSet(rules)
  /\ filters # None => filters.min \in Nat /\ filters.max \in 0 .. Ceiling
  /\ \A n \in DOMAIN scored : scored[n].product \in Products /\ scored[n].score \in Int
  /\ Rank!TypeOK

\* Evaluate has returned.
Evaluated == pc \in {"filters", "fetch", "rank", "answered"}

\* Evaluate returns each rule that asks for all of its conditions and matches
\* the request, none that does not match, and none more than once, so that it is
\* scored more than once, unless its list of moods repeats.
AndRulesFound ==
  Evaluated =>
    /\ \A r \in ToSet(rules) : r.logic # "OR" /\ Matches(r, ctx) => r \in ToSet(matched)
    /\ \A r \in ToSet(matched) : Matches(r, ctx)
    /\ \A m, n \in DOMAIN matched :
         m # n /\ matched[m] = matched[n] => ~IsInjective(matched[m].mood)

\* Evaluate returns every loaded rule that matches the request, whichever way
\* its conditions combine.
MatchingRulesFound ==
  Evaluated => \A r \in ToSet(rules) : Matches(r, ctx) => r \in ToSet(matched)

\* A scored product costs no less than every matched rule with a price range
\* asks, and no more, an upper bound of zero being none.
PricesWithinEachRule ==
  \A n \in DOMAIN scored : \A r \in ToSet(matched) :
    r.price # None =>
      /\ scored[n].product.price >= r.price.min
      /\ r.price.max > 0 => scored[n].product.price <= r.price.max

\* A product that carries a tag the catalog was asked for is credited to a
\* matched rule, and any other product to none.
CreditFollowsFilters ==
  \A n \in DOMAIN scored :
    scored[n].rules # {} <=> scored[n].product.tags \cap filters.tags # {}

\* An answer lists every product of the catalog once, by score, highest first,
\* whatever order the catalog sent them in.
RankedByScore ==
  pc = "answered" =>
    /\ Rank!NoProductLost
    /\ \A m, n \in 1 .. Len(scored) :
         m < n => scored[ranked[m]].score >= scored[ranked[n]].score

=============================================================================
