------------------------- MODULE MemoryCache_proofs -------------------------
(***************************************************************************)
(* MemoryCache keeps the promise of TTLCache for all keys, values,         *)
(* patterns, times to live and ticker periods.                             *)
(***************************************************************************)
EXTENDS MemoryCache, TLAPS

Stored == [value : Values, left : -1 .. TTL] \cup {None}

\* A time to live is positive whatever NewMemoryCache is asked for, and None is
\* no entry.
LEMMA TTLPositive ==
  /\ TTL \in Nat \ {0}
  /\ None \notin [value : Values, left : -1 .. TTL]
<1>1. TTL \in Nat \ {0}
  BY TimeAssumption DEF TTL
<1>2. [value : Values, left : -1 .. TTL] \subseteq [value : Values, left : Int]
  BY <1>1
<1> QED BY <1>1, <1>2, DataAssumption

LEMMA AgeType == \A e \in Stored : Age(e) \in Stored
<1> SUFFICES ASSUME NEW e \in Stored PROVE Age(e) \in Stored
  OBVIOUS
<1>1. CASE e = None
  BY <1>1 DEF Age, Stored
<1>2. CASE e # None
  BY <1>2, TTLPositive DEF Age, Stored, Expired
<1> QED BY <1>1, <1>2

\* What the cache stores, the cleaner and the ticker keep their types; no entry
\* has longer to live than the cache's time to live.
THEOREM CacheTypeCorrect == Spec => []TypeOK
<1>1. Init => TypeOK
  <2>1. Period \in 1 .. Period
    BY TimeAssumption
  <2> QED BY <2>1 DEF Init, TypeOK
<1>2. TypeOK /\ [Next]_vars => TypeOK'
  <2> SUFFICES ASSUME TypeOK, [Next]_vars PROVE TypeOK'
    OBVIOUS
  <2> USE DEF TypeOK
  <2>1. ASSUME NEW k \in Keys, Get(k) PROVE TypeOK'
    BY <2>1, TTLPositive DEF Get
  <2>2. ASSUME NEW k \in Keys, Delete(k) PROVE TypeOK'
    BY <2>2 DEF Delete
  <2>3. ASSUME NEW k \in Keys, NEW v \in Values, Set(k, v) PROVE TypeOK'
    BY <2>3, TTLPositive DEF Set
  <2>4. ASSUME NEW p \in Patterns, InvalidateByPattern(p) PROVE TypeOK'
    BY <2>4 DEF InvalidateByPattern
  <2>5. CASE Clear
    BY <2>5 DEF Clear
  <2>6. CASE Close
    BY <2>6 DEF Close
  <2>7. CASE ReceiveTick \/ ReceiveStop
    BY <2>7 DEF ReceiveTick, ReceiveStop
  <2>8. CASE RemoveExpired
    BY <2>8 DEF RemoveExpired
  <2>9. CASE Elapse
    <3>1. store' \in [Keys -> Stored]
      BY <2>9, AgeType DEF Elapse, Stored
    <3>2. untilTick' \in 1 .. Period
      BY <2>9, TimeAssumption DEF Elapse
    <3> QED BY <2>9, <3>1, <3>2 DEF Elapse, Stored
  <2>10. CASE UNCHANGED vars
    BY <2>10 DEF vars
  <2> QED BY <2>1, <2>2, <2>3, <2>4, <2>5, <2>6, <2>7, <2>8, <2>9, <2>10 DEF Next
<1> QED BY <1>1, <1>2, PTL DEF Spec

-----------------------------------------------------------------------------
(***************************************************************************)
(* The refinement.  Live hides the expired entries, so what the cleaner    *)
(* removes was not there, and an entry leaves Live in the unit of time in  *)
(* which it expires.                                                       *)
(***************************************************************************)

\* One unit of time does to the entries alive what it does to an entry of the map.
LEMMA AgeLive ==
  \A e \in Stored :
    (IF Expired(Age(e)) THEN None ELSE Age(e)) = Promise!Age(IF Expired(e) THEN None ELSE e)
<1> SUFFICES ASSUME NEW e \in Stored
             PROVE  (IF Expired(Age(e)) THEN None ELSE Age(e))
                      = Promise!Age(IF Expired(e) THEN None ELSE e)
  OBVIOUS
<1>1. CASE e = None
  BY <1>1 DEF Age, Expired, Promise!Age
<1>2. CASE e # None /\ e.left < 0
  BY <1>2 DEF Age, Expired, Promise!Age
<1>3. CASE e # None /\ ~(e.left < 0)
  <2>1. e \in [value : Values, left : -1 .. TTL] /\ e.left \in 0 .. TTL
    BY <1>3, TTLPositive DEF Stored
  <2>2. Age(e) = [e EXCEPT !.left = @ - 1] /\ ~Expired(e)
    BY <1>3 DEF Age, Expired
  <2>3. Age(e) \in [value : Values, left : -1 .. TTL] /\ Age(e).left = e.left - 1
    BY <2>1, <2>2, TTLPositive
  <2>4. Age(e) # None
    BY <2>3, TTLPositive
  <2> QED BY <1>3, <2>1, <2>2, <2>3, <2>4 DEF Expired, Promise!Age
<1> QED BY <1>1, <1>2, <1>3

LEMMA LiveStep ==
  ASSUME TypeOK, [Next]_vars
  PROVE  [Promise!Next]_<<Live, answer>>
<1>1. \A k \in Keys : store[k] \in Stored
  BY DEF TypeOK, Stored
<1>2. ASSUME NEW k \in Keys, Get(k) PROVE Promise!Lookup(k) /\ UNCHANGED Live
  BY <1>2 DEF Get, Promise!Lookup, Live, Expired
<1>3. ASSUME NEW k \in Keys, Delete(k) PROVE Promise!Drop({k})
  BY <1>3, <1>1 DEF Delete, Promise!Drop, Live, Expired, TypeOK
<1>4. ASSUME NEW k \in Keys, NEW v \in Values, Set(k, v) PROVE Promise!Put(k, v)
  <2> DEFINE e == [value |-> v, left |-> TTL]
  <2>1. ~Expired(e)
    BY TTLPositive DEF Expired
  <2>2. \A x \in Keys : Live'[x] = IF x = k THEN e ELSE Live[x]
    BY <1>4, <2>1 DEF Set, Live, Expired, TypeOK
  <2>3. Live' = [Live EXCEPT ![k] = e]
    BY <2>2 DEF Live
  <2> QED BY <1>4, <2>3 DEF Set, Promise!Put
<1>5. ASSUME NEW p \in Patterns, InvalidateByPattern(p) PROVE Promise!Drop(Matching[p])
  BY <1>5 DEF InvalidateByPattern, Promise!Drop, Live, Expired
<1>6. CASE Clear
  <2>1. Promise!Drop(Keys)
    BY <1>6 DEF Clear, Promise!Drop, Live, Expired
  <2> QED BY <2>1 DEF Promise!Next
<1>7. CASE RemoveExpired
  <2>1. \A k \in Keys : Live'[k] = Live[k]
    BY <1>7 DEF RemoveExpired, Live, Expired
  <2>2. UNCHANGED <<Live, answer>>
    BY <1>7, <2>1 DEF RemoveExpired, Live
  <2> QED BY <2>2
<1>8. CASE Elapse
  <2>1. \A k \in Keys : Live'[k] = Promise!Age(Live[k])
    BY <1>8, <1>1, AgeLive DEF Elapse, Live
  <2>2. Promise!Elapse
    BY <1>8, <2>1 DEF Elapse, Promise!Elapse, Live
  <2> QED BY <2>2 DEF Promise!Next
<1>9. CASE Close \/ ReceiveTick \/ ReceiveStop \/ UNCHANGED vars
  BY <1>9 DEF Close, ReceiveTick, ReceiveStop, vars, Live, Expired
<1>10. \A p \in Patterns : Matching[p] \in SUBSET Keys
  BY DataAssumption
<1> QED BY <1>2, <1>3, <1>4, <1>5, <1>6, <1>7, <1>8, <1>9, <1>10 DEF Next, Promise!Next

\* The cache implements the abstract map: a lookup finds exactly the entries that
\* were stored, not removed since and not past their time to live.
THEOREM CacheKeepsPromise == Spec => ImplementsTTLCache
<1>1. Init => Promise!Init
  BY DEF Init, Promise!Init, Live, Expired
<1> QED BY <1>1, LiveStep, CacheTypeCorrect, PTL DEF Spec, ImplementsTTLCache, Promise!Spec

(***************************************************************************)
(* What MoodRuleService assumes of the cache: a key holds what the last    *)
(* Set put there, or nothing, a lookup returns it, and no call, tick or    *)
(* passing of time puts an older value back or one under another key.      *)
(***************************************************************************)
Held(k) == IF Live[k] = None THEN None ELSE Live[k].value

OnlySetAdds ==
  /\ \A k \in Keys : \/ Held(k)' \in {Held(k), None}
                     \/ \E v \in Values : Set(k, v) /\ Held(k)' = v
  /\ answer' = answer \/ \E k \in Keys : Get(k) /\ answer' = Held(k)

\* Seen through Get, the map is one of which entries vanish at any moment, whatever
\* the time to live and the ticker.
THEOREM CacheOnlyForgets == Spec => [][OnlySetAdds]_vars
<1>1. TypeOK /\ [Next]_vars => [OnlySetAdds]_vars
  <2> SUFFICES ASSUME TypeOK, Next PROVE OnlySetAdds
    OBVIOUS
  <2>1. \A k \in Keys : Held(k) = IF store[k] = None \/ Expired(store[k]) THEN None
                                  ELSE store[k].value
    BY DEF Held, Live
  <2>2. \A k \in Keys : Held(k)' = IF store'[k] = None \/ Expired(store'[k]) THEN None
                                   ELSE store'[k].value
    BY DEF Held, Live, Expired
  <2>3. ASSUME NEW x \in Keys, Get(x) PROVE OnlySetAdds
    BY <2>1, <2>2, <2>3 DEF Get, OnlySetAdds
  <2>4. ASSUME NEW x \in Keys, NEW v \in Values, Set(x, v) PROVE OnlySetAdds
    <3>1. /\ store'[x] = [value |-> v, left |-> TTL] /\ ~Expired(store'[x])
          /\ store'[x] # None
          /\ \A k \in Keys \ {x} : store'[k] = store[k]
          /\ answer' = answer
      BY <2>4, TTLPositive, DataAssumption DEF Set, Expired, TypeOK
    <3>2. Held(x)' = v
      BY <2>2, <3>1
    <3>3. \A k \in Keys \ {x} : Held(k)' = Held(k)
      BY <2>1, <2>2, <3>1
    <3>4. QED
      BY <2>4, <3>1, <3>2, <3>3 DEF OnlySetAdds
  <2>5. CASE answer' = answer /\ \A k \in Keys : store'[k] \in {store[k], None}
    BY <2>1, <2>2, <2>5 DEF OnlySetAdds
  <2>6. CASE (\E x \in Keys : Delete(x)) \/ (\E p \in Patterns : InvalidateByPattern(p)) \/ Clear
    BY <2>5, <2>6 DEF Delete, InvalidateByPattern, Clear, TypeOK
  <2>7. CASE Close \/ ReceiveTick \/ ReceiveStop \/ RemoveExpired
    BY <2>5, <2>7 DEF Close, ReceiveTick, ReceiveStop, RemoveExpired
  <2>8. CASE Elapse
    <3>1. ASSUME NEW k \in Keys PROVE Held(k)' \in {Held(k), None}
      <4>1. store'[k] = Age(store[k])
        BY <2>8 DEF Elapse
      <4>2. CASE store[k] = None \/ Expired(store[k])
        BY <2>1, <2>2, <4>1, <4>2 DEF Age
      <4>3. CASE store[k] # None /\ ~Expired(store[k])
        <5>1. store'[k] = [store[k] EXCEPT !.left = @ - 1]
          BY <4>1, <4>3 DEF Age
        <5>2. store[k] \in [value : Values, left : -1 .. TTL]
          BY <4>3 DEF TypeOK
        <5>3. store'[k].value = store[k].value
          BY <5>1, <5>2
        <5>4. QED
          BY <2>1, <2>2, <4>3, <5>3
      <4>4. QED
        BY <4>2, <4>3
    <3>2. QED
      BY <2>8, <3>1 DEF Elapse, OnlySetAdds
  <2>9. QED
    BY <2>3, <2>4, <2>6, <2>7, <2>8 DEF Next
<1>2. QED
  BY <1>1, CacheTypeCorrect, PTL DEF Spec

\* Closing twice never closes the channel twice, which would end the process.
THEOREM CloseSafe == Spec => []CloseIsIdempotent
<1>1. Init => CloseIsIdempotent
  BY DEF Init, CloseIsIdempotent
<1>2. CloseIsIdempotent /\ TypeOK /\ [Next]_vars => CloseIsIdempotent'
  BY DEF CloseIsIdempotent, TypeOK, Next, vars, Get, Set, Delete, InvalidateByPattern,
         Clear, Close, ReceiveTick, ReceiveStop, RemoveExpired, Elapse
<1> QED BY <1>1, <1>2, CacheTypeCorrect, PTL DEF Spec

=============================================================================
