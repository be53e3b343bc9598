----------------------- MODULE MoodRuleService_proofs -----------------------
(***************************************************************************)
(* Theorems about MoodRuleService for all rule sets, keys, requests and    *)
(* handlers.                                                               *)
(***************************************************************************)
EXTENDS MoodRuleService, TLAPS

(***************************************************************************)
(* What an administrator who wants consistent answers has to do: raise the *)
(* largest version with every edit, never reuse a version for different    *)
(* rules, and wait for the reload before editing again.                    *)
(***************************************************************************)
RaisingEdit == \A s, t \in RuleSets : <<s, t>> \in Edits => VersionOf[s] < VersionOf[t]
NoReuse     == \A s, t \in RuleSets : VersionOf[s] = VersionOf[t] => s = t
Disciplined == OneAtATime /\ RaisingEdit /\ NoReuse

-----------------------------------------------------------------------------
(***************************************************************************)
(* Types.                                                                  *)
(***************************************************************************)

\* Every version is a natural number and versions include that of the empty
\* table, which both zero values of a fresh engine name.
LEMMA VersionsAreNat ==
  /\ Versions \subseteq Nat
  /\ 0 \in Versions
  /\ \A s \in RuleSets : VersionOf[s] \in Versions
BY RuleSetsAssumption DEF Versions

LEMMA NoLoadType ==
  /\ NoLoad \in LoadStates
  /\ [NoLoad EXCEPT !.pc = "rules"] \in LoadStates
  /\ [NoLoad EXCEPT !.pc = "exited"] \in LoadStates
  /\ [NoLoad EXCEPT !.pc = "invalidate"] \in LoadStates
BY RuleSetsAssumption, VersionsAreNat DEF NoLoad, LoadStates

LEMMA NoRequestType ==
  /\ NoRequest \in RequestStates
  /\ \A e \in Extras : [NoRequest EXCEPT !.pc = "mood", !.extra = e] \in RequestStates
BY VersionsAreNat DEF NoRequest, RequestStates

(***************************************************************************)
(* TypeOK alone is not inductive: CheckCache looks the cache up under the  *)
(* request's key, which is None until the mood is known, and Evaluate      *)
(* copies the request's extra into the answer.                             *)
(***************************************************************************)
InputsHeld ==
  \A r \in Requests :
    /\ req[r].pc \in {"mood", "key", "get", "eval", "fetch"} => req[r].extra \in Extras
    /\ req[r].pc \in {"key", "get", "eval", "fetch"} => req[r].key \in Keys

TypeInv == TypeOK /\ InputsHeld

\* A step of one request leaves every request well typed when it leaves that
\* one so.
LEMMA RequestTyped ==
  ASSUME TypeInv, NEW r \in Requests, NEW q \in RequestStates,
         req' = [req EXCEPT ![r] = q],
         q.pc \in {"mood", "key", "get", "eval", "fetch"} => q.extra \in Extras,
         q.pc \in {"key", "get", "eval", "fetch"} => q.key \in Keys
  PROVE  req' \in [Requests -> RequestStates] /\ InputsHeld'
<1>1. req \in [Requests -> RequestStates]
  BY DEF TypeInv, TypeOK
<1>2. \A x \in Requests : req'[x] = IF x = r THEN q ELSE req[x]
  BY <1>1
<1>3. InputsHeld'
  BY <1>2 DEF TypeInv, InputsHeld
<1> QED BY <1>1, <1>3

LEMMA InitTyped == Init => TypeInv
<1> SUFFICES ASSUME Init PROVE TypeInv
  OBVIOUS
<1>1. load \in [Loaders -> LoadStates]
  BY NoLoadType DEF Init
<1>2. engine \in [rules : RuleSets, version : Versions]
  BY RuleSetsAssumption, VersionsAreNat DEF Init
<1>3. req \in [Requests -> RequestStates]
  BY NoRequestType DEF Init
<1>4. notices \in 0 .. MaxNotices
  BY GoroutineAssumption DEF Init
<1>5. TypeOK
  BY <1>1, <1>2, <1>3, <1>4 DEF Init, TypeOK
<1>6. InputsHeld
  BY DEF Init, InputsHeld, NoRequest
<1> QED BY <1>5, <1>6 DEF TypeInv

LEMMA EditsTyped ==
  TypeInv /\ (Edit \/ \E h \in Handlers : Publish(h)) => TypeInv'
<1> SUFFICES ASSUME TypeInv PROVE Edit \/ (\E h \in Handlers : Publish(h)) => TypeInv'
  OBVIOUS
<1>1. ASSUME Edit PROVE TypeInv'
  BY <1>1, GoroutineAssumption DEF Edit, TypeInv, TypeOK, InputsHeld
<1>2. ASSUME NEW h \in Handlers, Publish(h) PROVE TypeInv'
  <2>1. load' \in [Loaders -> LoadStates]
    BY <1>2 DEF Publish, TypeInv, TypeOK, LoadStates, Loaders
  <2>2. notices' \in 0 .. MaxNotices
    BY <1>2, GoroutineAssumption DEF Publish, TypeInv, TypeOK
  <2> QED BY <1>2, <2>1, <2>2 DEF Publish, TypeInv, TypeOK, InputsHeld
<1> QED BY <1>1, <1>2

LEMMA LoadsTyped ==
  TypeInv /\ (\E l \in Loaders : LoadStep(l) \/ QueryFails(l)) => TypeInv'
<1> SUFFICES ASSUME TypeInv, NEW l \in Loaders, LoadStep(l) \/ QueryFails(l)
             PROVE  TypeInv'
  OBVIOUS
<1>1. load \in [Loaders -> LoadStates] /\ db \in RuleSets
  BY DEF TypeInv, TypeOK
<1>2. CASE GetAllActiveRules(l)
  <2>1. load' \in [Loaders -> LoadStates]
    BY <1>1, <1>2 DEF GetAllActiveRules, LoadStates
  <2> QED BY <1>2, <2>1 DEF GetAllActiveRules, TypeInv, TypeOK, InputsHeld
<1>3. CASE GetMaxVersion(l)
  <2>1. VersionOf[db] \in Versions
    BY <1>1, VersionsAreNat
  <2>2. load' \in [Loaders -> LoadStates]
    BY <1>1, <1>3, <2>1 DEF GetMaxVersion, LoadStates
  <2> QED BY <1>3, <2>2 DEF GetMaxVersion, TypeInv, TypeOK, InputsHeld
<1>4. CASE QueryFails(l)
  <2>1. load' \in [Loaders -> LoadStates]
    BY <1>1, <1>4, NoLoadType DEF QueryFails
  <2> QED BY <1>4, <2>1 DEF QueryFails, TypeInv, TypeOK, InputsHeld
<1>5. CASE Install(l)
  <2>1. load' \in [Loaders -> LoadStates]
    BY <1>1, <1>5, NoLoadType DEF Install
  <2>2. engine' \in [rules : RuleSets, version : Versions]
    BY <1>1, <1>5 DEF Install, LoadStates
  <2> QED BY <1>5, <2>1, <2>2 DEF Install, TypeInv, TypeOK, InputsHeld
<1>6. CASE InvalidateCache(l)
  <2>1. load' \in [Loaders -> LoadStates]
    BY <1>1, <1>6, NoLoadType DEF InvalidateCache
  <2> QED BY <1>6, <2>1 DEF InvalidateCache, TypeInv, TypeOK, InputsHeld
<1> QED BY <1>2, <1>3, <1>4, <1>5, <1>6 DEF LoadStep

LEMMA RequestsTyped ==
  TypeInv /\ (\E r \in Requests : Receive(r) \/ RequestStep(r) \/ Reject(r)) => TypeInv'
<1> SUFFICES ASSUME TypeInv, NEW r \in Requests,
                    Receive(r) \/ RequestStep(r) \/ Reject(r)
             PROVE  TypeInv'
  OBVIOUS
<1>1. req \in [Requests -> RequestStates] /\ req[r] \in RequestStates
  BY DEF TypeInv, TypeOK
<1>2. CASE Receive(r)
  <2>1. PICK e \in Extras :
          req' = [req EXCEPT ![r] = [NoRequest EXCEPT !.pc = "mood", !.extra = e]]
    BY <1>2 DEF Receive
  <2>2. req' \in [Requests -> RequestStates] /\ InputsHeld'
    BY <2>1, NoRequestType, RequestTyped DEF NoRequest
  <2> QED BY <1>2, <2>2 DEF Receive, TypeInv, TypeOK
<1>3. CASE Reject(r)
  <2> DEFINE q == [req[r] EXCEPT !.pc = "done", !.ans = None]
  <2>1. q \in RequestStates /\ q.pc = "done" /\ req' = [req EXCEPT ![r] = q]
    BY <1>1, <1>3 DEF Reject, RequestStates
  <2> HIDE DEF q
  <2>2. req' \in [Requests -> RequestStates] /\ InputsHeld'
    BY <2>1, RequestTyped
  <2> QED BY <1>3, <2>2 DEF Reject, TypeInv, TypeOK
<1>4. CASE GetUserMood(r)
  <2>1. PICK k \in Keys : req' = [req EXCEPT ![r].pc = "key", ![r].key = k]
    BY <1>4 DEF GetUserMood
  <2> DEFINE q == [req[r] EXCEPT !.pc = "key", !.key = k]
  <2>2. q \in RequestStates /\ q.key = k /\ q.extra = req[r].extra
    BY <1>1 DEF RequestStates
  <2>3. req' = [req EXCEPT ![r] = q] /\ req[r].extra \in Extras
    BY <1>4, <2>1 DEF GetUserMood, TypeInv, InputsHeld
  <2> HIDE DEF q
  <2>4. req' \in [Requests -> RequestStates] /\ InputsHeld'
    BY <2>2, <2>3, RequestTyped
  <2> QED BY <1>4, <2>4 DEF GetUserMood, TypeInv, TypeOK
<1>5. CASE GenerateCacheKey(r)
  <2> DEFINE q == [req[r] EXCEPT !.pc = "get", !.ver = engine.version]
  <2>1. engine.version \in Versions
    BY DEF TypeInv, TypeOK
  <2>2. q \in RequestStates /\ q.key = req[r].key /\ q.extra = req[r].extra
    BY <1>1, <2>1 DEF RequestStates
  <2>3. /\ req' = [req EXCEPT ![r] = q]
        /\ req[r].extra \in Extras /\ req[r].key \in Keys
    BY <1>5 DEF GenerateCacheKey, TypeInv, InputsHeld
  <2> HIDE DEF q
  <2>4. req' \in [Requests -> RequestStates] /\ InputsHeld'
    BY <2>2, <2>3, RequestTyped
  <2> QED BY <1>5, <2>4 DEF GenerateCacheKey, TypeInv, TypeOK
<1>6. CASE CheckCache(r)
  <2> DEFINE found == cache[<<req[r].key, req[r].ver>>]
             q == IF found = None
                    THEN [req[r] EXCEPT !.pc = "eval"]
                    ELSE [req[r] EXCEPT !.pc = "done", !.ans = found, !.hit = TRUE]
  <2>1. req[r].extra \in Extras /\ req[r].key \in Keys
    BY <1>6 DEF CheckCache, TypeInv, InputsHeld
  <2>2. found \in Answers \cup {None}
    BY <1>1, <2>1 DEF TypeInv, TypeOK, RequestStates
  <2>3. req' = [req EXCEPT ![r] = q]
    BY <1>6 DEF CheckCache
  <2> HIDE DEF found
  <2>4. q \in RequestStates /\ q.key = req[r].key /\ q.extra = req[r].extra
    BY <1>1, <2>2 DEF RequestStates
  <2> HIDE DEF q
  <2>5. req' \in [Requests -> RequestStates] /\ InputsHeld'
    BY <2>1, <2>3, <2>4, RequestTyped
  <2> QED BY <1>6, <2>5 DEF CheckCache, TypeInv, TypeOK
<1>7. CASE Evaluate(r)
  <2> DEFINE a == [rules |-> engine.rules, version |-> engine.version,
                   extra |-> req[r].extra]
  <2>1. req[r].extra \in Extras /\ req[r].key \in Keys
    BY <1>7 DEF Evaluate, TypeInv, InputsHeld
  <2>2. a \in Answers
    BY <2>1 DEF TypeInv, TypeOK, Answers
  <2>3. PICK next \in {"fetch", "done"} :
          req' = [req EXCEPT ![r].pc = next, ![r].ans = a]
    BY <1>7 DEF Evaluate
  <2> DEFINE q == [req[r] EXCEPT !.pc = next, !.ans = a]
  <2> HIDE DEF a
  <2>4. q \in RequestStates /\ q.key = req[r].key /\ q.extra = req[r].extra
    BY <1>1, <2>2 DEF RequestStates
  <2>5. req' = [req EXCEPT ![r] = q]
    BY <2>3
  <2> HIDE DEF q
  <2>6. req' \in [Requests -> RequestStates] /\ InputsHeld'
    BY <2>1, <2>4, <2>5, RequestTyped
  <2> QED BY <1>7, <2>6 DEF Evaluate, TypeInv, TypeOK
<1>8. CASE CacheSet(r)
  <2> DEFINE q == [req[r] EXCEPT !.pc = "done"]
  <2>1. q \in RequestStates /\ q.pc = "done" /\ req' = [req EXCEPT ![r] = q]
    BY <1>1, <1>8 DEF CacheSet, RequestStates
  <2> HIDE DEF q
  <2>2. req' \in [Requests -> RequestStates] /\ InputsHeld'
    BY <2>1, RequestTyped
  <2>3. req[r].ans \in Answers \cup {None}
    BY <1>1 DEF RequestStates
  <2>4. cache' \in [Keys \X Versions -> Answers \cup {None}]
    BY <1>8, <2>3 DEF CacheSet, TypeInv, TypeOK
  <2> QED BY <1>8, <2>2, <2>4 DEF CacheSet, TypeInv, TypeOK
<1> QED BY <1>2, <1>3, <1>4, <1>5, <1>6, <1>7, <1>8 DEF RequestStep

LEMMA NextTyped == TypeInv /\ [Next]_vars => TypeInv'
<1> SUFFICES ASSUME TypeInv, [Next]_vars PROVE TypeInv'
  OBVIOUS
<1>1. ASSUME NEW ck \in Keys \X Versions, Expire(ck) PROVE TypeInv'
  BY <1>1 DEF Expire, TypeInv, TypeOK, InputsHeld
<1>2. ASSUME UNCHANGED vars PROVE TypeInv'
  BY <1>2 DEF TypeInv, TypeOK, InputsHeld, vars
<1> QED BY <1>1, <1>2, EditsTyped, LoadsTyped, RequestsTyped DEF Next

LEMMA TypeInvariant == Spec => []TypeInv
BY InitTyped, NextTyped, PTL DEF Spec

\* The state of every variable stays within its type: what a goroutine holds
\* across its steps is always a whole record of the kind the next step expects.
THEOREM TypeCorrect == Spec => []TypeOK
<1>1. TypeInv => TypeOK
  BY DEF TypeInv
<1> QED BY <1>1, TypeInvariant, PTL

-----------------------------------------------------------------------------
(***************************************************************************)
(* Consistency under disciplined edits.  CurrentKeyIsFresh is not          *)
(* inductive: it says nothing of answers on their way to the cache, nor of *)
(* entries under other versions, which a reload may make current.  The     *)
(* invariant bounds each of them by two versions: an answer under version  *)
(* v was computed from rules at least as new as v and not newer than the   *)
(* engine's.                                                               *)
(***************************************************************************)
LoadInv ==
  \A l \in Loaders :
    /\ load[l].pc \in {"version", "install"} => load[l].rules = db
    /\ load[l].pc = "install" => load[l].version = VersionOf[db]

EngineInv ==
  /\ engine.version = VersionOf[engine.rules]
  /\ engine.version <= VersionOf[db]

\* Answer a, found or to be stored under version v, is as new as v.
Between(v, a) == v <= VersionOf[a.rules] /\ VersionOf[a.rules] <= engine.version

RequestInv ==
  \A r \in Requests :
    /\ req[r].ver <= engine.version
    /\ req[r].pc \in {"mood", "key"} => req[r].ans = None
    /\ req[r].ans # None => Between(req[r].ver, req[r].ans)

CacheInv ==
  \A ck \in Keys \X Versions : cache[ck] # None => Between(ck[2], cache[ck])

IInv == LoadInv /\ EngineInv /\ RequestInv /\ CacheInv


\* Facts about versions every step below uses.
LEMMA VersionFacts ==
  ASSUME TypeInv
  PROVE  /\ db \in RuleSets /\ VersionOf[db] \in Nat
         /\ engine \in [rules : RuleSets, version : Versions]
         /\ engine.rules \in RuleSets /\ engine.version \in Nat
         /\ VersionOf[engine.rules] \in Nat
         /\ \A r \in Requests : req[r].ver \in Nat /\ req[r].ver \in Versions
BY RuleSetsAssumption, VersionsAreNat DEF TypeInv, TypeOK, RequestStates

LEMMA AnswerVersion == \A a \in Answers : a.rules \in RuleSets /\ VersionOf[a.rules] \in Nat
BY RuleSetsAssumption DEF Answers

LEMMA InitConsistent == Init => IInv
<1> SUFFICES ASSUME Init PROVE IInv
  OBVIOUS
<1>1. LoadInv
  BY DEF Init, LoadInv, NoLoad
<1>2. EngineInv
  BY RuleSetsAssumption DEF Init, EngineInv
<1>3. RequestInv
  BY DEF Init, RequestInv, NoRequest
<1>4. CacheInv
  BY DEF Init, CacheInv
<1> QED BY <1>1, <1>2, <1>3, <1>4 DEF IInv

\* An edit happens while nobody loads, and only raises the table's version.
LEMMA EditConsistent ==
  ASSUME Disciplined, TypeInv, IInv, Edit
  PROVE  IInv'
<1>1. \A l \in Loaders : load[l].pc = "idle"
  BY DEF Edit, Disciplined, Quiet
<1>2. LoadInv'
  BY <1>1 DEF Edit, LoadInv
<1>3. VersionOf[db] < VersionOf[db'] /\ db' \in RuleSets
  BY DEF Edit, Disciplined, RaisingEdit, TypeInv, TypeOK
<1>4. EngineInv'
  BY <1>3, VersionFacts, RuleSetsAssumption DEF Edit, EngineInv, IInv
<1>5. RequestInv' /\ CacheInv'
  BY DEF Edit, RequestInv, CacheInv, Between, IInv
<1> QED BY <1>2, <1>4, <1>5 DEF IInv

\* Raising the engine's version keeps answers between their two bounds.
LEMMA RaisedEngine ==
  ASSUME TypeInv, RequestInv, CacheInv, UNCHANGED req,
         engine'.version \in Nat, engine'.version >= engine.version,
         \A ck \in Keys \X Versions : cache'[ck] \in {None, cache[ck]}
  PROVE  RequestInv' /\ CacheInv'
<1>1. ASSUME NEW v, NEW a \in Answers, Between(v, a) PROVE Between(v, a)'
  BY <1>1, VersionFacts, AnswerVersion DEF Between
<1>2. \A r \in Requests : req[r].ans \in Answers \cup {None}
  BY DEF TypeInv, TypeOK, RequestStates
<1>3. \A ck \in Keys \X Versions : cache[ck] \in Answers \cup {None}
  BY DEF TypeInv, TypeOK
<1>4. RequestInv'
  <2> SUFFICES ASSUME NEW r \in Requests
               PROVE  /\ req[r].ver <= engine'.version
                      /\ req[r].pc \in {"mood", "key"} => req[r].ans = None
                      /\ req[r].ans # None => Between(req[r].ver, req[r].ans)'
    BY DEF RequestInv
  <2>1. req[r].ver <= engine'.version
    BY VersionFacts DEF RequestInv
  <2>2. req[r].ans # None => Between(req[r].ver, req[r].ans)'
    BY <1>1, <1>2 DEF RequestInv
  <2> QED BY <2>1, <2>2 DEF RequestInv
<1>5. CacheInv'
  <2> SUFFICES ASSUME NEW ck \in Keys \X Versions, cache'[ck] # None
               PROVE  /\ ck[2] <= VersionOf[cache'[ck].rules]
                      /\ VersionOf[cache'[ck].rules] <= engine'.version
    BY DEF CacheInv, Between
  <2>1. cache'[ck] = cache[ck] /\ cache[ck] \in Answers
    BY <1>3
  <2>2. Between(ck[2], cache[ck])
    BY <2>1 DEF CacheInv
  <2> QED BY <1>1, <2>1, <2>2 DEF Between
<1> QED BY <1>4, <1>5

\* What a loader installs is the table as it is, which is no older than what
\* the engine held.
LEMMA LoadsConsistent ==
  ASSUME Disciplined, TypeInv, IInv, NEW l \in Loaders, LoadStep(l) \/ QueryFails(l)
  PROVE  IInv' /\ engine'.version >= engine.version
<1>1. load \in [Loaders -> LoadStates]
  BY DEF TypeInv, TypeOK
<1>2. CASE GetAllActiveRules(l) \/ GetMaxVersion(l) \/ QueryFails(l)
  <2>1. LoadInv'
    <3>1. CASE GetAllActiveRules(l)
      BY <1>1, <3>1 DEF GetAllActiveRules, LoadInv, IInv, LoadStates
    <3>2. CASE GetMaxVersion(l)
      BY <1>1, <3>2 DEF GetMaxVersion, LoadInv, IInv, LoadStates
    <3>3. CASE QueryFails(l)
      <4>1. /\ db' = db
            /\ load'[l].pc \in {"idle", "exited"}
            /\ \A k \in Loaders \ {l} : load'[k] = load[k]
        BY <1>1, <3>3 DEF QueryFails, NoLoad
      <4> QED BY <4>1 DEF LoadInv, IInv
    <3> QED BY <1>2, <3>1, <3>2, <3>3
  <2>2. UNCHANGED <<db, engine, cache, req>>
    BY <1>2 DEF GetAllActiveRules, GetMaxVersion, QueryFails
  <2>3. EngineInv' /\ RequestInv' /\ CacheInv'
    BY <2>2 DEF EngineInv, RequestInv, CacheInv, Between, IInv
  <2> QED BY <2>1, <2>2, <2>3, VersionFacts DEF IInv
<1>3. CASE Install(l)
  <2>1. load[l].rules = db /\ load[l].version = VersionOf[db]
    BY <1>3 DEF Install, LoadInv, IInv
  <2>2. engine'.rules = db /\ engine'.version = VersionOf[db] /\ UNCHANGED <<db, cache, req>>
    BY <1>3, <2>1 DEF Install
  <2>3. engine'.version >= engine.version
    BY <2>2, VersionFacts DEF EngineInv, IInv
  <2>4. EngineInv'
    BY <2>2, VersionFacts DEF EngineInv
  <2>5. LoadInv'
    BY <1>1, <1>3 DEF Install, LoadInv, IInv, NoLoad
  <2>6. RequestInv' /\ CacheInv'
    BY <2>2, <2>3, VersionFacts, RaisedEngine DEF IInv
  <2> QED BY <2>3, <2>4, <2>5, <2>6 DEF IInv
<1>4. CASE InvalidateCache(l)
  <2>1. LoadInv'
    BY <1>1, <1>4 DEF InvalidateCache, LoadInv, IInv, NoLoad
  <2>2. EngineInv' /\ RequestInv' /\ CacheInv'
    BY <1>4 DEF InvalidateCache, EngineInv, RequestInv, CacheInv, Between, IInv
  <2> QED BY <1>4, <2>1, <2>2, VersionFacts DEF InvalidateCache, IInv
<1> QED BY <1>2, <1>3, <1>4 DEF LoadStep

\* A request keeps the invariant when its new state does, and the cache when
\* what it stores does.
LEMMA RequestConsistent ==
  ASSUME TypeInv, IInv, NEW r \in Requests, NEW q,
         req' = [req EXCEPT ![r] = q], UNCHANGED <<db, load, engine, cache>>,
         q.ver <= engine.version,
         q.pc \in {"mood", "key"} => q.ans = None,
         q.ans # None => Between(q.ver, q.ans)
  PROVE  IInv'
<1>1. \A x \in Requests : req'[x] = IF x = r THEN q ELSE req[x]
  BY DEF TypeInv, TypeOK
<1>2. RequestInv'
  BY <1>1 DEF RequestInv, Between, IInv
<1>3. LoadInv' /\ EngineInv' /\ CacheInv'
  BY DEF LoadInv, EngineInv, CacheInv, Between, IInv
<1> QED BY <1>2, <1>3 DEF IInv

LEMMA RequestsConsistent ==
  ASSUME TypeInv, IInv, NEW r \in Requests, Receive(r) \/ RequestStep(r) \/ Reject(r)
  PROVE  IInv'
<1>1. req \in [Requests -> RequestStates] /\ req[r] \in RequestStates
  BY DEF TypeInv, TypeOK
<1>2. /\ req[r].ver <= engine.version
      /\ req[r].pc \in {"mood", "key"} => req[r].ans = None
      /\ req[r].ans # None => Between(req[r].ver, req[r].ans)
  BY DEF RequestInv, IInv
<1>3. CASE Receive(r)
  <2>1. PICK e \in Extras :
          req' = [req EXCEPT ![r] = [NoRequest EXCEPT !.pc = "mood", !.extra = e]]
    BY <1>3 DEF Receive
  <2>2. 0 <= engine.version
    BY VersionFacts
  <2> DEFINE q == [NoRequest EXCEPT !.pc = "mood", !.extra = e]
  <2>3. q.ver = 0 /\ q.ans = None
    BY DEF NoRequest
  <2> HIDE DEF q
  <2>4. req' = [req EXCEPT ![r] = q]
    BY <2>1 DEF q
  <2> QED BY <1>3, <2>2, <2>3, <2>4, RequestConsistent DEF Receive
<1>4. CASE Reject(r)
  <2> DEFINE q == [req[r] EXCEPT !.pc = "done", !.ans = None]
  <2>1. q.ver = req[r].ver /\ q.ans = None /\ req' = [req EXCEPT ![r] = q]
    BY <1>1, <1>4 DEF Reject, RequestStates
  <2> HIDE DEF q
  <2> QED BY <1>2, <1>4, <2>1, RequestConsistent DEF Reject
<1>5. CASE GetUserMood(r)
  <2>1. PICK k \in Keys : req' = [req EXCEPT ![r].pc = "key", ![r].key = k]
    BY <1>5 DEF GetUserMood
  <2> DEFINE q == [req[r] EXCEPT !.pc = "key", !.key = k]
  <2>2. q.ver = req[r].ver /\ q.ans = None /\ req' = [req EXCEPT ![r] = q]
    BY <1>1, <1>2, <1>5, <2>1 DEF GetUserMood, RequestStates
  <2> HIDE DEF q
  <2> QED BY <1>2, <1>5, <2>2, RequestConsistent DEF GetUserMood
<1>6. CASE GenerateCacheKey(r)
  <2> DEFINE q == [req[r] EXCEPT !.pc = "get", !.ver = engine.version]
  <2>1. q.ver = engine.version /\ q.ans = None /\ req' = [req EXCEPT ![r] = q]
    BY <1>1, <1>2, <1>6 DEF GenerateCacheKey, RequestStates
  <2>2. q.ver <= engine.version
    BY <2>1, VersionFacts
  <2> HIDE DEF q
  <2> QED BY <1>6, <2>1, <2>2, RequestConsistent DEF GenerateCacheKey
<1>7. CASE CheckCache(r)
  <2> DEFINE ck == <<req[r].key, req[r].ver>>
             found == cache[ck]
             q == IF found = None
                    THEN [req[r] EXCEPT !.pc = "eval"]
                    ELSE [req[r] EXCEPT !.pc = "done", !.ans = found, !.hit = TRUE]
  <2>1. ck \in Keys \X Versions /\ ck[2] = req[r].ver
    BY <1>7, VersionFacts DEF CheckCache, TypeInv, InputsHeld
  <2>2. req' = [req EXCEPT ![r] = q]
    BY <1>7 DEF CheckCache
  <2> HIDE DEF ck
  <2>3. found # None => Between(req[r].ver, found)
    BY <2>1 DEF CacheInv, IInv
  <2> HIDE DEF found
  <2>4. q.ver = req[r].ver /\ q.pc \in {"eval", "done"}
    BY <1>1 DEF RequestStates
  <2>5. q.ans # None => Between(q.ver, q.ans)
    BY <1>1, <1>2, <2>3 DEF RequestStates
  <2> HIDE DEF q
  <2> QED BY <1>2, <1>7, <2>2, <2>4, <2>5, RequestConsistent DEF CheckCache
<1>8. CASE Evaluate(r)
  <2> DEFINE a == [rules |-> engine.rules, version |-> engine.version,
                   extra |-> req[r].extra]
  <2>1. Between(req[r].ver, a)
    BY <1>2, VersionFacts DEF Between, EngineInv, IInv
  <2>2. PICK next \in {"fetch", "done"} :
          req' = [req EXCEPT ![r].pc = next, ![r].ans = a]
    BY <1>8 DEF Evaluate
  <2> HIDE DEF a
  <2> DEFINE q == [req[r] EXCEPT !.pc = next, !.ans = a]
  <2>3. q.ver = req[r].ver /\ q.ans = a /\ q.pc = next /\ req' = [req EXCEPT ![r] = q]
    BY <1>1, <2>2 DEF RequestStates
  <2> HIDE DEF q
  <2> QED BY <1>2, <1>8, <2>1, <2>3, RequestConsistent DEF Evaluate
<1>9. CASE CacheSet(r)
  <2> DEFINE ck == <<req[r].key, req[r].ver>>
  <2>1. ck \in Keys \X Versions /\ ck[2] = req[r].ver
    BY <1>9, VersionFacts DEF CacheSet, TypeInv, InputsHeld
  <2>2. cache' = [cache EXCEPT ![ck] = req[r].ans]
    BY <1>9 DEF CacheSet
  <2> HIDE DEF ck
  <2>3. CacheInv'
    BY <1>2, <1>9, <2>1, <2>2 DEF CacheSet, CacheInv, Between, IInv, TypeInv, TypeOK
  <2>4. RequestInv'
    BY <1>1, <1>9 DEF CacheSet, RequestInv, RequestStates, Between, IInv
  <2>5. LoadInv' /\ EngineInv'
    BY <1>9 DEF CacheSet, LoadInv, EngineInv, IInv
  <2> QED BY <2>3, <2>4, <2>5 DEF IInv
<1> QED BY <1>3, <1>4, <1>5, <1>6, <1>7, <1>8, <1>9 DEF RequestStep

LEMMA NextConsistent ==
  ASSUME Disciplined, TypeInv, IInv, [Next]_vars
  PROVE  IInv' /\ engine'.version >= engine.version
<1> USE VersionFacts
<1>1. CASE Edit
  BY <1>1, EditConsistent DEF Edit
<1>2. ASSUME NEW h \in Handlers, Publish(h)
      PROVE  IInv' /\ engine'.version >= engine.version
  <2>1. load \in [Loaders -> LoadStates]
    BY DEF TypeInv, TypeOK
  <2>2. LoadInv'
    BY <1>2, <2>1 DEF Publish, LoadInv, IInv, LoadStates
  <2>3. EngineInv' /\ RequestInv' /\ CacheInv'
    BY <1>2 DEF Publish, EngineInv, RequestInv, CacheInv, Between, IInv
  <2> QED BY <1>2, <2>2, <2>3 DEF Publish, IInv
<1>3. ASSUME NEW l \in Loaders, LoadStep(l) \/ QueryFails(l)
      PROVE  IInv' /\ engine'.version >= engine.version
  BY <1>3, LoadsConsistent
<1>4. ASSUME NEW r \in Requests, Receive(r) \/ RequestStep(r) \/ Reject(r)
      PROVE  IInv' /\ engine'.version >= engine.version
  <2>1. engine' = engine
    BY <1>4 DEF Receive, RequestStep, Reject, GetUserMood, GenerateCacheKey, CheckCache,
                Evaluate, CacheSet
  <2> QED BY <1>4, <2>1, RequestsConsistent
<1>5. ASSUME NEW ck \in Keys \X Versions, Expire(ck)
      PROVE  IInv' /\ engine'.version >= engine.version
  <2>1. CacheInv'
    BY <1>5 DEF Expire, CacheInv, Between, IInv, TypeInv, TypeOK
  <2>2. LoadInv' /\ EngineInv' /\ RequestInv'
    BY <1>5 DEF Expire, LoadInv, EngineInv, RequestInv, Between, IInv
  <2> QED BY <1>5, <2>1, <2>2 DEF Expire, IInv
<1>6. CASE UNCHANGED vars
  BY <1>6 DEF vars, IInv, LoadInv, EngineInv, RequestInv, CacheInv, Between
<1> QED BY <1>1, <1>2, <1>3, <1>4, <1>5, <1>6 DEF Next

\* Under disciplined edits the inductive invariant always holds.
LEMMA Consistency == Disciplined => (Spec => []IInv)
<1> SUFFICES ASSUME Disciplined PROVE Spec => []IInv
  OBVIOUS
<1>1. TypeInv /\ IInv /\ [Next]_vars => IInv'
  BY NextConsistent
<1> QED BY <1>1, InitConsistent, TypeInvariant, PTL DEF Spec

\* Under disciplined edits the engine's version is always that of the rules it
\* holds: Load and Reload never install a torn pair.
THEOREM VersionsMatch == Disciplined => (Spec => []EngineVersionNamesRules)
<1>1. IInv => EngineVersionNamesRules
  BY DEF IInv, EngineInv, EngineVersionNamesRules
<1> QED BY <1>1, Consistency, PTL

\* Under disciplined edits a cache entry a request can find under the engine's
\* version comes from the engine's rules, whichever requests were in flight.
THEOREM CurrentEntriesFresh == Disciplined => (Spec => []CurrentKeyIsFresh)
<1> SUFFICES ASSUME Disciplined PROVE Spec => []CurrentKeyIsFresh
  OBVIOUS
<1>1. ASSUME TypeInv, IInv PROVE CurrentKeyIsFresh
  <2> SUFFICES ASSUME NEW k \in Keys, cache[<<k, engine.version>>] # None
               PROVE  cache[<<k, engine.version>>].rules = engine.rules
    BY DEF CurrentKeyIsFresh
  <2> DEFINE ck == <<k, engine.version>>
  <2>1. ck \in Keys \X Versions /\ ck[2] = engine.version
    BY <1>1 DEF TypeInv, TypeOK
  <2> HIDE DEF ck
  <2>2. cache[ck] # None
    BY DEF ck
  <2>3. cache[ck] \in Answers /\ Between(engine.version, cache[ck])
    BY <1>1, <2>1, <2>2 DEF IInv, CacheInv, TypeInv, TypeOK
  <2>4. VersionOf[cache[ck].rules] = VersionOf[engine.rules]
    BY <1>1, <2>3, VersionFacts, AnswerVersion DEF Between, IInv, EngineInv
  <2>5. cache[ck].rules = engine.rules
    BY <1>1, <2>3, <2>4, VersionFacts, AnswerVersion DEF Disciplined, NoReuse
  <2> QED BY <2>5 DEF ck
<1> QED BY <1>1, Consistency, TypeInvariant, PTL

\* Under disciplined edits no answer, from the cache or computed, rests on rules
\* older than those in force when the request generated its key.
THEOREM AnswersFresh == Disciplined => (Spec => []AnswersNotOlderThanKey)
<1>1. TypeInv /\ IInv => AnswersNotOlderThanKey
  <2> SUFFICES ASSUME TypeInv, IInv, NEW r \in Requests, req[r].ans # None
               PROVE  VersionOf[req[r].ans.rules] >= req[r].ver
    BY DEF AnswersNotOlderThanKey
  <2>1. req[r].ans \in Answers
    BY DEF TypeInv, TypeOK, RequestStates
  <2> QED BY <2>1, AnswerVersion, VersionFacts DEF IInv, RequestInv, Between
<1> QED BY <1>1, Consistency, TypeInvariant, PTL

\* Under disciplined edits no reload ever replaces rules by older ones.
THEOREM NoStepBack == Disciplined => (Spec => EngineNeverStepsBack)
<1> SUFFICES ASSUME Disciplined PROVE Spec => EngineNeverStepsBack
  OBVIOUS
<1>1. TypeInv /\ IInv /\ [Next]_vars => [engine'.version >= engine.version]_vars
  BY NextConsistent
<1> QED BY <1>1, Consistency, TypeInvariant, PTL DEF Spec, EngineNeverStepsBack

-----------------------------------------------------------------------------
(***************************************************************************)
(* What survives when reloads overlap edits and each other: a reload reads *)
(* the rules first, the version second, so the version it installs is of   *)
(* the same content or of one that edits made of it.                       *)
(***************************************************************************)
SinceInv ==
  /\ \A l \in Loaders :
       /\ load[l].pc = "version" => db \in After[load[l].rules]
       /\ load[l].pc = "install" => NamesVersionSince(load[l])
  /\ NamesVersionSince(engine)
  /\ \A r \in Requests : req[r].ans # None => NamesVersionSince(req[r].ans)
  /\ \A ck \in Keys \X Versions : cache[ck] # None => NamesVersionSince(cache[ck])

\* A content comes after itself, and what an edit makes of a later content is
\* later too.
LEMMA AfterIsClosed ==
  ASSUME NEW s \in RuleSets
  PROVE  /\ After[s] \subseteq RuleSets
         /\ s \in After[s]
         /\ \A t \in After[s], u \in RuleSets : <<t, u>> \in Edits => u \in After[s]
BY DEF After

\* A set of contents that edits do not leave holds all that comes after one of
\* its members.
LEMMA AfterIsLeast ==
  ASSUME NEW S \in SUBSET RuleSets, NEW s \in S, NEW t \in After[s],
         \A e \in Edits : e[1] \in S => e[2] \in S
  PROVE  t \in S
BY DEF After

LEMMA InitSince == Init => SinceInv
BY RuleSetsAssumption, AfterIsClosed DEF Init, SinceInv, NamesVersionSince, NoLoad, NoRequest

LEMMA NextSince ==
  ASSUME TypeInv, SinceInv, [Next]_vars
  PROVE  SinceInv'
<1>1. /\ load \in [Loaders -> LoadStates] /\ req \in [Requests -> RequestStates]
      /\ db \in RuleSets /\ cache \in [Keys \X Versions -> Answers \cup {None}]
  BY DEF TypeInv, TypeOK
<1>2. CASE Edit
  <2>1. \A l \in Loaders : load[l].rules \in RuleSets
    BY <1>1 DEF LoadStates
  <2>2. \A l \in Loaders : db \in After[load[l].rules] => db' \in After[load[l].rules]
    BY <1>1, <1>2, <2>1, AfterIsClosed DEF Edit
  <2> QED BY <1>2, <2>2 DEF Edit, SinceInv, NamesVersionSince
<1>3. ASSUME NEW h \in Handlers, Publish(h) PROVE SinceInv'
  BY <1>1, <1>3 DEF Publish, SinceInv, NamesVersionSince, LoadStates
<1>4. ASSUME NEW l \in Loaders, LoadStep(l) \/ QueryFails(l) PROVE SinceInv'
  <2>1. CASE GetAllActiveRules(l)
    <3>1. db \in After[db]
      BY <1>1, AfterIsClosed
    <3> QED BY <1>1, <2>1, <3>1 DEF GetAllActiveRules, SinceInv, NamesVersionSince, LoadStates
  <2>2. CASE GetMaxVersion(l)
    BY <1>1, <2>2 DEF GetMaxVersion, SinceInv, NamesVersionSince, LoadStates
  <2>3. CASE QueryFails(l)
    BY <1>1, <2>3 DEF QueryFails, SinceInv, NamesVersionSince, NoLoad
  <2>4. CASE Install(l)
    BY <1>1, <2>4 DEF Install, SinceInv, NamesVersionSince, NoLoad
  <2>5. CASE InvalidateCache(l)
    BY <1>1, <2>5 DEF InvalidateCache, SinceInv, NamesVersionSince, NoLoad
  <2> QED BY <1>4, <2>1, <2>2, <2>3, <2>4, <2>5 DEF LoadStep
<1>5. ASSUME NEW r \in Requests, Receive(r) \/ RequestStep(r) \/ Reject(r) PROVE SinceInv'
  <2>1. CASE Receive(r) \/ Reject(r) \/ GetUserMood(r) \/ GenerateCacheKey(r)
    <3>1. UNCHANGED <<db, load, engine, cache>>
      BY <2>1 DEF Receive, Reject, GetUserMood, GenerateCacheKey
    <3>2. \A x \in Requests : req'[x].ans \in {None, req[x].ans}
      <4>1. CASE Receive(r)
        BY <1>1, <4>1 DEF Receive, NoRequest
      <4>2. CASE Reject(r)
        BY <1>1, <4>2 DEF Reject, RequestStates
      <4>3. CASE GetUserMood(r)
        BY <1>1, <4>3 DEF GetUserMood, RequestStates
      <4>4. CASE GenerateCacheKey(r)
        BY <1>1, <4>4 DEF GenerateCacheKey, RequestStates
      <4> QED BY <2>1, <4>1, <4>2, <4>3, <4>4
    <3> QED BY <3>1, <3>2 DEF SinceInv, NamesVersionSince
  <2>2. CASE CheckCache(r)
    <3> DEFINE ck == <<req[r].key, req[r].ver>>
    <3>1. ck \in Keys \X Versions
      BY <2>2, VersionFacts DEF CheckCache, TypeInv, InputsHeld
    <3>2. \A x \in Requests : req'[x].ans \in {req[x].ans, cache[ck]}
      BY <1>1, <2>2 DEF CheckCache, RequestStates
    <3> HIDE DEF ck
    <3> QED BY <2>2, <3>1, <3>2 DEF CheckCache, SinceInv, NamesVersionSince
  <2>3. CASE Evaluate(r)
    <3> DEFINE a == [rules |-> engine.rules, version |-> engine.version,
                     extra |-> req[r].extra]
    <3>1. NamesVersionSince(a)
      BY DEF SinceInv, NamesVersionSince
    <3>2. \A x \in Requests : req'[x].ans \in {req[x].ans, a}
      BY <1>1, <2>3 DEF Evaluate, RequestStates
    <3> HIDE DEF a
    <3>3. \A x \in Requests : req'[x].ans # None => NamesVersionSince(req'[x].ans)
      <4> SUFFICES ASSUME NEW x \in Requests, req'[x].ans # None
                   PROVE  NamesVersionSince(req'[x].ans)
        OBVIOUS
      <4>1. CASE req'[x].ans = a
        BY <3>1, <4>1
      <4>2. CASE req'[x].ans = req[x].ans
        BY <4>2 DEF SinceInv
      <4> QED BY <3>2, <4>1, <4>2
    <3>4. UNCHANGED <<db, load, engine, cache>>
      BY <2>3 DEF Evaluate
    <3> QED BY <3>3, <3>4 DEF SinceInv, NamesVersionSince
  <2>4. CASE CacheSet(r)
    <3>1. \A x \in Requests : req'[x].ans = req[x].ans
      BY <1>1, <2>4 DEF CacheSet, RequestStates
    <3>2. \A ck \in Keys \X Versions : cache'[ck] \in {cache[ck], req[r].ans}
      BY <1>1, <2>4 DEF CacheSet
    <3> QED BY <2>4, <3>1, <3>2 DEF CacheSet, SinceInv, NamesVersionSince
  <2> QED BY <1>5, <2>1, <2>2, <2>3, <2>4 DEF RequestStep
<1>6. ASSUME NEW ck \in Keys \X Versions, Expire(ck) PROVE SinceInv'
  BY <1>1, <1>6 DEF Expire, SinceInv, NamesVersionSince
<1>7. CASE UNCHANGED vars
  BY <1>7 DEF vars, SinceInv, NamesVersionSince
<1> QED BY <1>2, <1>3, <1>4, <1>5, <1>6, <1>7 DEF Next

\* Whatever edits do to the version and however many reloads overlap them and each
\* other, no engine and no cached answer names a version the table had only
\* before it had those rules.
THEOREM VersionsFollowRules == Spec => []VersionReadAfterRules
<1>1. TypeInv /\ SinceInv /\ [Next]_vars => SinceInv'
  BY NextSince
<1>2. SinceInv => VersionReadAfterRules
  BY DEF SinceInv, VersionReadAfterRules
<1> QED BY <1>1, <1>2, InitSince, TypeInvariant, PTL DEF Spec

\* When versions only grow, the version an engine or a cached answer names is
\* never below that of the rules it stands for.
VersionCoversRules ==
  /\ engine.version >= VersionOf[engine.rules]
  /\ \A ck \in Keys \X Versions :
       cache[ck] # None => cache[ck].version >= VersionOf[cache[ck].rules]

\* When every edit raises the version, no engine and no cached answer ever names
\* a version below that of the rules it stands for, however reloads overlap.
THEOREM VersionsCover == RaisingEdit => (Spec => []VersionCoversRules)
<1> SUFFICES ASSUME RaisingEdit PROVE Spec => []VersionCoversRules
  OBVIOUS
<1>1. ASSUME NEW s \in RuleSets, NEW t \in After[s] PROVE VersionOf[t] >= VersionOf[s]
  <2> DEFINE S == {u \in RuleSets : VersionOf[u] >= VersionOf[s]}
  <2>1. s \in S
    BY RuleSetsAssumption
  <2>2. ASSUME NEW e \in Edits, e[1] \in S PROVE e[2] \in S
    <3>1. e[1] \in RuleSets /\ e[2] \in RuleSets /\ e = <<e[1], e[2]>>
      BY RuleSetsAssumption
    <3>2. VersionOf[e[1]] < VersionOf[e[2]]
      BY <3>1 DEF RaisingEdit
    <3> QED BY <2>2, <3>1, <3>2, RuleSetsAssumption
  <2> QED BY <2>1, <2>2, AfterIsLeast
<1>2. ASSUME NEW x, x.rules \in RuleSets, NamesVersionSince(x)
      PROVE  x.version >= VersionOf[x.rules]
  BY <1>1, <1>2 DEF NamesVersionSince
<1>3. TypeInv /\ VersionReadAfterRules => VersionCoversRules
  <2> SUFFICES ASSUME TypeInv, VersionReadAfterRules PROVE VersionCoversRules
    OBVIOUS
  <2>1. \A ck \in Keys \X Versions : cache[ck] # None => cache[ck].rules \in RuleSets
    BY AnswerVersion DEF TypeInv, TypeOK
  <2> QED BY <1>2, <2>1, VersionFacts DEF VersionReadAfterRules, VersionCoversRules
<1> QED BY <1>3, VersionsFollowRules, TypeInvariant, PTL

=============================================================================
