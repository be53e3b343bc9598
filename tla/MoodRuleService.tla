-------------------------- MODULE MoodRuleService --------------------------
(***************************************************************************)
(* The request path of the service and its hot reload: the rules table,    *)
(* the goroutines that (re)load the rule engine from it, the in-memory     *)
(* engine, the recommendation cache and the Recommend calls in flight.     *)
(*                                                                         *)
(* Each action is one critical section, database query or remote call; two *)
(* goroutines interleave between any two of them.  The engine's lock       *)
(* sections are atomic here; module RuleEngine opens them.  A cache entry  *)
(* disappears at some time after it was stored; module MemoryCache has the *)
(* clock.                                                                  *)
(***************************************************************************)
EXTENDS Integers

CONSTANTS
  RuleSets,      \* the contents the set of active rules can have
  NoRules,       \* the content of an empty table
  VersionOf,     \* the largest version among the active rules of a content
  Edits,         \* the changes <<from, to>> the table undergoes
  Keys,          \* mood, time of day, weather and user of a request
  Extras,        \* what else a request says: occasion, preferences, tags
  Requests,      \* Recommend calls served at the same time
  Handlers,      \* goroutines running the rule_updated subscriber
  Main,          \* the goroutine running main
  MaxNotices,    \* bound: edits whose event is not published yet
  OneAtATime,    \* editors wait for the reload before the next edit
  ReadsMayFail,  \* database queries may return an error
  None

ASSUME RuleSetsAssumption ==
  /\ NoRules \in RuleSets
  /\ VersionOf \in [RuleSets -> Nat]
  /\ VersionOf[NoRules] = 0
  /\ Edits \subseteq RuleSets \X RuleSets

ASSUME GoroutineAssumption ==
  /\ Main \notin Handlers
  /\ MaxNotices \in Nat
  /\ {OneAtATime, ReadsMayFail} \subseteq BOOLEAN

ASSUME NoneAssumption ==
  None \notin Keys /\ None \notin Extras

Loaders  == Handlers \cup {Main}
Versions == {VersionOf[s] : s \in RuleSets}

\* A recommendation: the rule set it was computed from, the version the
\* response's metadata name, and the part of the request outside the key.
Answers == [rules : RuleSets, version : Versions, extra : Extras]

VARIABLES
  db,       \* content of the rules table
  notices,  \* edits whose rule_updated event is still to be published
  load,     \* program counter and locals of each Load or Reload
  engine,   \* e.rules and e.version
  cache,    \* store of the MemoryCache, None for a miss
  req       \* program counter and locals of each Recommend

vars == <<db, notices, load, engine, cache, req>>

LoadStates ==
  [pc      : {"idle", "rules", "version", "install", "invalidate", "exited"},
   rules   : RuleSets,
   version : Versions]

RequestStates ==
  [pc    : {"idle", "mood", "key", "get", "eval", "fetch", "done"},
   key   : Keys \cup {None},
   extra : Extras \cup {None},
   ver   : Versions,
   ans   : Answers \cup {None},
   hit   : BOOLEAN]

NoLoad    == [pc |-> "idle", rules |-> NoRules, version |-> 0]
NoRequest == [pc |-> "idle", key |-> None, extra |-> None, ver |-> 0,
              ans |-> None, hit |-> FALSE]

Init ==
  /\ db \in RuleSets
  /\ notices = 0
  /\ load = [l \in Loaders |->
               IF l = Main THEN [NoLoad EXCEPT !.pc = "rules"] ELSE NoLoad]
  /\ engine = [rules |-> NoRules, version |-> 0]
  /\ cache = [ck \in Keys \X Versions |-> None]
  /\ req = [r \in Requests |-> NoRequest]

\* main has loaded the engine, subscribed the handler and opened the port.
Serving == load[Main].pc = "idle"

\* No edit is waiting for its event and no goroutine is loading.
Quiet == notices = 0 /\ \A l \in Loaders : load[l].pc = "idle"

-----------------------------------------------------------------------------
(***************************************************************************)
(* The rules table and the component that announces its changes.  Neither  *)
(* is in the repository: main subscribes to rule_updated, nothing in it    *)
(* publishes that event, so that somebody does is an assumption.           *)
(***************************************************************************)

Edit ==
  /\ OneAtATime => Quiet
  /\ notices < MaxNotices
  /\ \E s \in RuleSets : <<db, s>> \in Edits /\ db' = s
  /\ notices' = notices + 1
  /\ UNCHANGED <<load, engine, cache, req>>

\* bus.Publish finds one subscriber and starts one goroutine for it.
Publish(h) ==
  /\ Serving
  /\ notices > 0
  /\ load[h].pc = "idle"
  /\ notices' = notices - 1
  /\ load' = [load EXCEPT ![h].pc = "rules"]
  /\ UNCHANGED <<db, engine, cache, req>>

-----------------------------------------------------------------------------
(***************************************************************************)
(* RuleEngine.Load, run by main, and RuleEngine.Reload, run by the         *)
(* subscriber: two queries outside the lock and any transaction, then one  *)
(* critical section.                                                       *)
(***************************************************************************)

GetAllActiveRules(l) ==
  /\ load[l].pc = "rules"
  /\ load' = [load EXCEPT ![l].pc = "version", ![l].rules = db]
  /\ UNCHANGED <<db, notices, engine, cache, req>>

\* Mutant: the version of the engine's last load is kept.
GetMaxVersion_Kept(l) ==
  /\ load[l].pc = "version"
  /\ load' = [load EXCEPT ![l].pc = "install", ![l].version = engine.version]
  /\ UNCHANGED <<db, notices, engine, cache, req>>

\* Mutant: the next version is taken instead of the largest.
GetMaxVersion_Next(l) ==
  /\ load[l].pc = "version"
  /\ load' = [load EXCEPT ![l].pc = "install", ![l].version = VersionOf[db] + 1]
  /\ UNCHANGED <<db, notices, engine, cache, req>>

GetMaxVersion(l) ==
  /\ load[l].pc = "version"
  /\ load' = [load EXCEPT ![l].pc = "install", ![l].version = VersionOf[db]]
  /\ UNCHANGED <<db, notices, engine, cache, req>>

\* Mutant: the error of the version query is dropped.
QueryFails_Dropped(l) ==
  /\ ReadsMayFail
  /\ load[l].pc = "version"
  /\ load' = [load EXCEPT ![l].pc = "install"]
  /\ UNCHANGED <<db, notices, engine, cache, req>>

\* A failed query ends the handler, which only logs it, or the process.
QueryFails(l) ==
  /\ ReadsMayFail
  /\ load[l].pc \in {"rules", "version"}
  /\ load' = [load EXCEPT ![l] =
                IF l = Main THEN [NoLoad EXCEPT !.pc = "exited"] ELSE NoLoad]
  /\ UNCHANGED <<db, notices, engine, cache, req>>

\* Mutant: the rules are read after the version.
Install_ReadsRules(l) ==
  /\ load[l].pc = "install"
  /\ engine' = [rules |-> db, version |-> load[l].version]
  /\ load' = [load EXCEPT ![l] =
                IF l = Main THEN NoLoad ELSE [NoLoad EXCEPT !.pc = "invalidate"]]
  /\ UNCHANGED <<db, notices, cache, req>>

\* Mutant: a load that finds the version unchanged installs nothing.
Install_IfNewer(l) ==
  /\ load[l].pc = "install"
  /\ engine' = IF load[l].version > engine.version
                 THEN [rules |-> load[l].rules, version |-> load[l].version]
                 ELSE engine
  /\ load' = [load EXCEPT ![l] =
                IF l = Main THEN NoLoad ELSE [NoLoad EXCEPT !.pc = "invalidate"]]
  /\ UNCHANGED <<db, notices, cache, req>>

Install(l) ==
  /\ load[l].pc = "install"
  /\ engine' = [rules |-> load[l].rules, version |-> load[l].version]
  /\ load' = [load EXCEPT ![l] =
                IF l = Main THEN NoLoad ELSE [NoLoad EXCEPT !.pc = "invalidate"]]
  /\ UNCHANGED <<db, notices, cache, req>>

\* The subscriber's second half: InvalidateByPattern("*").  The event it
\* then publishes reaches a handler that only logs.
InvalidateCache(h) ==
  /\ load[h].pc = "invalidate"
  /\ cache' = [ck \in Keys \X Versions |-> None]
  /\ load' = [load EXCEPT ![h] = NoLoad]
  /\ UNCHANGED <<db, notices, engine, req>>

-----------------------------------------------------------------------------
(***************************************************************************)
(* Server.Recommend.                                                       *)
(***************************************************************************)

Receive(r) ==
  /\ Serving
  /\ req[r].pc \in {"idle", "done"}
  /\ \E e \in Extras :
       req' = [req EXCEPT ![r] = [NoRequest EXCEPT !.pc = "mood", !.extra = e]]
  /\ UNCHANGED <<db, notices, load, engine, cache>>

\* An error return: invalid request, no mood, no product catalog.
Reject(r) ==
  /\ req[r].pc \in {"mood", "fetch"}
  /\ req' = [req EXCEPT ![r] = [@ EXCEPT !.pc = "done", !.ans = None]]
  /\ UNCHANGED <<db, notices, load, engine, cache>>

GetUserMood(r) ==
  /\ req[r].pc = "mood"
  /\ \E k \in Keys : req' = [req EXCEPT ![r].pc = "key", ![r].key = k]
  /\ UNCHANGED <<db, notices, load, engine, cache>>

GenerateCacheKey(r) ==
  /\ req[r].pc = "key"
  /\ req' = [req EXCEPT ![r].pc = "get", ![r].ver = engine.version]
  /\ UNCHANGED <<db, notices, load, engine, cache>>

CheckCache(r) ==
  /\ req[r].pc = "get"
  /\ LET found == cache[<<req[r].key, req[r].ver>>]
     IN  req' = [req EXCEPT ![r] =
                   IF found = None
                     THEN [@ EXCEPT !.pc = "eval"]
                     ELSE [@ EXCEPT !.pc = "done", !.ans = found, !.hit = TRUE]]
  /\ UNCHANGED <<db, notices, load, engine, cache>>

\* RuleEngine.Evaluate; when no rule matches, the empty answer is returned
\* at once and never cached.
Evaluate(r) ==
  /\ req[r].pc = "eval"
  /\ \E next \in {"fetch", "done"} :
       req' = [req EXCEPT ![r].pc = next,
                          ![r].ans = [rules   |-> engine.rules,
                                      version |-> engine.version,
                                      extra   |-> req[r].extra]]
  /\ UNCHANGED <<db, notices, load, engine, cache>>

\* Mutant: the key is generated again when the result is stored.
CacheSet_LateKey(r) ==
  /\ req[r].pc = "fetch"
  /\ cache' = [cache EXCEPT ![<<req[r].key, engine.version>>] = req[r].ans]
  /\ req' = [req EXCEPT ![r].pc = "done"]
  /\ UNCHANGED <<db, notices, load, engine>>

\* The catalog has answered: score the products, cache the result, return it.
CacheSet(r) ==
  /\ req[r].pc = "fetch"
  /\ cache' = [cache EXCEPT ![<<req[r].key, req[r].ver>>] = req[r].ans]
  /\ req' = [req EXCEPT ![r].pc = "done"]
  /\ UNCHANGED <<db, notices, load, engine>>

\* Mutant: an entry never expires.
Expire_Never(ck) == cache[ck] # None /\ UNCHANGED vars

\* The entry's time to live has passed.
Expire(ck) ==
  /\ cache[ck] # None
  /\ cache' = [cache EXCEPT ![ck] = None]
  /\ UNCHANGED <<db, notices, load, engine, req>>

-----------------------------------------------------------------------------
LoadStep(l) ==
  GetAllActiveRules(l) \/ GetMaxVersion(l) \/ Install(l) \/ InvalidateCache(l)

RequestStep(r) ==
  \/ GetUserMood(r) \/ GenerateCacheKey(r) \/ CheckCache(r)
  \/ Evaluate(r) \/ CacheSet(r)

Next ==
  \/ Edit
  \/ \E h \in Handlers : Publish(h)
  \/ \E l \in Loaders : LoadStep(l) \/ QueryFails(l)
  \/ \E r \in Requests : Receive(r) \/ RequestStep(r) \/ Reject(r)
  \/ \E ck \in Keys \X Versions : Expire(ck)

Spec == Init /\ [][Next]_vars

(***************************************************************************)
(* Goroutines run on, remote calls end (each has a timeout), a committed   *)
(* edit is announced and an entry expires.  Nothing makes clients call or  *)
(* editors edit.                                                           *)
(***************************************************************************)
Fairness ==
  /\ WF_vars(\E h \in Handlers : Publish(h))
  /\ \A l \in Loaders : WF_vars(LoadStep(l))
  /\ \A r \in Requests : WF_vars(RequestStep(r))
  /\ \A ck \in Keys \X Versions : WF_vars(Expire(ck))

FairSpec == Spec /\ Fairness

-----------------------------------------------------------------------------
TypeOK ==
  /\ db \in RuleSets
  /\ notices \in 0 .. MaxNotices
  /\ load \in [Loaders -> LoadStates]
  /\ engine \in [rules : RuleSets, version : Versions]
  /\ cache \in [Keys \X Versions -> Answers \cup {None}]
  /\ req \in [Requests -> RequestStates]

\* The engine's version is the one its rules carry: a Load or Reload that
\* overlaps no edit installs a matching pair.
EngineVersionNamesRules == engine.version = VersionOf[engine.rules]

\* The contents the table can have once it had content s: s and what edits
\* make of it.
After ==
  [s \in RuleSets |->
     {t \in RuleSets :
        \A S \in SUBSET RuleSets :
          s \in S /\ (\A e \in Edits : e[1] \in S => e[2] \in S) => t \in S}]

\* Rules are read before their version: whatever is edited between the two
\* queries, the version an engine or a cached answer names is one the table had
\* when it had those rules, or later.
NamesVersionSince(x) == \E s \in After[x.rules] : x.version = VersionOf[s]

VersionReadAfterRules ==
  /\ NamesVersionSince(engine)
  /\ \A ck \in Keys \X Versions : cache[ck] # None => NamesVersionSince(cache[ck])

\* Whatever a request would find under the engine's current version was
\* computed from the engine's current rules, although results of requests that
\* began before a reload are stored after its flush.
CurrentKeyIsFresh ==
  \A k \in Keys :
    cache[<<k, engine.version>>] # None =>
      cache[<<k, engine.version>>].rules = engine.rules

\* Once a reload has flushed the cache and nothing else is under way, the cache
\* holds no answer computed from rules the reload replaced.
FlushedCacheIsFresh == Quiet => CurrentKeyIsFresh

\* Recommend never answers, cached or not, from rules older than those in force
\* when it generated its cache key.
AnswersNotOlderThanKey ==
  \A r \in Requests :
    req[r].pc = "done" /\ req[r].ans # None =>
      VersionOf[req[r].ans.rules] >= req[r].ver

\* Recommend answers for the occasion, preferences and purchase tags it was
\* asked about.
AnswerForOwnContext ==
  \A r \in Requests :
    req[r].pc = "done" /\ req[r].ans # None => req[r].ans.extra = req[r].extra

\* No reload puts an older version in force than the one it replaces.
EngineNeverStepsBack == [][engine'.version >= engine.version]_vars

\* Once the table no longer changes, the engine ends up with its rules.
ReloadConverges ==
  \A s \in RuleSets : <>[](db = s) => <>[](engine.rules = s)

\* Once the table no longer changes, the cache ends up serving only answers
\* computed from its rules, even when edits leave the version unchanged: what a
\* late request stores after the flush expires.
CacheConverges ==
  \A s \in RuleSets :
    <>[](db = s) =>
      <>[](\A k \in Keys :
             cache[<<k, engine.version>>] # None =>
               cache[<<k, engine.version>>].rules = s)

=============================================================================
