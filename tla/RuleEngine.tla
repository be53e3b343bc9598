----------------------------- MODULE RuleEngine -----------------------------
(***************************************************************************)
(* The fields of RuleEngine, opened up: goroutines that load rules write   *)
(* them one at a time under e.mu, goroutines that evaluate a request, or   *)
(* ask for the version or the number of rules, read them under its read    *)
(* lock.                                                                   *)
(*                                                                         *)
(* Evaluate appends the rules for any mood to the slice of those for the   *)
(* request's mood.  When that slice has room, append writes into its       *)
(* array, which belongs to the index and is shared by every reader, under  *)
(* the read lock: tail is that room.  (Without room append copies, and     *)
(* nothing is shared.)                                                     *)
(***************************************************************************)
EXTENDS Integers, Sequences

CONSTANTS
  RuleSets,   \* what GetAllActiveRules can return
  Versions,   \* what GetMaxVersion can return
  Loads,      \* what the two queries of a load can return, as pairs
  NoRules,    \* no rule at all
  MoodRules,  \* the rules of a set indexed by the mood asked for, in order
  AnyRules,   \* those indexed by "*"
  Count,      \* the number of rules of a set
  Rules,
  Readers, Loaders,
  MaxAny,     \* bound: rules for any mood
  None, Nobody

ASSUME RulesAssumption ==
  /\ NoRules \in RuleSets
  /\ 0 \in Versions
  /\ Loads \subseteq RuleSets \X Versions
  /\ MaxAny \in Nat
  /\ MoodRules \in [RuleSets -> Seq(Rules)]
  /\ AnyRules \in [RuleSets -> Seq(Rules)]
  /\ \A rs \in RuleSets : Len(AnyRules[rs]) <= MaxAny
  /\ MoodRules[NoRules] = <<>> /\ AnyRules[NoRules] = <<>>

ASSUME ProcessAssumption ==
  Nobody \notin Loaders

INSTANCE RWMutex

VARIABLES
  mu,      \* e.mu
  engine,  \* e.rules, e.version and e.rulesByMood for one mood and for "*"
  tail,    \* the room behind the mood's rules in the array of the index
  load,    \* program counter and locals of each Load or Reload
  read,    \* program counter and locals of each reader
  result   \* what each reader's last call returned

vars == <<mu, engine, tail, load, read, result>>

Slots     == 1 .. MaxAny
EmptyTail == [i \in Slots |-> None]

NoRead == [pc |-> "idle", call |-> "none", pos |-> 1, mood |-> <<>>, seen |-> EmptyTail]

Init ==
  /\ mu = Unlocked
  /\ engine = [rules |-> NoRules, version |-> 0, mood |-> <<>>, any |-> <<>>]
  /\ tail = EmptyTail
  /\ load = [l \in Loaders |-> [pc |-> "idle", rules |-> NoRules, version |-> 0]]
  /\ read = [e \in Readers |-> NoRead]
  /\ result = [e \in Readers |-> None]

-----------------------------------------------------------------------------
(***************************************************************************)
(* Load and Reload.                                                        *)
(***************************************************************************)

\* Both queries have succeeded; module MoodRuleService separates them.
Query(l) ==
  /\ load[l].pc = "idle"
  /\ \E new \in Loads :
       load' = [load EXCEPT ![l] = [pc |-> "lock", rules |-> new[1], version |-> new[2]]]
  /\ UNCHANGED <<mu, engine, tail, read, result>>

Lock(l) ==
  /\ load[l].pc = "lock" /\ mu.writer = Nobody
  /\ mu' = Announce(mu, l)
  /\ load' = [load EXCEPT ![l].pc = "enter"]
  /\ UNCHANGED <<engine, tail, read, result>>

Enter(l) ==
  /\ load[l].pc = "enter" /\ mu.readers = {}
  /\ load' = [load EXCEPT ![l].pc = "rules"]
  /\ UNCHANGED <<mu, engine, tail, read, result>>

SetRules(l) ==
  /\ load[l].pc = "rules"
  /\ engine' = [engine EXCEPT !.rules = load[l].rules]
  /\ load' = [load EXCEPT ![l].pc = "version"]
  /\ UNCHANGED <<mu, tail, read, result>>

SetVersion(l) ==
  /\ load[l].pc = "version"
  /\ engine' = [engine EXCEPT !.version = load[l].version]
  /\ load' = [load EXCEPT ![l].pc = "reset"]
  /\ UNCHANGED <<mu, tail, read, result>>

\* Mutant: rules are indexed into the old map.
ResetIndex_Kept(l) ==
  /\ load[l].pc = "reset"
  /\ tail' = EmptyTail
  /\ load' = [load EXCEPT ![l].pc = "index"]
  /\ UNCHANGED <<mu, engine, read, result>>

\* buildIndex makes a new map, then appends every rule to its slices.
ResetIndex(l) ==
  /\ load[l].pc = "reset"
  /\ engine' = [engine EXCEPT !.mood = <<>>, !.any = <<>>]
  /\ tail' = EmptyTail
  /\ load' = [load EXCEPT ![l].pc = "index"]
  /\ UNCHANGED <<mu, read, result>>

BuildIndex(l) ==
  /\ load[l].pc = "index"
  /\ engine' = [engine EXCEPT !.mood = @ \o MoodRules[engine.rules],
                              !.any = @ \o AnyRules[engine.rules]]
  /\ load' = [load EXCEPT ![l].pc = "unlock"]
  /\ UNCHANGED <<mu, tail, read, result>>

\* Mutant: without e.mu.Unlock().
ReleaseLock_Kept(l) ==
  /\ load[l].pc = "unlock"
  /\ load' = [load EXCEPT ![l].pc = "idle"]
  /\ UNCHANGED <<mu, engine, tail, read, result>>

ReleaseLock(l) ==
  /\ load[l].pc = "unlock"
  /\ mu' = Unlock(mu)
  /\ load' = [load EXCEPT ![l].pc = "idle"]
  /\ UNCHANGED <<engine, tail, read, result>>

-----------------------------------------------------------------------------
(***************************************************************************)
(* Evaluate, GetVersion and GetRuleCount.                                  *)
(***************************************************************************)

Call(e) ==
  /\ read[e].pc = "idle"
  /\ \E c \in {"Evaluate", "GetVersion", "GetRuleCount"} :
       read' = [read EXCEPT ![e] = [NoRead EXCEPT !.pc = "enter", !.call = c]]
  /\ mu' = RLock(mu, e)
  /\ UNCHANGED <<engine, tail, load, result>>

\* Mutant: the read lock covers only the lookup.
LookUpMood_Unlocks(e) ==
  /\ read[e].pc = "enter" /\ read[e].call = "Evaluate"
  /\ e \in mu.readers
  /\ mu' = RUnlock(mu, e)
  /\ read' = [read EXCEPT ![e].pc = "append", ![e].mood = engine.mood]
  /\ UNCHANGED <<engine, tail, load, result>>

\* RLock has returned: Evaluate looks the mood's rules up.
LookUpMood(e) ==
  /\ read[e].pc = "enter" /\ read[e].call = "Evaluate"
  /\ e \in mu.readers
  /\ read' = [read EXCEPT ![e].pc = "append", ![e].mood = engine.mood]
  /\ UNCHANGED <<mu, engine, tail, load, result>>

AppendAny(e) ==
  /\ read[e].pc = "append"
  /\ IF read[e].pos <= Len(engine.any)
       THEN /\ tail' = [tail EXCEPT ![read[e].pos] = engine.any[read[e].pos]]
            /\ read' = [read EXCEPT ![e].pos = @ + 1]
       ELSE /\ read' = [read EXCEPT ![e].pc = "match", ![e].pos = 1]
            /\ UNCHANGED tail
  /\ UNCHANGED <<mu, engine, load, result>>

\* The loop over the candidates; matching itself is in module RuleMatching.
MatchRule(e) ==
  /\ read[e].pc = "match"
  /\ IF read[e].pos <= Len(engine.any)
       THEN read' = [read EXCEPT ![e].seen[read[e].pos] = tail[read[e].pos],
                                 ![e].pos = @ + 1]
       ELSE read' = [read EXCEPT ![e].pc = "return"]
  /\ UNCHANGED <<mu, engine, tail, load, result>>

\* Mutant: without e.mu.RUnlock().
ReturnFrom_Kept(e, value) ==
  /\ result' = [result EXCEPT ![e] = <<read[e].call, value>>]
  /\ read' = [read EXCEPT ![e] = NoRead]
  /\ UNCHANGED <<mu, engine, tail, load>>

\* The last read under the lock, and the deferred RUnlock.
ReturnFrom(e, value) ==
  /\ result' = [result EXCEPT ![e] = <<read[e].call, value>>]
  /\ mu' = RUnlock(mu, e)
  /\ read' = [read EXCEPT ![e] = NoRead]
  /\ UNCHANGED <<engine, tail, load>>

Evaluate(e) ==
  /\ read[e].pc = "return"
  /\ ReturnFrom(e, [mood    |-> read[e].mood,
                    any     |-> [i \in 1 .. Len(engine.any) |-> read[e].seen[i]],
                    version |-> engine.version])

GetVersion(e) ==
  /\ read[e].pc = "enter" /\ read[e].call = "GetVersion"
  /\ e \in mu.readers
  /\ ReturnFrom(e, engine.version)

GetRuleCount(e) ==
  /\ read[e].pc = "enter" /\ read[e].call = "GetRuleCount"
  /\ e \in mu.readers
  /\ ReturnFrom(e, Count[engine.rules])

-----------------------------------------------------------------------------
WriteStep(l) ==
  \/ Enter(l) \/ SetRules(l) \/ SetVersion(l)
  \/ ResetIndex(l) \/ BuildIndex(l) \/ ReleaseLock(l)

ReadStep(e) ==
  \/ LookUpMood(e) \/ AppendAny(e) \/ MatchRule(e)
  \/ Evaluate(e) \/ GetVersion(e) \/ GetRuleCount(e)

Next ==
  \/ \E l \in Loaders : Query(l) \/ Lock(l) \/ WriteStep(l)
  \/ \E e \in Readers : Call(e) \/ ReadStep(e)

Spec == Init /\ [][Next]_vars

(***************************************************************************)
(* Goroutines run on.  Among writers the lock goes to whoever takes it,    *)
(* but a sync.Mutex hands itself over to one that has waited too long.     *)
(* Nothing makes requests or reloads stop coming.                          *)
(***************************************************************************)
FairSpec ==
  /\ Spec
  /\ \A l \in Loaders : SF_vars(Lock(l)) /\ WF_vars(WriteStep(l))
  /\ \A e \in Readers : WF_vars(ReadStep(e))

-----------------------------------------------------------------------------
LoadStates ==
  [pc      : {"idle", "lock", "enter", "rules", "version", "reset", "index", "unlock"},
   rules   : RuleSets,
   version : Versions]

ReadStates ==
  [pc   : {"idle", "enter", "append", "match", "return"},
   call : {"none", "Evaluate", "GetVersion", "GetRuleCount"},
   pos  : 1 .. MaxAny + 1,
   mood : Seq(Rules),
   seen : [Slots -> Rules \cup {None}]]

TypeOK ==
  /\ mu \in [writer  : Loaders \cup {Nobody},
             readers : SUBSET Readers, waiting : SUBSET Readers]
  /\ engine \in [rules : RuleSets, version : Versions, mood : Seq(Rules), any : Seq(Rules)]
  /\ Len(engine.any) <= MaxAny
  /\ tail \in [Slots -> Rules \cup {None}]
  /\ load \in [Loaders -> LoadStates]
  /\ read \in [Readers -> ReadStates]
  /\ DOMAIN result = Readers

Writing(l) == load[l].pc \in {"rules", "version", "reset", "index", "unlock"}

(***************************************************************************)
(* The engine keeps the promise of RuleSnapshot.  A snapshot takes effect  *)
(* when its writer gets the lock: no reader is in, and none gets in before *)
(* everything is written.                                                  *)
(***************************************************************************)
Current ==
  IF \E l \in Loaders : Writing(l)
    THEN LET w == CHOOSE l \in Loaders : Writing(l)
         IN  [rules |-> load[w].rules, version |-> load[w].version]
    ELSE [rules |-> engine.rules, version |-> engine.version]

Promise == INSTANCE RuleSnapshot WITH current <- Current

\* What Evaluate, GetVersion and GetRuleCount return belongs to one load: rules
\* for the mood, rules for any mood and version are never of two loads, nor a
\* half-built index, and never another request's appended rules.
ImplementsRuleSnapshot == Promise!Spec

\* A reload waits for the readers that are in, however many more keep coming.
ReloadsFinish == \A l \in Loaders : load[l].pc = "lock" ~> load[l].pc = "idle"

\* A request waits for the reload that is in, however many more keep coming.
ReadsFinish == \A e \in Readers : read[e].pc = "enter" ~> read[e].pc = "idle"

=============================================================================
