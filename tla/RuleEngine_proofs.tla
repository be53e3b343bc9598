------------------------- MODULE RuleEngine_proofs -------------------------
(***************************************************************************)
(* RuleEngine keeps the promise of RuleSnapshot for any number of loaders  *)
(* and readers and any rule sets.                                          *)
(***************************************************************************)
EXTENDS RuleEngine, SequenceTheorems, TLAPS

USE DEF Unlocked, RLock, RUnlock, Announce, Unlock

-----------------------------------------------------------------------------
(***************************************************************************)
(* The inductive invariant.  TypeOK bounds the index and the readers'      *)
(* positions, which needs to know that buildIndex starts from an empty map *)
(* and that no writer is in while a reader is.                             *)
(***************************************************************************)

\* The lock excludes, and knows who is in.
MutexInv ==
  /\ \A l \in Loaders : mu.writer = l <=> load[l].pc = "enter" \/ Writing(l)
  /\ \A l \in Loaders : Writing(l) => mu.readers = {}
  /\ \A e \in Readers :
       /\ read[e].pc = "enter" => e \in mu.readers \cup mu.waiting
       /\ read[e].pc \in {"append", "match", "return"} => e \in mu.readers

\* The index is that of a rule set.
Indexes(rs) == engine.mood = MoodRules[rs] /\ engine.any = AnyRules[rs]

\* What the writer has and has not written yet; without one, all fits.
EngineInv ==
  /\ (\A l \in Loaders : ~Writing(l)) => Indexes(engine.rules)
  /\ \A l \in Loaders :
       /\ load[l].pc # "idle" => <<load[l].rules, load[l].version>> \in Loads
       /\ load[l].pc \in {"version", "reset", "index", "unlock"} => engine.rules = load[l].rules
       /\ load[l].pc \in {"reset", "index", "unlock"} => engine.version = load[l].version
       /\ load[l].pc = "index" => engine.mood = <<>> /\ engine.any = <<>>
       /\ load[l].pc = "unlock" => Indexes(engine.rules)

\* What a reader has taken so far is what the index holds.  Concurrent appends
\* write the same rules into the same slots.
AnySlots == 1 .. Len(engine.any)

ReaderInv(r, t) ==
  /\ r.pc = "enter" => r.pos = 1
  /\ r.pc \in {"append", "match", "return"} => r.call = "Evaluate" /\ r.mood = engine.mood
  /\ r.pc = "append" => \A i \in AnySlots : i < r.pos => t[i] = engine.any[i]
  /\ r.pc = "match" =>
       \A i \in AnySlots : /\ t[i] = engine.any[i]
                           /\ i < r.pos => r.seen[i] = engine.any[i]
  /\ r.pc = "return" => \A i \in AnySlots : r.seen[i] = engine.any[i]

ReadInv == \A e \in Readers : ReaderInv(read[e], tail)

IInv == TypeOK /\ MutexInv /\ EngineInv /\ ReadInv

LEMMA InitTyped == Init => TypeOK
<1> SUFFICES ASSUME Init PROVE TypeOK
  OBVIOUS
<1>1. <<>> \in Seq(Rules) /\ Len(<<>>) = 0
  OBVIOUS
<1>2. EmptyTail \in [Slots -> Rules \cup {None}]
  BY DEF EmptyTail
<1>3. NoRead \in ReadStates
  BY <1>1, <1>2, RulesAssumption DEF NoRead, ReadStates
<1>4. engine \in [rules : RuleSets, version : Versions, mood : Seq(Rules), any : Seq(Rules)]
  BY <1>1, RulesAssumption DEF Init
<1>5. load \in [Loaders -> LoadStates]
  BY RulesAssumption DEF Init, LoadStates
<1>6. read \in [Readers -> ReadStates] /\ DOMAIN result = Readers
  BY <1>3 DEF Init
<1> QED BY <1>1, <1>2, <1>4, <1>5, <1>6, RulesAssumption DEF Init, TypeOK

LEMMA InitInv == Init => IInv
<1> SUFFICES ASSUME Init PROVE IInv
  OBVIOUS
<1>1. MutexInv
  BY ProcessAssumption DEF Init, MutexInv, Writing, NoRead
<1>2. EngineInv
  BY RulesAssumption DEF Init, EngineInv, Indexes, Writing
<1>3. ReadInv
  BY DEF Init, ReadInv, ReaderInv, NoRead
<1> QED BY <1>1, <1>2, <1>3, InitTyped DEF IInv

-----------------------------------------------------------------------------
LEMMA LoadsTyped ==
  ASSUME IInv, NEW l \in Loaders, Query(l) \/ Lock(l) \/ WriteStep(l)
  PROVE  TypeOK'
<1> USE DEF IInv
<1>1. load \in [Loaders -> LoadStates] /\ load[l] \in LoadStates
  BY DEF TypeOK
<1>2. CASE Query(l)
  <2>1. PICK new \in Loads :
          load' = [load EXCEPT ![l] = [pc |-> "lock", rules |-> new[1], version |-> new[2]]]
    BY <1>2 DEF Query
  <2>2. new[1] \in RuleSets /\ new[2] \in Versions
    BY RulesAssumption
  <2>3. load' \in [Loaders -> LoadStates]
    BY <1>1, <2>1, <2>2 DEF LoadStates
  <2> QED BY <1>2, <2>3 DEF Query, TypeOK
<1>3. CASE Lock(l) \/ Enter(l)
  <2>1. load' \in [Loaders -> LoadStates]
    BY <1>1, <1>3 DEF Lock, Enter, LoadStates
  <2> QED BY <1>3, <2>1 DEF Lock, Enter, TypeOK
<1>4. CASE SetRules(l) \/ SetVersion(l)
  <2>1. load' \in [Loaders -> LoadStates]
    BY <1>1, <1>4 DEF SetRules, SetVersion, LoadStates
  <2>2. /\ engine' \in [rules : RuleSets, version : Versions,
                        mood : Seq(Rules), any : Seq(Rules)]
        /\ engine'.any = engine.any
    BY <1>1, <1>4 DEF SetRules, SetVersion, LoadStates, TypeOK
  <2> QED BY <1>4, <2>1, <2>2 DEF SetRules, SetVersion, TypeOK
<1>5. CASE ResetIndex(l)
  <2>1. load' \in [Loaders -> LoadStates]
    BY <1>1, <1>5 DEF ResetIndex, LoadStates
  <2>2. <<>> \in Seq(Rules) /\ Len(<<>>) = 0
    OBVIOUS
  <2>3. /\ engine' \in [rules : RuleSets, version : Versions,
                        mood : Seq(Rules), any : Seq(Rules)]
        /\ engine'.any = <<>>
    BY <1>5, <2>2 DEF ResetIndex, TypeOK
  <2>4. tail' \in [Slots -> Rules \cup {None}]
    BY <1>5 DEF ResetIndex, EmptyTail
  <2>5. Len(engine'.any) <= MaxAny
    BY <2>2, <2>3, RulesAssumption
  <2> QED BY <1>5, <2>1, <2>3, <2>4, <2>5 DEF ResetIndex, TypeOK
<1>6. CASE ReleaseLock(l)
  <2>1. load' \in [Loaders -> LoadStates]
    BY <1>1, <1>6 DEF ReleaseLock, LoadStates
  <2> QED BY <1>6, <2>1 DEF ReleaseLock, TypeOK
<1>7. CASE BuildIndex(l)
  <2>1. load' \in [Loaders -> LoadStates]
    BY <1>1, <1>7 DEF BuildIndex, LoadStates
  <2> DEFINE moods == MoodRules[engine.rules]
             anys == AnyRules[engine.rules]
  <2>2. engine.mood = <<>> /\ engine.any = <<>>
    BY <1>7 DEF BuildIndex, EngineInv
  <2>3. moods \in Seq(Rules) /\ anys \in Seq(Rules) /\ Len(anys) <= MaxAny
    BY RulesAssumption DEF TypeOK
  <2>4. engine' = [engine EXCEPT !.mood = <<>> \o moods, !.any = <<>> \o anys]
    BY <1>7, <2>2 DEF BuildIndex, TypeOK
  <2> HIDE DEF moods, anys
  <2>5. <<>> \o moods = moods /\ <<>> \o anys = anys
    BY <2>3, ConcatEmptySeq
  <2>6. /\ engine' \in [rules : RuleSets, version : Versions,
                        mood : Seq(Rules), any : Seq(Rules)]
        /\ engine'.any = anys
    BY <2>3, <2>4, <2>5 DEF TypeOK
  <2> QED BY <1>7, <2>1, <2>3, <2>6 DEF BuildIndex, TypeOK
<1> QED BY <1>2, <1>3, <1>4, <1>5, <1>6, <1>7 DEF WriteStep

LEMMA ReadsTyped ==
  ASSUME IInv, NEW e \in Readers, Call(e) \/ ReadStep(e)
  PROVE  TypeOK'
<1> USE DEF IInv
<1>1. /\ read \in [Readers -> ReadStates] /\ read[e] \in ReadStates
      /\ engine \in [rules : RuleSets, version : Versions, mood : Seq(Rules), any : Seq(Rules)]
      /\ Len(engine.any) \in Nat /\ Len(engine.any) <= MaxAny
      /\ tail \in [Slots -> Rules \cup {None}]
  BY DEF TypeOK
<1>2. NoRead \in ReadStates
  <2>1. <<>> \in Seq(Rules) /\ EmptyTail \in [Slots -> Rules \cup {None}]
    BY DEF EmptyTail
  <2> QED BY <2>1, RulesAssumption DEF NoRead, ReadStates
<1>3. CASE Call(e)
  <2>1. PICK c \in {"Evaluate", "GetVersion", "GetRuleCount"} :
          read' = [read EXCEPT ![e] = [NoRead EXCEPT !.pc = "enter", !.call = c]]
    BY <1>3 DEF Call
  <2>2. [NoRead EXCEPT !.pc = "enter", !.call = c] \in ReadStates
    BY <1>2 DEF ReadStates
  <2>3. read' \in [Readers -> ReadStates]
    BY <1>1, <2>1, <2>2
  <2>4. mu' \in [writer  : Loaders \cup {Nobody},
                 readers : SUBSET Readers, waiting : SUBSET Readers]
    BY <1>3 DEF Call, TypeOK
  <2> QED BY <1>3, <2>3, <2>4 DEF Call, TypeOK
<1>4. CASE LookUpMood(e)
  <2>1. read' \in [Readers -> ReadStates]
    BY <1>1, <1>4 DEF LookUpMood, ReadStates
  <2> QED BY <1>4, <2>1 DEF LookUpMood, TypeOK
<1>5. CASE AppendAny(e)
  <2>1. read[e].pos \in 1 .. MaxAny + 1 /\ MaxAny \in Nat
    BY <1>1, RulesAssumption DEF ReadStates
  <2>2. CASE read[e].pos <= Len(engine.any)
    <3>1. read[e].pos \in Slots /\ engine.any[read[e].pos] \in Rules
      BY <1>1, <2>1, <2>2 DEF Slots
    <3>2. tail' \in [Slots -> Rules \cup {None}]
      BY <1>1, <1>5, <2>2, <3>1 DEF AppendAny
    <3>3. read' = [read EXCEPT ![e].pos = @ + 1] /\ read[e].pos + 1 \in 1 .. MaxAny + 1
      BY <1>1, <1>5, <2>1, <2>2 DEF AppendAny
    <3>4. read' \in [Readers -> ReadStates]
      BY <1>1, <3>3 DEF ReadStates
    <3> QED BY <1>5, <3>2, <3>4 DEF AppendAny, TypeOK
  <2>3. CASE ~(read[e].pos <= Len(engine.any))
    <3>1. read' = [read EXCEPT ![e].pc = "match", ![e].pos = 1] /\ 1 \in 1 .. MaxAny + 1
      BY <1>5, <2>1, <2>3 DEF AppendAny
    <3>2. read' \in [Readers -> ReadStates]
      BY <1>1, <3>1 DEF ReadStates
    <3> QED BY <1>5, <2>3, <3>2 DEF AppendAny, TypeOK
  <2> QED BY <2>2, <2>3
<1>6. CASE MatchRule(e)
  <2>1. read[e].pos \in 1 .. MaxAny + 1 /\ MaxAny \in Nat
    BY <1>1, RulesAssumption DEF ReadStates
  <2>2. CASE read[e].pos <= Len(engine.any)
    <3> DEFINE q == [read[e] EXCEPT !.seen[read[e].pos] = tail[read[e].pos], !.pos = @ + 1]
    <3>1. read[e].pos \in Slots /\ read[e].pos + 1 \in 1 .. MaxAny + 1
      BY <1>1, <2>1, <2>2 DEF Slots
    <3>2. q \in ReadStates
      BY <1>1, <3>1 DEF ReadStates
    <3>3. read' = [read EXCEPT ![e] = q]
      BY <1>6, <2>2 DEF MatchRule
    <3> HIDE DEF q
    <3> QED BY <1>1, <1>6, <3>2, <3>3 DEF MatchRule, TypeOK
  <2>3. CASE ~(read[e].pos <= Len(engine.any))
    <3>1. read' = [read EXCEPT ![e].pc = "return"]
      BY <1>6, <2>3 DEF MatchRule
    <3>2. read' \in [Readers -> ReadStates]
      BY <1>1, <3>1 DEF ReadStates
    <3> QED BY <1>6, <3>2 DEF MatchRule, TypeOK
  <2> QED BY <2>2, <2>3
<1>7. ASSUME NEW value, ReturnFrom(e, value) PROVE TypeOK'
  <2>1. read' \in [Readers -> ReadStates]
    BY <1>1, <1>2, <1>7 DEF ReturnFrom
  <2>2. mu' \in [writer  : Loaders \cup {Nobody},
                 readers : SUBSET Readers, waiting : SUBSET Readers]
    BY <1>7 DEF ReturnFrom, TypeOK
  <2> QED BY <1>7, <2>1, <2>2 DEF ReturnFrom, TypeOK
<1> QED BY <1>3, <1>4, <1>5, <1>6, <1>7 DEF ReadStep, Evaluate, GetVersion, GetRuleCount

-----------------------------------------------------------------------------
(***************************************************************************)
(* Steps of the writers.                                                   *)
(***************************************************************************)
LEMMA LoadsKeepMutex ==
  ASSUME IInv, NEW l \in Loaders, Query(l) \/ Lock(l) \/ WriteStep(l)
  PROVE  MutexInv'
<1>1. load \in [Loaders -> LoadStates] /\ MutexInv
  BY DEF IInv, TypeOK
<1>2. CASE Query(l)
  BY <1>1, <1>2 DEF Query, MutexInv, Writing
<1>3. CASE Lock(l)
  BY <1>1, <1>3, ProcessAssumption DEF Lock, MutexInv, Writing, LoadStates
<1>4. CASE Enter(l)
  BY <1>1, <1>4 DEF Enter, MutexInv, Writing, LoadStates
<1>5. CASE SetRules(l) \/ SetVersion(l) \/ ResetIndex(l) \/ BuildIndex(l)
  <2>1. UNCHANGED <<mu, read>>
    BY <1>5 DEF SetRules, SetVersion, ResetIndex, BuildIndex
  <2>2. \A x \in Loaders :
          /\ Writing(x)' <=> Writing(x)
          /\ load'[x].pc = "enter" <=> load[x].pc = "enter"
    BY <1>1, <1>5 DEF SetRules, SetVersion, ResetIndex, BuildIndex, Writing, LoadStates
  <2> QED BY <1>1, <2>1, <2>2 DEF MutexInv
<1>6. CASE ReleaseLock(l)
  <2>1. mu.writer = l /\ mu.readers = {}
    BY <1>1, <1>6 DEF ReleaseLock, MutexInv, Writing
  <2> QED BY <1>1, <1>6, <2>1, ProcessAssumption DEF ReleaseLock, MutexInv, Writing, LoadStates
<1> QED BY <1>2, <1>3, <1>4, <1>5, <1>6 DEF WriteStep

\* At most one writer is in.
LEMMA OneWriter ==
  ASSUME MutexInv, NEW l \in Loaders, NEW w \in Loaders, Writing(l), Writing(w)
  PROVE  w = l
BY DEF MutexInv

LEMMA LoadsKeepEngine ==
  ASSUME IInv, NEW l \in Loaders, Query(l) \/ Lock(l) \/ WriteStep(l)
  PROVE  EngineInv'
<1>1. load \in [Loaders -> LoadStates] /\ MutexInv /\ EngineInv
  BY DEF IInv, TypeOK
<1>2. /\ engine \in [rules : RuleSets, version : Versions, mood : Seq(Rules), any : Seq(Rules)]
  BY DEF IInv, TypeOK
<1>3. CASE Query(l)
  <2>1. PICK new \in Loads :
          load' = [load EXCEPT ![l] = [pc |-> "lock", rules |-> new[1], version |-> new[2]]]
    BY <1>3 DEF Query
  <2>2. new = <<new[1], new[2]>>
    BY RulesAssumption
  <2>3. load[l].pc = "idle" /\ engine' = engine
    BY <1>3 DEF Query
  <2>4. \A x \in Loaders : (x = l /\ load'[x].pc = "lock") \/ load'[x] = load[x]
    BY <1>1, <2>1
  <2>5. <<load'[l].rules, load'[l].version>> \in Loads
    BY <1>1, <2>1, <2>2
  <2> QED BY <1>1, <2>3, <2>4, <2>5 DEF EngineInv, Indexes, Writing
<1>4. CASE Lock(l) \/ Enter(l)
  <2>1. engine' = engine
    BY <1>4 DEF Lock, Enter
  <2>2. \A x \in Loaders :
          /\ load'[x].rules = load[x].rules /\ load'[x].version = load[x].version
          /\ (x = l /\ load'[x].pc \in {"enter", "rules"}) \/ load'[x].pc = load[x].pc
          /\ x = l => load[x].pc # "idle" /\ ~Writing(x)
    BY <1>1, <1>4 DEF Lock, Enter, LoadStates, Writing
  <2> QED BY <1>1, <2>1, <2>2 DEF EngineInv, Indexes, Writing
<1>5. CASE SetRules(l) \/ SetVersion(l) \/ ResetIndex(l) \/ BuildIndex(l) \/ ReleaseLock(l)
  <2>1. Writing(l)
    BY <1>5 DEF SetRules, SetVersion, ResetIndex, BuildIndex, ReleaseLock, Writing
  <2>2. \A x \in Loaders : x # l => load'[x] = load[x] /\ ~Writing(x)
    BY <1>1, <1>5, <2>1, OneWriter
       DEF SetRules, SetVersion, ResetIndex, BuildIndex, ReleaseLock
  <2>3. /\ load'[l].rules = load[l].rules /\ load'[l].version = load[l].version
        /\ <<load[l].rules, load[l].version>> \in Loads
    BY <1>1, <1>5 DEF SetRules, SetVersion, ResetIndex, BuildIndex, ReleaseLock,
                      LoadStates, EngineInv
  <2>4. CASE SetRules(l)
    BY <1>1, <1>2, <2>2, <2>3, <2>4 DEF SetRules, EngineInv, Indexes, Writing, LoadStates
  <2>5. CASE SetVersion(l)
    BY <1>1, <1>2, <2>2, <2>3, <2>5 DEF SetVersion, EngineInv, Indexes, Writing, LoadStates
  <2>6. CASE ResetIndex(l)
    BY <1>1, <1>2, <2>2, <2>3, <2>6 DEF ResetIndex, EngineInv, Indexes, Writing, LoadStates
  <2>7. CASE BuildIndex(l)
    <3> DEFINE moods == MoodRules[engine.rules]
               anys == AnyRules[engine.rules]
    <3>1. moods \in Seq(Rules) /\ anys \in Seq(Rules)
      BY <1>2, RulesAssumption
    <3>2. engine' = [engine EXCEPT !.mood = <<>> \o moods, !.any = <<>> \o anys]
      BY <1>1, <1>2, <2>7 DEF BuildIndex, EngineInv
    <3> HIDE DEF moods, anys
    <3>3. engine'.mood = moods /\ engine'.any = anys
          /\ engine'.rules = engine.rules /\ engine'.version = engine.version
      BY <1>2, <3>1, <3>2, ConcatEmptySeq
    <3>4. Indexes(engine.rules)'
      BY <3>3 DEF Indexes, moods, anys
    <3> QED BY <1>1, <2>2, <2>3, <2>7, <3>3, <3>4 DEF BuildIndex, EngineInv, Indexes,
               Writing, LoadStates
  <2>8. CASE ReleaseLock(l)
    BY <1>1, <1>2, <2>2, <2>3, <2>8 DEF ReleaseLock, EngineInv, Indexes, Writing, LoadStates
  <2> QED BY <1>5, <2>4, <2>5, <2>6, <2>7, <2>8
<1> QED BY <1>3, <1>4, <1>5 DEF WriteStep

\* No reader has anything to lose: none is past RLock while a writer writes.
LEMMA LoadsKeepReads ==
  ASSUME IInv, NEW l \in Loaders, Query(l) \/ Lock(l) \/ WriteStep(l)
  PROVE  ReadInv'
<1>1. MutexInv /\ ReadInv
  BY DEF IInv
<1>2. CASE Query(l) \/ Lock(l) \/ Enter(l) \/ ReleaseLock(l)
  <2>1. UNCHANGED <<engine, tail, read>>
    BY <1>2 DEF Query, Lock, Enter, ReleaseLock
  <2> QED BY <1>1, <2>1 DEF ReadInv, ReaderInv, AnySlots
<1>3. CASE SetRules(l) \/ SetVersion(l) \/ ResetIndex(l) \/ BuildIndex(l)
  <2>1. Writing(l) /\ UNCHANGED read
    BY <1>3 DEF SetRules, SetVersion, ResetIndex, BuildIndex, Writing
  <2>2. \A e \in Readers : read[e].pc \notin {"append", "match", "return"}
    BY <1>1, <2>1 DEF MutexInv
  <2> QED BY <1>1, <2>1, <2>2 DEF ReadInv, ReaderInv
<1> QED BY <1>2, <1>3 DEF WriteStep

-----------------------------------------------------------------------------
(***************************************************************************)
(* Steps of the readers.                                                   *)
(***************************************************************************)
LEMMA ReadsKeepMutex ==
  ASSUME IInv, NEW e \in Readers, Call(e) \/ ReadStep(e)
  PROVE  MutexInv'
<1>1. read \in [Readers -> ReadStates] /\ MutexInv
  BY DEF IInv, TypeOK
<1>2. mu \in [writer  : Loaders \cup {Nobody},
              readers : SUBSET Readers, waiting : SUBSET Readers]
  BY DEF IInv, TypeOK
<1>3. CASE Call(e)
  <2>1. PICK c \in {"Evaluate", "GetVersion", "GetRuleCount"} :
          read' = [read EXCEPT ![e] = [NoRead EXCEPT !.pc = "enter", !.call = c]]
    BY <1>3 DEF Call
  <2>2. read'[e].pc = "enter" /\ \A x \in Readers : x # e => read'[x] = read[x]
    BY <1>1, <2>1 DEF NoRead
  <2>3. CASE mu.writer = Nobody
    <3>1. mu' = [mu EXCEPT !.readers = @ \cup {e}] /\ load' = load
      BY <1>3, <2>3 DEF Call
    <3>2. \A l \in Loaders : ~Writing(l)
      BY <1>1, <2>3, ProcessAssumption DEF MutexInv
    <3> QED BY <1>1, <1>2, <2>2, <3>1, <3>2 DEF MutexInv, Writing
  <2>4. CASE mu.writer # Nobody
    <3>1. mu' = [mu EXCEPT !.waiting = @ \cup {e}] /\ load' = load
      BY <1>3, <2>4 DEF Call
    <3> QED BY <1>1, <1>2, <2>2, <3>1 DEF MutexInv, Writing
  <2> QED BY <2>3, <2>4
<1>4. CASE LookUpMood(e)
  BY <1>1, <1>4 DEF LookUpMood, MutexInv, Writing, ReadStates
<1>5. CASE AppendAny(e) \/ MatchRule(e)
  <2>1. UNCHANGED <<mu, load>> /\ read[e].pc \in {"append", "match"}
    BY <1>5 DEF AppendAny, MatchRule
  <2>2. \A x \in Readers :
          read'[x].pc = read[x].pc \/ (x = e /\ read'[x].pc \in {"match", "return"})
    BY <1>1, <1>5 DEF AppendAny, MatchRule, ReadStates
  <2> QED BY <1>1, <2>1, <2>2 DEF MutexInv, Writing
<1>6. ASSUME NEW value, ReturnFrom(e, value) PROVE MutexInv'
  <2>1. \A x \in Readers : x # e => read'[x] = read[x]
    BY <1>1, <1>6 DEF ReturnFrom
  <2>2. read'[e].pc = "idle"
    BY <1>1, <1>6 DEF ReturnFrom, NoRead
  <2>3. mu' = [mu EXCEPT !.readers = @ \ {e}] /\ load' = load
    BY <1>6 DEF ReturnFrom
  <2> QED BY <1>1, <1>2, <2>1, <2>2, <2>3 DEF MutexInv, Writing
<1> QED BY <1>3, <1>4, <1>5, <1>6 DEF ReadStep, Evaluate, GetVersion, GetRuleCount

LEMMA ReadsKeepEngine ==
  ASSUME IInv, NEW e \in Readers, Call(e) \/ ReadStep(e)
  PROVE  EngineInv' /\ UNCHANGED <<engine, load>>
<1>1. UNCHANGED <<engine, load>>
  BY DEF Call, ReadStep, LookUpMood, AppendAny, MatchRule, Evaluate, GetVersion,
         GetRuleCount, ReturnFrom
<1> QED BY <1>1 DEF IInv, EngineInv, Indexes, Writing

\* A reader's step disturbs no other reader when it keeps what is appended.
LEMMA OthersUndisturbed ==
  ASSUME ReadInv, NEW e \in Readers, engine' = engine,
         \A x \in Readers : x # e => read'[x] = read[x],
         \A i \in AnySlots : tail[i] = engine.any[i] => tail'[i] = engine.any[i],
         ReaderInv(read'[e], tail')
  PROVE  ReadInv'
<1>1. ASSUME NEW x \in Readers PROVE ReaderInv(read'[x], tail')
  <2>1. CASE x = e
    BY <2>1
  <2>2. CASE x # e
    <3>1. read'[x] = read[x] /\ ReaderInv(read[x], tail)
      BY <2>2 DEF ReadInv
    <3> QED BY <3>1 DEF ReaderInv
  <2> QED BY <2>1, <2>2
<1> QED BY <1>1 DEF ReadInv, ReaderInv, AnySlots

LEMMA ReadsKeepReads ==
  ASSUME IInv, NEW e \in Readers, Call(e) \/ ReadStep(e)
  PROVE  ReadInv'
<1>1. /\ read \in [Readers -> ReadStates] /\ read[e] \in ReadStates
      /\ engine' = engine /\ tail \in [Slots -> Rules \cup {None}]
  BY ReadsKeepEngine DEF IInv, TypeOK
<1>2. Len(engine.any) \in Nat /\ Len(engine.any) <= MaxAny /\ MaxAny \in Nat
  BY RulesAssumption DEF IInv, TypeOK
<1>3. ReadInv /\ ReaderInv(read[e], tail) /\ read[e].pos \in 1 .. MaxAny + 1
  BY <1>1 DEF IInv, ReadInv, ReadStates
<1>4. CASE Call(e)
  <2>1. PICK c \in {"Evaluate", "GetVersion", "GetRuleCount"} :
          read' = [read EXCEPT ![e] = [NoRead EXCEPT !.pc = "enter", !.call = c]]
    BY <1>4 DEF Call
  <2>2. /\ read'[e].pc = "enter" /\ read'[e].pos = 1 /\ tail' = tail
        /\ \A x \in Readers : x # e => read'[x] = read[x]
    BY <1>1, <1>4, <2>1 DEF NoRead, Call
  <2>3. ReaderInv(read'[e], tail')
    BY <2>2 DEF ReaderInv
  <2> QED BY <1>1, <1>3, <2>2, <2>3, OthersUndisturbed
<1>5. CASE LookUpMood(e)
  <2>1. /\ read' = [read EXCEPT ![e] = [@ EXCEPT !.pc = "append", !.mood = engine.mood]]
        /\ tail' = tail /\ read[e].pc = "enter" /\ read[e].call = "Evaluate"
    BY <1>5 DEF LookUpMood
  <2>2. /\ read'[e].pc = "append" /\ read'[e].mood = engine.mood
        /\ read'[e].pos = 1 /\ read'[e].call = "Evaluate"
    BY <1>1, <1>3, <2>1 DEF ReadStates, ReaderInv
  <2>3. ReaderInv(read'[e], tail')
    BY <1>2, <2>2 DEF ReaderInv, AnySlots
  <2> QED BY <1>1, <1>3, <2>1, <2>3, OthersUndisturbed
<1>6. CASE AppendAny(e)
  <2>1. read[e].pc = "append"
    BY <1>6 DEF AppendAny
  <2>2. CASE read[e].pos <= Len(engine.any)
    <3>1. /\ tail' = [tail EXCEPT ![read[e].pos] = engine.any[read[e].pos]]
          /\ read' = [read EXCEPT ![e].pos = @ + 1]
      BY <1>6, <2>2 DEF AppendAny
    <3>2. read'[e] = [read[e] EXCEPT !.pos = @ + 1] /\ \A x \in Readers : x # e => read'[x] = read[x]
      BY <1>1, <3>1
    <3>3. /\ read'[e].pc = "append" /\ read'[e].mood = read[e].mood
          /\ read'[e].pos = read[e].pos + 1 /\ read'[e].call = read[e].call
      BY <1>1, <2>1, <3>2 DEF ReadStates
    <3>4. AnySlots \subseteq DOMAIN tail
      BY <1>1, <1>2 DEF AnySlots, Slots
    <3>5. \A i \in AnySlots :
            /\ tail[i] = engine.any[i] => tail'[i] = engine.any[i]
            /\ i = read[e].pos => tail'[i] = engine.any[i]
      BY <1>1, <3>1, <3>4
    <3>6. \A i \in AnySlots : i < read'[e].pos => tail'[i] = engine.any[i]
      BY <1>2, <1>3, <2>1, <3>3, <3>5 DEF ReaderInv, AnySlots
    <3>7. ReaderInv(read'[e], tail')
      BY <1>3, <2>1, <3>3, <3>6 DEF ReaderInv
    <3> QED BY <1>1, <1>3, <3>2, <3>5, <3>7, OthersUndisturbed
  <2>3. CASE ~(read[e].pos <= Len(engine.any))
    <3>1. read' = [read EXCEPT ![e] = [@ EXCEPT !.pc = "match", !.pos = 1]] /\ tail' = tail
      BY <1>6, <2>3 DEF AppendAny
    <3>2. /\ read'[e].pc = "match" /\ read'[e].pos = 1
          /\ read'[e].mood = read[e].mood /\ read'[e].call = read[e].call
          /\ \A x \in Readers : x # e => read'[x] = read[x]
      BY <1>1, <3>1 DEF ReadStates
    <3>3. \A i \in AnySlots : tail[i] = engine.any[i]
      BY <1>2, <1>3, <2>1, <2>3 DEF ReaderInv, AnySlots
    <3>4. \A i \in AnySlots : ~(i < 1)
      BY <1>2 DEF AnySlots
    <3>5. ReaderInv(read'[e], tail')
      BY <1>3, <2>1, <3>1, <3>2, <3>3, <3>4 DEF ReaderInv
    <3> QED BY <1>1, <1>3, <3>1, <3>2, <3>5, OthersUndisturbed
  <2> QED BY <2>2, <2>3
<1>7. CASE MatchRule(e)
  <2>1. read[e].pc = "match" /\ tail' = tail
    BY <1>7 DEF MatchRule
  <2>2. CASE read[e].pos <= Len(engine.any)
    <3> DEFINE q == [read[e] EXCEPT !.seen = [@ EXCEPT ![read[e].pos] = tail[read[e].pos]],
                                    !.pos = @ + 1]
    <3>1. read' = [read EXCEPT ![e] = q]
      BY <1>1, <1>7, <2>2 DEF MatchRule
    <3>2. /\ read'[e].pc = "match" /\ read'[e].pos = read[e].pos + 1
          /\ read'[e].mood = read[e].mood /\ read'[e].call = read[e].call
          /\ read'[e].seen = [read[e].seen EXCEPT ![read[e].pos] = tail[read[e].pos]]
          /\ \A x \in Readers : x # e => read'[x] = read[x]
      BY <1>1, <2>1, <3>1 DEF ReadStates
    <3>3. read[e].seen \in [Slots -> Rules \cup {None}] /\ AnySlots \subseteq Slots
      BY <1>1, <1>2 DEF ReadStates, AnySlots, Slots
    <3>4. \A i \in AnySlots : i < read'[e].pos => read'[e].seen[i] = engine.any[i]
      BY <1>2, <1>3, <2>1, <3>2, <3>3 DEF ReaderInv, AnySlots
    <3>5. ReaderInv(read'[e], tail')
      BY <1>3, <2>1, <3>2, <3>4 DEF ReaderInv
    <3> QED BY <1>1, <1>3, <2>1, <3>2, <3>5, OthersUndisturbed
  <2>3. CASE ~(read[e].pos <= Len(engine.any))
    <3>1. read' = [read EXCEPT ![e].pc = "return"]
      BY <1>7, <2>3 DEF MatchRule
    <3>2. /\ read'[e].pc = "return" /\ read'[e].seen = read[e].seen
          /\ read'[e].mood = read[e].mood /\ read'[e].call = read[e].call
          /\ \A x \in Readers : x # e => read'[x] = read[x]
      BY <1>1, <3>1 DEF ReadStates
    <3>3. \A i \in AnySlots : read[e].seen[i] = engine.any[i]
      BY <1>2, <1>3, <2>1, <2>3 DEF ReaderInv, AnySlots
    <3>4. ReaderInv(read'[e], tail')
      BY <1>3, <2>1, <3>2, <3>3 DEF ReaderInv
    <3> QED BY <1>1, <1>3, <2>1, <3>2, <3>4, OthersUndisturbed
  <2> QED BY <2>2, <2>3
<1>8. ASSUME NEW value, ReturnFrom(e, value) PROVE ReadInv'
  <2>1. /\ read'[e].pc = "idle" /\ tail' = tail
        /\ \A x \in Readers : x # e => read'[x] = read[x]
    BY <1>1, <1>8 DEF ReturnFrom, NoRead
  <2>2. ReaderInv(read'[e], tail')
    BY <2>1 DEF ReaderInv
  <2> QED BY <1>1, <1>3, <2>1, <2>2, OthersUndisturbed
<1> QED BY <1>4, <1>5, <1>6, <1>7, <1>8 DEF ReadStep, Evaluate, GetVersion, GetRuleCount

LEMMA NextInv == IInv /\ [Next]_vars => IInv'
<1> SUFFICES ASSUME IInv, [Next]_vars PROVE IInv'
  OBVIOUS
<1>1. ASSUME NEW l \in Loaders, Query(l) \/ Lock(l) \/ WriteStep(l) PROVE IInv'
  BY <1>1, LoadsTyped, LoadsKeepMutex, LoadsKeepEngine, LoadsKeepReads DEF IInv
<1>2. ASSUME NEW e \in Readers, Call(e) \/ ReadStep(e) PROVE IInv'
  BY <1>2, ReadsTyped, ReadsKeepMutex, ReadsKeepEngine, ReadsKeepReads DEF IInv
<1>3. CASE UNCHANGED vars
  BY <1>3 DEF vars, IInv, TypeOK, MutexInv, EngineInv, ReadInv, ReaderInv, AnySlots,
               Indexes, Writing
<1> QED BY <1>1, <1>2, <1>3 DEF Next

LEMMA Invariance == Spec => []IInv
BY InitInv, NextInv, PTL DEF Spec

\* The lock, the fields, the index's spare room and every goroutine's locals keep
\* their types; in particular no append runs past that room.
THEOREM EngineTypeCorrect == Spec => []TypeOK
<1>1. IInv => TypeOK
  BY DEF IInv
<1> QED BY <1>1, Invariance, PTL

-----------------------------------------------------------------------------
(***************************************************************************)
(* The refinement.                                                         *)
(***************************************************************************)
LEMMA CurrentWhileWriting ==
  ASSUME MutexInv, NEW l \in Loaders, Writing(l)
  PROVE  Current = [rules |-> load[l].rules, version |-> load[l].version]
<1>1. (CHOOSE w \in Loaders : Writing(w)) = l
  BY OneWriter
<1> QED BY <1>1 DEF Current

LEMMA CurrentOtherwise ==
  ASSUME \A l \in Loaders : ~Writing(l)
  PROVE  Current = [rules |-> engine.rules, version |-> engine.version]
BY DEF Current

\* The same of the state a step leads to.
LEMMA CurrentWhileWritingNext ==
  ASSUME MutexInv', NEW l \in Loaders, Writing(l)'
  PROVE  Current' = [rules |-> load'[l].rules, version |-> load'[l].version]
<1>1. \A w \in Loaders : Writing(w)' => w = l
  BY DEF MutexInv
<1>2. (CHOOSE w \in Loaders : Writing(w)') = l
  BY <1>1
<1> QED BY <1>2 DEF Current

LEMMA CurrentOtherwiseNext ==
  ASSUME \A l \in Loaders : ~Writing(l)'
  PROVE  Current' = [rules |-> engine'.rules, version |-> engine'.version]
BY DEF Current

LEMMA LoadsRefine ==
  ASSUME IInv, IInv', NEW l \in Loaders, Query(l) \/ Lock(l) \/ WriteStep(l)
  PROVE  [Promise!Next]_<<Current, result>>
<1>1. load \in [Loaders -> LoadStates] /\ MutexInv /\ MutexInv' /\ EngineInv
  BY DEF IInv, TypeOK
<1>2. result' = result
  BY DEF Query, Lock, WriteStep, Enter, SetRules, SetVersion, ResetIndex, BuildIndex,
         ReleaseLock
<1>3. CASE Query(l) \/ Lock(l)
  <2>1. engine' = engine /\ ~Writing(l)
    BY <1>3 DEF Query, Lock, Writing
  <2>2. \A x \in Loaders : (Writing(x)' <=> Writing(x)) /\ (Writing(x) => load'[x] = load[x])
    BY <1>1, <1>3 DEF Query, Lock, Writing, LoadStates
  <2>3. CASE \E w \in Loaders : Writing(w)
    <3>1. PICK w \in Loaders : Writing(w)
      BY <2>3
    <3>2. Writing(w)' /\ load'[w] = load[w]
      BY <2>2, <3>1
    <3>3. Current' = [rules |-> load'[w].rules, version |-> load'[w].version]
      BY <1>1, <3>2, CurrentWhileWritingNext
    <3> QED BY <1>1, <1>2, <3>1, <3>2, <3>3, CurrentWhileWriting
  <2>4. CASE \A w \in Loaders : ~Writing(w)
    <3>1. \A w \in Loaders : ~Writing(w)'
      BY <2>2, <2>4
    <3>2. Current' = [rules |-> engine'.rules, version |-> engine'.version]
      BY <3>1, CurrentOtherwiseNext
    <3> QED BY <1>2, <2>1, <2>4, <3>2, CurrentOtherwise
  <2> QED BY <2>3, <2>4
<1>4. CASE Enter(l)
  <2>1. Writing(l)' /\ load'[l].rules = load[l].rules /\ load'[l].version = load[l].version
    BY <1>1, <1>4 DEF Enter, Writing, LoadStates
  <2>2. Current' = [rules |-> load'[l].rules, version |-> load'[l].version]
    BY <1>1, <2>1, CurrentWhileWritingNext
  <2> DEFINE new == <<load[l].rules, load[l].version>>
  <2>3. new \in Loads
    BY <1>1, <1>4 DEF Enter, EngineInv
  <2>4. Promise!Install(new[1], new[2])
    BY <1>2, <2>1, <2>2 DEF Promise!Install
  <2> QED BY <2>3, <2>4 DEF Promise!Next
<1>5. CASE SetRules(l) \/ SetVersion(l) \/ ResetIndex(l) \/ BuildIndex(l)
  <2>1. Writing(l) /\ Writing(l)'
    BY <1>1, <1>5 DEF SetRules, SetVersion, ResetIndex, BuildIndex, Writing, LoadStates
  <2>2. load'[l].rules = load[l].rules /\ load'[l].version = load[l].version
    BY <1>1, <1>5 DEF SetRules, SetVersion, ResetIndex, BuildIndex, LoadStates
  <2>3. Current' = [rules |-> load'[l].rules, version |-> load'[l].version]
    BY <1>1, <2>1, CurrentWhileWritingNext
  <2> QED BY <1>1, <1>2, <2>1, <2>2, <2>3, CurrentWhileWriting
<1>6. CASE ReleaseLock(l)
  <2>1. Writing(l) /\ ~Writing(l)' /\ engine' = engine
    BY <1>1, <1>6 DEF ReleaseLock, Writing, LoadStates
  <2>2. \A x \in Loaders : ~Writing(x)'
    BY <1>1, <1>6, <2>1, OneWriter DEF ReleaseLock, Writing
  <2>3. Current' = [rules |-> engine'.rules, version |-> engine'.version]
    BY <2>2, CurrentOtherwiseNext
  <2>4. engine.rules = load[l].rules /\ engine.version = load[l].version
    BY <1>1, <1>6 DEF ReleaseLock, EngineInv
  <2> QED BY <1>1, <1>2, <2>1, <2>3, <2>4, CurrentWhileWriting
<1> QED BY <1>3, <1>4, <1>5, <1>6 DEF WriteStep

LEMMA ReadsRefine ==
  ASSUME IInv, NEW e \in Readers, Call(e) \/ ReadStep(e)
  PROVE  [Promise!Next]_<<Current, result>>
<1>1. Current' = Current
  BY ReadsKeepEngine DEF Current, Writing
<1>2. ASSUME e \in mu.readers
      PROVE  /\ Current = [rules |-> engine.rules, version |-> engine.version]
             /\ Indexes(engine.rules)
  <2>1. \A l \in Loaders : ~Writing(l)
    BY <1>2 DEF IInv, MutexInv
  <2> QED BY <2>1, CurrentOtherwise DEF IInv, EngineInv
<1>3. CASE Call(e) \/ LookUpMood(e) \/ AppendAny(e) \/ MatchRule(e)
  <2>1. result' = result
    BY <1>3 DEF Call, LookUpMood, AppendAny, MatchRule
  <2> QED BY <1>1, <2>1
<1>4. CASE Evaluate(e)
  <2>1. e \in mu.readers
    BY <1>4 DEF Evaluate, IInv, MutexInv
  <2>2. engine.any \in Seq(Rules)
    BY DEF IInv, TypeOK
  <2>3. [i \in 1 .. Len(engine.any) |-> read[e].seen[i]] = engine.any
    BY <1>4, <2>2 DEF Evaluate, IInv, ReadInv, ReaderInv, AnySlots
  <2>4. read[e].mood = engine.mood /\ read[e].call = "Evaluate"
    BY <1>4 DEF Evaluate, IInv, ReadInv, ReaderInv
  <2>5. result' = [result EXCEPT ![e] =
          <<"Evaluate", [mood |-> engine.mood, any |-> engine.any, version |-> engine.version]>>]
    BY <1>4, <2>3, <2>4 DEF Evaluate, ReturnFrom
  <2>6. [mood |-> engine.mood, any |-> engine.any, version |-> engine.version]
          = Promise!Evaluation
    BY <1>2, <2>1 DEF Promise!Evaluation, Indexes
  <2> QED BY <1>1, <2>5, <2>6 DEF Promise!Next, Promise!Return
<1>5. CASE GetVersion(e)
  <2>1. Current.version = engine.version
    BY <1>2, <1>5 DEF GetVersion
  <2>2. result' = [result EXCEPT ![e] = <<"GetVersion", engine.version>>]
    BY <1>5 DEF GetVersion, ReturnFrom
  <2> QED BY <1>1, <2>1, <2>2 DEF Promise!Next, Promise!Return
<1>6. CASE GetRuleCount(e)
  <2>1. Current.rules = engine.rules
    BY <1>2, <1>6 DEF GetRuleCount
  <2>2. result' = [result EXCEPT ![e] = <<"GetRuleCount", Count[engine.rules]>>]
    BY <1>6 DEF GetRuleCount, ReturnFrom
  <2> QED BY <1>1, <2>1, <2>2 DEF Promise!Next, Promise!Return
<1> QED BY <1>3, <1>4, <1>5, <1>6 DEF ReadStep

\* The engine implements the snapshots: whatever readers and writers interleave,
\* a call returns what one load installed.
THEOREM EngineKeepsPromise == Spec => ImplementsRuleSnapshot
<1>1. Init => Promise!Init
  BY CurrentOtherwise DEF Init, Promise!Init, Writing
<1>2. IInv /\ IInv' /\ [Next]_vars => [Promise!Next]_<<Current, result>>
  <2> SUFFICES ASSUME IInv, IInv', [Next]_vars PROVE [Promise!Next]_<<Current, result>>
    OBVIOUS
  <2>1. CASE UNCHANGED vars
    BY <2>1 DEF vars, Current, Writing
  <2> QED BY <2>1, LoadsRefine, ReadsRefine DEF Next
<1> QED BY <1>1, <1>2, Invariance, PTL DEF Spec, ImplementsRuleSnapshot, Promise!Spec

=============================================================================
