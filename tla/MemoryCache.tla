---------------------------- MODULE MemoryCache ----------------------------
(***************************************************************************)
(* The in-memory cache of internal/cache: the map behind its lock, the     *)
(* expiry check of Get, the goroutine that frees expired entries at every  *)
(* tick, and Close.  Every method holds the lock from its first access to  *)
(* the map to its last and reads the clock inside, so it is one action.    *)
(*                                                                         *)
(* Time is discrete and unbounded: instead of the time an entry expires,   *)
(* left is how long that is from now, and -1 stands for every time past.   *)
(***************************************************************************)
EXTENDS Integers

CONSTANTS
  Keys,
  Values,      \* marshalled values
  Patterns,    \* patterns other than "*" that callers invalidate by
  Matching,    \* the keys each pattern is a prefix of
  RequestedTTL,
  DefaultTTL,  \* 10 minutes
  Period,      \* of the cleaner's ticker, 1 minute
  None

ASSUME TimeAssumption ==
  /\ RequestedTTL \in Int
  /\ DefaultTTL \in Nat \ {0}
  /\ Period \in Nat \ {0}

ASSUME DataAssumption ==
  /\ Matching \in [Patterns -> SUBSET Keys]
  /\ None \notin Values
  /\ None \notin [value : Values, left : Int]

\* NewMemoryCache
TTL == IF RequestedTTL <= 0 THEN DefaultTTL ELSE RequestedTTL

VARIABLES
  store,      \* c.store
  answer,     \* what the last Get returned
  untilTick,  \* time to the ticker's next tick
  tick,       \* a tick waits in ticker.C, which holds one
  cleaner,    \* where the goroutine cleanupExpired is
  stopped,    \* c.stopped
  stopCh,     \* c.stopCh is closed
  panicked    \* a goroutine closed a closed channel

vars == <<store, answer, untilTick, tick, cleaner, stopped, stopCh, panicked>>

Init ==
  /\ store = [k \in Keys |-> None]
  /\ answer = None
  /\ untilTick = Period
  /\ tick = FALSE
  /\ cleaner = "select"
  /\ stopped = FALSE
  /\ stopCh = FALSE
  /\ panicked = FALSE

\* time.Now().After(entry.expiration)
Expired(e) == e # None /\ e.left < 0

-----------------------------------------------------------------------------
\* Mutant: the expiry of an entry is left to the cleaner.
Get_AnyEntry(k) ==
  /\ answer' = IF store[k] = None THEN None ELSE store[k].value
  /\ UNCHANGED <<store, untilTick, tick, cleaner, stopped, stopCh, panicked>>

Get(k) ==
  /\ answer' = IF store[k] = None \/ Expired(store[k]) THEN None ELSE store[k].value
  /\ UNCHANGED <<store, untilTick, tick, cleaner, stopped, stopCh, panicked>>

\* Mutant: one unit too long.
Set_Longer(k, v) ==
  /\ store' = [store EXCEPT ![k] = [value |-> v, left |-> TTL + 1]]
  /\ UNCHANGED <<answer, untilTick, tick, cleaner, stopped, stopCh, panicked>>

Set(k, v) ==
  /\ store' = [store EXCEPT ![k] = [value |-> v, left |-> TTL]]
  /\ UNCHANGED <<answer, untilTick, tick, cleaner, stopped, stopCh, panicked>>

Delete(k) ==
  /\ store' = [store EXCEPT ![k] = None]
  /\ UNCHANGED <<answer, untilTick, tick, cleaner, stopped, stopCh, panicked>>

InvalidateByPattern(p) ==
  /\ store' = [k \in Keys |-> IF k \in Matching[p] THEN None ELSE store[k]]
  /\ UNCHANGED <<answer, untilTick, tick, cleaner, stopped, stopCh, panicked>>

\* Clear, and InvalidateByPattern("*"): a new map.
Clear ==
  /\ store' = [k \in Keys |-> None]
  /\ UNCHANGED <<answer, untilTick, tick, cleaner, stopped, stopCh, panicked>>

\* Mutant: without the check of c.stopped.
Close_Unchecked ==
  /\ stopped' = TRUE
  /\ stopCh' = TRUE
  /\ panicked' = stopCh
  /\ UNCHANGED <<store, answer, untilTick, tick, cleaner>>

\* Mutant: the channel is not closed.
Close_FlagOnly ==
  /\ stopped' = TRUE
  /\ UNCHANGED <<store, answer, untilTick, tick, cleaner, stopCh, panicked>>

\* The store stays usable; only the cleaner is told to stop.
Close ==
  /\ IF stopped
       THEN UNCHANGED <<stopped, stopCh, panicked>>
       ELSE /\ stopped' = TRUE
            /\ stopCh' = TRUE
            /\ panicked' = stopCh
  /\ UNCHANGED <<store, answer, untilTick, tick, cleaner>>

-----------------------------------------------------------------------------
\* One arm of the select of cleanupExpired; when both are ready, either.
ReceiveTick ==
  /\ cleaner = "select" /\ tick
  /\ tick' = FALSE
  /\ cleaner' = "remove"
  /\ UNCHANGED <<store, answer, untilTick, stopped, stopCh, panicked>>

ReceiveStop ==
  /\ cleaner = "select" /\ stopCh
  /\ cleaner' = "returned"
  /\ UNCHANGED <<store, answer, untilTick, tick, stopped, stopCh, panicked>>

\* Mutant: a timer that fires once instead of a ticker.
RemoveExpired_Once ==
  /\ cleaner = "remove"
  /\ store' = [k \in Keys |-> IF Expired(store[k]) THEN None ELSE store[k]]
  /\ cleaner' = "returned"
  /\ UNCHANGED <<answer, untilTick, tick, stopped, stopCh, panicked>>

RemoveExpired ==
  /\ cleaner = "remove"
  /\ store' = [k \in Keys |-> IF Expired(store[k]) THEN None ELSE store[k]]
  /\ cleaner' = "select"
  /\ UNCHANGED <<answer, untilTick, tick, stopped, stopCh, panicked>>

-----------------------------------------------------------------------------
Age(e) == IF e = None \/ Expired(e) THEN e ELSE [e EXCEPT !.left = @ - 1]

\* One unit of time.  A tick nobody has received yet is not queued twice, and
\* the goroutine stops its ticker when it returns.
Elapse ==
  /\ store' = [k \in Keys |-> Age(store[k])]
  /\ IF cleaner = "returned"
       THEN UNCHANGED <<untilTick, tick>>
       ELSE /\ untilTick' = IF untilTick = 1 THEN Period ELSE untilTick - 1
            /\ tick' = (tick \/ untilTick = 1)
  /\ UNCHANGED <<answer, cleaner, stopped, stopCh, panicked>>

Next ==
  \/ \E k \in Keys : Get(k) \/ Delete(k) \/ \E v \in Values : Set(k, v)
  \/ \E p \in Patterns : InvalidateByPattern(p)
  \/ Clear \/ Close
  \/ ReceiveTick \/ ReceiveStop \/ RemoveExpired
  \/ Elapse

Spec == Init /\ [][Next]_vars

(***************************************************************************)
(* Time passes and the cleaner runs.  A select with several ready arms     *)
(* chooses uniformly, so an arm that is ready again and again is taken.    *)
(***************************************************************************)
FairSpec ==
  /\ Spec
  /\ WF_vars(Elapse)
  /\ WF_vars(RemoveExpired)
  /\ SF_vars(ReceiveTick)
  /\ SF_vars(ReceiveStop)

-----------------------------------------------------------------------------
TypeOK ==
  /\ store \in [Keys -> [value : Values, left : -1 .. TTL] \cup {None}]
  /\ answer \in Values \cup {None}
  /\ untilTick \in 1 .. Period
  /\ tick \in BOOLEAN
  /\ cleaner \in {"select", "remove", "returned"}
  /\ stopped \in BOOLEAN
  /\ stopCh \in BOOLEAN
  /\ panicked \in BOOLEAN

(***************************************************************************)
(* The cache keeps the promise of TTLCache: seen through Get, its entries  *)
(* last exactly their time to live, although expired ones linger until the *)
(* cleaner's next tick, which itself is seen by nobody.                    *)
(***************************************************************************)
Live == [k \in Keys |-> IF Expired(store[k]) THEN None ELSE store[k]]

Promise == INSTANCE TTLCache WITH live <- Live

\* Every call of Get, Set, Delete, InvalidateByPattern and Clear does to the
\* entries alive what it does to the map of TTLCache, and removeExpired and
\* Close do nothing to them.
ImplementsTTLCache == Promise!Spec

\* Close may be called any number of times, from any state of the cleaner,
\* without closing the channel twice; a closed channel is what it records.
CloseIsIdempotent == ~panicked /\ (stopped <=> stopCh)

\* Until the cache is closed an expired entry does not stay in memory: the
\* cleaner frees it unless a Set renews it first.
ExpiredEntriesAreFreed ==
  \A k \in Keys : Expired(store[k]) ~> (~Expired(store[k]) \/ stopCh)

\* Close ends the cleaner's goroutine, even while ticks keep arriving.
CleanerStops == stopped ~> cleaner = "returned"

=============================================================================
