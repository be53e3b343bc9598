------------------------- MODULE MoodUpdate_proofs -------------------------
(***************************************************************************)
(* What holds of the client, its breaker and the mood updates for every    *)
(* number of calls and every setting of the client.  The breaker is        *)
(* treated first and by itself, as a record and the calls it counts.       *)
(***************************************************************************)
EXTENDS MoodUpdate, FiniteSetTheorems, TLAPS

BreakerStates ==
  [state : {"closed", "half", "open"}, requests : Nat, failures : Nat,
   successes : Nat, expired : BOOLEAN, admitted : SUBSET Calls]

\* What b counts, when k are the calls.  A half-open breaker has not seen the
\* success that would close it.
Counts(b, k) ==
  /\ b \in BreakerStates
  /\ \A c \in b.admitted : k[c].pc = "wait"
  /\ b.state = "closed" => b.requests >= b.failures + Cardinality(b.admitted)
  /\ b.state = "half" =>
       /\ b.requests = b.successes + Cardinality(b.admitted)
       /\ b.requests <= MaxRequests
       /\ b.successes < MaxRequests
  /\ b.state = "open" => b.admitted = {}

\* The breaker without c, of which it has heard.
Without(b, c) == [b EXCEPT !.admitted = @ \ {c}]

-----------------------------------------------------------------------------
LEMMA AdmittedFinite ==
  ASSUME NEW S \in SUBSET Calls
  PROVE  IsFiniteSet(S) /\ Cardinality(S) \in Nat
BY ClientAssumption, FS_Subset, FS_CardinalityType

LEMMA GenerationCounts ==
  ASSUME NEW state \in {"closed", "half", "open"}, NEW k
  PROVE  Counts(Generation(state), k)
BY ClientAssumption, FS_EmptySet DEF Counts, Generation, BreakerStates

LEMMA CurrentCounts ==
  ASSUME NEW k, Counts(breaker, k)
  PROVE  Counts(Current, k)
BY GenerationCounts DEF Current

LEMMA AdmitCounts ==
  ASSUME NEW b, NEW k, NEW l, NEW c \in Calls, Counts(b, k),
         b.state # "open", ~(b.state = "half" /\ b.requests >= MaxRequests),
         c \notin b.admitted, l[c].pc = "wait", \A d \in Calls \ {c} : l[d] = k[d]
  PROVE  Counts([b EXCEPT !.requests = @ + 1, !.admitted = @ \cup {c}], l)
<1> DEFINE n == [b EXCEPT !.requests = @ + 1, !.admitted = @ \cup {c}]
<1>1. b \in BreakerStates
  BY DEF Counts
<1>2. /\ n \in BreakerStates /\ n.state = b.state /\ n.failures = b.failures
      /\ n.requests = b.requests + 1 /\ n.successes = b.successes
      /\ n.admitted = b.admitted \cup {c}
  <2>1. b.requests + 1 \in Nat /\ b.admitted \cup {c} \in SUBSET Calls
    BY <1>1 DEF BreakerStates
  <2>2. \A r \in Nat, s \in SUBSET Calls :
           LET m == [b EXCEPT !.requests = r, !.admitted = s]
           IN  /\ m \in BreakerStates /\ m.state = b.state /\ m.failures = b.failures
               /\ m.requests = r /\ m.successes = b.successes /\ m.admitted = s
    BY <1>1 DEF BreakerStates
  <2>3. QED
    BY <2>1, <2>2
<1>3. Cardinality(n.admitted) = Cardinality(b.admitted) + 1
  BY <1>1, <1>2, AdmittedFinite, FS_AddElement DEF BreakerStates
<1>4. Cardinality(b.admitted) \in Nat
  BY <1>1, AdmittedFinite DEF BreakerStates
<1>5. \A d \in n.admitted : l[d].pc = "wait"
  BY <1>1, <1>2 DEF Counts, BreakerStates
<1>6. n.state = "closed" => n.requests >= n.failures + Cardinality(n.admitted)
  BY <1>1, <1>2, <1>3, <1>4 DEF Counts, BreakerStates
<1>7. n.state = "half" => /\ n.requests = n.successes + Cardinality(n.admitted)
                          /\ n.requests <= MaxRequests
                          /\ n.successes < MaxRequests
  BY <1>1, <1>2, <1>3, <1>4, ClientAssumption DEF Counts, BreakerStates
<1>8. QED
  BY <1>2, <1>5, <1>6, <1>7 DEF Counts

\* The facts about b without c, after c has ended.
LEMMA WithoutCounts ==
  ASSUME NEW b, NEW k, NEW l, NEW c \in Calls, Counts(b, k), c \in b.admitted,
         \A d \in Calls \ {c} : l[d] = k[d]
  PROVE  /\ Without(b, c) \in BreakerStates
         /\ Without(b, c).state = b.state /\ b.state # "open"
         /\ Without(b, c).requests = b.requests
         /\ Without(b, c).failures = b.failures
         /\ Without(b, c).successes = b.successes
         /\ \A d \in Without(b, c).admitted : l[d].pc = "wait"
         /\ Cardinality(Without(b, c).admitted) \in Nat
         /\ Cardinality(b.admitted) = Cardinality(Without(b, c).admitted) + 1
<1>1. b \in BreakerStates
  BY DEF Counts
<1>2. Without(b, c) = [b EXCEPT !.admitted = b.admitted \ {c}]
  BY DEF Without
<1>3. /\ Without(b, c) \in BreakerStates /\ Without(b, c).state = b.state
      /\ Without(b, c).requests = b.requests /\ Without(b, c).failures = b.failures
      /\ Without(b, c).successes = b.successes
      /\ Without(b, c).admitted = b.admitted \ {c}
  BY <1>1, <1>2 DEF BreakerStates
<1>4. Cardinality(b.admitted \ {c}) = Cardinality(b.admitted) - 1
      /\ Cardinality(b.admitted) \in Nat /\ Cardinality(b.admitted \ {c}) \in Nat
  BY <1>1, AdmittedFinite, FS_RemoveElement DEF BreakerStates
<1>5. \A d \in b.admitted \ {c} : l[d].pc = "wait"
  BY <1>1 DEF Counts, BreakerStates
<1>6. b.state # "open"
  BY DEF Counts
<1>7. QED
  BY <1>3, <1>4, <1>5, <1>6

LEMMA SuccessCounts ==
  ASSUME NEW b, NEW k, NEW l, NEW c \in Calls, Counts(b, k), c \in b.admitted,
         \A d \in Calls \ {c} : l[d] = k[d]
  PROVE  Counts(OnSuccess(Without(b, c)), l)
<1> DEFINE w == Without(b, c)
<1> HIDE DEF w
<1>1. /\ w \in BreakerStates /\ w.state = b.state /\ b.state # "open"
      /\ w.requests = b.requests /\ w.failures = b.failures /\ w.successes = b.successes
      /\ \A d \in w.admitted : l[d].pc = "wait"
      /\ Cardinality(w.admitted) \in Nat
      /\ Cardinality(b.admitted) = Cardinality(w.admitted) + 1
  BY WithoutCounts DEF w
<1>2. CASE w.state = "closed"
  <2>1. OnSuccess(w) = w
    BY <1>2 DEF OnSuccess
  <2>2. w.requests >= w.failures + Cardinality(w.admitted)
    BY <1>1, <1>2 DEF Counts, BreakerStates
  <2>3. QED
    BY <1>1, <1>2, <2>1, <2>2 DEF Counts, w
<1>3. CASE w.state # "closed" /\ w.successes + 1 >= MaxRequests
  BY <1>3, GenerationCounts DEF OnSuccess, w
<1>4. CASE w.state # "closed" /\ ~(w.successes + 1 >= MaxRequests)
  <2> DEFINE n == [w EXCEPT !.successes = @ + 1]
  <2>1. OnSuccess(w) = n
    BY <1>4 DEF OnSuccess
  <2>2. /\ n \in BreakerStates /\ n.state = "half" /\ n.requests = w.requests
        /\ n.successes = w.successes + 1 /\ n.admitted = w.admitted
    BY <1>1, <1>4 DEF BreakerStates
  <2>3. n.requests = n.successes + Cardinality(n.admitted)
        /\ n.requests <= MaxRequests /\ n.successes < MaxRequests
    BY <1>1, <1>4, <2>2, ClientAssumption DEF Counts, BreakerStates
  <2>4. QED
    BY <1>1, <2>1, <2>2, <2>3 DEF Counts, w
<1>5. QED
  BY <1>2, <1>3, <1>4

LEMMA FailureCounts ==
  ASSUME NEW b, NEW k, NEW l, NEW c \in Calls, Counts(b, k), c \in b.admitted,
         \A d \in Calls \ {c} : l[d] = k[d]
  PROVE  Counts(OnFailure(Without(b, c)), l)
<1> DEFINE w == Without(b, c)
           f == [w EXCEPT !.failures = @ + 1]
<1> HIDE DEF w
<1>1. /\ w \in BreakerStates /\ w.state = b.state /\ b.state # "open"
      /\ w.requests = b.requests /\ w.failures = b.failures /\ w.successes = b.successes
      /\ \A d \in w.admitted : l[d].pc = "wait"
      /\ Cardinality(w.admitted) \in Nat
      /\ Cardinality(b.admitted) = Cardinality(w.admitted) + 1
  BY WithoutCounts DEF w
<1>2. CASE w.state = "half" \/ ReadyToTrip(f)
  <2>1. OnFailure(w) = Generation("open")
    BY <1>2 DEF OnFailure
  <2>2. QED
    BY <2>1, GenerationCounts DEF w
<1>3. CASE ~(w.state = "half" \/ ReadyToTrip(f))
  <2>1. OnFailure(w) = f
    BY <1>3 DEF OnFailure
  <2>2. /\ f \in BreakerStates /\ f.state = "closed" /\ f.requests = w.requests
        /\ f.failures = w.failures + 1 /\ f.admitted = w.admitted
    BY <1>1, <1>3 DEF BreakerStates
  <2>3. f.requests >= f.failures + Cardinality(f.admitted)
    BY <1>1, <2>2 DEF Counts, BreakerStates
  <2>4. QED
    BY <1>1, <2>1, <2>2, <2>3 DEF Counts, w
<1>4. QED
  BY <1>2, <1>3

\* Whatever the outcome of c's attempt, the breaker counts the calls left.
LEMMA AfterRequestCounts ==
  ASSUME NEW c \in Calls, NEW success \in BOOLEAN, Counts(breaker, call),
         AfterRequest(c, success), \A d \in Calls \ {c} : call'[d] = call[d]
  PROVE  Counts(breaker', call')
<1>1. Counts(Current, call)
  BY CurrentCounts
<1>2. CASE c \notin Current.admitted
  <2>1. breaker' = Current
    BY <1>2 DEF AfterRequest
  <2>2. Current.admitted \subseteq Calls \ {c}
    BY <1>1, <1>2 DEF Counts, BreakerStates
  <2>3. QED
    BY <1>1, <2>1, <2>2 DEF Counts
<1>3. CASE c \in Current.admitted
  <2>1. breaker' = IF success THEN OnSuccess(Without(Current, c))
                              ELSE OnFailure(Without(Current, c))
    BY <1>3 DEF AfterRequest, Without
  <2>2. QED
    BY <1>1, <1>3, <2>1, SuccessCounts, FailureCounts
<1>4. QED
  BY <1>2, <1>3

-----------------------------------------------------------------------------
\* A call in the loop has an attempt and belongs to an update that notifies; one
\* that succeeded was carried out.
CallInv ==
  \A c \in Calls :
    /\ call[c].pc \in {"try", "wait"} => call[c].attempt \in Attempts /\ update[c] = "notify"
    /\ call[c].pc = "ok" => \E a \in Attempts : <<c, a>> \in served

\* Every request was sent once, by an attempt the call has made.
MessageInv ==
  /\ wire \cap served = {}
  /\ \A c \in Calls, a \in Attempts : <<c, a>> \in wire \cup served =>
       /\ call[c].pc # "idle"
       /\ call[c].pc = "try" => a < call[c].attempt
       /\ call[c].pc = "wait" => a <= call[c].attempt

\* An update notifies only when its PUT is no longer on the way.
StoredInv ==
  /\ \A u \in Calls : update[u] \in {"stored", "notify", "ok"} => u \notin puts
  /\ \A u \in Calls, a \in Attempts :
       <<u, a>> \in wire => u \notin puts /\ update[u] \in {"notify", "ok", "lost"}

\* Nobody interferes with an update that is alone: what was stored last, and
\* what was carried out last, is its own.
AloneInv ==
  \A u \in alone :
    /\ \A v \in Calls \ {u} : Free(v)
    /\ update[u] \in {"stored", "notify", "ok", "lost"} => auth = u
    /\ update[u] \in {"notify", "ok", "lost"} /\ connected =>
         \A a \in Attempts : <<u, a>> \in served => catalog = u

IInv ==
  TypeOK /\ Counts(breaker, call) /\ CallInv /\ MessageInv /\ StoredInv /\ AloneInv

-----------------------------------------------------------------------------
LEMMA AttemptsAreNat == Attempts \subseteq Nat
BY ClientAssumption DEF Attempts

LEMMA UnadmittedCounts ==
  ASSUME NEW b, NEW k, NEW l, NEW c \in Calls, Counts(b, k), k[c].pc # "wait",
         \A d \in Calls \ {c} : l[d] = k[d]
  PROVE  Counts(b, l)
BY DEF Counts, BreakerStates

\* A step of the call c leaves the other calls as they are.
LEMMA CallStepFrame ==
  ASSUME TypeOK, NEW c \in Calls, CallStep(c) \/ Start(c)
  PROVE  \A d \in Calls \ {c} : call'[d] = call[d]
BY DEF TypeOK, RemoteTypeOK, CallStep, Start, Attempt, RefusedOpen, RefusedFull, Succeed,
       Fail, NextAttempt

LEMMA CountsNext ==
  ASSUME TypeOK, Counts(breaker, call), [Next]_vars
  PROVE  Counts(breaker', call')
<1>1. CASE \E c \in Calls : CallStep(c)
  <2>1. PICK c \in Calls : CallStep(c)
    BY <1>1
  <2>2. \A d \in Calls \ {c} : call'[d] = call[d]
    BY <2>1, CallStepFrame
  <2>3. Counts(Current, call)
    BY CurrentCounts
  <2>4. CASE Attempt(c)
    <3>1. /\ call[c].pc = "try" /\ Current.state # "open"
          /\ ~(Current.state = "half" /\ Current.requests >= MaxRequests)
          /\ breaker' = [Current EXCEPT !.requests = @ + 1, !.admitted = @ \cup {c}]
      BY <2>4 DEF Attempt, Full
    <3>2. call'[c].pc = "wait"
      BY <2>4 DEF Attempt, TypeOK, RemoteTypeOK
    <3>3. c \notin Current.admitted
      BY <2>3, <3>1 DEF Counts
    <3>4. QED
      BY <2>2, <2>3, <3>1, <3>2, <3>3, AdmitCounts
  <2>5. CASE RefusedOpen(c) \/ RefusedFull(c)
    <3>1. breaker' = Current /\ call[c].pc # "wait"
      BY <2>5 DEF RefusedOpen, RefusedFull
    <3>2. QED
      BY <2>2, <2>3, <3>1, UnadmittedCounts
  <2>6. CASE Succeed(c)
    BY <2>2, <2>6, AfterRequestCounts DEF Succeed
  <2>7. CASE Fail(c)
    BY <2>2, <2>7, AfterRequestCounts DEF Fail
  <2>8. QED
    BY <2>1, <2>4, <2>5, <2>6, <2>7 DEF CallStep
<1>2. CASE \E c \in Calls : Start(c)
  <2>1. PICK c \in Calls : Start(c)
    BY <1>2
  <2>2. breaker' = breaker /\ call[c].pc # "wait"
    BY <2>1 DEF Start, AtRest
  <2>3. QED
    BY <2>1, <2>2, CallStepFrame, UnadmittedCounts
<1>3. CASE Elapse
  <2>1. breaker' = [breaker EXCEPT !.expired = TRUE] /\ call' = call
    BY <1>3 DEF Elapse
  <2>2. breaker \in BreakerStates
    BY DEF Counts
  <2>3. /\ breaker' \in BreakerStates /\ breaker'.state = breaker.state
        /\ breaker'.requests = breaker.requests /\ breaker'.failures = breaker.failures
        /\ breaker'.successes = breaker.successes /\ breaker'.admitted = breaker.admitted
    BY <2>1, <2>2 DEF BreakerStates
  <2>4. QED
    BY <2>1, <2>3 DEF Counts
<1>4. CASE UNCHANGED <<breaker, call>>
  BY <1>4
<1>5. QED
  BY <1>1, <1>2, <1>3, <1>4 DEF Next, HandlerStep, Reject, Receive, AuthAccepts, AuthFails,
     Respond, StoreMood, LosePut, CarryOut, Serve, Lose, vars, remote

-----------------------------------------------------------------------------
\* What each step of a call does to it and to the messages.
LEMMA CallStepEffect ==
  ASSUME TypeOK, CallInv, NEW c \in Calls, CallStep(c)
  PROVE  /\ served' = served
         /\ call' = [call EXCEPT ![c] = call'[c]]
         /\ call[c].pc \in {"try", "wait"}
         /\ \/ /\ call[c].pc = "try" /\ wire' = wire \cup {<<c, call[c].attempt>>}
               /\ call'[c] = [pc |-> "wait", attempt |-> call[c].attempt]
            \/ /\ wire' = wire
               /\ \/ /\ call'[c] = [pc |-> "try", attempt |-> call[c].attempt + 1]
                     /\ call[c].attempt + 1 \in Attempts
                  \/ call'[c] = Returned("error")
                  \/ /\ call[c].pc = "wait" /\ <<c, call[c].attempt>> \in served
                     /\ call'[c] = Returned("ok")
<1>1. /\ call \in [Calls -> [pc : AtRest \cup {"try", "wait"}, attempt : Nat]]
      /\ call[c].pc \in AtRest \cup {"try", "wait"} /\ call[c].attempt \in Nat
  BY DEF TypeOK, RemoteTypeOK
<1>2. CASE Attempt(c)
  BY <1>1, <1>2 DEF Attempt
<1>3. ASSUME NextAttempt(c), call[c].pc \in {"try", "wait"}
      PROVE  /\ call' = [call EXCEPT ![c] = call'[c]]
             /\ \/ /\ call'[c] = [pc |-> "try", attempt |-> call[c].attempt + 1]
                   /\ call[c].attempt + 1 \in Attempts
                \/ call'[c] = Returned("error")
  <2>1. CASE call[c].attempt < MaxRetries
    BY <1>1, <1>3, <2>1, ClientAssumption DEF NextAttempt, Attempts
  <2>2. CASE ~(call[c].attempt < MaxRetries)
    BY <1>1, <1>3, <2>2 DEF NextAttempt
  <2>3. QED
    BY <2>1, <2>2
<1>4. CASE RefusedOpen(c)
  BY <1>1, <1>4 DEF RefusedOpen
<1>5. CASE RefusedFull(c)
  BY <1>3, <1>5 DEF RefusedFull
<1>6. CASE Succeed(c)
  BY <1>1, <1>6 DEF Succeed
<1>7. CASE Fail(c)
  BY <1>3, <1>7 DEF Fail
<1>8. QED
  BY <1>2, <1>4, <1>5, <1>6, <1>7 DEF CallStep

LEMMA StartEffect ==
  ASSUME TypeOK, NEW c \in Calls, Start(c)
  PROVE  /\ wire' = wire /\ served' = served \ ({c} \X Attempts)
         /\ \A a \in Attempts : <<c, a>> \notin wire
         /\ call' = [call EXCEPT ![c] = call'[c]]
         /\ call[c].pc \in AtRest
         /\ \/ call'[c] = Returned("error")
            \/ call'[c] = [pc |-> "try", attempt |-> 0] /\ 0 \in Attempts
<1>1. call \in [Calls -> [pc : AtRest \cup {"try", "wait"}, attempt : Nat]]
  BY DEF TypeOK, RemoteTypeOK
<1>2. Attempts # {} => 0 \in Attempts
  BY ClientAssumption DEF Attempts
<1>3. QED
  BY <1>1, <1>2 DEF Start

LEMMA TypeNext ==
  ASSUME TypeOK, CallInv, Counts(breaker', call'), [Next]_vars
  PROVE  TypeOK'
<1>1. breaker' \in BreakerStates
  BY DEF Counts
<1>2. call' \in [Calls -> [pc : AtRest \cup {"try", "wait"}, attempt : Nat]]
      /\ wire' \subseteq Messages /\ served' \subseteq Messages
  <2>1. /\ call \in [Calls -> [pc : AtRest \cup {"try", "wait"}, attempt : Nat]]
        /\ wire \subseteq Messages /\ served \subseteq Messages
    BY DEF TypeOK, RemoteTypeOK
  <2>2. Returned("error") \in [pc : AtRest \cup {"try", "wait"}, attempt : Nat]
        /\ Returned("ok") \in [pc : AtRest \cup {"try", "wait"}, attempt : Nat]
    BY DEF Returned, AtRest
  <2>3. CASE \E c \in Calls : CallStep(c)
    <3>1. PICK c \in Calls : CallStep(c)
      BY <2>3
    <3>2. call[c].attempt \in Attempts
      BY <3>1, CallStepEffect DEF CallInv
    <3>3. call'[c] \in [pc : AtRest \cup {"try", "wait"}, attempt : Nat]
      <4>1. \/ call'[c] = [pc |-> "wait", attempt |-> call[c].attempt]
            \/ /\ call'[c] = [pc |-> "try", attempt |-> call[c].attempt + 1]
               /\ call[c].attempt + 1 \in Attempts
            \/ call'[c] \in {Returned("error"), Returned("ok")}
        BY <3>1, CallStepEffect
      <4>2. \A a \in Attempts, pc \in {"try", "wait"} :
              [pc |-> pc, attempt |-> a] \in [pc : AtRest \cup {"try", "wait"}, attempt : Nat]
        BY AttemptsAreNat
      <4>3. QED
        BY <2>2, <3>2, <4>1, <4>2
    <3>4. wire' \subseteq wire \cup {<<c, call[c].attempt>>} /\ served' = served
          /\ call' = [call EXCEPT ![c] = call'[c]]
      BY <3>1, CallStepEffect
    <3>5. QED
      BY <2>1, <3>2, <3>3, <3>4 DEF Messages
  <2>4. CASE \E c \in Calls : Start(c)
    BY <2>1, <2>2, <2>4, StartEffect
  <2>5. CASE UNCHANGED call /\ (\E m \in wire : Serve(m) \/ Lose(m))
    BY <2>1, <2>5 DEF Serve, Lose
  <2>6. CASE UNCHANGED <<call, wire, served>>
    BY <2>1, <2>6
  <2>7. QED
    BY <2>3, <2>4, <2>5, <2>6 DEF Next, HandlerStep, Reject, Receive, AuthAccepts, AuthFails,
       Respond, StoreMood, LosePut, CarryOut, Serve, Lose, Elapse, vars, remote
<1>3. /\ connected' \in BOOLEAN
      /\ update' \in [Calls -> Ended \cup {"put", "stored", "notify"}]
      /\ {auth', catalog'} \subseteq Calls \cup {None}
      /\ puts' \subseteq Calls /\ alone' \subseteq Calls
  <2>1. /\ connected \in BOOLEAN
        /\ update \in [Calls -> Ended \cup {"put", "stored", "notify"}]
        /\ {auth, catalog} \subseteq Calls \cup {None}
        /\ puts \subseteq Calls /\ alone \subseteq Calls /\ wire \subseteq Calls \X Attempts
    BY DEF TypeOK, RemoteTypeOK, Messages
  <2>2. CASE \E u \in Calls : Reject(u) \/ Receive(u) \/ AuthAccepts(u) \/ AuthFails(u)
                              \/ Respond(u) \/ StoreMood(u) \/ LosePut(u)
    BY <2>1, <2>2 DEF Reject, Receive, AuthAccepts, AuthFails, Respond, StoreMood, LosePut,
       Answer, Ended
  <2>3. CASE \E m \in wire : CarryOut(m)
    BY <2>1, <2>3 DEF CarryOut
  <2>4. CASE UNCHANGED users
    BY <2>1, <2>4 DEF users
  <2>5. QED
    BY <2>2, <2>3, <2>4 DEF Next, HandlerStep, vars
<1>4. QED
  BY <1>1, <1>2, <1>3 DEF TypeOK, RemoteTypeOK, BreakerStates

-----------------------------------------------------------------------------
\* The steps, sorted by what they may change.
LEMMA StepKinds ==
  ASSUME TypeOK, [Next]_vars
  PROVE  \/ \E c \in Calls : CallStep(c) /\ UNCHANGED users
         \/ \E u \in Calls : AuthAccepts(u) /\ connected /\ Start(u)
         \/ \E u \in Calls : AuthAccepts(u) /\ ~connected /\ UNCHANGED remote
         \/ \E u \in Calls : UNCHANGED remote /\ (\/ Reject(u) \/ Receive(u) \/ AuthFails(u)
                                                  \/ Respond(u) \/ StoreMood(u) \/ LosePut(u))
         \/ \E c \in Calls, a \in Attempts : <<c, a>> \in wire /\ CarryOut(<<c, a>>)
         \/ \E c \in Calls, a \in Attempts : Lose(<<c, a>>) /\ UNCHANGED users
         \/ UNCHANGED <<call, wire, served>> /\ UNCHANGED users
<1>1. \A m \in wire : \E c \in Calls, a \in Attempts : m = <<c, a>>
  BY DEF TypeOK, RemoteTypeOK, Messages
<1>2. CASE \E m \in wire : CarryOut(m) \/ (Lose(m) /\ UNCHANGED users)
  BY <1>1, <1>2
<1>3. CASE \E u \in Calls : AuthAccepts(u)
  BY <1>3 DEF AuthAccepts
<1>4. CASE \E u \in Calls : \/ Reject(u) \/ Receive(u) \/ AuthFails(u)
                            \/ Respond(u) \/ StoreMood(u) \/ LosePut(u)
  BY <1>4 DEF Reject, Receive, AuthFails, Respond, StoreMood, LosePut
<1>5. CASE (Elapse /\ UNCHANGED users) \/ UNCHANGED vars
  BY <1>5 DEF Elapse, vars, remote, users
<1>6. QED
  BY <1>2, <1>3, <1>4, <1>5 DEF Next, HandlerStep

\* The handler's steps touch one update, and none that notifies unless its call
\* has returned.
LEMMA HandlerEffect ==
  ASSUME TypeOK, NEW u \in Calls,
         \/ Reject(u) \/ Receive(u) \/ AuthAccepts(u) \/ AuthFails(u)
         \/ Respond(u) \/ StoreMood(u) \/ LosePut(u)
  PROVE  /\ \A v \in Calls \ {u} : update'[v] = update[v]
         /\ update[u] = "notify" => update'[u] = "notify" \/ call[u].pc \in AtRest
BY DEF TypeOK, Free, Ended, Answer, Reject, Receive, AuthAccepts, AuthFails, Respond,
       StoreMood, LosePut

LEMMA CallInvNext ==
  ASSUME TypeOK, CallInv, [Next]_vars
  PROVE  CallInv'
<1>1. CASE \E c \in Calls : CallStep(c) /\ UNCHANGED users
  <2>1. PICK c \in Calls : CallStep(c) /\ UNCHANGED users
    BY <1>1
  <2>2. /\ served' = served /\ update' = update
        /\ \A d \in Calls \ {c} : call'[d] = call[d]
        /\ update[c] = "notify" /\ call[c].attempt \in Attempts
    BY <2>1, CallStepEffect, CallStepFrame DEF users, CallInv
  <2>3. \/ call'[c] = [pc |-> "wait", attempt |-> call[c].attempt]
        \/ /\ call'[c] = [pc |-> "try", attempt |-> call[c].attempt + 1]
           /\ call[c].attempt + 1 \in Attempts
        \/ call'[c] = Returned("error")
        \/ call'[c] = Returned("ok") /\ <<c, call[c].attempt>> \in served
    BY <2>1, CallStepEffect
  <2>4. /\ call'[c].pc \in {"try", "wait"} => call'[c].attempt \in Attempts
        /\ call'[c].pc = "ok" => <<c, call[c].attempt>> \in served
    BY <2>2, <2>3 DEF Returned
  <2>5. QED
    BY <2>2, <2>4 DEF CallInv
<1>2. CASE \E u \in Calls : AuthAccepts(u) /\ connected /\ Start(u)
  <2>1. PICK u \in Calls : AuthAccepts(u) /\ connected /\ Start(u)
    BY <1>2
  <2>2. /\ served' = served \ ({u} \X Attempts)
        /\ \A d \in Calls \ {u} : call'[d] = call[d] /\ update'[d] = update[d]
        /\ update'[u] = "notify"
    BY <2>1, StartEffect, CallStepFrame, HandlerEffect DEF AuthAccepts, TypeOK
  <2>3. /\ call'[u].pc = "try" => call'[u].attempt \in Attempts
        /\ call'[u].pc \in {"error", "try"}
    BY <2>1, StartEffect DEF Returned
  <2>4. QED
    BY <2>2, <2>3 DEF CallInv
<1>3. CASE \E u \in Calls : AuthAccepts(u) /\ ~connected /\ UNCHANGED remote
  BY <1>3, HandlerEffect DEF CallInv, remote, AtRest
<1>4. CASE \E u \in Calls : UNCHANGED remote /\ (\/ Reject(u) \/ Receive(u) \/ AuthFails(u)
                                                 \/ Respond(u) \/ StoreMood(u) \/ LosePut(u))
  BY <1>4, HandlerEffect DEF CallInv, remote, AtRest
<1>5. CASE \E c \in Calls, a \in Attempts : <<c, a>> \in wire /\ CarryOut(<<c, a>>)
  BY <1>5 DEF CarryOut, Serve, CallInv
<1>6. CASE \E c \in Calls, a \in Attempts : Lose(<<c, a>>) /\ UNCHANGED users
  BY <1>6 DEF Lose, CallInv, users
<1>7. CASE UNCHANGED <<call, wire, served>> /\ UNCHANGED users
  BY <1>7 DEF CallInv, users
<1>8. QED
  BY <1>1, <1>2, <1>3, <1>4, <1>5, <1>6, <1>7, StepKinds

LEMMA MessageInvNext ==
  ASSUME TypeOK, CallInv, MessageInv, [Next]_vars
  PROVE  MessageInv'
<1>1. CASE \E c \in Calls : CallStep(c) /\ UNCHANGED users
  <2>1. PICK c \in Calls : CallStep(c) /\ UNCHANGED users
    BY <1>1
  <2>2. /\ served' = served
        /\ \A d \in Calls \ {c} : call'[d] = call[d]
        /\ call[c].attempt \in Attempts /\ call[c].pc \in {"try", "wait"}
    BY <2>1, CallStepEffect, CallStepFrame DEF CallInv
  <2>3. CASE /\ call[c].pc = "try" /\ wire' = wire \cup {<<c, call[c].attempt>>}
             /\ call'[c] = [pc |-> "wait", attempt |-> call[c].attempt]
    <3>1. call'[c].pc = "wait" /\ call'[c].attempt = call[c].attempt
      BY <2>3
    <3>2. <<c, call[c].attempt>> \notin served
      <4>1. <<c, call[c].attempt>> \in wire \cup served => call[c].attempt < call[c].attempt
        BY <2>2, <2>3 DEF MessageInv
      <4>2. call[c].attempt \in Nat
        BY <2>2, AttemptsAreNat
      <4>3. QED
        BY <4>1, <4>2
    <3>3. wire' \cap served' = {}
      BY <2>2, <2>3, <3>2 DEF MessageInv
    <3>4. \A a \in Attempts : <<c, a>> \in wire \cup served => a <= call[c].attempt
      <4>1. call[c].attempt \in Nat
        BY <2>2, AttemptsAreNat
      <4>2. \A a \in Attempts : <<c, a>> \in wire \cup served => a < call[c].attempt
        BY <2>3 DEF MessageInv
      <4>3. \A a, n \in Nat : a < n => a <= n
        OBVIOUS
      <4>4. QED
        BY <4>1, <4>2, <4>3, AttemptsAreNat
    <3>5. \A n \in Nat : n <= n
      OBVIOUS
    <3>6. call[c].attempt <= call[c].attempt
      BY <2>2, <3>5, AttemptsAreNat
    <3>7. QED
      BY <2>2, <2>3, <3>1, <3>3, <3>4, <3>6 DEF MessageInv
  <2>4. CASE wire' = wire /\ call'[c] = [pc |-> "try", attempt |-> call[c].attempt + 1]
    <3>1. call'[c].pc = "try" /\ call'[c].attempt = call[c].attempt + 1
      BY <2>4
    <3>2. \A a \in Attempts : <<c, a>> \in wire \cup served => a < call[c].attempt + 1
      <4>1. \A a \in Attempts : <<c, a>> \in wire \cup served =>
              a < call[c].attempt \/ a <= call[c].attempt
        BY <2>2 DEF MessageInv
      <4>2. call[c].attempt \in Nat
        BY <2>2, AttemptsAreNat
      <4>3. \A a, n \in Nat : a < n \/ a <= n => a < n + 1
        OBVIOUS
      <4>4. QED
        BY <4>1, <4>2, <4>3, AttemptsAreNat
    <3>3. QED
      BY <2>2, <2>4, <3>1, <3>2 DEF MessageInv
  <2>5. CASE wire' = wire /\ call'[c] \in {Returned("error"), Returned("ok")}
    <3>1. call'[c].pc \in {"error", "ok"}
      BY <2>5 DEF Returned
    <3>2. QED
      BY <2>2, <2>5, <3>1 DEF MessageInv
  <2>6. QED
    BY <2>1, <2>3, <2>4, <2>5, CallStepEffect
<1>2. CASE \E u \in Calls : AuthAccepts(u) /\ connected /\ Start(u)
  <2>1. PICK u \in Calls : Start(u)
    BY <1>2
  <2>2. /\ wire' = wire /\ served' = served \ ({u} \X Attempts)
        /\ \A a \in Attempts : <<u, a>> \notin wire
        /\ \A d \in Calls \ {u} : call'[d] = call[d]
    BY <2>1, StartEffect, CallStepFrame
  <2>3. QED
    BY <2>2 DEF MessageInv
<1>3. CASE \E c \in Calls, a \in Attempts : <<c, a>> \in wire /\ CarryOut(<<c, a>>)
  BY <1>3 DEF CarryOut, Serve, MessageInv
<1>4. CASE \E c \in Calls, a \in Attempts : Lose(<<c, a>>) /\ UNCHANGED users
  BY <1>4 DEF Lose, MessageInv
<1>5. CASE UNCHANGED <<call, wire, served>>
  BY <1>5 DEF MessageInv
<1>6. QED
  BY <1>1, <1>2, <1>3, <1>4, <1>5, StepKinds DEF remote

LEMMA StoredInvNext ==
  ASSUME TypeOK, CallInv, StoredInv, [Next]_vars
  PROVE  StoredInv'
<1>1. CASE \E c \in Calls : CallStep(c) /\ UNCHANGED users
  <2>1. PICK c \in Calls : CallStep(c) /\ UNCHANGED users
    BY <1>1
  <2>2. wire' \subseteq wire \cup {<<c, call[c].attempt>>} /\ update[c] = "notify"
    BY <2>1, CallStepEffect DEF CallInv
  <2>3. update' = update /\ puts' = puts
    BY <2>1 DEF users
  <2>4. QED
    BY <2>2, <2>3 DEF StoredInv
<1>2. CASE \E u \in Calls : AuthAccepts(u)
  <2>1. PICK u \in Calls : AuthAccepts(u)
    BY <1>2
  <2>2. /\ wire' = wire /\ puts' = puts /\ update[u] = "stored"
        /\ update'[u] \in {"notify", "ok", "lost"} /\ u \notin puts
    BY <2>1 DEF StoredInv, AuthAccepts, Answer, Start, remote, TypeOK
  <2>3. QED
    BY <2>1, <2>2, HandlerEffect DEF StoredInv
<1>3. CASE \E u \in Calls : UNCHANGED remote /\ (\/ Reject(u) \/ Receive(u) \/ AuthFails(u)
                                                 \/ Respond(u) \/ StoreMood(u) \/ LosePut(u))
  <2>1. PICK u \in Calls : UNCHANGED remote /\ (\/ Reject(u) \/ Receive(u) \/ AuthFails(u)
                                                \/ Respond(u) \/ StoreMood(u) \/ LosePut(u))
    BY <1>3
  <2>2. wire' = wire /\ \A v \in Calls \ {u} : update'[v] = update[v]
    BY <2>1, HandlerEffect DEF remote
  <2>3. CASE Reject(u)
    BY <2>2, <2>3 DEF Reject, Answer, Free, StoredInv, TypeOK
  <2>4. CASE Receive(u)
    BY <2>2, <2>4 DEF Receive, Free, StoredInv, TypeOK
  <2>5. CASE AuthFails(u)
    BY <2>2, <2>5 DEF AuthFails, Answer, StoredInv, TypeOK
  <2>6. CASE Respond(u)
    BY <2>2, <2>6 DEF Respond, Answer, StoredInv, TypeOK
  <2>7. CASE StoreMood(u)
    BY <2>2, <2>7 DEF StoreMood, StoredInv, TypeOK
  <2>8. CASE LosePut(u)
    BY <2>2, <2>8 DEF LosePut, StoredInv
  <2>9. QED
    BY <2>1, <2>3, <2>4, <2>5, <2>6, <2>7, <2>8
<1>4. CASE \E c \in Calls, a \in Attempts : <<c, a>> \in wire /\ CarryOut(<<c, a>>)
  BY <1>4 DEF CarryOut, Serve, StoredInv
<1>5. CASE \E c \in Calls, a \in Attempts : Lose(<<c, a>>) /\ UNCHANGED users
  BY <1>5 DEF Lose, StoredInv, users
<1>6. CASE UNCHANGED <<call, wire, served>> /\ UNCHANGED users
  BY <1>6 DEF StoredInv, users
<1>7. QED
  BY <1>1, <1>2, <1>3, <1>4, <1>5, <1>6, StepKinds

LEMMA AloneInvNext ==
  ASSUME TypeOK, CallInv, StoredInv, AloneInv, [Next]_vars
  PROVE  AloneInv'
<1>1. CASE \E c \in Calls : CallStep(c) /\ UNCHANGED users
  <2>1. PICK c \in Calls : CallStep(c) /\ UNCHANGED users
    BY <1>1
  <2>2. /\ wire' \subseteq wire \cup {<<c, call[c].attempt>>} /\ served' = served
        /\ update[c] = "notify"
    BY <2>1, CallStepEffect DEF CallInv
  <2>3. \A u \in alone : u = c
    BY <2>2 DEF AloneInv, Free, Ended
  <2>4. UNCHANGED users
    BY <2>1
  <2>5. QED
    BY <2>2, <2>3, <2>4 DEF AloneInv, Free, users
<1>2. CASE \E u \in Calls : AuthAccepts(u)
  <2>1. PICK u \in Calls : AuthAccepts(u)
    BY <1>2
  <2>2. \A v \in alone : v = u
    BY <2>1 DEF AuthAccepts, AloneInv, Free, Ended
  <2>3. /\ wire' = wire /\ puts' = puts /\ alone' = alone /\ auth' = auth
        /\ connected' = connected /\ update[u] = "stored"
        /\ \A v \in Calls \ {u} : update'[v] = update[v]
        /\ connected => \A a \in Attempts : <<u, a>> \notin served'
    BY <2>1, HandlerEffect DEF AuthAccepts, Start, remote
  <2>4. QED
    BY <2>2, <2>3 DEF AloneInv, Free
<1>3. CASE \E u \in Calls : UNCHANGED remote /\ (\/ Reject(u) \/ Receive(u) \/ AuthFails(u)
                                                 \/ Respond(u) \/ StoreMood(u) \/ LosePut(u))
  <2>1. PICK u \in Calls : UNCHANGED remote /\ (\/ Reject(u) \/ Receive(u) \/ AuthFails(u)
                                                \/ Respond(u) \/ StoreMood(u) \/ LosePut(u))
    BY <1>3
  <2>2. wire' = wire /\ served' = served /\ \A v \in Calls \ {u} : update'[v] = update[v]
    BY <2>1, HandlerEffect DEF remote
  <2>3. CASE Reject(u)
    <3>1. alone' = alone \ {u} /\ update'[u] \in Ended /\ UNCHANGED <<auth, catalog, puts, connected>>
      BY <2>3 DEF Reject, Answer, Ended, TypeOK
    <3>2. QED
      BY <2>2, <3>1 DEF AloneInv, Free, TypeOK
  <2>4. CASE Receive(u)
    <3>1. /\ update'[u] = "put" /\ puts' = puts \cup {u}
          /\ alone' = {} \/ (alone' = {u} /\ \A v \in Calls : Free(v))
      BY <2>4 DEF Receive, TypeOK
    <3>2. QED
      BY <2>2, <3>1 DEF AloneInv, Free
  <2>5. CASE AuthFails(u)
    <3>1. \A v \in alone : v = u
      BY <2>5 DEF AuthFails, AloneInv, Free, Ended
    <3>2. alone' = {}
      BY <2>5, <3>1 DEF AuthFails
    <3>3. QED
      BY <3>2 DEF AloneInv
  <2>6. CASE Respond(u)
    <3>1. \A v \in alone : v = u
      BY <2>6 DEF Respond, AloneInv, Free, Ended
    <3>2. update[u] = "notify" /\ UNCHANGED <<auth, catalog, puts, alone, connected>>
      BY <2>6 DEF Respond
    <3>3. QED
      BY <2>2, <3>1, <3>2 DEF AloneInv, Free
  <2>7. CASE StoreMood(u)
    <3>1. u \in puts /\ \A v \in alone : v = u
      BY <2>7 DEF StoreMood, AloneInv, Free
    <3>2. /\ update'[u] \in {"notify", "ok", "lost"} => update[u] = update'[u]
          /\ auth' = u /\ catalog' = catalog /\ connected' = connected
          /\ puts' = puts \ {u} /\ alone' = alone
      BY <2>7, <3>1 DEF StoreMood, StoredInv, TypeOK
    <3>3. QED
      BY <2>2, <3>1, <3>2 DEF AloneInv, Free
  <2>8. CASE LosePut(u)
    BY <2>2, <2>8 DEF LosePut, AloneInv, Free
  <2>9. QED
    BY <2>1, <2>3, <2>4, <2>5, <2>6, <2>7, <2>8
<1>4. CASE \E c \in Calls, a \in Attempts : <<c, a>> \in wire /\ CarryOut(<<c, a>>)
  <2>1. PICK c \in Calls, a \in Attempts : <<c, a>> \in wire /\ CarryOut(<<c, a>>)
    BY <1>4
  <2>2. \A u \in alone : u = c
    BY <2>1 DEF AloneInv, Free
  <2>3. catalog' = c /\ wire' \subseteq wire /\ UNCHANGED <<connected, update, auth, puts, alone>>
    BY <2>1 DEF CarryOut, Serve
  <2>4. QED
    BY <2>2, <2>3 DEF AloneInv, Free
<1>5. CASE \E c \in Calls, a \in Attempts : Lose(<<c, a>>) /\ UNCHANGED users
  BY <1>5 DEF Lose, AloneInv, Free, users
<1>6. CASE UNCHANGED <<call, wire, served>> /\ UNCHANGED users
  BY <1>6 DEF AloneInv, Free, users
<1>7. QED
  BY <1>1, <1>2, <1>3, <1>4, <1>5, <1>6, StepKinds

-----------------------------------------------------------------------------
LEMMA IInvInit == Init => IInv
<1> SUFFICES ASSUME Init PROVE IInv
  OBVIOUS
<1>1. Counts(breaker, call)
  BY GenerationCounts DEF Init, RemoteInit
<1>2. TypeOK
  BY <1>1 DEF Counts, BreakerStates, Init, RemoteInit, TypeOK, RemoteTypeOK, Returned, AtRest,
     Ended
<1>3. CallInv /\ MessageInv /\ StoredInv /\ AloneInv
  BY DEF Init, RemoteInit, Returned, CallInv, MessageInv, StoredInv, AloneInv
<1>4. QED
  BY <1>1, <1>2, <1>3 DEF IInv

LEMMA IInvNext == IInv /\ [Next]_vars => IInv'
<1> SUFFICES ASSUME IInv, [Next]_vars PROVE IInv'
  OBVIOUS
<1>1. Counts(breaker', call')
  BY CountsNext DEF IInv
<1>2. TypeOK'
  BY <1>1, TypeNext DEF IInv
<1>3. CallInv' /\ MessageInv' /\ StoredInv' /\ AloneInv'
  BY CallInvNext, MessageInvNext, StoredInvNext, AloneInvNext DEF IInv
<1>4. QED
  BY <1>1, <1>2, <1>3 DEF IInv, Counts

LEMMA Invariant == Spec => []IInv
BY IInvInit, IInvNext, PTL DEF Spec

\* Client, breaker and updates keep their types: no call makes an attempt beyond
\* the last.
THEOREM UpdateTypeCorrect == Spec => []TypeOK
<1>1. IInv => TypeOK
  BY DEF IInv
<1>2. QED
  BY <1>1, Invariant, PTL

\* The breaker accounts for every call it has let through, for any number of
\* calls and whatever its settings.
THEOREM BreakerAccounts == Spec => []CountsAccountForCalls
<1>1. IInv => CountsAccountForCalls
  BY DEF IInv, Counts, CountsAccountForCalls
<1>2. QED
  BY <1>1, Invariant, PTL

\* A half-open breaker that turns calls away has let one through that is still
\* under way, and whose end will decide.
THEOREM HalfOpenIsDecided == Spec => []HalfOpenDecides
<1>1. IInv => HalfOpenDecides
  <2> SUFFICES ASSUME IInv, Full
               PROVE  \E c \in Calls : call[c].pc = "wait" /\ c \in Current.admitted
    BY DEF HalfOpenDecides
  <2>1. Counts(Current, call)
    BY CurrentCounts DEF IInv
  <2>2. /\ Current \in BreakerStates
        /\ Current.requests = Current.successes + Cardinality(Current.admitted)
        /\ Current.requests >= MaxRequests /\ Current.successes < MaxRequests
    BY <2>1 DEF Counts, Full
  <2>3. Current.admitted \in SUBSET Calls /\ Current.successes \in Nat
    BY <2>2 DEF BreakerStates
  <2>4. Cardinality(Current.admitted) # 0
    BY <2>2, <2>3, AdmittedFinite, ClientAssumption
  <2>5. PICK c \in Current.admitted : TRUE
    BY <2>4, FS_EmptySet
  <2>6. QED
    BY <2>1, <2>3, <2>5 DEF Counts
<1>2. QED
  BY <1>1, Invariant, PTL

\* The catalog hears only of updates the Auth Service has dealt with.
THEOREM AnnouncedAfterStored == Spec => []OnlyStoredMoodsAnnounced
<1>1. IInv => OnlyStoredMoodsAnnounced
  BY DEF IInv, TypeOK, RemoteTypeOK, Messages, StoredInv, OnlyStoredMoodsAnnounced
<1>2. QED
  BY <1>1, Invariant, PTL

\* An update that was alone and acknowledged leaves both services with its mood,
\* for any number of attempts and of other calls.
THEOREM AloneUpdatesAgree == Spec => []AloneUpdateAgrees
<1>1. IInv => AloneUpdateAgrees
  BY DEF IInv, TypeOK, CallInv, AloneInv, AloneUpdateAgrees
<1>2. QED
  BY <1>1, Invariant, PTL

-----------------------------------------------------------------------------
(***************************************************************************)
(* The refinement: a step of the client is a step of the call it promises, *)
(* or none.                                                                *)
(***************************************************************************)
LEMMA StatusExcept ==
  ASSUME TypeOK, NEW c \in Calls, call' = [call EXCEPT ![c] = call'[c]]
  PROVE  Status' = [Status EXCEPT ![c] = IF call'[c].pc \in AtRest THEN call'[c].pc
                                         ELSE "underway"]
BY DEF TypeOK, RemoteTypeOK, Status

LEMMA PromiseInit == Init => Promise!Init
BY DEF Init, RemoteInit, Promise!Init, Status, Delivered, Returned, AtRest

LEMMA PromiseNext ==
  ASSUME IInv, [Next]_vars
  PROVE  [Promise!Next]_<<Status, Delivered>>
<1> USE DEF IInv
<1>1. CASE \E c \in Calls : CallStep(c) /\ UNCHANGED users
  <2>1. PICK c \in Calls : CallStep(c)
    BY <1>1
  <2>2. /\ Delivered' = Delivered
        /\ call' = [call EXCEPT ![c] = call'[c]]
        /\ call[c].pc \in {"try", "wait"} /\ Status[c] = "underway"
    BY <2>1, CallStepEffect DEF Delivered, Status, AtRest
  <2>3. Status' = [Status EXCEPT ![c] = IF call'[c].pc \in AtRest THEN call'[c].pc
                                        ELSE "underway"]
    BY <2>2, StatusExcept
  <2>4. CASE call'[c].pc \in {"try", "wait"}
    <3>1. Status' = [Status EXCEPT ![c] = "underway"]
      BY <2>3, <2>4 DEF AtRest
    <3>2. Status' = Status
      BY <2>2, <3>1 DEF Status
    <3>3. QED
      BY <2>2, <3>2
  <2>5. CASE call'[c] = Returned("error")
    <3>1. Status' = [Status EXCEPT ![c] = "error"]
      BY <2>3, <2>5 DEF AtRest, Returned
    <3>2. Promise!Fail(c)
      BY <2>2, <3>1 DEF Promise!Fail
    <3>3. QED
      BY <3>2 DEF Promise!Next
  <2>6. CASE call'[c] = Returned("ok") /\ <<c, call[c].attempt>> \in served
    <3>1. Status' = [Status EXCEPT ![c] = "ok"]
      BY <2>3, <2>6 DEF AtRest, Returned
    <3>2. call[c].attempt \in Attempts
      BY <2>2 DEF CallInv
    <3>3. Delivered[c] # {}
      BY <2>6, <3>2 DEF Delivered
    <3>4. Promise!Succeed(c)
      BY <2>2, <3>1, <3>3 DEF Promise!Succeed
    <3>5. QED
      BY <3>4 DEF Promise!Next
  <2>7. TypeOK /\ CallInv
    OBVIOUS
  <2> HIDE DEF IInv
  <2>8. \/ call'[c] = [pc |-> "wait", attempt |-> call[c].attempt]
        \/ call'[c] = [pc |-> "try", attempt |-> call[c].attempt + 1]
        \/ call'[c] = Returned("error")
        \/ call'[c] = Returned("ok") /\ <<c, call[c].attempt>> \in served
    BY <2>1, <2>7, CallStepEffect
  <2>9. \/ call'[c].pc \in {"try", "wait"}
        \/ call'[c] = Returned("error")
        \/ call'[c] = Returned("ok") /\ <<c, call[c].attempt>> \in served
    BY <2>8
  <2>10. QED
    BY <2>4, <2>5, <2>6, <2>9
<1>2. CASE \E u \in Calls : Start(u)
  <2>1. PICK c \in Calls : Start(c)
    BY <1>2
  <2>2. /\ served' = served \ ({c} \X Attempts)
        /\ call' = [call EXCEPT ![c] = call'[c]]
        /\ call[c].pc \in AtRest
        /\ call'[c].pc = IF Attempts = {} THEN "error" ELSE "try"
    BY <2>1, StartEffect DEF Start, Returned, TypeOK, RemoteTypeOK
  <2>3. Status' = [Status EXCEPT ![c] = IF Attempts = {} THEN "error" ELSE "underway"]
    BY <2>2, StatusExcept DEF AtRest
  <2>4. Delivered' = [Delivered EXCEPT ![c] = {}]
    BY <2>2 DEF Delivered
  <2>5. Status[c] \in {"idle", "ok", "error"}
    BY <2>2 DEF Status, AtRest
  <2>6. Promise!Begin(c)
    BY <2>3, <2>4, <2>5 DEF Promise!Begin, Promise!AtRest
  <2>7. QED
    BY <2>6 DEF Promise!Next
<1>3. CASE \E c \in Calls, a \in Attempts : <<c, a>> \in wire /\ CarryOut(<<c, a>>)
  <2>1. PICK c \in Calls, a \in Attempts : <<c, a>> \in wire /\ CarryOut(<<c, a>>)
    BY <1>3
  <2>2. call' = call /\ served' = served \cup {<<c, a>>}
    BY <2>1 DEF CarryOut, Serve
  <2>3. <<c, a>> \notin served /\ call[c].pc # "idle"
    BY <2>1 DEF MessageInv
  <2>4. Delivered' = [Delivered EXCEPT ![c] = @ \cup {a}]
    BY <2>2 DEF Delivered
  <2>5. Status[c] # "idle" /\ a \notin Delivered[c] /\ Status' = Status
    BY <2>2, <2>3 DEF Status, Delivered
  <2>6. Promise!CarryOut(c, a)
    BY <2>4, <2>5 DEF Promise!CarryOut
  <2>7. QED
    BY <2>6 DEF Promise!Next
<1>4. CASE UNCHANGED <<call, served>>
  BY <1>4 DEF Status, Delivered
<1>5. \A c \in Calls, a \in Attempts : Lose(<<c, a>>) => UNCHANGED <<call, served>>
  BY DEF Lose
<1>6. UNCHANGED remote => UNCHANGED <<call, served>>
  BY DEF remote
<1>7. TypeOK
  OBVIOUS
<1> HIDE DEF IInv
<1>8. QED
  BY <1>1, <1>2, <1>3, <1>4, <1>5, <1>6, <1>7, StepKinds

\* The client's calls keep the promise of RetriedCall, for any number of calls
\* and attempts.
THEOREM CallsKeepPromise == Spec => ImplementsRetriedCall
<1>1. IInv /\ [Next]_vars => [Promise!Next]_<<Status, Delivered>>
  BY PromiseNext
<1>2. QED
  BY <1>1, PromiseInit, Invariant, PTL DEF Spec, ImplementsRetriedCall, Promise!Spec

=============================================================================
