-------------------------- MODULE EventBus_proofs ---------------------------
(***************************************************************************)
(* The safety invariants of the event bus, for any number of subscribers,  *)
(* calls and handlers.  All a call owns is in its record, so the invariant *)
(* is one of records: the wait group counts the goroutines at work, and an *)
(* error is either in the channel or in the answer.                        *)
(***************************************************************************)
EXTENDS EventBus, FiniteSetTheorems, SequenceTheorems, TLAPS

Working(r) == {n \in Indices : r.gone[n] \in {"running", "nil", "err", "sent"}}

CallOK(r) ==
  /\ r \in CallStates
  /\ r.next <= Len(r.handlers) + 1
  /\ \A n \in Indices : r.gone[n] = "none" <=> r.next <= n
  /\ r.pc \in {"wait", "collect", "returned"} => r.next = Len(r.handlers) + 1
  /\ r.pc \in {"wait", "collect"} => r.sync
  /\ r.sync => r.wg = Cardinality(Working(r))
  /\ r.sync /\ r.pc \in {"collect", "returned"} => Working(r) = {}
  /\ r.sync /\ r.pc # "returned" =>
       r.sent = {n \in Indices : r.gone[n] \in {"sent", "failed"}}
  /\ r.sync /\ r.pc = "returned" => r.answer = {n \in Indices : r.gone[n] = "failed"}
  /\ ~r.sync => \A n \in Indices : r.gone[n] # "sent"
  /\ r.closed => r.sync /\ r.pc \in {"collect", "returned"}

IInv == TypeOK /\ \A c \in Calls : CallOK(call[c])

-----------------------------------------------------------------------------
(***************************************************************************)
(* Lists of handlers, and sets of goroutines.                              *)
(***************************************************************************)
LEMMA SubscriptionLength ==
  ASSUME NEW s \in Subscriptions
  PROVE  s \in Seq(Handlers) /\ Len(s) \in 0 .. MaxSubscribers
<1>1. PICK m \in 0 .. MaxSubscribers : s \in [1 .. m -> Handlers]
  BY DEF Subscriptions, BoundedSeq, SeqOf
<1>2. s \in Seq(Handlers)
  BY <1>1, SeqDef, BusAssumption
<1>3. Len(s) \in Nat /\ 1 .. Len(s) = 1 .. m
  BY <1>1, <1>2, LenProperties
<1>4. QED
  BY <1>1, <1>2, <1>3, BusAssumption

LEMMA NobodySubscribed == <<>> \in Subscriptions
<1>1. <<>> \in [1 .. 0 -> Handlers]
  OBVIOUS
<1>2. QED
  BY <1>1, BusAssumption DEF Subscriptions, BoundedSeq, SeqOf

LEMMA OneMoreSubscriber ==
  ASSUME NEW s \in Subscriptions, NEW h \in Handlers, Len(s) < MaxSubscribers
  PROVE  Append(s, h) \in Subscriptions
<1>1. s \in Seq(Handlers) /\ Len(s) \in 0 .. MaxSubscribers
  BY SubscriptionLength
<1>2. Append(s, h) \in [1 .. Len(s) + 1 -> Handlers]
  BY <1>1, AppendProperties, LenProperties
<1>3. Len(s) + 1 \in 0 .. MaxSubscribers
  BY <1>1, BusAssumption
<1>4. QED
  BY <1>2, <1>3 DEF Subscriptions, BoundedSeq, SeqOf

LEMMA GoroutinesCount ==
  ASSUME NEW A \in SUBSET Indices
  PROVE  /\ Cardinality(A) \in 0 .. MaxSubscribers
         /\ Cardinality(A) = 0 <=> A = {}
         /\ \A n \in Indices \ A : Cardinality(A \cup {n}) = Cardinality(A) + 1
         /\ \A n \in A : Cardinality(A \ {n}) = Cardinality(A) - 1
<1>1. IsFiniteSet(Indices) /\ Cardinality(Indices) = MaxSubscribers
  BY FS_Interval, BusAssumption DEF Indices
<1>2. /\ IsFiniteSet(A) /\ Cardinality(A) <= MaxSubscribers /\ Cardinality(A) \in Nat
  BY <1>1, FS_Subset, FS_CardinalityType
<1>3. Cardinality(A) = 0 <=> A = {}
  BY <1>2, FS_EmptySet
<1>4. /\ \A n \in Indices \ A : Cardinality(A \cup {n}) = Cardinality(A) + 1
      /\ \A n \in A : Cardinality(A \ {n}) = Cardinality(A) - 1
  BY <1>2, FS_AddElement, FS_RemoveElement
<1>5. QED
  BY <1>2, <1>3, <1>4, BusAssumption

-----------------------------------------------------------------------------
\* A call that has started no handler yet.
LEMMA FreshOK ==
  ASSUME NEW r \in CallStates, r.next = 1, r.wg = 0, ~r.closed, r.sent = {}, r.answer = {},
         \A n \in Indices : r.gone[n] = "none",
         r.pc \in {"idle", "start", "returned"}, r.pc = "returned" => r.handlers = <<>>
  PROVE  CallOK(r)
<1>1. Len(r.handlers) \in 0 .. MaxSubscribers /\ (r.handlers = <<>> => Len(r.handlers) = 0)
  BY SubscriptionLength DEF CallStates
<1>2. Working(r) = {} /\ Cardinality({}) = 0
  BY FS_EmptySet DEF Working
<1>3. \A n \in Indices : 1 <= n
  BY BusAssumption DEF Indices
<1>4. QED
  BY <1>1, <1>2, <1>3 DEF CallOK

LEMMA NoCallType == NoCall \in CallStates
<1>1. 1 \in 1 .. MaxSubscribers + 1 /\ 0 \in 0 .. MaxSubscribers
  BY BusAssumption
<1>2. QED
  BY <1>1, NobodySubscribed DEF NoCall, CallStates

LEMMA BusInit == Init => IInv
<1> SUFFICES ASSUME Init PROVE IInv
  OBVIOUS
<1>1. CallOK(NoCall)
  <2>1. \A n \in Indices : NoCall.gone[n] = "none"
    BY DEF NoCall
  <2>2. QED
    BY <2>1, NoCallType, FreshOK DEF NoCall
<1>2. QED
  BY <1>1, NoCallType, NobodySubscribed DEF Init, IInv, TypeOK

\* A step of one call, or of its goroutines, that keeps its record sound.
LEMMA OneCall ==
  ASSUME IInv, NEW c \in Calls, UNCHANGED subscribers,
         call' = [call EXCEPT ![c] = call'[c]], CallOK(call'[c])
  PROVE  IInv'
BY DEF IInv, TypeOK, CallOK

LEMMA PublishInv ==
  ASSUME IInv, NEW c \in Calls, NEW t \in Types, NEW sync \in BOOLEAN, Publish(c, t, sync)
  PROVE  IInv'
<1>1. subscribers[t] \in Subscriptions
  BY DEF IInv, TypeOK
<1> DEFINE pc == IF subscribers[t] = <<>> THEN "returned" ELSE "start"
           r  == [NoCall EXCEPT !.pc = pc, !.sync = sync, !.handlers = subscribers[t]]
<1>2. r \in CallStates
  BY <1>1, NoCallType DEF CallStates
<1>3. /\ r.pc = pc /\ r.handlers = subscribers[t] /\ r.next = 1 /\ r.wg = 0
      /\ ~r.closed /\ r.sent = {} /\ r.answer = {} /\ r.gone = [n \in Indices |-> "none"]
  BY DEF NoCall
<1>4. CallOK(r)
  <2>1. \A n \in Indices : r.gone[n] = "none"
    BY <1>3
  <2> HIDE DEF r
  <2>2. QED
    BY <1>2, <1>3, <2>1, FreshOK
<1>5. call' = [call EXCEPT ![c] = r] /\ UNCHANGED subscribers
  BY DEF Publish
<1>6. call'[c] = r
  BY <1>5 DEF IInv, TypeOK
<1>7. QED
  BY <1>4, <1>5, <1>6, OneCall

LEMMA StartInv ==
  ASSUME IInv, NEW c \in Calls, StartHandler(c)
  PROVE  IInv'
<1> DEFINE r == call[c]
           s == call'[c]
           n == r.next
<1>1. r \in CallStates /\ CallOK(r) /\ r.pc = "start" /\ n <= Len(r.handlers)
  BY DEF StartHandler, IInv, TypeOK
<1>2. Len(r.handlers) \in 0 .. MaxSubscribers /\ n \in Indices /\ r.gone[n] = "none"
  BY <1>1, SubscriptionLength, BusAssumption DEF CallOK, CallStates, Indices
<1>3. /\ s = [r EXCEPT !.gone = [r.gone EXCEPT ![n] = "running"], !.next = n + 1,
                       !.wg = IF r.sync THEN r.wg + 1 ELSE r.wg]
      /\ call' = [call EXCEPT ![c] = s] /\ UNCHANGED subscribers
  BY DEF StartHandler, IInv, TypeOK
<1>4. /\ s.pc = r.pc /\ s.sync = r.sync /\ s.handlers = r.handlers /\ s.closed = r.closed
      /\ s.sent = r.sent /\ s.answer = r.answer /\ s.next = n + 1
      /\ s.gone = [r.gone EXCEPT ![n] = "running"]
      /\ s.wg = IF r.sync THEN r.wg + 1 ELSE r.wg
  BY <1>1, <1>3 DEF CallStates
<1>5. Working(s) = Working(r) \cup {n} /\ n \notin Working(r)
  BY <1>1, <1>2, <1>4 DEF Working, CallStates
<1>6. /\ Working(s) \in SUBSET Indices /\ Working(r) \in SUBSET Indices
  BY DEF Working
<1>7. Cardinality(Working(s)) = Cardinality(Working(r)) + 1
      /\ Cardinality(Working(s)) \in 0 .. MaxSubscribers
  BY <1>2, <1>5, <1>6, GoroutinesCount
<1>8. s \in CallStates
  <2>1. /\ n + 1 \in 1 .. MaxSubscribers + 1
        /\ (IF r.sync THEN r.wg + 1 ELSE r.wg) \in 0 .. MaxSubscribers
    BY <1>1, <1>2, <1>7, BusAssumption DEF CallOK, CallStates, Indices
  <2>2. [r.gone EXCEPT ![n] = "running"]
          \in [Indices -> {"none", "running", "nil", "err", "sent"} \cup Ended]
    BY <1>1 DEF CallStates
  <2>3. QED
    BY <1>1, <1>3, <2>1, <2>2 DEF CallStates
<1>9. \A m \in Indices : s.gone[m] = "none" <=> n + 1 <= m
  BY <1>1, <1>2, <1>4, BusAssumption DEF CallOK, CallStates, Indices
<1>10. s.sent = r.sent /\ \A m \in Indices : s.gone[m] \in {"sent", "failed"} <=>
                                             r.gone[m] \in {"sent", "failed"}
  BY <1>1, <1>2, <1>4 DEF CallStates
<1>11. \A m \in Indices : s.gone[m] = "sent" => r.gone[m] = "sent"
  BY <1>1, <1>4 DEF CallStates
<1> HIDE DEF r, s, n
<1>12. CallOK(s)
  <2>1. r.next = n /\ s.next <= Len(s.handlers) + 1 /\ s.pc = "start" /\ ~s.closed
    <3>1. r.next = n
      BY DEF n, r
    <3>2. QED
      BY <1>1, <1>2, <1>4, <3>1, SubscriptionLength DEF CallOK, CallStates, Indices
  <2>2. s.sync => s.wg = Cardinality(Working(s))
    BY <1>1, <1>4, <1>7 DEF CallOK
  <2>3. s.sync => s.sent = {m \in Indices : s.gone[m] \in {"sent", "failed"}}
    BY <1>1, <1>4, <1>10 DEF CallOK
  <2>4. ~s.sync => \A m \in Indices : s.gone[m] # "sent"
    BY <1>1, <1>4, <1>11 DEF CallOK
  <2>5. QED
    BY <1>4, <1>8, <1>9, <2>1, <2>2, <2>3, <2>4 DEF CallOK
<1>13. QED
  BY <1>3, <1>12, OneCall DEF s


\* A step of the publisher that leaves the goroutines alone.
LEMMA PublisherInv ==
  ASSUME IInv, NEW c \in Calls, AllStarted(c) \/ Wait(c) \/ CollectErrors(c)
  PROVE  IInv'
<1> DEFINE r == call[c]
           s == call'[c]
<1>1. r \in CallStates /\ CallOK(r)
  BY DEF IInv, TypeOK
<1>2. /\ call' = [call EXCEPT ![c] = s] /\ UNCHANGED subscribers
      /\ s.sync = r.sync /\ s.handlers = r.handlers /\ s.next = r.next /\ s.wg = r.wg
      /\ s.gone = r.gone /\ s \in CallStates
  <2>1. CASE AllStarted(c)
    BY <1>1, <2>1 DEF AllStarted, IInv, TypeOK, CallStates
  <2>2. CASE Wait(c)
    BY <1>1, <2>2 DEF Wait, IInv, TypeOK, CallStates
  <2>3. CASE CollectErrors(c)
    BY <1>1, <2>3 DEF CollectErrors, IInv, TypeOK, CallStates
  <2>4. QED
    BY <2>1, <2>2, <2>3
<1>3. Working(s) = Working(r)
  BY <1>2 DEF Working
<1>4. /\ Working(r) \in SUBSET Indices
      /\ Len(r.handlers) \in Nat /\ r.next \in Nat
  BY <1>1, SubscriptionLength, BusAssumption DEF Working, CallStates
<1>5. CASE AllStarted(c)
  <2>1. /\ r.pc = "start" /\ r.next > Len(r.handlers)
        /\ s.pc = IF r.sync THEN "wait" ELSE "returned"
        /\ s.closed = r.closed /\ s.sent = r.sent /\ s.answer = r.answer
    BY <1>1, <1>5 DEF AllStarted, IInv, TypeOK, CallStates
  <2>2. CallOK(s)
    BY <1>1, <1>2, <1>3, <1>4, <2>1 DEF CallOK
  <2>3. QED
    BY <1>2, <2>2, OneCall
<1>6. CASE Wait(c)
  <2>1. /\ r.pc = "wait" /\ r.wg = 0 /\ s.pc = "collect" /\ s.closed = TRUE
        /\ s.sent = r.sent /\ s.answer = r.answer
    BY <1>1, <1>6 DEF Wait, IInv, TypeOK, CallStates
  <2>2. r.sync /\ Working(r) = {}
    BY <1>1, <1>4, <2>1, GoroutinesCount DEF CallOK
  <2>3. CallOK(s)
    BY <1>1, <1>2, <1>3, <1>4, <2>1, <2>2 DEF CallOK
  <2>4. QED
    BY <1>2, <2>3, OneCall
<1>7. CASE CollectErrors(c)
  <2>1. /\ r.pc = "collect" /\ s.pc = "returned" /\ s.closed = r.closed
        /\ s.sent = {} /\ s.answer = r.sent
    BY <1>1, <1>7 DEF CollectErrors, IInv, TypeOK, CallStates
  <2>2. /\ r.sync /\ Working(r) = {}
        /\ r.sent = {n \in Indices : r.gone[n] \in {"sent", "failed"}}
    BY <1>1, <2>1 DEF CallOK
  <2>3. r.sent = {n \in Indices : r.gone[n] = "failed"}
    BY <2>2 DEF Working
  <2>4. CallOK(s)
    BY <1>1, <1>2, <1>3, <1>4, <2>1, <2>2, <2>3 DEF CallOK
  <2>5. QED
    BY <1>2, <2>4, OneCall
<1>8. QED
  BY <1>5, <1>6, <1>7

\* A step of a goroutine.
LEMMA GoroutineInv ==
  ASSUME IInv, NEW c \in Calls, NEW n \in Indices,
         HandlerReturns(c, n) \/ SendError(c, n) \/ LogError(c, n) \/ Done(c, n)
  PROVE  IInv'
<1> DEFINE r == call[c]
           s == call'[c]
<1>1. r \in CallStates /\ CallOK(r)
  BY DEF IInv, TypeOK
<1>2. /\ call' = [call EXCEPT ![c] = s] /\ UNCHANGED subscribers
      /\ s.pc = r.pc /\ s.sync = r.sync /\ s.handlers = r.handlers /\ s.next = r.next
      /\ s.closed = r.closed /\ s.answer = r.answer
  BY <1>1 DEF HandlerReturns, SendError, LogError, Done, IInv, TypeOK, CallStates
<1>3. PICK fate \in {"nil", "err", "sent"} \cup Ended : s.gone = [r.gone EXCEPT ![n] = fate]
  <2>1. CASE HandlerReturns(c, n)
    <3>1. PICK result \in {"nil", "err"} : call' = [call EXCEPT ![c].gone[n] = result]
      BY <2>1 DEF HandlerReturns
    <3>2. s = [r EXCEPT !.gone = [r.gone EXCEPT ![n] = result]]
      BY <3>1 DEF IInv, TypeOK
    <3>3. s.gone = [r.gone EXCEPT ![n] = result]
      BY <1>1, <3>2 DEF CallStates
    <3>4. QED
      BY <3>3
  <2>2. CASE SendError(c, n)
    BY <1>1, <2>2 DEF SendError, IInv, TypeOK, CallStates
  <2>3. CASE LogError(c, n)
    BY <1>1, <2>3 DEF LogError, Ended, IInv, TypeOK, CallStates
  <2>4. CASE Done(c, n)
    BY <1>1, <2>4 DEF Done, Ended, IInv, TypeOK, CallStates
  <2>5. QED
    BY <2>1, <2>2, <2>3, <2>4
<1>4. /\ s.gone \in [Indices -> {"none", "running", "nil", "err", "sent"} \cup Ended]
      /\ r.gone \in [Indices -> {"none", "running", "nil", "err", "sent"} \cup Ended]
      /\ s.gone[n] = fate /\ \A m \in Indices \ {n} : s.gone[m] = r.gone[m]
  BY <1>1, <1>3 DEF CallStates
<1>5. n \in Working(r)
  BY DEF HandlerReturns, SendError, LogError, Done, Working
<1>6. r.gone[n] # "none" /\ \A m \in Indices : s.gone[m] = "none" <=> r.gone[m] = "none"
  BY <1>4, <1>5 DEF Working, Ended
<1>7. Working(r) \in SUBSET Indices /\ Working(s) \in SUBSET Indices
  BY DEF Working
<1>8. ~(r.sync /\ r.pc \in {"collect", "returned"})
  BY <1>1, <1>5 DEF CallOK
<1>9. CASE HandlerReturns(c, n) \/ SendError(c, n)
  <2>1. /\ s.wg = r.wg /\ fate \in {"nil", "err", "sent"}
        /\ \/ fate # "sent" /\ r.gone[n] # "sent" /\ r.gone[n] # "failed" /\ s.sent = r.sent
           \/ fate = "sent" /\ r.sync /\ s.sent = r.sent \cup {n}
    BY <1>1, <1>4, <1>9 DEF HandlerReturns, SendError, IInv, TypeOK, CallStates
  <2>2. Working(s) = Working(r)
    BY <1>4, <1>5, <2>1 DEF Working
  <2>3. s \in CallStates
    <3>1. s = [r EXCEPT !.gone = s.gone, !.sent = s.sent]
      <4>1. CASE HandlerReturns(c, n)
        <5>1. PICK result \in {"nil", "err"} :
                call' = [call EXCEPT ![c].gone[n] = result]
          BY <4>1 DEF HandlerReturns
        <5>2. s = [r EXCEPT !.gone = [r.gone EXCEPT ![n] = result]]
          BY <5>1 DEF IInv, TypeOK
        <5>3. QED
          BY <1>1, <5>2, <2>1 DEF CallStates
      <4>2. CASE SendError(c, n)
        BY <1>1, <4>2 DEF SendError, IInv, TypeOK, CallStates
      <4>3. QED
        BY <1>9, <4>1, <4>2
    <3>2. s.sent \in SUBSET Indices
      BY <1>1, <2>1 DEF CallStates
    <3>3. QED
      BY <1>1, <1>4, <3>1, <3>2 DEF CallStates
  <2>4. s.sync => s.sent = {m \in Indices : s.gone[m] \in {"sent", "failed"}}
    BY <1>1, <1>2, <1>4, <1>8, <2>1 DEF CallOK
  <2>5. ~s.sync => \A m \in Indices : s.gone[m] # "sent"
    BY <1>1, <1>2, <1>4, <2>1 DEF CallOK
  <2>6. CallOK(s)
    BY <1>1, <1>2, <1>6, <1>8, <2>1, <2>2, <2>3, <2>4, <2>5 DEF CallOK
  <2>7. QED
    BY <1>2, <2>6, OneCall
<1>10. CASE LogError(c, n)
  <2>1. s.wg = r.wg /\ s.sent = r.sent /\ ~r.sync /\ s.gone[n] = "failed"
    BY <1>1, <1>4, <1>10 DEF LogError, IInv, TypeOK, CallStates
  <2>2. s \in CallStates
    BY <1>1, <1>2, <1>10 DEF LogError, IInv, TypeOK, CallStates, Ended
  <2>3. \A m \in Indices : s.gone[m] # "sent"
    BY <1>1, <1>4, <2>1 DEF CallOK
  <2>4. CallOK(s)
    BY <1>1, <1>2, <1>6, <2>1, <2>2, <2>3 DEF CallOK
  <2>5. QED
    BY <1>2, <2>4, OneCall
<1>11. CASE Done(c, n)
  <2>1. /\ s.sent = r.sent /\ s.wg = IF r.sync THEN r.wg - 1 ELSE r.wg
        /\ \/ r.gone[n] = "nil" /\ s.gone[n] = "succeeded"
           \/ r.gone[n] = "sent" /\ s.gone[n] = "failed"
    BY <1>1, <1>4, <1>11 DEF Done, IInv, TypeOK, CallStates
  <2>2. Working(s) = Working(r) \ {n}
    BY <1>4, <1>5, <2>1 DEF Working
  <2>3. /\ Cardinality(Working(s)) = Cardinality(Working(r)) - 1
        /\ Cardinality(Working(s)) \in 0 .. MaxSubscribers
    BY <1>5, <1>7, <2>2, GoroutinesCount
  <2>4. s.wg \in 0 .. MaxSubscribers /\ (s.sync => s.wg = Cardinality(Working(s)))
    BY <1>1, <1>2, <2>1, <2>3 DEF CallOK, CallStates
  <2>5. s = [r EXCEPT !.gone = s.gone, !.wg = s.wg]
    BY <1>1, <1>11 DEF Done, IInv, TypeOK, CallStates
  <2>6. s \in CallStates
    BY <1>1, <1>4, <2>4, <2>5 DEF CallStates
  <2>7. s.sync => s.sent = {m \in Indices : s.gone[m] \in {"sent", "failed"}}
    BY <1>1, <1>2, <1>4, <1>8, <2>1 DEF CallOK
  <2>8. ~s.sync => \A m \in Indices : s.gone[m] # "sent"
    BY <1>1, <1>2, <1>4, <2>1 DEF CallOK
  <2>9. CallOK(s)
    BY <1>1, <1>2, <1>6, <1>8, <2>4, <2>6, <2>7, <2>8 DEF CallOK
  <2>10. QED
    BY <1>2, <2>9, OneCall
<1>12. QED
  BY <1>9, <1>10, <1>11

\* A step that only subscribes or unsubscribes.
LEMMA SubscribersInv ==
  ASSUME IInv, UNCHANGED call, subscribers' \in [Types -> Subscriptions]
  PROVE  IInv'
BY DEF IInv, TypeOK

LEMMA SubscribeInv ==
  ASSUME IInv, \/ Clear
               \/ \E t \in Types : Unsubscribe(t) \/ \E h \in Handlers : Subscribe(t, h)
  PROVE  IInv'
<1>1. CASE Clear \/ \E t \in Types : Unsubscribe(t)
  BY <1>1, NobodySubscribed, SubscribersInv DEF Clear, Unsubscribe, IInv, TypeOK
<1>2. CASE \E t \in Types, h \in Handlers : Subscribe(t, h)
  BY <1>2, OneMoreSubscriber, SubscribersInv DEF Subscribe, IInv, TypeOK
<1>3. QED
  BY <1>1, <1>2

LEMMA BusInvariant == Spec => []IInv
<1>1. IInv /\ UNCHANGED vars => IInv'
  <2>1. IInv => subscribers \in [Types -> Subscriptions]
    BY DEF IInv, TypeOK
  <2>2. QED
    BY <2>1, SubscribersInv DEF vars
<1>2. IInv /\ Next => IInv'
  BY SubscribeInv, PublishInv, StartInv, PublisherInv, GoroutineInv DEF Next, PublisherStep
<1>3. QED
  BY <1>1, <1>2, BusInit, PTL DEF Spec

-----------------------------------------------------------------------------
\* The type invariant: the wait group, which must not turn negative, stays
\* between zero and the number of handlers.
THEOREM BusTypeCorrect == Spec => []TypeOK
<1>1. IInv => TypeOK
  BY DEF IInv
<1>2. QED
  BY <1>1, BusInvariant, PTL

\* PublishSync answers for every handler it found, however many.
THEOREM SyncIsComplete == Spec => []SyncAnswersForAll
<1>1. IInv => SyncAnswersForAll
  <2> SUFFICES ASSUME IInv, NEW c \in Calls, call[c].pc = "returned", call[c].sync
               PROVE  /\ Finished(c)
                      /\ call[c].answer = {n \in Indices : call[c].gone[n] = "failed"}
    BY DEF SyncAnswersForAll
  <2> DEFINE r == call[c]
  <2>1. CallOK(r) /\ r \in CallStates
    BY DEF IInv, TypeOK
  <2>2. /\ Working(r) = {} /\ r.next = Len(r.handlers) + 1
        /\ r.answer = {n \in Indices : r.gone[n] = "failed"}
    BY <2>1 DEF CallOK
  <2>3. Len(r.handlers) \in 0 .. MaxSubscribers
    BY <2>1, SubscriptionLength DEF CallStates
  <2>4. ASSUME NEW n \in 1 .. Len(r.handlers)
        PROVE  r.gone[n] \in Ended
    <3>1. n \in Indices /\ ~(r.next <= n)
      BY <2>2, <2>3, BusAssumption DEF Indices
    <3>2. r.gone[n] # "none" /\ n \notin Working(r)
      BY <2>1, <2>2, <3>1 DEF CallOK
    <3>3. QED
      BY <2>1, <3>1, <3>2 DEF CallStates, Working
  <2>5. QED
    BY <2>2, <2>4 DEF Finished
<1>2. QED
  BY <1>1, BusInvariant, PTL

\* Nobody sends on the channel of errors once it is closed, which would end the
\* process.
THEOREM ClosedAfterLastSend == Spec => []NoSendAfterClose
<1>1. IInv => NoSendAfterClose
  <2> SUFFICES ASSUME IInv, NEW c \in Calls, call[c].closed, NEW n \in Indices
               PROVE  call[c].gone[n] \in {"none"} \cup Ended
    BY DEF NoSendAfterClose
  <2>1. CallOK(call[c]) /\ call[c] \in CallStates
    BY DEF IInv, TypeOK
  <2>2. Working(call[c]) = {}
    BY <2>1 DEF CallOK
  <2>3. n \notin Working(call[c])
    BY <2>2
  <2>4. QED
    BY <2>1, <2>3 DEF Working, CallStates
<1>2. QED
  BY <1>1, BusInvariant, PTL

=============================================================================
