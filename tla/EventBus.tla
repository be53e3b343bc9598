------------------------------ MODULE EventBus ------------------------------
(***************************************************************************)
(* The in-process event bus: subscriptions behind a lock, Publish with one *)
(* goroutine per handler and no waiting, PublishSync with a wait group and *)
(* a channel of errors.  A publisher copies the slice of handlers under    *)
(* the lock, and appends never touch what the copy sees, so each locked    *)
(* section is one action.  Handlers run between any two steps: what they   *)
(* do to the bus themselves is the action of another publisher.            *)
(***************************************************************************)
EXTENDS Integers, Sequences, SequencesExt, FiniteSets

CONSTANTS
  Types,
  Handlers,
  Calls,           \* calls of Publish and PublishSync under way at once
  MaxSubscribers   \* bound: handlers subscribed to one type

ASSUME BusAssumption == MaxSubscribers \in Nat

VARIABLES
  subscribers,  \* eb.subscribers, empty for a type that is not in the map
  call          \* program counter and locals of each call, and its goroutines

vars == <<subscribers, call>>

Subscriptions == BoundedSeq(Handlers, MaxSubscribers)
Indices       == 1 .. MaxSubscribers
Ended         == {"succeeded", "failed"}

\* sent holds the goroutines whose error is in errChan, answer those whose
\* error PublishSync returns; gone tells what became of each goroutine.
CallStates ==
  [pc       : {"idle", "start", "wait", "collect", "returned"},
   sync     : BOOLEAN,
   handlers : Subscriptions,
   next     : 1 .. MaxSubscribers + 1,
   wg       : 0 .. MaxSubscribers,
   closed   : BOOLEAN,
   sent     : SUBSET Indices,
   answer   : SUBSET Indices,
   gone     : [Indices -> {"none", "running", "nil", "err", "sent"} \cup Ended]]

NoCall == [pc |-> "idle", sync |-> FALSE, handlers |-> <<>>, next |-> 1, wg |-> 0,
           closed |-> FALSE, sent |-> {}, answer |-> {},
           gone |-> [n \in Indices |-> "none"]]

\* New; nothing reads the buffer size it stores.
Init ==
  /\ subscribers = [t \in Types |-> <<>>]
  /\ call = [c \in Calls |-> NoCall]

-----------------------------------------------------------------------------
Subscribe(t, h) ==
  /\ Len(subscribers[t]) < MaxSubscribers
  /\ subscribers' = [subscribers EXCEPT ![t] = Append(@, h)]
  /\ UNCHANGED call

Unsubscribe(t) ==
  /\ subscribers' = [subscribers EXCEPT ![t] = <<>>]
  /\ UNCHANGED call

Clear ==
  /\ subscribers' = [t \in Types |-> <<>>]
  /\ UNCHANGED call

-----------------------------------------------------------------------------
Finished(c) == \A n \in 1 .. Len(call[c].handlers) : call[c].gone[n] \in Ended

\* The first half of Publish, or of PublishSync, which makes errChan with room
\* for one error of each handler; nothing to do when nobody has subscribed.
Publish(c, t, sync) ==
  /\ call[c].pc \in {"idle", "returned"} /\ Finished(c)
  /\ call' = [call EXCEPT ![c] =
       [NoCall EXCEPT !.pc       = IF subscribers[t] = <<>> THEN "returned" ELSE "start",
                      !.sync     = sync,
                      !.handlers = subscribers[t]]]
  /\ UNCHANGED subscribers

\* Mutant: one wg.Add(1) for the whole loop.
StartHandler_AddsOnce(c) ==
  /\ call[c].pc = "start" /\ call[c].next <= Len(call[c].handlers)
  /\ call' = [call EXCEPT ![c].gone[call[c].next] = "running",
                          ![c].next = @ + 1,
                          ![c].wg = IF call[c].sync THEN 1 ELSE @]
  /\ UNCHANGED subscribers

\* Mutant: wg.Add(len(handlers)) in the loop.
StartHandler_AddsAll(c) ==
  /\ call[c].pc = "start" /\ call[c].next <= Len(call[c].handlers)
  /\ call' = [call EXCEPT ![c].gone[call[c].next] = "running",
                          ![c].next = @ + 1,
                          ![c].wg = IF call[c].sync THEN @ + Len(call[c].handlers) ELSE @]
  /\ UNCHANGED subscribers

\* Mutant: the last handler is not started.
StartHandler_NotLast(c) ==
  /\ call[c].pc = "start" /\ call[c].next <= Len(call[c].handlers)
  /\ call' = [call EXCEPT ![c].gone[call[c].next] =
                             IF call[c].next < Len(call[c].handlers) THEN "running" ELSE "none",
                          ![c].next = @ + 1,
                          ![c].wg = IF call[c].sync THEN @ + 1 ELSE @]
  /\ UNCHANGED subscribers

\* One turn of the loop: wg.Add(1), in PublishSync, and go.
StartHandler(c) ==
  /\ call[c].pc = "start" /\ call[c].next <= Len(call[c].handlers)
  /\ call' = [call EXCEPT ![c].gone[call[c].next] = "running",
                          ![c].next = @ + 1,
                          ![c].wg = IF call[c].sync THEN @ + 1 ELSE @]
  /\ UNCHANGED subscribers

\* Mutant: Publish, too, waits for the handlers.
AllStarted_Waits(c) ==
  /\ call[c].pc = "start" /\ call[c].next > Len(call[c].handlers)
  /\ call[c].sync \/ Finished(c)
  /\ call' = [call EXCEPT ![c].pc = IF call[c].sync THEN "wait" ELSE "returned"]
  /\ UNCHANGED subscribers

AllStarted(c) ==
  /\ call[c].pc = "start" /\ call[c].next > Len(call[c].handlers)
  /\ call' = [call EXCEPT ![c].pc = IF call[c].sync THEN "wait" ELSE "returned"]
  /\ UNCHANGED subscribers

\* Mutant: the channel is closed before the wait.
Wait_ClosesFirst(c) ==
  /\ call[c].pc = "wait"
  /\ call' = [call EXCEPT ![c].pc = IF call[c].wg = 0 THEN "collect" ELSE "wait",
                          ![c].closed = TRUE]
  /\ UNCHANGED subscribers

\* wg.Wait returns, and errChan is closed.
Wait(c) ==
  /\ call[c].pc = "wait" /\ call[c].wg = 0
  /\ call' = [call EXCEPT ![c].pc = "collect", ![c].closed = TRUE]
  /\ UNCHANGED subscribers

CollectErrors(c) ==
  /\ call[c].pc = "collect"
  /\ call' = [call EXCEPT ![c].pc = "returned", ![c].answer = call[c].sent, ![c].sent = {}]
  /\ UNCHANGED subscribers

-----------------------------------------------------------------------------
(***************************************************************************)
(* The goroutine of handler n.  Publish logs an error; PublishSync sends   *)
(* it, and waits for room in errChan if there is none.                     *)
(***************************************************************************)
HandlerReturns(c, n) ==
  /\ call[c].gone[n] = "running"
  /\ \E result \in {"nil", "err"} : call' = [call EXCEPT ![c].gone[n] = result]
  /\ UNCHANGED subscribers

\* Mutant: room for the errors of all handlers but one.
Room_Short(c) == Len(call[c].handlers) - 1

Room(c) == Len(call[c].handlers)

SendError(c, n) ==
  /\ call[c].sync /\ call[c].gone[n] = "err"
  /\ Cardinality(call[c].sent) < Room(c)
  /\ call' = [call EXCEPT ![c].gone[n] = "sent", ![c].sent = @ \cup {n}]
  /\ UNCHANGED subscribers

LogError(c, n) ==
  /\ ~call[c].sync /\ call[c].gone[n] = "err"
  /\ call' = [call EXCEPT ![c].gone[n] = "failed"]
  /\ UNCHANGED subscribers

\* wg.Done, in PublishSync, and the goroutine ends.
Done(c, n) ==
  /\ call[c].gone[n] \in {"nil", "sent"}
  /\ call' = [call EXCEPT ![c].gone[n] = IF @ = "nil" THEN "succeeded" ELSE "failed",
                          ![c].wg = IF call[c].sync THEN @ - 1 ELSE @]
  /\ UNCHANGED subscribers

-----------------------------------------------------------------------------
PublisherStep(c) == StartHandler(c) \/ AllStarted(c) \/ Wait(c) \/ CollectErrors(c)

Next ==
  \/ \E t \in Types :
       \/ Unsubscribe(t)
       \/ \E h \in Handlers : Subscribe(t, h)
       \/ \E c \in Calls, sync \in BOOLEAN : Publish(c, t, sync)
  \/ Clear
  \/ \E c \in Calls : PublisherStep(c)
  \/ \E c \in Calls, n \in Indices :
       HandlerReturns(c, n) \/ SendError(c, n) \/ LogError(c, n) \/ Done(c, n)

Spec == Init /\ [][Next]_vars

\* Goroutines run on, but a handler may never return.
FairSpec ==
  /\ Spec
  /\ \A c \in Calls : WF_vars(PublisherStep(c))
  /\ \A c \in Calls, n \in Indices : WF_vars(SendError(c, n) \/ LogError(c, n) \/ Done(c, n))

-----------------------------------------------------------------------------
TypeOK ==
  /\ subscribers \in [Types -> Subscriptions]
  /\ call \in [Calls -> CallStates]

\* PublishSync returns after every handler subscribed when it looked has
\* ended, and returns the errors of all of those that failed.
SyncAnswersForAll ==
  \A c \in Calls :
    call[c].pc = "returned" /\ call[c].sync =>
      /\ Finished(c)
      /\ call[c].answer = {n \in Indices : call[c].gone[n] = "failed"}

\* errChan is closed only when no goroutine will send to it any more.
NoSendAfterClose ==
  \A c \in Calls : call[c].closed =>
    \A n \in Indices : call[c].gone[n] \in {"none"} \cup Ended

\* Publish returns without waiting for any handler, even one that never ends.
PublishNeverWaits ==
  \A c \in Calls : call[c].pc = "start" /\ ~call[c].sync ~> call[c].pc = "returned"

\* Every handler that is called returns.
HandlersReturn ==
  \A c \in Calls, n \in Indices : call[c].gone[n] = "running" ~> call[c].gone[n] # "running"

\* Nobody waits for ever between the wait group and the channel of errors:
\* PublishSync returns when its handlers do.
PublishSyncReturns ==
  HandlersReturn => \A c \in Calls : call[c].pc = "start" ~> call[c].pc = "returned"

\* Each handler an event finds subscribed runs, and to its end if it returns,
\* even if it is unsubscribed meanwhile.
HandlersRun ==
  HandlersReturn => \A c \in Calls : call[c].pc = "start" ~> call[c].handlers # <<>> /\ Finished(c)

=============================================================================
