-------------------------- MODULE Lifecycle_proofs --------------------------
(***************************************************************************)
(* The safety invariants of the process, for any number of calls and       *)
(* requests in flight.  What is open is a matter of how far main has come, *)
(* and so is what the two servers may still accept.                        *)
(***************************************************************************)
EXTENDS Lifecycle, TLAPS

Before(step) ==
  CASE step = "auth"    -> {"config", "database", "rules", "auth"}
    [] step = "catalog" -> {"config", "database", "rules", "auth", "catalog"}

Early   == {"config", "database", "rules", "auth", "catalog", "listen"}
Drained == {"stopHttp", "drainHttp", "close"}

Needed == {"db", "cache"} \cup {c \in Clients : client[c] = "up"}

\* What main has reached bounds what it has opened and what its servers do.
PhaseInv ==
  /\ \A c \in Clients : main \in Before(c) => client[c] = "none"
  /\ main \notin {"config", "database", "close"} => Needed \subseteq ToSet(open)
  /\ main \in Early => grpc = "off"
  /\ grpc = "off" => \A r \in Rpcs : rpc[r] = "none"
  /\ main \in Drained => \A r \in Rpcs : rpc[r] = "none"
  /\ main \in {"drainHttp", "close"} => http # "serving"
  /\ exit = "ok" => main = "close"

IInv == TypeOK /\ PhaseInv /\ HandlersCutOnlyLate /\ StopIsClean

-----------------------------------------------------------------------------
LEMMA OpenedOneMore ==
  ASSUME NEW S, NEW s \in Seq(S), NEW x \in S
  PROVE  /\ Append(s, x) \in Seq(S)
         /\ ToSet(Append(s, x)) = ToSet(s) \cup {x}
<1>1. /\ Append(s, x) \in Seq(S) /\ Len(Append(s, x)) = Len(s) + 1 /\ Len(s) \in Nat
      /\ \A n \in 1 .. Len(s) : Append(s, x)[n] = s[n]
      /\ Append(s, x)[Len(s) + 1] = x
  OBVIOUS
<1>2. /\ DOMAIN s = 1 .. Len(s) /\ DOMAIN Append(s, x) = 1 .. Len(s) + 1
      /\ 1 .. Len(s) + 1 = (1 .. Len(s)) \cup {Len(s) + 1}
  BY <1>1
<1>3. ToSet(s) \subseteq ToSet(Append(s, x)) /\ x \in ToSet(Append(s, x))
  BY <1>1, <1>2 DEF ToSet
<1>4. ToSet(Append(s, x)) \subseteq ToSet(s) \cup {x}
  BY <1>1, <1>2 DEF ToSet
<1>5. QED
  BY <1>1, <1>3, <1>4

LEMMA ClosedOne ==
  ASSUME NEW S, NEW s \in Seq(S), s # <<>>
  PROVE  Front(s) \in Seq(S) /\ ToSet(Front(s)) \subseteq ToSet(s)
<1>1. /\ Len(s) \in Nat \ {0} /\ DOMAIN s = 1 .. Len(s)
      /\ Front(s) \in Seq(S) /\ DOMAIN Front(s) = 1 .. Len(s) - 1
      /\ \A n \in 1 .. Len(s) - 1 : Front(s)[n] = s[n] /\ n \in 1 .. Len(s)
  BY DEF Front
<1>2. QED
  BY <1>1 DEF ToSet

LEMMA InitialOpen ==
  /\ <<"db", "cache">> \in Seq({"db", "cache"} \cup Clients)
  /\ ToSet(<<"db", "cache">>) = {"db", "cache"}
  /\ <<>> \in Seq({"db", "cache"} \cup Clients)
  /\ ToSet(<<>>) = {}
<1>1. DOMAIN <<"db", "cache">> = {1, 2} /\ DOMAIN <<>> = {}
  OBVIOUS
<1>2. QED
  BY <1>1 DEF ToSet

-----------------------------------------------------------------------------
LEMMA ProcessInit == Init => IInv
BY InitialOpen
   DEF Init, IInv, TypeOK, PhaseInv, Needed, Before, Early, Drained, HandlersCutOnlyLate,
       StopIsClean, Clients, Serving, Stopping

LEMMA MainInv ==
  ASSUME IInv, Running, MainStep
  PROVE  IInv'
<1> USE DEF IInv, PhaseInv, Needed, Before, Early, Drained, HandlersCutOnlyLate, StopIsClean,
            Clients, Serving, Stopping, At, servers, calls, Running
<1>1. CASE Proceed
  BY <1>1 DEF Proceed, TypeOK
<1>2. CASE InitDatabase
  BY <1>2, InitialOpen DEF InitDatabase, TypeOK
<1>3. CASE DialAuth \/ DialCatalog
  <2>1. PICK c \in Clients : Dial(c) /\ main \in Before(c)
        /\ \/ c = "auth" /\ main = "auth" /\ main' = "catalog"
           \/ c = "catalog" /\ main = "catalog" /\ main' = "listen"
    BY <1>3 DEF DialAuth, DialCatalog
  <2>2. PICK result \in {"up", "nil"} :
          /\ client' = [client EXCEPT ![c] = result]
          /\ open' = IF result = "up" THEN Append(open, c) ELSE open
    BY <2>1 DEF Dial
  <2>3. /\ UNCHANGED <<grpc, http, rpc, request, quit, late, exit>>
        /\ client[c] = "none" /\ c \notin ToSet(open)
    BY <2>1 DEF Dial, TypeOK
  <2>4. /\ open' \in Seq({"db", "cache"} \cup Clients)
        /\ ToSet(open') = IF result = "up" THEN ToSet(open) \cup {c} ELSE ToSet(open)
    <3>1. open \in Seq({"db", "cache"} \cup Clients) /\ c \in {"db", "cache"} \cup Clients
      BY DEF TypeOK
    <3>2. /\ Append(open, c) \in Seq({"db", "cache"} \cup Clients)
          /\ ToSet(Append(open, c)) = ToSet(open) \cup {c}
      BY <3>1, OpenedOneMore
    <3>3. QED
      BY <2>2, <3>1, <3>2
  <2>5. TypeOK'
    BY <2>1, <2>2, <2>3, <2>4 DEF TypeOK
  <2>6. PhaseInv'
    BY <2>1, <2>2, <2>3, <2>4 DEF TypeOK
  <2>7. QED
    BY <2>1, <2>3, <2>5, <2>6
<1>4. CASE Listen \/ StartHttp \/ ReceiveSignal
  BY <1>4 DEF Listen, StartHttp, ReceiveSignal, TypeOK
<1>5. CASE GracefulStop
  BY <1>5 DEF GracefulStop, TypeOK
<1>6. CASE Shutdown
  BY <1>6 DEF Shutdown, TypeOK
<1>7. CASE DrainHttp
  BY <1>7 DEF DrainHttp, TypeOK
<1>8. CASE CloseNext
  <2>1. CASE open # <<>>
    <3>1. open' = Front(open) /\ UNCHANGED exit
      BY <1>8, <2>1 DEF CloseNext
    <3>2. open' \in Seq({"db", "cache"} \cup Clients) /\ ToSet(open') \subseteq ToSet(open)
      BY <2>1, <3>1, ClosedOne DEF TypeOK
    <3>3. QED
      BY <1>8, <3>1, <3>2 DEF CloseNext, TypeOK
  <2>2. CASE open = <<>>
    BY <1>8, <2>2 DEF CloseNext, TypeOK
  <2>3. QED
    BY <2>1, <2>2
<1>9. QED
  BY <1>1, <1>2, <1>3, <1>4, <1>5, <1>6, <1>7, <1>8 DEF MainStep

LEMMA OthersInv ==
  ASSUME IInv, Running,
         \/ StartFails \/ Signal \/ Elapse \/ ServerStep
         \/ \E r \in Rpcs : AcceptRpc(r) \/ RpcStep(r) \/ StreamEnds(r)
         \/ \E h \in Requests : AcceptRequest(h) \/ RequestEnds(h)
  PROVE  IInv'
<1> USE DEF IInv, PhaseInv, Needed, Before, Early, Drained, HandlersCutOnlyLate, StopIsClean,
            Clients, Serving, Stopping, servers, calls, Running, TypeOK
<1>1. CASE StartFails
  BY <1>1 DEF StartFails
<1>2. CASE Signal
  <2>1. UNCHANGED <<main, open, client, grpc, http, rpc, request, late>>
    BY <1>2 DEF Signal
  <2>2. \/ main \in Serving /\ quit' = TRUE /\ exit' = exit
        \/ main \notin Serving /\ exit' = "killed" /\ quit' = quit
    BY <1>2 DEF Signal
  <2>3. TypeOK'
    BY <2>1, <2>2
  <2>4. PhaseInv'
    BY <2>1, <2>2
  <2>5. HandlersCutOnlyLate' /\ StopIsClean'
    BY <2>1, <2>2
  <2>6. QED
    BY <2>3, <2>4, <2>5
<1>3. CASE Elapse
  BY <1>3 DEF Elapse
<1>4. CASE Serve \/ ServeFails
  BY <1>4 DEF Serve, ServeFails
<1>5. CASE ListenAndServe \/ ListenAndServeFails \/ HttpReturns
  BY <1>5 DEF ListenAndServe, ListenAndServeFails, HttpReturns
<1>6. ASSUME NEW r \in Rpcs, AcceptRpc(r)
      PROVE  IInv'
  BY <1>6 DEF AcceptRpc
<1>7. ASSUME NEW r \in Rpcs, RpcStep(r)
      PROVE  IInv'
  <2>1. PICK c \in Clients, next \in {"catalog", "none"} : CallClient(r, c, next)
    BY <1>7 DEF RpcStep
  <2>2. rpc[r] # "none"
    BY <2>1 DEF CallClient
  <2>3. CASE client[c] = "nil"
    BY <2>1, <2>2, <2>3 DEF CallClient
  <2>4. CASE client[c] # "nil"
    BY <2>1, <2>2, <2>4 DEF CallClient
  <2>5. QED
    BY <2>3, <2>4
<1>8. ASSUME NEW r \in Rpcs, StreamEnds(r)
      PROVE  IInv'
  BY <1>8 DEF StreamEnds
<1>9. ASSUME NEW h \in Requests, AcceptRequest(h) \/ RequestEnds(h)
      PROVE  IInv'
  <2>1. UNCHANGED <<main, open, client, grpc, http, rpc, quit, late, exit>>
    BY <1>9 DEF AcceptRequest, RequestEnds
  <2>2. request' \in [Requests -> BOOLEAN]
    BY <1>9 DEF AcceptRequest, RequestEnds
  <2>3. TypeOK' /\ PhaseInv' /\ StopIsClean'
    BY <2>1, <2>2
  <2>4. main # "close" \/ \A g \in Requests : request'[g] => request[g]
    BY <1>9 DEF AcceptRequest, RequestEnds
  <2>5. HandlersCutOnlyLate'
    BY <2>1, <2>4
  <2>6. QED
    BY <2>3, <2>5
<1> HIDE DEF IInv
<1>10. QED
  BY <1>1, <1>2, <1>3, <1>4, <1>5, <1>6, <1>7, <1>8, <1>9 DEF ServerStep

LEMMA Invariant == Spec => []IInv
<1>1. IInv /\ UNCHANGED vars => IInv'
  BY DEF vars, IInv, TypeOK, PhaseInv, Needed, Before, Early, Drained, HandlersCutOnlyLate,
         StopIsClean, Clients, Serving, Stopping
<1>2. IInv /\ [Next]_vars => IInv'
  BY <1>1, MainInv, OthersInv DEF Next
<1>3. QED
  BY <1>2, ProcessInit, PTL DEF Spec

-----------------------------------------------------------------------------
\* The type invariant: the deferred calls are those of the pool, the cache and
\* the clients that were dialled.
THEOREM ProcessTypeCorrect == Spec => []TypeOK
<1>1. IInv => TypeOK
  BY DEF IInv
<1>2. QED
  BY <1>1, Invariant, PTL

\* Nothing a gRPC call may use is closed while one is in flight, for any number
\* of calls.
THEOREM ResourcesOutliveCalls == Spec => []CallsHaveTheirResources
<1>1. IInv => CallsHaveTheirResources
  BY DEF IInv, PhaseInv, Needed, Early, Drained, CallsHaveTheirResources
<1>2. QED
  BY <1>1, Invariant, PTL

\* No HTTP request is cut short before the deadline of Shutdown.
THEOREM HandlersGetTheirTime == Spec => []HandlersCutOnlyLate
<1>1. IInv => HandlersCutOnlyLate
  BY DEF IInv
<1>2. QED
  BY <1>1, Invariant, PTL

\* A stop ends with everything closed unless a server fails or a call needs a
\* client that never connected.
THEOREM StopsAreClean == Spec => []StopIsClean
<1>1. IInv => StopIsClean
  BY DEF IInv
<1>2. QED
  BY <1>1, Invariant, PTL

=============================================================================
