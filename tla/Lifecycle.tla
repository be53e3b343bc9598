----------------------------- MODULE Lifecycle ------------------------------
(***************************************************************************)
(* The process: what main opens and starts, the goroutines of its two      *)
(* servers, the requests they carry, and the ways it ends.  os.Exit, which *)
(* logger.Fatal calls, and a panic outside net/http end the process there  *)
(* and then, deferred calls and all.  SIGKILL, which nothing can answer,   *)
(* is left out.                                                            *)
(***************************************************************************)
EXTENDS Sequences, SequencesExt

CONSTANTS
  Rpcs,     \* gRPC calls in flight at once
  Requests  \* HTTP requests in flight at once

VARIABLES
  main,     \* program counter of main
  open,     \* what deferred calls will close, the last one first
  client,   \* each client: "none" yet, "up", or "nil" after a failed dial
  grpc,     \* the goroutine of the gRPC server
  http,     \* the goroutine of the HTTP server
  rpc,      \* program counter of each gRPC call
  request,  \* whether each HTTP request is being handled
  quit,     \* a signal is in the channel
  late,     \* shutdownCtx is over
  exit      \* how the process ended, "running" before

vars == <<main, open, client, grpc, http, rpc, request, quit, late, exit>>

servers == <<grpc, http>>
calls   == <<rpc, request>>

Clients  == {"auth", "catalog"}
Serving  == {"wait", "stopGrpc", "stopHttp", "drainHttp", "close"}
Stopping == Serving \ {"wait"}

Init ==
  /\ main = "config"
  /\ open = <<>>
  /\ client = [c \in Clients |-> "none"]
  /\ grpc = "off" /\ http = "off"
  /\ rpc = [r \in Rpcs |-> "none"]
  /\ request = [h \in Requests |-> FALSE]
  /\ quit = FALSE /\ late = FALSE
  /\ exit = "running"

-----------------------------------------------------------------------------
(***************************************************************************)
(* main up to the signal.                                                  *)
(***************************************************************************)
At(here, next) == main = here /\ main' = next

\* logger.Fatal
StartFails ==
  /\ main \in {"config", "database", "rules", "listen"}
  /\ exit' = "fatal"
  /\ UNCHANGED <<main, open, client, servers, calls, quit, late>>

\* The steps that open nothing: load the configuration, load the rules, and
\* ask for the signals.
Proceed ==
  /\ \/ At("config", "database") \/ At("rules", "auth") \/ At("notify", "wait")
  /\ UNCHANGED <<open, client, servers, calls, quit, late, exit>>

\* The pool has answered a ping; the cache is only allocated.
InitDatabase ==
  /\ At("database", "rules")
  /\ open' = <<"db", "cache">>
  /\ UNCHANGED <<client, servers, calls, quit, late, exit>>

\* Mutant: the call of Close is deferred before the error is looked at.
Dial_DefersFirst(c) ==
  \E result \in {"up", "nil"} :
    /\ client' = [client EXCEPT ![c] = result]
    /\ open' = Append(open, c)
    /\ UNCHANGED <<servers, calls, quit, late, exit>>

\* A dial that fails leaves the client nil and is only logged.
Dial(c) ==
  \E result \in {"up", "nil"} :
    /\ client' = [client EXCEPT ![c] = result]
    /\ open' = IF result = "up" THEN Append(open, c) ELSE open
    /\ UNCHANGED <<servers, calls, quit, late, exit>>

DialAuth    == At("auth", "catalog") /\ Dial("auth")
DialCatalog == At("catalog", "listen") /\ Dial("catalog")

Listen ==
  /\ At("listen", "http")
  /\ grpc' = "starting"
  /\ UNCHANGED <<open, client, http, calls, quit, late, exit>>

StartHttp ==
  /\ At("http", "notify")
  /\ http' = "starting"
  /\ UNCHANGED <<open, client, grpc, calls, quit, late, exit>>

\* SIGINT or SIGTERM: fatal until main has asked for it.
Signal ==
  /\ IF main \in Serving THEN quit' = TRUE /\ exit' = exit
                         ELSE exit' = "killed" /\ quit' = quit
  /\ UNCHANGED <<main, open, client, servers, calls, late>>

-----------------------------------------------------------------------------
(***************************************************************************)
(* main after the signal.  The deadline of HTTP's Shutdown starts before   *)
(* GracefulStop, which has none.                                           *)
(***************************************************************************)
ReceiveSignal ==
  /\ At("wait", "stopGrpc") /\ quit
  /\ quit' = FALSE
  /\ UNCHANGED <<open, client, servers, calls, late, exit>>

Elapse ==
  /\ main \in Stopping /\ ~late
  /\ late' = TRUE
  /\ UNCHANGED <<main, open, client, servers, calls, quit, exit>>

\* Mutant: Stop instead of GracefulStop.
GracefulStop_Stop ==
  /\ At("stopGrpc", "stopHttp")
  /\ grpc' = IF grpc = "serving" THEN "ended" ELSE grpc
  /\ UNCHANGED <<open, client, http, calls, quit, late, exit>>

\* GracefulStop returns when the last call has.
GracefulStop ==
  /\ At("stopGrpc", "stopHttp")
  /\ \A r \in Rpcs : rpc[r] = "none"
  /\ grpc' = IF grpc = "serving" THEN "ended" ELSE grpc
  /\ UNCHANGED <<open, client, http, calls, quit, late, exit>>

Shutdown ==
  /\ At("stopHttp", "drainHttp")
  /\ http' = IF http = "serving" THEN "closed" ELSE http
  /\ UNCHANGED <<open, client, grpc, calls, quit, late, exit>>

\* Mutant: the server is closed without waiting.
DrainHttp_Closes ==
  /\ At("drainHttp", "close")
  /\ UNCHANGED <<open, client, servers, calls, quit, late, exit>>

\* Mutant: Shutdown is given a context without a deadline.
DrainHttp_Waits ==
  /\ At("drainHttp", "close")
  /\ \A h \in Requests : ~request[h]
  /\ UNCHANGED <<open, client, servers, calls, quit, late, exit>>

DrainHttp ==
  /\ At("drainHttp", "close")
  /\ late \/ \A h \in Requests : ~request[h]
  /\ UNCHANGED <<open, client, servers, calls, quit, late, exit>>

\* The deferred calls, then the end of main.
CloseNext ==
  /\ At("close", "close")
  /\ IF open # <<>> THEN open' = Front(open) /\ exit' = exit
                    ELSE exit' = "ok" /\ open' = open
  /\ UNCHANGED <<client, servers, calls, quit, late>>

-----------------------------------------------------------------------------
(***************************************************************************)
(* The goroutines of the servers.                                          *)
(***************************************************************************)
\* Serve after GracefulStop returns an error, which is fatal.
Serve ==
  /\ grpc = "starting"
  /\ IF main \in Stopping THEN exit' = "fatal" /\ grpc' = grpc
                          ELSE grpc' = "serving" /\ exit' = exit
  /\ UNCHANGED <<main, open, client, http, calls, quit, late>>

ServeFails ==
  /\ grpc = "serving" /\ main \notin Stopping
  /\ grpc' = "failed" /\ exit' = "fatal"
  /\ UNCHANGED <<main, open, client, http, calls, quit, late>>

ListenAndServe ==
  /\ http = "starting"
  /\ http' = IF main \in {"drainHttp", "close"} THEN "closed" ELSE "serving"
  /\ UNCHANGED <<main, open, client, grpc, calls, quit, late, exit>>

\* The port is taken, or accepting fails.
ListenAndServeFails ==
  /\ http \in {"starting", "serving"}
  /\ main \notin {"drainHttp", "close"}
  /\ http' = "failed" /\ exit' = "fatal"
  /\ UNCHANGED <<main, open, client, grpc, calls, quit, late>>

\* Mutant: ErrServerClosed is an error like others.
HttpReturns_Fatal ==
  /\ http = "closed"
  /\ http' = "ended" /\ exit' = "fatal"
  /\ UNCHANGED <<main, open, client, grpc, calls, quit, late>>

\* ErrServerClosed
HttpReturns ==
  /\ http = "closed"
  /\ http' = "ended"
  /\ UNCHANGED <<main, open, client, grpc, calls, quit, late, exit>>

-----------------------------------------------------------------------------
(***************************************************************************)
(* Requests.  A nil client is no nil interface: the checks of Recommend do *)
(* not see it, the client's method panics, and no one recovers.            *)
(***************************************************************************)
\* Recommend, or a stream of the health or reflection service; other calls
\* touch none of this.
AcceptRpc(r) ==
  /\ grpc = "serving" /\ main \notin Stopping
  /\ rpc[r] = "none"
  /\ \E pc \in {"auth", "stream"} : rpc' = [rpc EXCEPT ![r] = pc]
  /\ UNCHANGED <<main, open, client, servers, request, quit, late, exit>>

CallClient(r, c, next) ==
  /\ rpc[r] = c
  /\ IF client[c] = "nil" THEN exit' = "panic" /\ rpc' = rpc
                          ELSE rpc' = [rpc EXCEPT ![r] = next] /\ exit' = exit
  /\ UNCHANGED <<main, open, client, servers, request, quit, late>>

\* A failed call, a cached answer or no matching rule ends it before the catalog.
RpcStep(r) ==
  \/ \E next \in {"catalog", "none"} : CallClient(r, "auth", next)
  \/ CallClient(r, "catalog", "none")

StreamEnds(r) ==
  /\ rpc[r] = "stream"
  /\ rpc' = [rpc EXCEPT ![r] = "none"]
  /\ UNCHANGED <<main, open, client, servers, request, quit, late, exit>>

AcceptRequest(h) ==
  /\ http = "serving" /\ ~request[h]
  /\ request' = [request EXCEPT ![h] = TRUE]
  /\ UNCHANGED <<main, open, client, servers, rpc, quit, late, exit>>

RequestEnds(h) ==
  /\ request[h]
  /\ request' = [request EXCEPT ![h] = FALSE]
  /\ UNCHANGED <<main, open, client, servers, rpc, quit, late, exit>>

-----------------------------------------------------------------------------
Running == exit = "running"

MainStep ==
  \/ Proceed \/ InitDatabase \/ DialAuth \/ DialCatalog \/ Listen \/ StartHttp
  \/ ReceiveSignal \/ GracefulStop \/ Shutdown \/ DrainHttp \/ CloseNext

ServerStep ==
  Serve \/ ServeFails \/ ListenAndServe \/ ListenAndServeFails \/ HttpReturns

Next ==
  /\ Running
  /\ \/ MainStep \/ StartFails \/ Signal \/ Elapse \/ ServerStep
     \/ \E r \in Rpcs : AcceptRpc(r) \/ RpcStep(r) \/ StreamEnds(r)
     \/ \E h \in Requests : AcceptRequest(h) \/ RequestEnds(h)

Spec == Init /\ [][Next]_vars

(***************************************************************************)
(* main and Recommend run on and time passes.  A stream may stay open and  *)
(* an HTTP handler may hang for ever.                                      *)
(***************************************************************************)
FairSpec ==
  /\ Spec
  /\ WF_vars(Running /\ MainStep) /\ WF_vars(Running /\ Elapse)
  /\ \A r \in Rpcs : WF_vars(Running /\ RpcStep(r))

-----------------------------------------------------------------------------
TypeOK ==
  /\ main \in {"config", "database", "rules", "auth", "catalog", "listen", "http",
               "notify"} \cup Serving
  /\ open \in Seq({"db", "cache"} \cup Clients)
  /\ client \in [Clients -> {"none", "up", "nil"}]
  /\ \A c \in Clients : c \in ToSet(open) => client[c] = "up"
  /\ grpc \in {"off", "starting", "serving", "ended", "failed"}
  /\ http \in {"off", "starting", "serving", "closed", "ended", "failed"}
  /\ rpc \in [Rpcs -> {"none", "auth", "catalog", "stream"}]
  /\ request \in [Requests -> BOOLEAN]
  /\ quit \in BOOLEAN /\ late \in BOOLEAN
  /\ exit \in {"running", "ok", "fatal", "killed", "panic"}

\* As long as a gRPC call is in flight the pool, the cache and every client that
\* was dialled are open.
CallsHaveTheirResources ==
  \A r \in Rpcs :
    rpc[r] # "none" =>
      {"db", "cache"} \cup {c \in Clients : client[c] = "up"} \subseteq ToSet(open)

\* A request still being handled when main returns, which cuts it short, was
\* given thirty seconds since the process was told to stop.
HandlersCutOnlyLate ==
  \A h \in Requests : request[h] /\ main = "close" => late

\* A process that was told to stop after its servers began to serve ends by
\* returning from main, everything closed, unless a server fails or a call needs
\* a client that never connected.
StopIsClean ==
  /\ exit = "ok" => open = <<>> /\ \A r \in Rpcs : rpc[r] = "none"
  /\ exit = "panic" => \E c \in Clients : client[c] = "nil"
  /\ exit = "fatal" /\ main \in Stopping => grpc = "starting" \/ http = "failed"
  /\ exit = "killed" => main \notin Serving

\* Once the signal has been received and no stream stays open, the process ends,
\* even if an HTTP handler hangs.
StopEnds ==
  <>[](\A r \in Rpcs : rpc[r] # "stream") => (main = "stopGrpc" ~> exit # "running")

=============================================================================
