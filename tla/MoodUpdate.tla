----------------------------- MODULE MoodUpdate -----------------------------
(***************************************************************************)
(* UpdateMood: one user's mood is written to the Auth Service over HTTP,   *)
(* announced on the bus and then told to the Product Catalog through its   *)
(* client.  Calls are the user's updates under way at once, each known by  *)
(* its mood.  Searches of the catalog and updates of other users share the *)
(* client and its breaker, and do to it what these updates do.             *)
(*                                                                         *)
(* Nobody has subscribed to mood_changed, so that publishing it changes    *)
(* nothing: it belongs to the step that begins to notify.                  *)
(***************************************************************************)
EXTENDS RemoteCall

CONSTANT None  \* the mood before the first update

ASSUME NoneAssumption == None \notin Calls

VARIABLES
  connected,  \* main has a client for the catalog
  update,     \* program counter of each update
  auth,       \* the user's mood in the Auth Service
  catalog,    \* the mood the catalog was told last
  puts,       \* updates whose PUT is on its way to the Auth Service
  alone       \* updates that arrived when no other was on the way, none since

remote == <<breaker, call, wire, served>>
users  == <<connected, update, auth, catalog, puts, alone>>
vars   == <<remote, users>>

\* What became of u's last update: how the handler answered it, or that the
\* answer did not reach the caller.
Ended == {"idle", "failed", "ok", "lost"}

\* Nothing of u's last update is on the way: u serves again.
Free(u) == update[u] \in Ended /\ u \notin puts /\ \A m \in wire : m[1] # u

Init ==
  /\ RemoteInit
  /\ connected \in BOOLEAN
  /\ update = [u \in Calls |-> "idle"]
  /\ auth = None /\ catalog = None
  /\ puts = {} /\ alone = {}

-----------------------------------------------------------------------------
\* The handler writes its answer and returns.  The server has set the connection
\* a deadline, WriteTimeout after it had read the request's header: an answer
\* written later is dropped, though nothing tells the handler.  The calls it
\* makes have timeouts of their own, which together may exceed that one.
Answer(u, outcome) ==
  \E o \in {outcome, "lost"} : update' = [update EXCEPT ![u] = o]

\* A body that cannot be decoded, or no Authorization header.
Reject(u) ==
  /\ Free(u)
  /\ Answer(u, "failed")
  /\ alone' = alone \ {u}
  /\ UNCHANGED <<connected, auth, catalog, puts, remote>>

Receive(u) ==
  /\ Free(u)
  /\ update' = [update EXCEPT ![u] = "put"]
  /\ puts' = puts \cup {u}
  /\ alone' = IF \A v \in Calls : Free(v) THEN {u} ELSE {}
  /\ UNCHANGED <<connected, auth, catalog, remote>>

\* Mutant: the error of forwardToAuthService is not returned.
AuthAccepts_AnyAnswer(u) ==
  /\ update[u] \in {"put", "stored"}
  /\ IF connected
       THEN Start(u) /\ update' = [update EXCEPT ![u] = "notify"]
       ELSE UNCHANGED remote /\ Answer(u, "ok")
  /\ UNCHANGED <<connected, auth, catalog, puts, alone>>

\* The Auth Service answered 200: publish, and notify the catalog.
AuthAccepts(u) ==
  /\ update[u] = "stored"
  /\ IF connected
       THEN Start(u) /\ update' = [update EXCEPT ![u] = "notify"]
       ELSE UNCHANGED remote /\ Answer(u, "ok")
  /\ UNCHANGED <<connected, auth, catalog, puts, alone>>

\* Mutant: the HTTP client has no timeout.
AuthFails_NoTimeout(u) ==
  /\ update[u] = "stored"
  /\ Answer(u, "failed")
  /\ alone' = alone \ {u}
  /\ UNCHANGED <<connected, auth, catalog, puts, remote>>

\* Another answer, an error or the timeout of ten seconds.
AuthFails(u) ==
  /\ update[u] \in {"put", "stored"}
  /\ Answer(u, "failed")
  /\ alone' = alone \ {u}
  /\ UNCHANGED <<connected, auth, catalog, puts, remote>>

\* The update succeeds whether or not the catalog could be told.
Respond(u) ==
  /\ update[u] = "notify" /\ call[u].pc \in AtRest
  /\ Answer(u, "ok")
  /\ UNCHANGED <<connected, auth, catalog, puts, alone, remote>>

-----------------------------------------------------------------------------
\* The Auth Service takes the mood, and answers if u still waits.
StoreMood(u) ==
  /\ u \in puts
  /\ auth' = u
  /\ update' = [update EXCEPT ![u] = IF @ = "put" THEN "stored" ELSE @]
  /\ puts' = puts \ {u}
  /\ UNCHANGED <<connected, catalog, alone, remote>>

LosePut(u) ==
  /\ u \in puts
  /\ puts' = puts \ {u}
  /\ UNCHANGED <<connected, update, auth, catalog, alone, remote>>

\* The catalog carries out a notification.
CarryOut(m) ==
  /\ Serve(m)
  /\ catalog' = m[1]
  /\ UNCHANGED <<connected, update, auth, puts, alone>>

-----------------------------------------------------------------------------
HandlerStep(u) == AuthAccepts(u) \/ AuthFails(u) \/ Respond(u)

Next ==
  \/ \E u \in Calls :
       Reject(u) \/ Receive(u) \/ HandlerStep(u) \/ StoreMood(u) \/ LosePut(u)
  \/ \E c \in Calls : CallStep(c) /\ UNCHANGED users
  \/ \E m \in wire : CarryOut(m) \/ (Lose(m) /\ UNCHANGED users)
  \/ Elapse /\ UNCHANGED users

Spec == Init /\ [][Next]_vars

(***************************************************************************)
(* Handlers run on, an attempt and a PUT have timeouts, and time passes.   *)
(* Nobody has to call, and no message has to arrive.                       *)
(***************************************************************************)
FairSpec ==
  /\ Spec
  /\ \A u \in Calls : WF_vars(HandlerStep(u))
  /\ \A c \in Calls : WF_vars(CallStep(c) /\ UNCHANGED users)
  /\ WF_vars(Elapse /\ UNCHANGED users)

-----------------------------------------------------------------------------
TypeOK ==
  /\ RemoteTypeOK
  /\ connected \in BOOLEAN
  /\ update \in [Calls -> Ended \cup {"put", "stored", "notify"}]
  /\ {auth, catalog} \subseteq Calls \cup {None}
  /\ puts \subseteq Calls
  /\ alone \subseteq Calls

\* The catalog is told only of an update that the Auth Service has dealt with,
\* and of none whose caller was told that it failed.
OnlyStoredMoodsAnnounced ==
  \A m \in wire : m[1] \notin puts /\ update[m[1]] \in {"notify", "ok", "lost"}

\* An update that met no other one, nor what was left of one, and whose
\* notification was acknowledged leaves both services with its mood, however
\* many times the notification was sent and whenever it arrives, and whether or
\* not its caller gets the answer.
AloneUpdateAgrees ==
  \A u \in alone :
    update[u] \in {"ok", "lost"} /\ connected /\ call[u].pc = "ok" =>
      auth = u /\ catalog = u

\* A call through the client keeps the promise of RetriedCall: an answer only
\* if the service carried the call out, each attempt at most once.
ImplementsRetriedCall == Promise!Spec

\* No handler is under way for ever, whatever becomes of the services it informs
\* and of the breaker it shares: each comes to its answer, although that may be
\* after the server's WriteTimeout and not reach the caller.
UpdatesEnd == \A u \in Calls : []<>(update[u] \in Ended)

\* When the catalog answers again, and as long as somebody calls it, the
\* breaker closes and stays closed.
ServiceWorks == (\A c \in Calls : ~Fail(c)) /\ (\A m \in wire : ~Lose(m))

Called == \E c \in Calls : call[c].pc = "try"

BreakerRecovers ==
  <>[][ServiceWorks]_vars /\ []<>Called => <>[](breaker.state = "closed")

=============================================================================
