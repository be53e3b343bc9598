----------------------------- MODULE RemoteCall -----------------------------
(***************************************************************************)
(* A service client: the retry loop that GetUserMood, GetProductsByFilters *)
(* and NotifyMoodUpdate share, around the circuit breaker of the client    *)
(* (gobreaker), and the service it calls.  All calls through one client    *)
(* share its breaker.                                                      *)
(*                                                                         *)
(* An attempt ends with an answer or with an error at any time: a timeout, *)
(* a broken connection, a caller that has gone.  Its request may then be   *)
(* carried out later, or never.  A backoff is the time before a step.      *)
(***************************************************************************)
EXTENDS Integers, FiniteSets

CONSTANTS
  Calls,         \* calls under way at once
  MaxRetries,
  MaxRequests,   \* of the breaker when half open
  FailureRatio,  \* in percent
  MaxLoad        \* bound: requests in one interval after which no call begins

ASSUME ClientAssumption ==
  /\ IsFiniteSet(Calls)
  /\ MaxRetries \in Int
  /\ MaxRequests \in Nat \ {0}
  /\ FailureRatio \in Nat
  /\ MaxLoad \in Nat

VARIABLES
  breaker,  \* the circuit breaker of the client
  call,     \* program counter and attempt of each call
  wire,     \* requests <<call, attempt>> sent and neither carried out nor lost
  served    \* requests the other service carried out

Attempts == 0 .. MaxRetries
Messages == Calls \X Attempts

AtRest   == {"idle", "ok", "error"}

\* The call has returned, or is yet to begin: it has no attempt.
Returned(outcome) == [pc |-> outcome, attempt |-> 0]

-----------------------------------------------------------------------------
(***************************************************************************)
(* The circuit breaker.  admitted holds the calls it let through in its    *)
(* present generation: the outcome of any other call is ignored.  expired  *)
(* says that the interval of a closed breaker, or the timeout of an open   *)
(* one, is over, which takes effect when the breaker is next used.         *)
(***************************************************************************)
Generation(state) ==
  [state |-> state, requests |-> 0, failures |-> 0, successes |-> 0,
   expired |-> FALSE, admitted |-> {}]

Current ==
  IF ~breaker.expired THEN breaker
  ELSE Generation(IF breaker.state = "open" THEN "half" ELSE "closed")

ReadyToTrip(b) == b.requests >= 3 /\ 100 * b.failures >= FailureRatio * b.requests

Full == Current.state = "half" /\ Current.requests >= MaxRequests

\* A closed breaker counts failures, a half-open one successes in a row.
OnSuccess(b) ==
  IF b.state = "closed" THEN b
  ELSE IF b.successes + 1 >= MaxRequests THEN Generation("closed")
  ELSE [b EXCEPT !.successes = @ + 1]

OnFailure(b) ==
  LET f == [b EXCEPT !.failures = @ + 1]
  IN  IF b.state = "half" \/ ReadyToTrip(f) THEN Generation("open") ELSE f

AfterRequest(c, success) ==
  LET b == [Current EXCEPT !.admitted = @ \ {c}]
  IN  breaker' = IF c \notin Current.admitted THEN Current
                 ELSE IF success THEN OnSuccess(b) ELSE OnFailure(b)

Elapse ==
  /\ breaker.state \in {"closed", "open"} /\ ~breaker.expired
  /\ breaker' = [breaker EXCEPT !.expired = TRUE]
  /\ UNCHANGED <<call, wire, served>>

-----------------------------------------------------------------------------
RemoteInit ==
  /\ breaker = Generation("closed")
  /\ call = [c \in Calls |-> Returned("idle")]
  /\ wire = {} /\ served = {}

\* A caller enters the loop; with a negative limit it leaves at once.  An
\* identity serves again when nothing of its last call is on the way.
Start(c) ==
  /\ call[c].pc \in AtRest
  /\ wire \cap ({c} \X Attempts) = {}
  /\ Current.requests <= MaxLoad
  /\ call' = [call EXCEPT ![c] = IF Attempts = {} THEN Returned("error")
                                 ELSE [pc |-> "try", attempt |-> 0]]
  /\ served' = served \ ({c} \X Attempts)
  /\ UNCHANGED <<breaker, wire>>

Attempt(c) ==
  /\ call[c].pc = "try" /\ Current.state # "open" /\ ~Full
  /\ breaker' = [Current EXCEPT !.requests = @ + 1, !.admitted = @ \cup {c}]
  /\ call' = [call EXCEPT ![c].pc = "wait"]
  /\ wire' = wire \cup {<<c, call[c].attempt>>}
  /\ UNCHANGED served

\* Mutant: one attempt too many.
NextAttempt_OneMore(c) ==
  call' = [call EXCEPT ![c] =
             IF @.attempt <= MaxRetries THEN [pc |-> "try", attempt |-> @.attempt + 1]
             ELSE Returned("error")]

\* The loop goes round again, unless this was the last attempt.
NextAttempt(c) ==
  call' = [call EXCEPT ![c] =
             IF @.attempt < MaxRetries THEN [pc |-> "try", attempt |-> @.attempt + 1]
             ELSE Returned("error")]

\* ErrOpenState ends the loop.
RefusedOpen(c) ==
  /\ call[c].pc = "try" /\ Current.state = "open"
  /\ breaker' = Current
  /\ call' = [call EXCEPT ![c] = Returned("error")]
  /\ UNCHANGED <<wire, served>>

\* ErrTooManyRequests is an error like others.
RefusedFull(c) ==
  /\ call[c].pc = "try" /\ Full
  /\ breaker' = Current
  /\ NextAttempt(c)
  /\ UNCHANGED <<wire, served>>

\* Mutant: an attempt that failed is taken for an answer.
Succeed_NoAnswer(c) ==
  /\ call[c].pc = "wait"
  /\ AfterRequest(c, TRUE)
  /\ call' = [call EXCEPT ![c] = Returned("ok")]
  /\ UNCHANGED <<wire, served>>

\* Mutant: the closure returns an error beside the answer.
Succeed_AsFailure(c) ==
  /\ call[c].pc = "wait" /\ <<c, call[c].attempt>> \in served
  /\ AfterRequest(c, FALSE)
  /\ call' = [call EXCEPT ![c] = Returned("ok")]
  /\ UNCHANGED <<wire, served>>

Succeed(c) ==
  /\ call[c].pc = "wait" /\ <<c, call[c].attempt>> \in served
  /\ AfterRequest(c, TRUE)
  /\ call' = [call EXCEPT ![c] = Returned("ok")]
  /\ UNCHANGED <<wire, served>>

\* Mutant: the loop goes on while the attempt is still inside the breaker.
Fail_Unreported(c) ==
  /\ call[c].pc = "wait"
  /\ breaker' = Current
  /\ NextAttempt(c)
  /\ UNCHANGED <<wire, served>>

Fail(c) ==
  /\ call[c].pc = "wait"
  /\ AfterRequest(c, FALSE)
  /\ NextAttempt(c)
  /\ UNCHANGED <<wire, served>>

-----------------------------------------------------------------------------
Serve(m) ==
  /\ m \in wire
  /\ wire' = wire \ {m}
  /\ served' = served \cup {m}
  /\ UNCHANGED <<breaker, call>>

Lose(m) ==
  /\ m \in wire
  /\ wire' = wire \ {m}
  /\ UNCHANGED <<breaker, call, served>>

-----------------------------------------------------------------------------
CallStep(c) == Attempt(c) \/ RefusedOpen(c) \/ RefusedFull(c) \/ Succeed(c) \/ Fail(c)

RemoteTypeOK ==
  /\ breaker \in [state : {"closed", "half", "open"}, requests : Nat, failures : Nat,
                  successes : Nat, expired : BOOLEAN, admitted : SUBSET Calls]
  /\ call \in [Calls -> [pc : AtRest \cup {"try", "wait"}, attempt : Nat]]
  /\ wire \subseteq Messages
  /\ served \subseteq Messages

\* The breaker accounts for every call it has let through: while it is half
\* open, what it has admitted has succeeded or is still under way, and it never
\* admits more than its limit; while it is open, it waits for nothing.
CountsAccountForCalls ==
  /\ \A c \in breaker.admitted : call[c].pc = "wait"
  /\ breaker.state = "closed" =>
       breaker.requests >= breaker.failures + Cardinality(breaker.admitted)
  /\ breaker.state = "half" =>
       /\ breaker.requests = breaker.successes + Cardinality(breaker.admitted)
       /\ breaker.requests <= MaxRequests
  /\ breaker.state = "open" => breaker.admitted = {}

\* A half-open breaker that turns callers away waits for a call whose end will
\* close or open it: it never stays half open with nothing under way.
HalfOpenDecides ==
  Full => \E c \in Calls : call[c].pc = "wait" /\ c \in Current.admitted

Status == [c \in Calls |-> IF call[c].pc \in AtRest THEN call[c].pc ELSE "underway"]

Delivered == [c \in Calls |-> {a \in Attempts : <<c, a>> \in served}]

Promise == INSTANCE RetriedCall WITH status <- Status, delivered <- Delivered

=============================================================================
