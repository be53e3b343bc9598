---------------------------- MODULE RetriedCall ----------------------------
(***************************************************************************)
(* What a caller of the service clients may rely on: a call that succeeds  *)
(* was carried out at least once, a call that fails may have been, each    *)
(* attempt at most once, and some of them after the call has returned.     *)
(***************************************************************************)
CONSTANTS Calls, Attempts

VARIABLES
  status,    \* of each call: "idle", "underway", "ok" or "error"
  delivered  \* the attempts of each call the other service carried out

AtRest == {"idle", "ok", "error"}

Init ==
  /\ status = [c \in Calls |-> "idle"]
  /\ delivered = [c \in Calls |-> {}]

Begin(c) ==
  /\ status[c] \in AtRest
  /\ status' = [status EXCEPT ![c] = IF Attempts = {} THEN "error" ELSE "underway"]
  /\ delivered' = [delivered EXCEPT ![c] = {}]

CarryOut(c, a) ==
  /\ status[c] # "idle" /\ a \notin delivered[c]
  /\ delivered' = [delivered EXCEPT ![c] = @ \cup {a}]
  /\ UNCHANGED status

Succeed(c) ==
  /\ status[c] = "underway" /\ delivered[c] # {}
  /\ status' = [status EXCEPT ![c] = "ok"]
  /\ UNCHANGED delivered

Fail(c) ==
  /\ status[c] = "underway"
  /\ status' = [status EXCEPT ![c] = "error"]
  /\ UNCHANGED delivered

Next ==
  \E c \in Calls :
    \/ Begin(c) \/ Succeed(c) \/ Fail(c)
    \/ \E a \in Attempts : CarryOut(c, a)

Spec == Init /\ [][Next]_<<status, delivered>>

=============================================================================
