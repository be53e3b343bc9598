------------------------------ MODULE TTLCache ------------------------------
(***************************************************************************)
(* What the recommendation cache promises: a map whose entries are there   *)
(* until they are removed or their time to live has run out, and are gone  *)
(* from then on.  Nothing is said of how or when their memory is freed.    *)
(***************************************************************************)
EXTENDS Integers

CONSTANTS Keys, Values, TTL, None

VARIABLES
  live,    \* what the map holds: the value and the time it has left
  answer   \* what the last lookup returned

Entries == [value : Values, left : 0 .. TTL]

Init ==
  /\ live = [k \in Keys |-> None]
  /\ answer = None

Put(k, v) ==
  /\ live' = [live EXCEPT ![k] = [value |-> v, left |-> TTL]]
  /\ UNCHANGED answer

Drop(S) ==
  /\ live' = [k \in Keys |-> IF k \in S THEN None ELSE live[k]]
  /\ UNCHANGED answer

Lookup(k) ==
  /\ answer' = IF live[k] = None THEN None ELSE live[k].value
  /\ UNCHANGED live

\* One unit of time: an entry with none left is gone.
Age(e) ==
  IF e = None THEN None
  ELSE IF e.left = 0 THEN None ELSE [e EXCEPT !.left = @ - 1]

Elapse ==
  /\ live' = [k \in Keys |-> Age(live[k])]
  /\ UNCHANGED answer

Next ==
  \/ \E k \in Keys : Lookup(k) \/ \E v \in Values : Put(k, v)
  \/ \E S \in SUBSET Keys : Drop(S)
  \/ Elapse

Spec == Init /\ [][Next]_<<live, answer>>

=============================================================================
