------------------------------ MODULE RWMutex ------------------------------
(***************************************************************************)
(* Go's sync.RWMutex as a value and what its methods do to it.  A writer   *)
(* that has announced itself keeps new readers out and waits for those     *)
(* that are in; when it unlocks, every reader it kept out is let in before *)
(* the next writer can announce itself.                                    *)
(***************************************************************************)
CONSTANT Nobody

Unlocked == [writer |-> Nobody, readers |-> {}, waiting |-> {}]

\* RLock returns at once, or when Unlock makes the caller a reader.
RLock(m, p) ==
  IF m.writer = Nobody
    THEN [m EXCEPT !.readers = @ \cup {p}]
    ELSE [m EXCEPT !.waiting = @ \cup {p}]

RUnlock(m, p) == [m EXCEPT !.readers = @ \ {p}]

\* Lock announces the writer, once no other one is, and returns when the
\* readers have left.
Announce(m, p) == [m EXCEPT !.writer = p]

Unlock(m) == [writer |-> Nobody, readers |-> m.waiting, waiting |-> {}]

=============================================================================
