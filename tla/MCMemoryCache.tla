--------------------------- MODULE MCMemoryCache ---------------------------
(***************************************************************************)
(* Two keys and a pattern that matches one of them.  The time to live is   *)
(* two units and the ticker's period three, so entries expire before, at   *)
(* and after a tick.                                                       *)
(***************************************************************************)
EXTENDS MemoryCache, TLC

CONSTANTS k1, k2, p1

MCMatching == p1 :> {k1}

=============================================================================
