---------------------------- MODULE MCRuleEngine ----------------------------
(***************************************************************************)
(* Two rule sets and the empty one.  They have the same rules for any mood *)
(* in another order and number, so that a slot of the tail holds different *)
(* rules after a reload.                                                   *)
(***************************************************************************)
EXTENDS RuleEngine, TLC

CONSTANTS noRules, set1, set2, a, b, c

MCMoodRules == noRules :> <<>> @@ set1 :> <<a>> @@ set2 :> <<a>>
MCAnyRules  == noRules :> <<>> @@ set1 :> <<b>> @@ set2 :> <<c, b>>
MCLoads     == {<<set1, 1>>, <<set2, 2>>}
MCCount     == noRules :> 0 @@ set1 :> 2 @@ set2 :> 3

=============================================================================
