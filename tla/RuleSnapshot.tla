---------------------------- MODULE RuleSnapshot ----------------------------
(***************************************************************************)
(* What the rule engine promises its callers: its rules, their index and   *)
(* their version change together, and a call sees one of these snapshots,  *)
(* never parts of two.                                                     *)
(***************************************************************************)
CONSTANTS Loads, NoRules, MoodRules, AnyRules, Count, Readers, None

VARIABLES
  current,  \* the rules in force and their version
  result    \* what each reader's last call returned

Init ==
  /\ current = [rules |-> NoRules, version |-> 0]
  /\ result = [e \in Readers |-> None]

Install(rs, v) ==
  /\ current' = [rules |-> rs, version |-> v]
  /\ UNCHANGED result

\* The candidates for a mood, in order, and the version they belong to.
Evaluation ==
  [mood    |-> MoodRules[current.rules],
   any     |-> AnyRules[current.rules],
   version |-> current.version]

Return(e) ==
  /\ \E answer \in {<<"Evaluate", Evaluation>>,
                     <<"GetVersion", current.version>>,
                     <<"GetRuleCount", Count[current.rules]>>} :
       result' = [result EXCEPT ![e] = answer]
  /\ UNCHANGED current

Next ==
  \/ \E new \in Loads : Install(new[1], new[2])
  \/ \E e \in Readers : Return(e)

Spec == Init /\ [][Next]_<<current, result>>

=============================================================================
