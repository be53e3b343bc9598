--------------------------- MODULE MCRuleMatching ---------------------------
(***************************************************************************)
(* Six rules that differ in logic, in the conditions they ask about and in *)
(* the mood bucket they are indexed under, one of which repeats a mood,    *)
(* listed as the repository's query orders them.                           *)
(***************************************************************************)
EXTENDS RuleMatching

Repo == INSTANCE RuleRepository

CONSTANT UsesOr  \* the rules with logic "OR" ask about something beside mood

Blank == [created |-> 0, active |-> TRUE, logic |-> "AND", mood |-> <<>>,
          timeOfDay |-> {}, weather |-> {}, occasion |-> {}, preferences |-> {}, tags |-> {},
          priority |-> 1, weight |-> 1, boost |-> 0, actionTags |-> {}, price |-> None]

Happy   == [Blank EXCEPT !.created = 1, !.mood = <<"happy">>, !.timeOfDay = {"morning"},
                       !.actionTags = {"fresh"}, !.boost = 1,
                       !.price = [min |-> 2, max |-> 0]]
Either  == [Blank EXCEPT !.created = 2, !.mood = <<"happy", "sad">>, !.priority = 2,
                       !.actionTags = {"cozy"}, !.price = [min |-> 0, max |-> 3]]
Twice   == [Blank EXCEPT !.created = 3, !.mood = <<"sad", "sad">>, !.actionTags = {"cozy"}]
Rainy   == [Blank EXCEPT !.created = 4, !.weather = {"rainy"}, !.tags = {"tea"},
                       !.priority = 2, !.weight = 2, !.actionTags = {"fresh", "cozy"}]
Vegan   == [Blank EXCEPT !.created = 5, !.logic = "OR", !.preferences = {<<"diet", "vegan">>},
                       !.mood = IF UsesOr THEN <<"happy">> ELSE <<>>,
                       !.actionTags = {"fresh"}, !.price = [min |-> 3, max |-> 4]]
Party   == [Blank EXCEPT !.created = 6, !.occasion = {"birthday"}, !.actionTags = {}]

Retired == [Party EXCEPT !.created = 7, !.active = FALSE, !.actionTags = {"fresh"}]

\* A table of these rules, their times of creation for ids.
Table(rows) ==
  [id \in {r.created : r \in rows} |-> CHOOSE r \in rows : r.created = id]

MCRuleLists ==
  UNION {Repo!GetAllActiveRules(Table(rows)) :
           rows \in {{Happy, Either, Rainy}, {Twice, Vegan, Party},
                     {Either, Twice, Vegan}, {Rainy, Party, Retired}, {}}}

MCContexts ==
  [mood : {"happy", "sad"}, timeOfDay : {"morning", "night"}, weather : {"rainy", "sunny"},
   occasion : {"birthday", ""}, preferences : {{}, {<<"diet", "vegan">>}},
   tags : {{}, {"tea", "book"}}]

MCProducts == {[price |-> 1, tags |-> {"cozy"}], [price |-> 3, tags |-> {"fresh"}],
               [price |-> 2, tags |-> {"cozy", "fresh"}], [price |-> 5, tags |-> {"plain"}]}

=============================================================================
