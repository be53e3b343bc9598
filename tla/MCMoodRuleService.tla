------------------------- MODULE MCMoodRuleService -------------------------
(***************************************************************************)
(* Small tables for MoodRuleService, made by the statements of the         *)
(* repository.  A content is what the loader reads of a table: its active  *)
(* rules, each known by its id and version.                                *)
(***************************************************************************)
EXTENDS MoodRuleService

Repo == INSTANCE RuleRepository

Content(table) == {<<id, table[id].version>> : id \in Repo!Active(table)}

Row(version) == [priority |-> 1, version |-> version, active |-> TRUE, created |-> version]

NoRows  == <<>>
OneRow  == Repo!CreateRule(NoRows, "a", Row(1))
TwoRows == Repo!CreateRule(OneRow, "b", Row(2))
Updated == Repo!UpdateRule(TwoRows, "a", Row(3))
Deleted == Repo!DeleteRule(TwoRows, "a")
Retired == Repo!UpdateRule(TwoRows, "b", [Row(2) EXCEPT !.active = FALSE])

Contents(tables)       == {Content(t) : t \in tables}
VersionsIn(tables)     == [s \in Contents(tables) |->
                             Repo!GetMaxVersion(CHOOSE t \in tables : Content(t) = s)]
EditsBetween(changes)  == {<<Content(c[1]), Content(c[2])>> : c \in changes}

MCNoRules == Content(NoRows)

\* Every edit raises the largest version: creations and versioned updates.
RaisingTables == {NoRows, OneRow, TwoRows, Updated}
MCRuleSets    == Contents(RaisingTables)
MCVersionOf   == VersionsIn(RaisingTables)
RaisingEdits  == EditsBetween({<<NoRows, OneRow>>, <<OneRow, TwoRows>>, <<TwoRows, Updated>>})

\* Deleting or deactivating a rule keeps the largest version, or lowers it.
FlatTables    == {NoRows, OneRow, TwoRows, Deleted, Retired}
FlatRuleSets  == Contents(FlatTables)
FlatVersionOf == VersionsIn(FlatTables)
FlatEdits     == EditsBetween({<<OneRow, TwoRows>>, <<TwoRows, Deleted>>, <<TwoRows, Retired>>})

=============================================================================
