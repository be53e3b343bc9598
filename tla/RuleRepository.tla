--------------------------- MODULE RuleRepository ---------------------------
(***************************************************************************)
(* The queries and statements of RuleRepository on the rules table: a      *)
(* function from the ids of its rows to their columns, of which these      *)
(* operators read priority, version, active and created.  A statement that *)
(* returns an error leaves the table as it is.                             *)
(***************************************************************************)
EXTENDS Integers, FiniteSets, FiniteSetsExt, Functions

\* id is the primary key.
CreateRule(table, id, row) ==
  IF id \in DOMAIN table THEN table
  ELSE [k \in DOMAIN table \cup {id} |-> IF k = id THEN row ELSE table[k]]

\* Every column but created_at; "rule not found" if no row has the id.
UpdateRule(table, id, row) ==
  IF id \notin DOMAIN table THEN table
  ELSE [table EXCEPT ![id] = [row EXCEPT !.created = table[id].created]]

DeleteRule(table, id) == Restrict(table, DOMAIN table \ {id})

Active(table) == {id \in DOMAIN table : table[id].active}

\* ORDER BY priority DESC, created_at ASC, rows that tie in any order.
Precedes(r, s) ==
  r.priority > s.priority \/ (r.priority = s.priority /\ r.created < s.created)

GetAllActiveRules(table) ==
  LET ids == Active(table)
  IN  {[n \in DOMAIN order |-> table[order[n]]] :
         order \in {o \in Bijection(1 .. Cardinality(ids), ids) :
                      \A m, n \in DOMAIN o :
                        m < n => ~Precedes(table[o[n]], table[o[m]])}}

\* COALESCE(MAX(version), 0) over the active rows.
GetMaxVersion(table) ==
  IF Active(table) = {} THEN 0 ELSE Max({table[id].version : id \in Active(table)})

=============================================================================
