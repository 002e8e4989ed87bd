-------------------------- MODULE AppliedTemplates --------------------------
(***************************************************************************)
(* The tracking table applied_templates: one row per template the service  *)
(* has applied, or means to apply, to an object of a lab.  Every component *)
(* writes it through the two helpers of services/applied_template.py, each *)
(* of which commits at once, and the vulnerability endpoints take rows of  *)
(* any component away (endpoints/vulnerabilities.py).  A table is a        *)
(* function from row ids to rows, records with at least a field "status".  *)
(*                                                                         *)
(* This module has no state: the components that own a table extend it.    *)
(***************************************************************************)
EXTENDS Naturals

TemplateStatus == {"pending", "applied", "modified", "error",
                   "reverted_pending", "reverted_applied"}

(***************************************************************************)
(* The id of the next row.  The key is a SQLite rowid without              *)
(* AUTOINCREMENT: one more than the largest id in the table, so the id of  *)
(* a deleted last row is given out again.                                  *)
(***************************************************************************)
IsNextId(tbl, i) ==
  /\ \A j \in DOMAIN tbl : j < i
  /\ i = 1 \/ i - 1 \in DOMAIN tbl

(* _create_applied_template: the row is inserted and committed as given.    *)
CreateRow(tbl, i, row) ==
  [j \in DOMAIN tbl \cup {i} |-> IF j = i THEN row ELSE tbl[j]]

(* _update_template_status: one column of one row, committed.               *)
UpdateStatus(tbl, i, st) ==
  [j \in DOMAIN tbl |-> IF j = i THEN [tbl[j] EXCEPT !.status = st] ELSE tbl[j]]

(* DELETE /vulnerabilities/{id}, which takes the row of any template away.  *)
DeleteRow(tbl, i) == [j \in DOMAIN tbl \ {i} |-> tbl[j]]

(* The rows a WHERE status IN (...) selects.                                *)
RowsWith(tbl, statuses) == {i \in DOMAIN tbl : tbl[i].status \in statuses}

=============================================================================
