----------------------- MODULE AppliedTemplatesLemmas -----------------------
(***************************************************************************)
(* What the writers of a tracking table do to it, for any table.           *)
(***************************************************************************)
EXTENDS AppliedTemplates, TLAPS

(* A created row is there as given, and no other row is touched.            *)
LEMMA CreatedRow ==
  ASSUME NEW tbl, NEW i, NEW row, i \notin DOMAIN tbl
  PROVE  /\ DOMAIN CreateRow(tbl, i, row) = DOMAIN tbl \cup {i}
         /\ CreateRow(tbl, i, row)[i] = row
         /\ \A j \in DOMAIN tbl : CreateRow(tbl, i, row)[j] = tbl[j]
  BY DEF CreateRow

(* The id of a new row is no live row's.                                    *)
LEMMA NextIdIsNew ==
  ASSUME NEW tbl, NEW i \in Nat, IsNextId(tbl, i)
  PROVE  i \notin DOMAIN tbl
  BY DEF IsNextId

(* An update changes the status of one row, and nothing else.               *)
LEMMA UpdatedStatus ==
  ASSUME NEW tbl, NEW i, NEW st
  PROVE  /\ DOMAIN UpdateStatus(tbl, i, st) = DOMAIN tbl
         /\ \A j \in DOMAIN tbl \ {i} : UpdateStatus(tbl, i, st)[j] = tbl[j]
         /\ i \in DOMAIN tbl =>
              UpdateStatus(tbl, i, st)[i] = [tbl[i] EXCEPT !.status = st]
  BY DEF UpdateStatus

(* A removal takes one row away and leaves the others alone.                *)
LEMMA DeletedRow ==
  ASSUME NEW tbl, NEW i
  PROVE  /\ DOMAIN DeleteRow(tbl, i) = DOMAIN tbl \ {i}
         /\ \A j \in DOMAIN tbl \ {i} : DeleteRow(tbl, i)[j] = tbl[j]
  BY DEF DeleteRow

=============================================================================
