-------------------------- MODULE ControllerRegistry --------------------------
(***************************************************************************)
(* What the promotion step promises, whatever requests run, die or are     *)
(* sent again: the tracking table is a register of domain controllers that *)
(* lags behind reality.  A server is entered after it became a controller, *)
(* one at a time; a controller stays one; and entries may be struck off.   *)
(***************************************************************************)
CONSTANT DCs

VARIABLES real, recorded

Init == real = {} /\ recorded = {}

Promote(s) ==
  /\ s \in DCs \ real
  /\ real' = real \cup {s}
  /\ UNCHANGED recorded

Record(s) ==
  /\ s \in real \ recorded
  /\ recorded' = recorded \cup {s}
  /\ UNCHANGED real

(* The operator removes the row, or it is no longer known to be its own.    *)
Strike(s) ==
  /\ recorded' = recorded \ {s}
  /\ UNCHANGED real

Next == \E s \in DCs : Promote(s) \/ Record(s) \/ Strike(s)

Spec == Init /\ [][Next]_<<real, recorded>>

=============================================================================
