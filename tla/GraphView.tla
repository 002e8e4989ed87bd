------------------------------ MODULE GraphView ------------------------------
(***************************************************************************)
(* The graph of a lab on its dashboard (ADGraph): a drawing that is hidden,*)
(* with a scale of 0, until a timer fits it into its frame.  Zooming, by   *)
(* the buttons or by the wheel, divides by the scale there was; dragging   *)
(* moves the drawing without a limit, and the frame clips it.              *)
(*                                                                         *)
(* Sizes and positions are left out but for what tells the views apart: a  *)
(* drawing is in the frame or out of it, and one that was zoomed from a    *)
(* scale of 0 has no finite position and cannot be seen.                   *)
(***************************************************************************)
EXTENDS Naturals, FiniteSets

VARIABLE graph

Graph ==
  [view  : {"off", "hidden", "shown", "away", "broken"},
   timer : {"off", "on"}]
   \* off: not mounted; away: fitted once, and out of the frame by now

Placed == {"shown", "away"}

NoGraph == [view |-> "off", timer |-> "off"]
Mounted == [view |-> "hidden", timer |-> "on"]

(* Where a drawing can be after it was moved, or has changed its size.      *)
Moved(view) == IF view \in Placed THEN Placed ELSE {view}

(* Faulty variant: the timer is started for the first drawing only.         *)
Redrawn_NoTimer(old, new) ==
  graph' \in [view : Moved(graph.view), timer : {graph.timer}]

(* The lab changes, and the drawing its size; with the number of forests    *)
(* the timer is started again.                                              *)
Redrawn(old, new) ==
  graph' \in [view  : Moved(graph.view),
              timer : {IF Cardinality(old) = Cardinality(new) THEN graph.timer ELSE "on"}]

(* Faulty variant: it is not asked whether there is a frame.                *)
Fitted_Blindly(forests) ==
  [graph EXCEPT !.view = IF forests = {} THEN "broken" ELSE "shown"]

(* fitView: without forests there is no frame, and nothing is done.         *)
Fitted(forests) ==
  IF forests = {} THEN graph ELSE [graph EXCEPT !.view = "shown"]

TimerFires(forests) ==
  /\ graph.timer = "on"
  /\ graph' = [Fitted(forests) EXCEPT !.timer = "off"]

Refit(forests) ==
  /\ graph.view # "off" /\ forests # {}
  /\ graph' = Fitted(forests)

Zoom(forests) ==
  /\ graph.view # "off" /\ forests # {}
  /\ \E v \in Moved(graph.view) :
       graph' = [graph EXCEPT !.view = IF v = "hidden" THEN "broken" ELSE v]

(* The view moves with the mouse, however far.                              *)
Drag(forests) ==
  /\ graph.view # "off" /\ forests # {}
  /\ \E v \in Moved(graph.view) : graph' = [graph EXCEPT !.view = v]

-----------------------------------------------------------------------------
(* A drawing that was fitted once keeps a scale and a finite position for   *)
(* as long as it is mounted, whatever the user does and however the lab     *)
(* changes: with its last forest gone, a timer that is left may not fit it  *)
(* to nothing.  Whether it is in the frame is up to the user, who can drag  *)
(* it out and fit it again.                                                 *)
KeepsItsScale ==
  [][graph.view \in Placed => graph'.view \in Placed \cup {"off"}]_graph

=============================================================================
