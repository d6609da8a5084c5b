----------------------------- MODULE MedialAxis -----------------------------
(***************************************************************************)
(* polygon_medial_axis from the rings to the Voronoi diagram: construct    *)
(* sweeps and, when no event is left, calls _build on the same containers. *)
(***************************************************************************)
EXTENDS SweepLine, MedialAxisBuild

allVars == <<vars, buildVars>>

AxisInit == Init /\ BuildInit

Sweeping == pc # "done" /\ Next /\ UNCHANGED buildVars
Building == pc = "done" /\ BuildNext /\ UNCHANGED sweepVars

(* Either the diagram is complete or the sweep has left no diagram. *)
Stopped ==
    /\ pc = "done"
    /\ stage = "diagram" \/ (stage = "sweep" /\ ~ IsDiagram)
    /\ UNCHANGED allVars

AxisNext == Sweeping \/ Building \/ Stopped

AxisSpec == AxisInit /\ [][AxisNext]_allVars

AxisFairSpec == AxisSpec /\ WF_allVars(AxisNext)

(* _build ends on every diagram: each of its loops is left. *)
BuildEnds == (pc = "done" /\ IsDiagram) ~> (stage = "diagram")
=============================================================================
