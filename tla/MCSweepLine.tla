---------------------------- MODULE MCSweepLine ----------------------------
(* Polygons for TLC: each a sequence of rings of points. *)
EXTENDS SweepLine

(* Two equal points: all events coincide and a single site remains. *)
OnePoint == << << <<0, 0>>, <<0, 0>> >> >>
OneSegment == << << <<0, 0>>, <<2, 1>> >> >>
VerticalSegment == << << <<0, 0>>, <<0, 2>> >> >>
(* Two segments that start, and two that end, in one point. *)
Vee == << << <<0, 0>>, <<2, 2>> >>, << <<0, 0>>, <<3, -1>> >> >>
Wedge == << << <<0, 0>>, <<3, 1>> >>, << <<1, 2>>, <<3, 1>> >> >>
(* An outline that runs back through its first point. *)
Spike == << << <<0, 0>>, <<2, 1>>, <<0, 0>>, <<2, -1>> >> >>
Triangle == << << <<0, 0>>, <<4, 1>>, <<2, 3>> >> >>
(* Vertical left sides: init_beach_line_collinear_sites. *)
WallTriangle == << << <<0, 0>>, <<3, 1>>, <<0, 2>> >> >>
Wall == << << <<0, 0>>, <<0, 1>>, <<0, 2>>, <<2, 1>> >> >>

MCInputs == {OnePoint, OneSegment, VerticalSegment, Vee, Wedge, Spike,
             Triangle, WallTriangle, Wall}
MCFewInputs == MCInputs \ {Wall}
MCSite == 1..8
=============================================================================
