---------------------------- MODULE MCMedialAxis ----------------------------
(* Polygons for TLC: each a sequence of rings of points. *)
EXTENDS MedialAxis

OnePoint == << << <<0, 0>>, <<0, 0>> >> >>
OneSegment == << << <<0, 0>>, <<2, 1>> >> >>
(* Two segments on one line, slanted and vertical: all bisectors are lines. *)
Collinear == << << <<0, 0>>, <<1, 0>> >>, << <<2, 0>>, <<3, 0>> >> >>
CollinearVertical == << << <<0, 0>>, <<0, 1>> >>, << <<0, 2>>, <<0, 3>> >> >>
Vee == << << <<0, 0>>, <<2, 2>> >>, << <<0, 0>>, <<3, -1>> >> >>
Wedge == << << <<0, 0>>, <<3, 1>> >>, << <<1, 2>>, <<3, 1>> >> >>
Spike == << << <<0, 0>>, <<2, 1>>, <<0, 0>>, <<2, -1>> >> >>
Triangle == << << <<0, 0>>, <<4, 1>>, <<2, 3>> >> >>

MCInputs == {OnePoint, OneSegment, Collinear, CollinearVertical,
             Vee, Wedge, Spike, Triangle}
MCSite == 1..8
=============================================================================
