------------------------- MODULE MCMedialAxisFeet -------------------------
(* Polygons for TLC, with the order in which the compiled program processes *)
(* their circle events; those of MCSweepLine in every order.                *)
EXTENDS MedialAxisFeet, MCSweepLine

Fires(n, s1, s2, s3) == [before |-> n, sites |-> {s1, s2, s3}]

(* A dart, with a point of the outline inside its hull. *)
Dart ==
    << << <<0, 0>>, <<6, 2>>, <<0, 4>>, <<2, 2>> >> >>
DartOrder ==
    <<Fires(5, 1, 3, 4), Fires(7, 2, 5, 6), Fires(7, 1, 2, 6), Fires(7, 1, 3,
      6), Fires(8, 3, 6, 7), Fires(8, 3, 4, 7), Fires(8, 5, 6, 7), Fires(8, 4,
      5, 7), Fires(9, 4, 5, 8)>>

(* Two points of the outline inside the hull, no two sides parallel. *)
Bay ==
    << << <<3, 0>>, <<8, 5>>, <<4, 4>>, <<1, 7>>, <<0, 2>> >> >>
BayOrder ==
    <<Fires(4, 1, 2, 3), Fires(6, 2, 4, 5), Fires(8, 3, 6, 7), Fires(10, 5, 8,
      9), Fires(10, 2, 3, 5), Fires(10, 3, 5, 8), Fires(10, 3, 7, 8), Fires(10,
      7, 8, 9), Fires(11, 7, 9, 10), Fires(11, 5, 9, 10), Fires(11, 4, 5, 10)>>

(* A square with a square hole: vertices that coincide. *)
Window ==
    << << <<0, 0>>, <<6, 0>>, <<6, 6>>, <<0, 6>> >>, << <<2, 2>>, <<4, 2>>,
      <<4, 4>>, <<2, 4>> >> >>
WindowOrder ==
    <<Fires(5, 1, 2, 4), Fires(6, 2, 3, 5), Fires(8, 2, 6, 7), Fires(10, 6, 7,
      9), Fires(10, 2, 7, 8), Fires(11, 7, 8, 10), Fires(11, 2, 4, 6),
      Fires(11, 2, 5, 8), Fires(11, 4, 6, 9), Fires(11, 5, 8, 10), Fires(13, 9,
      11, 12), Fires(13, 7, 9, 10), Fires(13, 9, 10, 12), Fires(14, 10, 12,
      13), Fires(14, 4, 9, 11), Fires(14, 5, 10, 13), Fires(16, 4, 14, 15),
      Fires(16, 4, 11, 15), Fires(16, 11, 12, 15), Fires(16, 12, 13, 15),
      Fires(16, 5, 13, 15), Fires(17, 5, 15, 16)>>

Timed == {Dart, Bay, Window}
MCFeetInputs == Timed \cup MCFewInputs
MCOrders ==
    [p \in MCFeetInputs |-> CASE p = Dart -> DartOrder
                              [] p = Bay -> BayOrder
                              [] p = Window -> WindowOrder
                              [] OTHER -> <<>>]
MCFeetSite == 1..16
=============================================================================
