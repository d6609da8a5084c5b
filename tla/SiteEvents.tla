----------------------------- MODULE SiteEvents -----------------------------
(***************************************************************************)
(* The input side of the Voronoi builder: how the rings of a polygon       *)
(* become site events, in which order they are swept, and which triples of *)
(* sites can meet in a circle event.  All of it is exact integer geometry  *)
(* in the code, so it is translated exactly; only the floating-point       *)
(* position of a circle event is left to the modules that use this one.    *)
(*                                                                         *)
(* A point is a pair <<x, y>> of integers.  A site is [p0, p1], a point    *)
(* when both ends are equal and otherwise a segment with p0 before p1.     *)
(***************************************************************************)
EXTENDS Integers, FiniteSets, SequencesExt

PointLess(p, q) == p[1] < q[1] \/ (p[1] = q[1] /\ p[2] < q[2])

PointSite(p) == [p0 |-> p, p1 |-> p]

SegmentSiteAsGiven(p, q) == [p0 |-> p, p1 |-> q]      \* mutant: not ordered
SegmentSiteBackwards(p, q) == IF PointLess(p, q) THEN [p0 |-> q, p1 |-> p]     \* mutant
                                                 ELSE [p0 |-> p, p1 |-> q]
SegmentSite(p, q) == IF PointLess(p, q) THEN [p0 |-> p, p1 |-> q]
                                        ELSE [p0 |-> q, p1 |-> p]

IsSegment(s) == s.p0 # s.p1
IsPoint(s) == ~ IsSegment(s)
IsVertical(s) == s.p0[1] = s.p1[1]

(* ot::eval, the sign of a determinant: the side of p1 -> p2 on which p3 lies. *)
Determinant(p1, p2, p3) == (p1[1] - p2[1]) * (p2[2] - p3[2])
                             - (p1[2] - p2[2]) * (p2[1] - p3[1])
TurnsRight(p1, p2, p3) == Determinant(p1, p2, p3) < 0
TurnsLeft(p1, p2, p3) == Determinant(p1, p2, p3) > 0

-----------------------------------------------------------------------------
(* event_comparison_predicate on two sites: the order of the sweep. *)

PointBefore(p, s) ==
    IF IsPoint(s) THEN p.p0[2] < s.p0[2]
    ELSE IsVertical(s) => p.p0[2] <= s.p0[2]

SegmentBeforeByHeight(s, t) ==      \* mutant: no order among segments of one start
    IF IsVertical(t) THEN IsVertical(s) /\ s.p0[2] < t.p0[2]
                     ELSE IsVertical(s) \/ s.p0[2] < t.p0[2]
SegmentBefore(s, t) ==
    CASE IsVertical(t)  -> IsVertical(s) /\ s.p0[2] < t.p0[2]
      [] ~ IsVertical(t) /\ IsVertical(s) -> TRUE
      [] OTHER -> \/ s.p0[2] < t.p0[2]
                  \/ s.p0[2] = t.p0[2] /\ TurnsLeft(s.p1, s.p0, t.p1)

EventLess(s, t) ==
    \/ s.p0[1] < t.p0[1]
    \/ /\ s.p0[1] = t.p0[1]
       /\ IF IsPoint(s) THEN PointBefore(s, t) ELSE SegmentBefore(s, t)

(* What std::sort asks of event_comparison_predicate, and what makes equal   *)
(* events adjacent, so that std::unique removes every repeat: different      *)
(* events are never equivalent, and the order is transitive.                 *)
StrictlyOrdered(events) ==
    \A s, t \in events :
        /\ s # t <=> (EventLess(s, t) \/ EventLess(t, s))
        /\ ~ (EventLess(s, t) /\ EventLess(t, s))
        /\ \A u \in events : EventLess(s, t) /\ EventLess(t, u) => EventLess(s, u)

(* What the diagram asks of its input is that no side runs along another    *)
(* one from the same start.  Sides of length zero and crossing sides are    *)
(* allowed.                                                                 *)
Overlap(s, t) ==
    s # t /\ IsSegment(s) /\ IsSegment(t) /\ s.p0 = t.p0 /\ Determinant(s.p1, s.p0, t.p1) = 0

-----------------------------------------------------------------------------
(* From rings to site events. *)

(* Consecutive points, and a closing segment for an open ring of more than *)
(* two points.                                                             *)
RingSegments(ring) ==
    LET n == Len(ring)
        sides == [i \in 1..(n - 1) |-> <<ring[i], ring[i + 1]>>]
        open == n > 2 /\ ring[1] # ring[n]
    IN  IF open THEN Append(sides, <<ring[n], ring[1]>>) ELSE sides

(* insert_segment, once for every segment of every ring. *)
SegmentEvents(seg) ==
    <<PointSite(seg[1]), PointSite(seg[2]), SegmentSite(seg[1], seg[2])>>

PolygonSegments(polygon) == FlattenSeq([i \in DOMAIN polygon |-> RingSegments(polygon[i])])
PolygonEvents(polygon) ==
    LET segs == PolygonSegments(polygon)
    IN  FlattenSeq([i \in DOMAIN segs |-> SegmentEvents(segs[i])])

(* init_sites_queue.  When EventLess orders the distinct events totally,    *)
(* std::sort puts equal events side by side and std::unique keeps one of    *)
(* each: what is left is the distinct events in order.  SweepOrderTotal of  *)
(* Outline states that the order is total.                                  *)
SitesQueue(events) ==
    LET distinct == ToSet(events)
        rank(s) == Cardinality({t \in distinct : EventLess(t, s)})
    IN  [k \in 1..Cardinality(distinct) |-> CHOOSE s \in distinct : rank(s) = k - 1]
=============================================================================
