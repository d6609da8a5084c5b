--------------------------- MODULE ArcPredicates ---------------------------
(***************************************************************************)
(* The geometric predicates of the sweep on arcs of the beach line.  An    *)
(* arc is a site event with its direction, [p0, p1, inv]: inv is the       *)
(* IS_INVERSE flag, and the arc of a segment runs from From to To.         *)
(*                                                                         *)
(* Whether three arcs can meet is decided by integer arithmetic and        *)
(* translated exactly.  The order of a node and a new site is decided by   *)
(* integer arithmetic or, failing that, by comparing doubles.  Distances   *)
(* to the arc of a segment are left open here, so that a comparison yields *)
(* the set of answers the code may give.  Distances to two points and the  *)
(* last quick test of fast_ps are given their exact answer, which is that  *)
(* of the code for coordinates below 2^14; for larger ones it may differ   *)
(* in near ties.                                                           *)
(***************************************************************************)
EXTENDS SiteEvents

(* point0(true), point1(true), inverse() *)
From(a) == IF a.inv THEN a.p1 ELSE a.p0
To(a) == IF a.inv THEN a.p0 ELSE a.p1
Turned(a) == [a EXCEPT !.inv = ~ @]

SameSite(a, b) == a.p0 = b.p0 /\ a.p1 = b.p1

-----------------------------------------------------------------------------
(* circle_existence_predicate: can the arcs a, b, c (from bottom to top)    *)
(* meet?  In the mixed cases k is the place of the odd one out.             *)

PointsAndSegment(p, q, s, k) ==
    LET atStart == TurnsRight(p.p0, q.p0, From(s))
        atEnd == TurnsRight(p.p0, q.p0, To(s))
    IN  CASE k = 2 -> ~ (From(s) = p.p0 /\ To(s) = q.p0)
          [] k = 1 /\ p.p0[1] >= q.p0[1] -> atStart
          [] k = 3 /\ q.p0[1] >= p.p0[1] -> atEnd
          [] OTHER -> atStart \/ atEnd

PointAndSegments(p, s, t, k) ==
    /\ ~ SameSite(s, t)
    /\ k = 2 => /\ s.inv \/ ~ t.inv
                /\ s.inv = t.inv => TurnsRight(From(s), p.p0, To(t))

CircleExists(a, b, c) ==
    LET segments == <<IsSegment(a), IsSegment(b), IsSegment(c)>>
    IN  CASE segments = <<FALSE, FALSE, FALSE>> -> TurnsRight(a.p0, b.p0, c.p0)
          [] segments = <<FALSE, FALSE, TRUE>> -> PointsAndSegment(a, b, c, 3)
          [] segments = <<FALSE, TRUE, FALSE>> -> PointsAndSegment(a, c, b, 2)
          [] segments = <<TRUE, FALSE, FALSE>> -> PointsAndSegment(b, c, a, 1)
          [] segments = <<FALSE, TRUE, TRUE>> -> PointAndSegments(a, b, c, 1)
          [] segments = <<TRUE, FALSE, TRUE>> -> PointAndSegments(b, a, c, 2)
          [] segments = <<TRUE, TRUE, FALSE>> -> PointAndSegments(c, a, b, 3)
          [] OTHER -> ~ SameSite(a, b) /\ ~ SameSite(b, c)

-----------------------------------------------------------------------------
(* distance_predicate: does the horizontal line through the point p, on the *)
(* sweep line, meet the arc above the bisector of a and b (a below b) first?*)

PointPoint(a, b, p) ==
    LET dx(q) == q[1] - p[1]
        dist2(q) == dx(q) * dx(q) + (q[2] - p[2]) * (q[2] - p[2])
    IN  CASE a.p0[1] = b.p0[1] -> {a.p0[2] + b.p0[2] < 2 * p[2]}
          [] a.p0[1] > b.p0[1] /\ p[2] <= a.p0[2] -> {FALSE}
          [] a.p0[1] < b.p0[1] /\ p[2] >= b.p0[2] -> {TRUE}
          [] OTHER -> {dist2(a.p0) * dx(b.p0) < dist2(b.p0) * dx(a.p0)}

(* The point q is below the segment s, or above it (segmentFirst).  The      *)
(* tests of fast_ps; past them distances are compared.                       *)
PointSegment(q, s, p, segmentFirst) ==
    LET dx == p[1] - q.p0[1]
        dy == p[2] - q.p0[2]
        a == To(s)[1] - From(s)[1]
        b == To(s)[2] - From(s)[2]
        faster == a * (dy + dx) * (dy - dx)
        slower == 2 * b * dx * dy
    IN  CASE ~ TurnsRight(From(s), To(s), p) -> {~ s.inv}
          [] TurnsRight(From(s), To(s), p) /\ IsVertical(s) ->
                IF segmentFirst /\ dy > 0 THEN {TRUE}
                ELSE IF ~ segmentFirst /\ dy < 0 THEN {FALSE} ELSE BOOLEAN
          [] TurnsRight(From(s), To(s), p) /\ ~ IsVertical(s) /\ a * dy - b * dx > 0 ->
                IF segmentFirst # s.inv THEN {segmentFirst} ELSE BOOLEAN
          [] OTHER ->
                IF faster > slower /\ ~ segmentFirst THEN {FALSE}
                ELSE IF faster < slower /\ segmentFirst THEN {TRUE} ELSE BOOLEAN

(* The sign of find_distance_to_segment_arc. *)
SignOf(n) == IF n > 0 THEN 1 ELSE IF n < 0 THEN -1 ELSE 0
SegmentDistanceSign(s, p) ==
    IF IsVertical(s) THEN SignOf(s.p0[1] - p[1]) ELSE SignOf(Determinant(From(s), To(s), p))

SegmentSegment(s, t, p) ==
    LET ds == SegmentDistanceSign(s, p)
        dt == SegmentDistanceSign(t, p)
    IN  IF SameSite(s, t) THEN {TurnsLeft(s.p0, s.p1, p)}
        ELSE IF ds # dt \/ ds = 0 THEN {ds < dt} ELSE BOOLEAN

MeetsUpperArc(a, b, p) ==
    CASE IsPoint(a) /\ IsPoint(b) -> PointPoint(a, b, p)
      [] IsPoint(a) /\ IsSegment(b) -> PointSegment(a, b, p, FALSE)
      [] IsSegment(a) /\ IsPoint(b) -> PointSegment(b, a, p, TRUE)
      [] OTHER -> SegmentSegment(a, b, p)

(* node_comparison_predicate of a beach-line node and a new site at p: the   *)
(* answers to "does the node go below?".  newer is the later site of the     *)
(* node, isLower tells on which side of the bisector, isTemporary that both  *)
(* sides are one segment.                                                    *)
GoesBelow(a, b, newer, isLower, isTemporary, p) ==
    LET y == IF isLower /\ IsSegment(newer) /\ IsVertical(newer) THEN newer.p1[2]
             ELSE newer.p0[2]
    IN  CASE newer.p0[1] < p[1] -> MeetsUpperArc(a, b, p)
          [] newer.p0[1] = p[1] /\ isTemporary -> {newer.p0[2] < p[2]}
          [] OTHER -> {y < p[2] \/ (y = p[2] /\ IsPoint(newer) /\ ~ isLower)}
=============================================================================
