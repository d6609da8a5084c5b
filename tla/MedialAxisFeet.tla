-------------------------- MODULE MedialAxisFeet --------------------------
(***************************************************************************)
(* The feet that the two _insert_new_edge operations give to half-edges    *)
(* while the sweep runs.  A circle event applies some twenty rules, one    *)
(* after the other; each looks at the pointers and feet that happen to be  *)
(* there.                                                                  *)
(*                                                                         *)
(* Where a foot lies is kept as what it is: a point of the polygon, a      *)
(* vertex, or the place on a segment nearest to a vertex.  Coordinates     *)
(* are not (the code rounds them to integers): that makefoot finds the     *)
(* place nearest to a vertex, and that reflect in a straight bisector      *)
(* takes the place nearest to one of its vertices on one side to that on   *)
(* the other, is taken for granted.                                        *)
(***************************************************************************)
EXTENDS SweepLine

(* Where circle events fall is a matter of floating-point numbers.  Orders   *)
(* gives for a polygon the order in which the program processes them, each   *)
(* with its sites and the site event that follows; an empty one leaves the   *)
(* order open.                                                               *)
CONSTANT Orders

VARIABLES
    foot,       \* the half-edges with a foot -> the place of the foot
    touched,    \* vertex -> the sites of its circle event
    exact,      \* the vertices with the very coordinates of a point
    lost,       \* a null pointer has been followed
    order       \* the order of circle events

feetVars == <<foot, touched, exact, lost>>
feetAllVars == <<vars, feetVars, order>>

FeetInit ==
    /\ foot = <<>> /\ touched = <<>> /\ exact = {} /\ lost = FALSE
    /\ \E polygon \in Inputs : /\ sites = SitesQueue(PolygonEvents(polygon))
                               /\ order = Orders[polygon]

AnyOrder == order = <<>>

-----------------------------------------------------------------------------
(* is_primary_edge, is_linear_edge, contains_point *)

SiteEnds(s) == {sites[s].p0, sites[s].p1}
ContainsPoint(e) == IsPoint(sites[cell[e]])
Mixed(e) == ContainsPoint(e) # ContainsPoint(twin[e])

Primary(e) == Mixed(e) => SiteEnds(cell[e]) \cap SiteEnds(cell[twin[e]]) = {}
Linear(e) == ~ (Primary(e) /\ Mixed(e))

(* The point that all sites of a circle event share is the vertex itself,    *)
(* without radius; the computed coordinates may differ from it.              *)
Corners(v) == {p \in UNION {SiteEnds(s) : s \in touched[v]} : \A s \in touched[v] : p \in SiteEnds(s)}
EqualsPoint(v, s) == v \in exact /\ IsPoint(sites[s]) /\ sites[s].p0 \in Corners(v)

(* A circle that passes through an end of a segment it touches touches it    *)
(* there.                                                                    *)
TouchedEnds(v, s) ==
    {p \in SiteEnds(s) : p \in Corners(v) \/ \E t \in touched[v] : sites[t] = PointSite(p)}

AtPoint(p) == [point |-> p]
VertexPlace(v) ==
    IF Corners(v) = {} THEN [vertex |-> v] ELSE AtPoint(CHOOSE p \in Corners(v) : TRUE)
Nearest(v, s) ==
    IF TouchedEnds(v, s) = {} THEN [vertex |-> v, on |-> s]
    ELSE AtPoint(CHOOSE p \in TouchedEnds(v, s) : TRUE)
Elsewhere == [point |-> "elsewhere"]

(* reflect, in the line of e through its vertex v *)
Reflected(spot, v, e) ==
    CASE spot = Nearest(v, cell[e]) -> Nearest(v, cell[twin[e]])
      [] spot = Nearest(v, cell[twin[e]]) -> Nearest(v, cell[e])
      [] OTHER -> Elsewhere

-----------------------------------------------------------------------------
(* The rules of a circle event: conditions on pointers. *)

HasVertex1(e) == Vertex1(e) # Null

IntoCorner(e) ==
    /\ HasVertex1(e) /\ Primary(e)
    /\ next[e] # Null /\ ~ Primary(next[e])
    /\ ContainsPoint(next[e]) \/ ContainsPoint(twin[next[e]])

EndsAtItsPoint(e, s) == Primary(e) /\ HasVertex1(e) /\ EqualsPoint(Vertex1(e), s)

(* "special case derived from visual debug" *)
StartsInCorner(e23, s1, s3) ==
    /\ IsPoint(sites[s1]) /\ IsSegment(sites[s3]) /\ sites[s1].p0 \in SiteEnds(s3)
    /\ Primary(e23) /\ EqualsPoint(vertex0[e23], s1)

(* "trying to fill in corner feet" *)
LeavesCornerAtOnce(e) == ~ Primary(e)   \* mutant: the far end is not tested
LeavesCorner(e) == ~ Primary(e) /\ HasVertex1(e)
BesideCorner(e) == LeavesCorner(e) /\ prev[twin[e]] # Null /\ ~ Primary(prev[twin[e]])
CornerUnlinked(e) ==
    \/ LeavesCorner(e) /\ prev[twin[e]] = Null
    \/ BesideCorner(e) /\ next[e] = Null
CornerBeyond(e) == BesideCorner(e) /\ next[e] # Null /\ Primary(next[e])

-----------------------------------------------------------------------------
(* The feet after a circle event that finds the feet f, rule by rule.  Put   *)
(* assigns whatever there is, Fill only a missing foot.                      *)
Put(f, rule, e, spot) ==
    IF rule THEN [d \in DOMAIN f \cup {e} |-> IF d = e THEN spot ELSE f[d]] ELSE f
Fill(f, rule, e, spot) == Put(f, rule /\ e \notin DOMAIN f, e, spot)

IntoCorners(e12, e23, f) ==
    LET v == vertex0[e12]
        new2 == next[twin[e23]]
        s1 == cell[e12]
        s3 == cell[new2]
        f1 == Put(f, IntoCorner(e12) /\ IsSegment(sites[s1]), e12, Nearest(v, s1))
        f2 == Put(f1, IntoCorner(e23) /\ IsSegment(sites[s3]), new2, Nearest(v, s3))
        f3 == Put(f2, EndsAtItsPoint(e12, s1), twin[e12], VertexPlace(Vertex1(e12)))
    IN  Put(f3, EndsAtItsPoint(e23, s3), twin[e23], VertexPlace(Vertex1(e23)))

OutOfCorner(e12, e23, f) ==
    LET s3 == cell[twin[e23]]
        end == Vertex1(e23)
        rule == StartsInCorner(e23, cell[e12], s3)
        f1 == Put(f, rule, e23, VertexPlace(vertex0[e23]))
        f2 == Put(f1, rule, twin[e23], Nearest(end, s3))
    IN  Put(f2, rule, next[e23], Reflected(Nearest(end, s3), end, e23))

StraightEdges(e12, e23, f) ==
    LET v == vertex0[e12]
        new2 == next[twin[e23]]
        s1 == cell[e12]
        s3 == cell[new2]
        ends3 == HasVertex1(e23) /\ IsSegment(sites[s3])
        missing == HasVertex1(e12) /\ IsSegment(sites[s1]) /\ Linear(e12) /\ e12 \notin DOMAIN f
        f1 == Fill(f, ends3 /\ Linear(e23), twin[e23], Nearest(Vertex1(e23), s3))
        f2 == Fill(f1, ends3 /\ Linear(new2), new2, Nearest(v, s3))
        f3 == Put(f2, missing, e12, Nearest(v, s1))
    IN  Put(f3, missing /\ Corners(v) # {}, twin[e12], VertexPlace(Vertex1(e12)))

FillCornersAtStart(e12, e23, f) ==      \* mutant: the wrong end of the half-edge
    LET f1 == Fill(f, CornerBeyond(e12), next[e12], VertexPlace(vertex0[e12]))
    IN  Fill(f1, CornerBeyond(e23), next[e23], VertexPlace(vertex0[e23]))
FillCorners(e12, e23, f) ==
    LET f1 == Fill(f, CornerBeyond(e12), next[e12], VertexPlace(Vertex1(e12)))
    IN  Fill(f1, CornerBeyond(e23), next[e23], VertexPlace(Vertex1(e23)))

Reflections(e12, e23, f) ==
    LET v == vertex0[e12]
        new2 == next[twin[e23]]
        ends(e) == HasVertex1(e) /\ Linear(e)
        f1 == Fill(f, ends(e23) /\ new2 \in DOMAIN f, e23, Reflected(f[new2], v, e23))
        f2 == Fill(f1, ends(e12) /\ e23 \in DOMAIN f1, e12, Reflected(f1[e23], v, e12))
        f3 == Fill(f2, ~ Primary(e12) /\ Primary(e23) /\ HasVertex1(e12),
                   e23, VertexPlace(Vertex1(e12)))
    IN  Put(f3, ~ Linear(e12), e12, Nearest(v, cell[e12]))

(* The half-edges of a cell that is a point share their foot. *)
AroundPoints(e12, e23, f) ==
    LET share(g, from, to, rule) ==
            Fill(g, from \in DOMAIN g /\ ContainsPoint(from) /\ rule, to, g[from])
        after == next[e23]
        f1 == share(f, twin[e12], e23, TRUE)
        f2 == share(f1, e23, after, after # Null /\ Primary(after))
        f3 == share(f2, twin[e23], next[twin[e23]], TRUE)
    IN  share(f3, e12, prev[e12], TRUE)

(* "derived from lingering special case on hex fan housing" *)
BetweenCurves(e12, e23, f) ==
    /\ e23 \notin DOMAIN f /\ e12 \in DOMAIN f
    /\ ~ Linear(e23) /\ ~ Linear(next[twin[e23]]) /\ ContainsPoint(twin[e23])

LastRules(e12, e23, f) ==
    LET v == vertex0[e12]
        new2 == next[twin[e23]]
        f1 == Put(f, BetweenCurves(e12, e23, f), e23, Reflected(f[e12], v, e12))
    IN  Put(f1, ~ Linear(new2), new2, Nearest(v, cell[new2]))

(* The pointers that the rules follow without a test. *)
FollowsNull(e12, e23) ==
    \/ StartsInCorner(e23, cell[e12], cell[twin[e23]]) /\ Null \in {Vertex1(e23), next[e23]}
    \/ CornerUnlinked(e12) \/ CornerUnlinked(e23)
ReflectsInNull(e12, e23, f) == BetweenCurves(e12, e23, f) /\ ~ HasVertex1(e12)

-----------------------------------------------------------------------------
(* The half-edges that an event pushes. *)
First == numEdges + 1
Second == numEdges + 2

(* A curved half-edge in the cell of a point has that point for its foot.    *)
AfterSite(e1, e2, f) ==
    LET curved == {d \in {e1, e2} : ~ Linear(d) /\ ContainsPoint(d)}
    IN  [e \in DOMAIN f \cup curved |-> IF e \in curved THEN AtPoint(sites[cell[e]].p0) ELSE f[e]]

SiteFeet ==
    /\ \E f \in {foot} : foot' = AfterSite(numEdges - 1, numEdges, f)'
    /\ UNCHANGED <<touched, exact, lost>>

(* The rules see the graph with the new vertex and half-edges linked.        *)
CircleFeet ==
    \E e12 \in {next'[First]}, e23 \in {twin[prev'[Second]]}, f \in {foot} :
        /\ touched' = Append(touched, {cell[e12], cell[e23], cell'[Second]})
        /\ \/ exact' = exact
           \/ Corners(numVertices)' # {} /\ exact' = exact \cup {numVertices'}
        /\ IF FollowsNull(e12, e23)' THEN lost' = TRUE /\ UNCHANGED foot
           ELSE \E f1 \in {OutOfCorner(e12, e23, IntoCorners(e12, e23, f))'} :
                \E f2 \in {FillCorners(e12, e23, StraightEdges(e12, e23, f1))'} :
                \E f3 \in {Reflections(e12, e23, f2)'} :
                \E f4 \in {AroundPoints(e12, e23, f3)'} :
                   IF ReflectsInNull(e12, e23, f4)' THEN lost' = TRUE /\ foot' = f4
                   ELSE foot' = LastRules(e12, e23, f4)' /\ UNCHANGED lost

(* The circle event of the next vertex comes before site cursor. *)
Due == numVertices < Len(order) /\ order[numVertices + 1].before = cursor
InOrder == AnyOrder \/ (Due /\ order[numVertices + 1].sites = touched'[numVertices + 1])

FeetNext ==
    /\ ~ lost /\ UNCHANGED order
    /\ \/ CircleEvent /\ CircleFeet /\ InOrder
       \/ (InitDefault \/ InitCollinear \/ InsertArc) /\ SiteFeet
       \/ /\ \/ InitSingleSite \/ Finish \/ Returned
             \/ (~ Due /\ (EraseTemporaryNode \/ LocateArc))
          /\ UNCHANGED feetVars

FeetSpec == Init /\ FeetInit /\ [][FeetNext]_feetAllVars

-----------------------------------------------------------------------------
(* Properties. *)

(* Rules that test one pointer and follow another never follow a null one:   *)
(* a half-edge that has a vertex at its end is linked there, and the foot a  *)
(* rule finds tells that the vertex it needs exists.                         *)
NoRuleFollowsNull == ~ lost

(* That is so, whatever the order of circle events, when a segment is        *)
(* inserted into the arc of the point it starts in.  That lower_bound finds  *)
(* this arc and that no circle event has taken it away is geometry, which is *)
(* left open here.                                                           *)
ArcToSplit == IF right > Len(beach) THEN beach[Len(beach)].r ELSE beach[right].l
SegmentsSplitTheirPoint ==
    pc = "arcs" /\ IsSegment(SiteEvent) => sites[ArcToSplit.site] = PointSite(SiteEvent.p0)

(* "foot: where radius from vertex0 touches source segment at a 90 degree    *)
(* angle": on the site of the half-edge's own cell, nearest to its start.    *)
(* The rules take feet from other cells and other vertices.                  *)
FeetTouchSource ==
    ~ AnyOrder => \A e \in DOMAIN foot : Primary(e) /\ vertex0[e] # Null =>
        foot[e] = Nearest(vertex0[e], cell[e])
=============================================================================
