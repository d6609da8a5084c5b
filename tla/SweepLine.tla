----------------------------- MODULE SweepLine -----------------------------
(***************************************************************************)
(* The sweep that builds the medial axis graph: voronoi_builder::construct *)
(* driving the two _insert_new_edge operations of medial_axis<T>.          *)
(*                                                                         *)
(* The beach line is the sequence of its nodes from bottom to top.  A node *)
(* separates the arcs of two sites and holds the half-edge of their        *)
(* bisector (null for the temporary node inside the two arcs of a segment  *)
(* whose far end point is still ahead) and its circle event.  Whether      *)
(* three sites meet in a circle event, and where a new site falls, is      *)
(* decided as in the code wherever the code decides it in integers; where  *)
(* it compares floating-point numbers, either answer is taken.  So every   *)
(* circle event that waits may be the next one, before or after any site.  *)
(***************************************************************************)
EXTENDS HalfEdges, ArcPredicates

CONSTANT Inputs     \* the polygons: each a sequence of rings of points

(* Coordinates are integers, there is a site, every site has an index, and  *)
(* event_comparison_predicate orders the sites: it does unless two sides    *)
(* run along each other from the same start.                                *)
ASSUME InputsAssumption ==
    \A polygon \in Inputs :
        LET events == PolygonEvents(polygon)
        IN  /\ polygon \in Seq(Seq(Int \X Int))
            /\ events # <<>>
            /\ 1..Cardinality(ToSet(events)) \subseteq Site
            /\ \A s, t \in ToSet(events) : ~ Overlap(s, t)

VARIABLES
    sites,          \* site_events_, sorted and without repeats
    reserved,       \* number of site events when _reserve was called
    pc,             \* where construct is: see Phases
    cursor,         \* site_event_iterator_
    last,           \* end of the run of segments handled by one site event
    right,          \* right_it: the node above the arc that is split
    beach,          \* beach_line_
    endPoints,      \* end_points_
    circles         \* the active events of circle_events_

sweepVars == <<sites, reserved, pc, cursor, last, right, beach, endPoints, circles>>
vars == <<graphVars, sweepVars>>

Phases == {"init", "events", "site", "arcs", "done"}

N == Len(sites)

(* An arc of the beach line belongs to a site and runs along it forwards or, *)
(* after inverse(), backwards.                                               *)
Arc(s) == [site |-> s, inv |-> FALSE]
Back(arc) == [arc EXCEPT !.inv = ~ @]
At(arc) == [p0 |-> sites[arc.site].p0, p1 |-> sites[arc.site].p1, inv |-> arc.inv]
OnSegment(arc) == IsSegment(At(arc))

-----------------------------------------------------------------------------
(* Beach-line nodes and circle events.  A node keeps one identity while its *)
(* key and edge change: the half-edge it was inserted with or, for a        *)
(* temporary node, minus its site.                                          *)

NoEvent == <<>>

Bisector(l, r, e) == [id |-> e, l |-> l, r |-> r, edge |-> e, event |-> NoEvent]
TemporaryNode(s) ==
    [id |-> -s, l |-> Arc(s), r |-> Back(Arc(s)), edge |-> Null, event |-> NoEvent]

(* The triple that activate_circle_event stores in the queue and the node. *)
Candidate(a, b, c) == IF CircleExists(At(a), At(b), At(c)) THEN <<a, b, c>> ELSE NoEvent

Event(node) == [node |-> node.id, arcs |-> node.event]
EventsOf(node) == IF node.event = NoEvent THEN {} ELSE {Event(node)}

(* activate_circle_event pushes; deactivate_circle_event withdraws the      *)
(* node's event.  A withdrawn event stays in the code's queue but construct *)
(* pops it before it can be processed, so here it leaves at once.           *)
Activated(node) == EventsOf(node)
NoneDeactivated(node) == {}     \* mutant: the old event stays active
Deactivated(node) == EventsOf(node)

ReplaceBy(seq, i, j, new) == SubSeq(seq, 1, i - 1) \o new \o SubSeq(seq, j, Len(seq))

(* process_circle_event turns the (A, B) node into the (A, C) node, which    *)
(* takes the half-edge that the circle event's _insert_new_edge returns.     *)
MergedKeepingEdge(node, site3) == [node EXCEPT !.r = site3]              \* mutant
Merged(node, site3) == [node EXCEPT !.r = site3, !.edge = numEdges + 1]

(* circle_events_.pop() *)
Popped(ev) == circles \ {ev}

(* insert_new_arc: the nodes that split an arc (arc1 below, arc2 above) for  *)
(* the new site; a segment's two sides are kept apart by a temporary node.   *)
NewNodes(arc1, arc2, s) ==
    LET below == Bisector(arc1, Arc(s), numEdges + 1)
        above(arc) == Bisector(arc, arc2, numEdges + 2)
    IN  IF IsSegment(sites[s])
        THEN <<below, TemporaryNode(s), above(Back(Arc(s)))>>
        ELSE <<below, above(Arc(s))>>

NewEndPointsAtStart(s) ==       \* mutant: the wrong end
    IF IsSegment(sites[s]) THEN {[point |-> sites[s].p0, node |-> -s]} ELSE {}
NewEndPoints(s) ==
    IF IsSegment(sites[s]) THEN {[point |-> sites[s].p1, node |-> -s]} ELSE {}

-----------------------------------------------------------------------------
(* init_sites_queue and init_beach_line *)

Init ==
    /\ GraphInit
    /\ \E polygon \in Inputs :
        LET events == PolygonEvents(polygon)
        IN  sites = SitesQueue(events) /\ reserved = Len(events)
    /\ pc = "init"
    /\ cursor = 1 /\ last = 1 /\ right = 0
    /\ beach = <<>> /\ endPoints = {} /\ circles = {}

(* The leading sites on the vertical line of the first one. *)
OnFirstVertical(i) == IsVertical(sites[i]) /\ sites[i].p0[1] = sites[1].p0[1]
Skip == CHOOSE k \in 1..N : /\ \A i \in 1..k : OnFirstVertical(i)
                            /\ k < N => ~ OnFirstVertical(k + 1)

InitSingleSite ==
    /\ pc = "init" /\ N = 1
    /\ ProcessSingleSite(1)
    /\ pc' = "events" /\ cursor' = 2 /\ last' = 2
    /\ UNCHANGED <<sites, reserved, right, beach, endPoints, circles>>

InitDefault ==
    /\ pc = "init" /\ N > 1 /\ Skip = 1
    /\ InsertSiteEdge(1, 2)
    /\ beach' = NewNodes(Arc(1), Arc(1), 2)
    /\ endPoints' = NewEndPoints(2)
    /\ pc' = "events" /\ cursor' = 3 /\ last' = 3
    /\ UNCHANGED <<sites, reserved, right, circles>>

(* One iteration of the loop of init_beach_line_collinear_sites; cursor is  *)
(* it_first.                                                                *)
InitCollinear ==
    /\ pc = "init" /\ Skip > 1
    /\ InsertSiteEdge(cursor, cursor + 1)
    /\ beach' = Append(beach, Bisector(Arc(cursor), Arc(cursor + 1), numEdges + 1))
    /\ IF cursor + 1 < Skip
       THEN cursor' = cursor + 1 /\ UNCHANGED <<pc, last>>
       ELSE cursor' = Skip + 1 /\ last' = Skip + 1 /\ pc' = "events"
    /\ UNCHANGED <<sites, reserved, right, endPoints, circles>>

-----------------------------------------------------------------------------
(* process_site_event *)

SiteEvent == sites[cursor]

(* The end points on top of the priority queue that the point site reaches. *)
Reached == {ep \in endPoints : /\ IsPoint(SiteEvent) /\ ep.point = SiteEvent.p0
                               /\ \A other \in endPoints : ~ PointLess(other.point, ep.point)}

(* The loop that pops an end point and erases its temporary node. *)
EraseTemporaryNode ==
    /\ pc \in {"events", "site"} /\ cursor <= N
    /\ \E ep \in Reached : \E i \in DOMAIN beach :
        /\ beach[i].id = ep.node
        /\ beach' = ReplaceBy(beach, i, i + 1, <<>>)
        /\ endPoints' = endPoints \ {ep}
    /\ pc' = "site"
    /\ UNCHANGED <<graphVars, sites, reserved, cursor, last, right, circles>>

(* The segments that start in the same point are handled by one event. *)
SameStart(j) == IsSegment(sites[j]) /\ sites[j].p0 = SiteEvent.p0
EndOfRunPastSite == cursor + 2       \* mutant: off by one
EndOfRun ==
    IF IsPoint(SiteEvent) THEN cursor + 1
    ELSE CHOOSE k \in (cursor + 1)..(N + 1) : /\ \A j \in cursor..(k - 1) : SameStart(j)
                                              /\ k <= N => ~ SameStart(k)

(* beach_line_.lower_bound: whatever the shape of the search tree and the    *)
(* answers of the comparison, it stops at a node that does not go below the  *)
(* new site while its predecessor does.                                      *)
MayGoBelow(node) ==
    LET isLower == node.l.site > node.r.site
        newer == IF isLower THEN node.l ELSE node.r
    IN  GoesBelow(At(node.l), At(node.r), At(newer), isLower,
                  node.l.site = node.r.site, SiteEvent.p0)

LowerBounds ==
    {r \in 1..(Len(beach) + 1) :
        /\ r > 1 => TRUE \in MayGoBelow(beach[r - 1])
        /\ r <= Len(beach) => FALSE \in MayGoBelow(beach[r])}

LocateArc ==
    /\ pc \in {"events", "site"} /\ cursor <= N
    /\ Reached = {}
    /\ last' = EndOfRun
    /\ right' \in LowerBounds
    /\ pc' = "arcs"
    /\ UNCHANGED <<graphVars, sites, reserved, cursor, beach, endPoints, circles>>

(* One iteration of the loop over the run: split the arc above the site and *)
(* look for circle events with the neighbours on either side.               *)
InsertArc ==
    LET site == Arc(cursor)
        reverse == IF OnSegment(site) THEN Back(site) ELSE site
        isEnd == right > Len(beach)
        isBegin == right = 1
        left == beach[right - 1]
        old == beach[right]
        arc1 == IF isBegin THEN old.l ELSE left.r
        arc2 == IF isEnd THEN left.r ELSE old.l
        nodes == NewNodes(arc1, arc2, cursor)
        below == [Head(nodes) EXCEPT !.event =
                    IF isBegin THEN NoEvent ELSE Candidate(left.l, arc1, site)]
        found == IF isEnd THEN NoEvent ELSE Candidate(reverse, arc2, old.r)
        above == [old EXCEPT !.event = IF isBegin /\ found = NoEvent THEN @ ELSE found]
        withdrawn == IF isBegin \/ isEnd THEN {} ELSE Deactivated(old)
    IN  /\ pc = "arcs"
        /\ InsertSiteEdge(arc2.site, cursor)
        /\ beach' = IF isEnd THEN beach \o <<below>> \o Tail(nodes)
                    ELSE ReplaceBy(beach, right, right + 1,
                                   <<below>> \o Tail(nodes) \o <<above>>)
        /\ circles' = (circles \ withdrawn)
                        \cup Activated(below)
                        \cup (IF found = NoEvent THEN {} ELSE Activated(above))
        /\ endPoints' = endPoints \cup NewEndPoints(cursor)
        /\ cursor' = cursor + 1
        /\ IF cursor + 1 = last THEN pc' = "events" /\ right' = 0
                               ELSE UNCHANGED <<pc, right>>
        /\ UNCHANGED <<sites, reserved, last>>

-----------------------------------------------------------------------------
(* process_circle_event: the arc between the bisectors of nodes i - 1 and i *)
(* vanishes; the lower node takes over the new bisector.                    *)
CircleEvent ==
    /\ pc = "events"
    /\ \E ev \in circles : \E i \in DOMAIN beach :
        LET lower == beach[i - 1]
            gone == beach[i]
            hasBelow == i > 2
            hasAbove == i < Len(beach)
            site1 == lower.l
            touching == /\ ~ OnSegment(site1) /\ OnSegment(gone.r)
                        /\ To(At(gone.r)) = At(site1).p0
            site3 == IF touching THEN Back(gone.r) ELSE gone.r
            joined == [Merged(lower, site3) EXCEPT !.event =
                        IF hasBelow THEN Candidate(beach[i - 2].l, site1, site3) ELSE @]
            above == [beach[i + 1] EXCEPT !.event = Candidate(site1, site3, beach[i + 1].r)]
            withdrawn == (IF hasBelow THEN Deactivated(lower) ELSE {})
                            \cup (IF hasAbove THEN Deactivated(beach[i + 1]) ELSE {})
            found == (IF hasBelow THEN Activated(joined) ELSE {})
                        \cup (IF hasAbove THEN Activated(above) ELSE {})
        IN  /\ beach[i].id = ev.node
            /\ InsertCircleEdge(site1.site, site3.site, lower.edge, gone.edge)
            /\ beach' = IF hasAbove THEN ReplaceBy(beach, i - 1, i + 2, <<joined, above>>)
                                    ELSE ReplaceBy(beach, i - 1, i + 1, <<joined>>)
            /\ circles' = (Popped(ev) \ withdrawn) \cup found
    /\ UNCHANGED <<sites, reserved, pc, cursor, last, right, endPoints>>

FinishNever ==                  \* mutant: the loop is not left
    /\ pc = "events" /\ cursor > N /\ circles = {}
    /\ beach' = <<>>
    /\ UNCHANGED <<graphVars, sites, reserved, pc, cursor, last, right, endPoints, circles>>

(* No events are left: beach_line_.clear(), then output->_build(). *)
Finish ==
    /\ pc = "events" /\ cursor > N /\ circles = {}
    /\ pc' = "done"
    /\ beach' = <<>>
    /\ UNCHANGED <<graphVars, sites, reserved, cursor, last, right, endPoints, circles>>

(* construct has returned; nothing happens any more. *)
Returned == pc = "done" /\ UNCHANGED vars

Next ==
    \/ InitSingleSite \/ InitDefault \/ InitCollinear
    \/ EraseTemporaryNode \/ LocateArc \/ InsertArc
    \/ CircleEvent
    \/ Finish \/ Returned

Spec == Init /\ [][Next]_vars

FairSpec == Spec /\ WF_vars(Next)

-----------------------------------------------------------------------------
(* Properties. *)

TypeOK ==
    /\ GraphTypeOK
    /\ pc \in Phases
    /\ reserved \in Nat
    /\ cursor \in 1..(N + 1) /\ last \in 1..(N + 1)
    /\ right \in 0..(Len(beach) + 1)
    /\ \A i \in DOMAIN beach : /\ beach[i].l.site \in 1..N /\ beach[i].r.site \in 1..N
                               /\ beach[i].edge \in 0..numEdges
                               /\ beach[i].id \in (-N)..numEdges
    /\ endPoints \subseteq [point : {sites[s].p1 : s \in 1..N}, node : (-N)..-1]

IsTemporary(node) == node.edge = Null

(* "For any two neighboring nodes the second site of the first node is the  *)
(* same as the first site of the second node": the arcs form one chain.     *)
(* The half-edge of a node bounds the cell of the site below it, its twin   *)
(* the cell above; it has not been started by any vertex yet, and no other  *)
(* node holds it.                                                           *)
NodesHoldOpenBisectors ==
    /\ \A i \in 1..(Len(beach) - 1) : beach[i].r.site = beach[i + 1].l.site
    /\ \A i \in DOMAIN beach : ~ IsTemporary(beach[i]) =>
        LET e == beach[i].edge
        IN  /\ Open(e)
            /\ cell[e] = beach[i].l.site
            /\ cell[twin[e]] = beach[i].r.site
            /\ \A j \in DOMAIN beach : j # i => beach[j].edge # e

(* Every event waiting in the queue belongs to a node of the beach line     *)
(* that points back to it, has a bisector below it, and was computed from   *)
(* the three sites that still meet there: none is stale.                    *)
EventsCurrent ==
    /\ \A ev \in circles : \E i \in 2..Len(beach) :
        /\ beach[i].id = ev.node /\ beach[i].event = ev.arcs
        /\ ~ IsTemporary(beach[i - 1]) /\ ~ IsTemporary(beach[i])
        /\ ev.arcs[1].site = beach[i - 1].l.site
        /\ ev.arcs[2].site = beach[i].l.site
        /\ ev.arcs[3].site = beach[i].r.site
    /\ \A i \in DOMAIN beach : EventsOf(beach[i]) \subseteq circles

(* A segment has a temporary node exactly while its end point is queued,    *)
(* and every queued end point is still to be swept: none is overlooked, and *)
(* none is left when the sweep is over.                                     *)
EndPointsAhead ==
    /\ \A ep \in endPoints : \E s \in cursor..N : sites[s] = PointSite(ep.point)
    /\ {beach[i].id : i \in {j \in DOMAIN beach : IsTemporary(beach[j])}}
            = {ep.node : ep \in endPoints}

(* What _reserve set aside is never exceeded, so that no push_back moves    *)
(* the elements that pointers in cells, vertices and half-edges refer to.   *)
WithinReserve ==
    /\ Len(cells) <= CellsReserved(reserved)
    /\ numVertices <= VerticesReserved(reserved)
    /\ numEdges <= EdgesReserved(reserved)

(* The sweep ends, whatever the order of circle events. *)
Terminates == <>(pc = "done")
=============================================================================
