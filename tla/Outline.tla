------------------------------ MODULE Outline -------------------------------
(***************************************************************************)
(* The site events of every ring drawn on a grid.  A ring grows by one     *)
(* point per step, so that each of its prefixes is checked as well.        *)
(***************************************************************************)
EXTENDS SiteEvents

CONSTANTS
    Grid,         \* points
    MaxPoints     \* how many of them a ring may have

ASSUME OutlineAssumption == Grid \subseteq Int \X Int

VARIABLE ring

EventsOf(r) == ToSet(PolygonEvents(<<r>>))
QueueOf(r) == SitesQueue(PolygonEvents(<<r>>))

Init == \E p \in Grid : ring = <<p>>

Draw == /\ Len(ring) < MaxPoints
        /\ \E p \in Grid : ring' = Append(ring, p)
        /\ \A s, t \in EventsOf(ring') : ~ Overlap(s, t)

Spec == Init /\ [][Draw]_ring

-----------------------------------------------------------------------------
(* Two different events are never equivalent and the order is transitive:   *)
(* what std::sort asks of event_comparison_predicate, and what makes equal  *)
(* events adjacent, so that std::unique removes every repeat.               *)
SweepOrderTotal == StrictlyOrdered(EventsOf(ring))

(* A segment's first point is swept before it and its second point after,   *)
(* and nothing comes between the slanted segments that start in one point:  *)
(* process_site_event takes them as one run and later erases their          *)
(* temporary nodes when it reaches the second points.                       *)
EndPointsAroundSegments ==
    LET queue == QueueOf(ring)
        later(k) == (k + 1)..Len(queue)
    IN  \A k \in DOMAIN queue : IsSegment(queue[k]) =>
            /\ \E i \in 1..(k - 1) : queue[i] = PointSite(queue[k].p0)
            /\ \E j \in later(k) : queue[j] = PointSite(queue[k].p1)
            /\ \A j \in later(k) :
                ~ IsVertical(queue[k]) /\ queue[j].p0 = queue[k].p0 =>
                    \A m \in k..j : IsSegment(queue[m]) /\ queue[m].p0 = queue[k].p0

(* The queue depends on the outline and not on how it is written down: open *)
(* or with its first point repeated at the end, forwards or backwards.      *)
RepresentationIndependent ==
    LET queue == QueueOf(ring)
    IN  /\ Len(ring) > 2 => queue = QueueOf(Append(ring, ring[1]))
        /\ queue = QueueOf(Reverse(ring))
=============================================================================
