---------------------------- MODULE OutlineProofs ----------------------------
(***************************************************************************)
(* Proofs about Outline, for rings of any length and any integer           *)
(* coordinates: the order of the sweep, the place of end points in the     *)
(* queue, and that the queue does not depend on how a ring is written.     *)
(***************************************************************************)
EXTENDS Outline, SiteEventsProofs

-----------------------------------------------------------------------------
(* The events of a ring, side by side. *)
SideEvents(p, q) == {PointSite(p), PointSite(q), SegmentSite(p, q)}

Closes(r) == Len(r) > 2 /\ r[1] # r[Len(r)]

LEMMA SidesTurned ==
    ASSUME NEW p \in Point, NEW q \in Point
    PROVE  /\ SideEvents(p, q) = SideEvents(q, p)
           /\ SideEvents(q, q) \subseteq SideEvents(p, q)
<1>1. p = <<p[1], p[2]>> /\ q = <<q[1], q[2]>>
      /\ p[1] \in Int /\ p[2] \in Int /\ q[1] \in Int /\ q[2] \in Int
  BY DEF Point
<1>2. SegmentSite(p, q) = SegmentSite(q, p)
  <2>1. CASE p = q
    BY <2>1
  <2>2. CASE p # q
    <3>1. PointLess(p, q) <=> ~ PointLess(q, p)
      BY <1>1, <2>2 DEF PointLess
    <3> QED BY <3>1 DEF SegmentSite
  <2> QED BY <2>1, <2>2
<1>3. SegmentSite(q, q) = PointSite(q)
  BY DEF SegmentSite, PointSite
<1> QED BY <1>2, <1>3 DEF SideEvents

LEMMA RingSides ==
    ASSUME NEW r \in Seq(Point), Len(r) # 0
    PROVE  ToSet(RingSegments(r)) = {<<r[i], r[i + 1]>> : i \in 1..(Len(r) - 1)}
                                      \cup (IF Closes(r) THEN {<<r[Len(r)], r[1]>>} ELSE {})
<1> DEFINE n == Len(r)
           sides == [k \in 1..(n - 1) |-> <<r[k], r[k + 1]>>]
           last == <<r[n], r[1]>>
           P == Point \X Point
<1>1. n \in Nat /\ n >= 1 /\ \A k \in 1..n : r[k] \in Point
  BY LenProperties, ElementOfSeq
<1>2. n - 1 \in Nat /\ sides \in [1..(n - 1) -> P] /\ last \in P
  BY <1>1
<1>3. sides \in Seq(P) /\ Len(sides) = n - 1
  <2> HIDE DEF sides, P, n
  <2> QED BY <1>2, MapSeq
<1>4. RingSegments(r) = IF Closes(r) THEN Append(sides, last) ELSE sides
  BY DEF RingSegments, Closes
<1>5. ToSet(sides) = {<<r[i], r[i + 1]>> : i \in 1..(n - 1)}
  BY DEF ToSet
<1>6. ToSet(Append(sides, last)) = ToSet(sides) \cup {last}
  <2> HIDE DEF sides, last, P, n
  <2>1. <<last>> \in Seq(P) /\ ToSet(<<last>>) = {last}
    BY <1>2 DEF ToSet
  <2>2. Append(sides, last) = sides \o <<last>>
    BY <1>2, <1>3, AppendIsConcat
  <2>3. ToSet(sides \o <<last>>) = ToSet(sides) \cup ToSet(<<last>>)
    BY <1>3, <2>1, SetOfConcat
  <2> QED BY <2>1, <2>2, <2>3
<1> QED BY <1>4, <1>5, <1>6

LEMMA RingEvents ==
    ASSUME NEW r \in Seq(Point)
    PROVE  EventsOf(r) = UNION {SideEvents(s[1], s[2]) : s \in ToSet(RingSegments(r))}
<1> DEFINE P == Point \X Point
           one == [i \in DOMAIN <<r>> |-> RingSegments(<<r>>[i])]
           segs == PolygonSegments(<<r>>)
           each == [i \in DOMAIN segs |-> SegmentEvents(segs[i])]
<1>1. one = <<RingSegments(r)>> /\ RingSegments(r) \in Seq(P)
  BY RingSegmentsTyped
<1>2. segs \in Seq(P) /\ ToSet(segs) = ToSet(RingSegments(r))
  <2>1. segs = FlattenSeq(one)
    BY DEF PolygonSegments
  <2> HIDE DEF P, one, segs
  <2>2. one \in Seq(Seq(P)) /\ Len(one) = 1 /\ one[1] = RingSegments(r)
    BY <1>1
  <2>3. Elements(one, 1) = ToSet(RingSegments(r))
    BY <2>2 DEF Elements
  <2> QED BY <2>1, <2>2, <2>3, Flattened
<1>3. PolygonEvents(<<r>>) = FlattenSeq(each)
  BY DEF PolygonEvents
<1> HIDE DEF segs
<1>4. /\ Len(segs) \in Nat /\ DOMAIN segs = 1..Len(segs) /\ \A k \in 1..Len(segs) : segs[k] \in P
      /\ ToSet(segs) = {segs[k] : k \in 1..Len(segs)}
  BY <1>2, LenProperties, ElementOfSeq, SetOfSeq
<1>5. /\ each \in Seq(Seq(SiteRecord)) /\ Len(each) = Len(segs)
      /\ \A k \in 1..Len(segs) : ToSet(each[k]) = SideEvents(segs[k][1], segs[k][2])
  <2>1. each \in [1..Len(segs) -> Seq(SiteRecord)]
    BY <1>4, SegmentEventsFit
  <2>2. \A k \in 1..Len(segs) : ToSet(each[k]) = SideEvents(segs[k][1], segs[k][2])
    BY <1>4, SegmentEventsFit DEF SideEvents
  <2> HIDE DEF each
  <2> QED BY <1>4, <2>1, <2>2, MapSeq
<1> HIDE DEF each
<1>6. ToSet(FlattenSeq(each)) = UNION {ToSet(each[k]) : k \in 1..Len(each)}
  BY <1>5, Flattened DEF Elements
<1>7. UNION {ToSet(each[k]) : k \in 1..Len(each)}
        = UNION {SideEvents(s[1], s[2]) : s \in ToSet(segs)}
  BY <1>4, <1>5
<1> QED BY <1>2, <1>3, <1>6, <1>7 DEF EventsOf

(* The same, in the terms of the points. *)
LEMMA EventOfRing ==
    ASSUME NEW r \in Seq(Point), Len(r) # 0, NEW e
    PROVE  e \in EventsOf(r) <=> \/ \E i \in 1..(Len(r) - 1) : e \in SideEvents(r[i], r[i + 1])
                                 \/ Closes(r) /\ e \in SideEvents(r[Len(r)], r[1])
<1> DEFINE T == ToSet(RingSegments(r))
<1>1. e \in EventsOf(r) <=> \E s \in T : e \in SideEvents(s[1], s[2])
  BY RingEvents
<1>2. T = {<<r[i], r[i + 1]>> : i \in 1..(Len(r) - 1)}
            \cup (IF Closes(r) THEN {<<r[Len(r)], r[1]>>} ELSE {})
  BY RingSides
<1> HIDE DEF T
<1>3. \A s : s \in T <=> \/ \E i \in 1..(Len(r) - 1) : s = <<r[i], r[i + 1]>>
                         \/ Closes(r) /\ s = <<r[Len(r)], r[1]>>
  BY <1>2
<1>4. ASSUME NEW i \in 1..(Len(r) - 1), e \in SideEvents(r[i], r[i + 1])
      PROVE  e \in EventsOf(r)
  <2> DEFINE s == <<r[i], r[i + 1]>>
  <2>1. s \in T /\ s[1] = r[i] /\ s[2] = r[i + 1]
    BY <1>3
  <2> QED BY <1>1, <1>4, <2>1
<1>5. ASSUME Closes(r), e \in SideEvents(r[Len(r)], r[1])
      PROVE  e \in EventsOf(r)
  <2> DEFINE s == <<r[Len(r)], r[1]>>
  <2>1. s \in T /\ s[1] = r[Len(r)] /\ s[2] = r[1]
    BY <1>3, <1>5
  <2> QED BY <1>1, <1>5, <2>1
<1>6. ASSUME e \in EventsOf(r)
      PROVE  \/ \E i \in 1..(Len(r) - 1) : e \in SideEvents(r[i], r[i + 1])
             \/ Closes(r) /\ e \in SideEvents(r[Len(r)], r[1])
  <2>1. PICK s \in T : e \in SideEvents(s[1], s[2])
    BY <1>1, <1>6
  <2>2. CASE Closes(r) /\ s = <<r[Len(r)], r[1]>>
    BY <2>1, <2>2
  <2>3. ASSUME NEW i \in 1..(Len(r) - 1), s = <<r[i], r[i + 1]>>
        PROVE  e \in SideEvents(r[i], r[i + 1])
    BY <2>1, <2>3
  <2> QED BY <1>3, <2>1, <2>2, <2>3
<1> QED BY <1>4, <1>5, <1>6

-----------------------------------------------------------------------------
(* Two ways to write a ring. *)
LEMMA EventsClosed ==
    ASSUME NEW r \in Seq(Point), Len(r) > 2
    PROVE  EventsOf(Append(r, r[1])) = EventsOf(r)
<1> DEFINE n == Len(r)
           t == Append(r, r[1])
<1>1. n \in Nat /\ \A k \in 1..n : r[k] \in Point
  BY LenProperties, ElementOfSeq
<1>2. /\ t \in Seq(Point) /\ Len(t) = n + 1 /\ t[n + 1] = r[1]
      /\ \A k \in 1..n : t[k] = r[k]
  BY <1>1, AppendProperties
<1> HIDE DEF t
<1>3. ~ Closes(t)
  BY <1>1, <1>2 DEF Closes
<1> SUFFICES ASSUME NEW e PROVE e \in EventsOf(t) <=> e \in EventsOf(r)
  BY DEF t
<1>4. e \in EventsOf(t) <=> \E i \in 1..n : e \in SideEvents(t[i], t[i + 1])
  <2>1. e \in EventsOf(t) <=> \E i \in 1..(Len(t) - 1) : e \in SideEvents(t[i], t[i + 1])
    BY <1>1, <1>2, <1>3, EventOfRing
  <2>2. Len(t) - 1 = n
    BY <1>1, <1>2
  <2> QED BY <2>1, <2>2
<1>5. (\E i \in 1..n : e \in SideEvents(t[i], t[i + 1]))
        <=> \/ \E i \in 1..(n - 1) : e \in SideEvents(r[i], r[i + 1])
            \/ e \in SideEvents(r[n], r[1])
  <2>1. \A i \in 1..(n - 1) : t[i] = r[i] /\ t[i + 1] = r[i + 1]
    BY <1>1, <1>2
  <2>2. t[n] = r[n] /\ t[n + 1] = r[1] /\ n \in 1..n
    BY <1>1, <1>2
  <2>3. \A i \in 1..n : i \in 1..(n - 1) \/ i = n
    BY <1>1
  <2>4. \A i \in 1..(n - 1) : i \in 1..n
    BY <1>1
  <2> QED BY <2>1, <2>2, <2>3, <2>4
<1>6. r[1] = r[n] /\ e \in SideEvents(r[n], r[1])
        => \E i \in 1..(n - 1) : e \in SideEvents(r[i], r[i + 1])
  <2> SUFFICES ASSUME r[1] = r[n], e \in SideEvents(r[n], r[n])
               PROVE  \E i \in 1..(n - 1) : e \in SideEvents(r[i], r[i + 1])
    OBVIOUS
  <2>1. n - 1 \in 1..(n - 1) /\ (n - 1) + 1 = n /\ r[n - 1] \in Point /\ r[n] \in Point
    BY <1>1
  <2>2. e \in SideEvents(r[n - 1], r[n])
    BY <2>1, SidesTurned
  <2> QED BY <2>1, <2>2
<1>7. e \in EventsOf(r) <=> \/ \E i \in 1..(n - 1) : e \in SideEvents(r[i], r[i + 1])
                            \/ Closes(r) /\ e \in SideEvents(r[n], r[1])
  BY <1>1, EventOfRing
<1>8. Closes(r) <=> r[1] # r[n]
  BY DEF Closes
<1> QED BY <1>4, <1>5, <1>6, <1>7, <1>8

LEMMA ReverseOf ==
    ASSUME NEW r \in Seq(Point), Len(r) # 0
    PROVE  /\ Reverse(r) \in Seq(Point) /\ Len(Reverse(r)) = Len(r)
           /\ \A k \in 1..Len(r) : Reverse(r)[k] = r[Len(r) - k + 1]
<1> DEFINE n == Len(r)
           t == [k \in 1..n |-> r[n - k + 1]]
<1>1. n \in Nat /\ \A k \in 1..n : r[k] \in Point /\ n - k + 1 \in 1..n
  BY LenProperties, ElementOfSeq
<1>2. t \in [1..n -> Point]
  BY <1>1
<1>3. Reverse(r) = t
  BY DEF Reverse
<1>4. \A k \in 1..n : t[k] = r[n - k + 1]
  OBVIOUS
<1> HIDE DEF t
<1> QED BY <1>1, <1>2, <1>3, <1>4, MapSeq

LEMMA EventsReversed ==
    ASSUME NEW r \in Seq(Point), Len(r) # 0
    PROVE  EventsOf(Reverse(r)) = EventsOf(r)
<1> DEFINE n == Len(r)
           t == Reverse(r)
<1>1. n \in Nat /\ n >= 1 /\ \A k \in 1..n : r[k] \in Point
  BY LenProperties, ElementOfSeq
<1>2. t \in Seq(Point) /\ Len(t) = n /\ \A k \in 1..n : t[k] = r[n - k + 1]
  BY ReverseOf
<1> HIDE DEF t
<1>3. t[1] = r[n] /\ t[n] = r[1]
  BY <1>1, <1>2
<1>4. Closes(t) <=> Closes(r)
  BY <1>2, <1>3 DEF Closes
<1> SUFFICES ASSUME NEW e PROVE e \in EventsOf(t) <=> e \in EventsOf(r)
  BY DEF t
<1>5. e \in EventsOf(t) <=> \/ \E i \in 1..(n - 1) : e \in SideEvents(t[i], t[i + 1])
                            \/ Closes(t) /\ e \in SideEvents(t[n], t[1])
  BY <1>1, <1>2, EventOfRing
<1>6. e \in EventsOf(r) <=> \/ \E i \in 1..(n - 1) : e \in SideEvents(r[i], r[i + 1])
                            \/ Closes(r) /\ e \in SideEvents(r[n], r[1])
  BY <1>1, EventOfRing
<1>7. e \in SideEvents(t[n], t[1]) <=> e \in SideEvents(r[n], r[1])
  <2>1. r[n] \in Point /\ r[1] \in Point
    BY <1>1
  <2> QED BY <1>3, <2>1, SidesTurned
<1>8. \A i \in 1..(n - 1) : /\ n - i \in 1..(n - 1)
                            /\ SideEvents(t[i], t[i + 1]) = SideEvents(r[n - i], r[n - i + 1])
  <2> SUFFICES ASSUME NEW i \in 1..(n - 1)
               PROVE  /\ n - i \in 1..(n - 1)
                      /\ SideEvents(t[i], t[i + 1]) = SideEvents(r[n - i], r[n - i + 1])
    OBVIOUS
  <2>1. i \in 1..n /\ i + 1 \in 1..n /\ n - i \in 1..(n - 1) /\ n - (i + 1) + 1 = n - i
        /\ n - i \in 1..n /\ n - i + 1 \in 1..n
    BY <1>1
  <2>2. t[i] = r[n - i + 1] /\ t[i + 1] = r[n - i]
    BY <1>2, <2>1
  <2> QED BY <1>1, <2>1, <2>2, SidesTurned
<1>9. \A i \in 1..(n - 1) : \E j \in 1..(n - 1) : n - j = i
  <2> SUFFICES ASSUME NEW i \in 1..(n - 1) PROVE n - i \in 1..(n - 1) /\ n - (n - i) = i
    OBVIOUS
  <2> QED BY <1>1
<1>10. (\E i \in 1..(n - 1) : e \in SideEvents(t[i], t[i + 1]))
         <=> (\E i \in 1..(n - 1) : e \in SideEvents(r[i], r[i + 1]))
  BY <1>8, <1>9
<1> QED BY <1>4, <1>5, <1>6, <1>7, <1>10

LEMMA SameQueue ==
    ASSUME NEW r, NEW t, EventsOf(r) = EventsOf(t)
    PROVE  QueueOf(r) = QueueOf(t)
<1> DEFINE Ranked(E) ==
               [k \in 1..Cardinality(E) |->
                   CHOOSE s \in E : Cardinality({u \in E : EventLess(u, s)}) = k - 1]
<1>1. QueueOf(r) = Ranked(EventsOf(r)) /\ QueueOf(t) = Ranked(EventsOf(t))
  BY DEF QueueOf, EventsOf, SitesQueue
<1> HIDE DEF Ranked
<1> QED BY <1>1

-----------------------------------------------------------------------------
(* The inductive invariant: rings of integer points without overlaps.       *)
NoOverlaps(E) == \A s, t \in E : ~ Overlap(s, t)

RingInv == ring \in Seq(Point) /\ Len(ring) # 0 /\ NoOverlaps(EventsOf(ring))

LEMMA RingInit == Init => RingInv
<1> SUFFICES ASSUME Init PROVE RingInv
  OBVIOUS
<1>1. PICK p \in Point : ring = <<p>>
  BY OutlineAssumption DEF Init, Point
<1>2. ring \in Seq(Point) /\ Len(ring) = 1
  BY <1>1
<1>3. ~ Closes(ring) /\ Len(ring) - 1 = 0
  BY <1>2 DEF Closes
<1>4. \A e : e \notin EventsOf(ring)
  BY <1>2, <1>3, EventOfRing
<1> QED BY <1>2, <1>4 DEF RingInv, NoOverlaps

LEMMA RingStep == RingInv /\ [Draw]_ring => RingInv'
<1> SUFFICES ASSUME RingInv, [Draw]_ring PROVE RingInv'
  OBVIOUS
<1>1. CASE Draw
  <2>1. PICK p \in Point : ring' = Append(ring, p)
    BY <1>1, OutlineAssumption DEF Draw, Point
  <2>2. ring' \in Seq(Point) /\ Len(ring') # 0
    BY <2>1, AppendProperties, LenProperties DEF RingInv
  <2>3. NoOverlaps(EventsOf(ring'))
    BY <1>1 DEF Draw, NoOverlaps
  <2> QED BY <2>2, <2>3 DEF RingInv, NoOverlaps, EventsOf
<1>2. CASE ring' = ring
  BY <1>2 DEF RingInv, EventsOf
<1> QED BY <1>1, <1>2

LEMMA RingEventsFit ==
    ASSUME RingInv
    PROVE  /\ EventsFit(EventsOf(ring)) /\ IsFiniteSet(EventsOf(ring))
           /\ StrictlyOrdered(EventsOf(ring))
<1> DEFINE events == PolygonEvents(<<ring>>)
<1>1. <<ring>> \in Seq(Seq(Point))
  BY DEF RingInv
<1>2. events \in Seq(SiteRecord) /\ EventsFit(ToSet(events))
  BY <1>1, PolygonEventsFit
<1>3. IsFiniteSet(ToSet(events))
  <2> DEFINE T == 1..Len(events)
             E == ToSet(events)
             g == [k \in T |-> events[k]]
  <2>1. Len(events) \in Nat /\ DOMAIN events = T
    BY <1>2, LenProperties
  <2>2. IsFiniteSet(T)
    BY <2>1, UpTo
  <2>3. g \in Surjection(T, E)
    <3> HIDE DEF events
    <3> QED BY <2>1 DEF Surjection, ToSet
  <2> HIDE DEF g, T, E
  <2>4. IsFiniteSet(E)
    BY <2>2, <2>3, FS_Surjection
  <2> QED BY <2>4 DEF E
<1>4. EventsOf(ring) = ToSet(events)
  BY DEF EventsOf
<1> QED BY <1>2, <1>3, <1>4, SweepOrderStrict DEF RingInv, NoOverlaps

LEMMA RingQueue ==
    ASSUME RingInv
    PROVE  LET q == QueueOf(ring)
               E == EventsOf(ring)
           IN  /\ Len(q) \in Nat /\ DOMAIN q = 1..Len(q)
               /\ \A k \in 1..Len(q) : q[k] \in E
               /\ \A s \in E : \E k \in 1..Len(q) : q[k] = s
               /\ \A i, j \in 1..Len(q) : i < j => EventLess(q[i], q[j])
<1> DEFINE events == PolygonEvents(<<ring>>)
<1>1. IsFiniteSet(ToSet(events)) /\ StrictlyOrdered(ToSet(events)) /\ ToSet(events) \subseteq SiteRecord
  BY RingEventsFit DEF EventsOf, EventsFit
<1> HIDE DEF events
<1>2. LET q == SitesQueue(events)
          n == Cardinality(ToSet(events))
      IN  /\ n \in Nat /\ q \in Seq(SiteRecord) /\ Len(q) = n
          /\ \A k \in 1..n : q[k] \in ToSet(events)
          /\ \A s \in ToSet(events) : \E k \in 1..n : q[k] = s
          /\ \A i, j \in 1..n : i < j => EventLess(q[i], q[j])
  BY <1>1, QueueSorted
<1>3. QueueOf(ring) = SitesQueue(events) /\ EventsOf(ring) = ToSet(events)
  BY DEF QueueOf, EventsOf, events
<1> QED BY <1>2, <1>3, LenProperties

-----------------------------------------------------------------------------
(* For rings of any number of integer points in which no side runs along     *)
(* another one from the same start: event_comparison_predicate is a strict   *)
(* total order on the site events, as std::sort and std::unique need.        *)
THEOREM SweepOrderIsTotal == Spec => []SweepOrderTotal
<1>1. RingInv => SweepOrderTotal
  BY RingEventsFit DEF SweepOrderTotal
<1> QED BY <1>1, RingInit, RingStep, PTL DEF Spec

(* However such a ring is written down, open or closed, forwards or          *)
(* backwards, init_sites_queue makes the same queue of it.                   *)
THEOREM QueueIsOfTheOutline == Spec => []RepresentationIndependent
<1>1. RingInv => RepresentationIndependent
  <2> SUFFICES ASSUME RingInv PROVE RepresentationIndependent
    OBVIOUS
  <2>1. Len(ring) > 2 => QueueOf(ring) = QueueOf(Append(ring, ring[1]))
    BY EventsClosed, SameQueue DEF RingInv
  <2>2. QueueOf(ring) = QueueOf(Reverse(ring))
    BY EventsReversed, SameQueue DEF RingInv
  <2> QED BY <2>1, <2>2 DEF RepresentationIndependent
<1> QED BY <1>1, RingInit, RingStep, PTL DEF Spec

LEMMA SegmentInQueue ==
    ASSUME NEW s, SiteFits(s), IsSegment(s), NEW a, a = PointSite(s.p0), NEW b, b = PointSite(s.p1)
    PROVE  /\ SiteFits(a) /\ SiteFits(b) /\ IsPoint(a) /\ IsPoint(b)
           /\ EventLess(a, s) /\ EventLess(s, b)
<1>1. /\ s.p0 = <<s.p0[1], s.p0[2]>> /\ s.p1 = <<s.p1[1], s.p1[2]>>
      /\ s.p0[1] \in Int /\ s.p0[2] \in Int /\ s.p1[1] \in Int /\ s.p1[2] \in Int
      /\ PointLess(s.p0, s.p1)
  BY DEF SiteFits
<1>2. a.p0 = s.p0 /\ a.p1 = s.p0 /\ b.p0 = s.p1 /\ b.p1 = s.p1
  BY DEF PointSite
<1>3. IsPoint(a) /\ IsPoint(b)
  BY <1>2 DEF IsPoint, IsSegment
<1>4. SiteFits(a) /\ SiteFits(b)
  <2>1. a = [p0 |-> s.p0, p1 |-> s.p0] /\ b = [p0 |-> s.p1, p1 |-> s.p1]
    BY DEF PointSite
  <2> QED BY <1>1, <1>2, <1>3, <2>1 DEF SiteFits, IsPoint
<1>5. IsVertical(a) /\ IsVertical(b) /\ ~ IsPoint(s)
  BY <1>3, <1>4, SiteKinds
<1>6. EventLess(a, s)
  BY <1>1, <1>2, <1>3, <1>4, <1>5, EventLessIs DEF SiteBefore
<1>7. EventLess(s, b)
  <2>1. CASE s.p0[1] < s.p1[1]
    BY <1>2, <1>4, <2>1, EventLessIs
  <2>2. CASE s.p0[1] = s.p1[1] /\ s.p0[2] < s.p1[2]
    <3>1. IsVertical(s)
      BY <2>2 DEF IsVertical
    <3> QED BY <1>2, <1>4, <1>5, <2>2, <3>1, EventLessIs DEF SiteBefore
  <2> QED BY <1>1, <2>1, <2>2 DEF PointLess
<1> QED BY <1>3, <1>4, <1>6, <1>7

LEMMA SlantedRun ==
    ASSUME NEW s, NEW m, NEW t, SiteFits(s), SiteFits(m), SiteFits(t),
           ~ IsVertical(s), s.p0 = t.p0, EventLess(s, m), EventLess(m, t)
    PROVE  IsSegment(m) /\ m.p0 = s.p0
<1>1. /\ m.p0 = <<m.p0[1], m.p0[2]>> /\ s.p0 = <<s.p0[1], s.p0[2]>>
      /\ m.p0[1] \in Int /\ m.p0[2] \in Int /\ s.p0[1] \in Int /\ s.p0[2] \in Int
  BY DEF SiteFits
<1>2. m.p0[1] = s.p0[1] /\ SiteBefore(s, m) /\ SiteBefore(m, t)
  BY <1>1, EventLessIs
<1>3. ~ IsVertical(m) /\ m.p0[2] = s.p0[2]
  BY <1>1, <1>2 DEF SiteBefore
<1> QED BY <1>1, <1>2, <1>3, SiteKinds

(* In the queue of such a ring every segment has its first point before it   *)
(* and its second point after it, and the slanted segments that start in one  *)
(* point stand side by side: process_site_event takes them as one run.        *)
THEOREM EndPointsStandAroundSegments == Spec => []EndPointsAroundSegments
<1>1. RingInv => EndPointsAroundSegments
  <2> SUFFICES ASSUME RingInv PROVE EndPointsAroundSegments
    OBVIOUS
  <2> DEFINE q == QueueOf(ring)
             E == EventsOf(ring)
             n == Len(q)
  <2>1. /\ n \in Nat /\ DOMAIN q = 1..n /\ \A k \in 1..n : q[k] \in E
        /\ \A s \in E : \E k \in 1..n : q[k] = s
        /\ \A i, j \in 1..n : i < j => EventLess(q[i], q[j])
    BY RingQueue
  <2>2. /\ \A s \in E : IsSegment(s) => PointSite(s.p0) \in E /\ PointSite(s.p1) \in E
        /\ \A s \in E : SiteFits(s)
        /\ \A s, t \in E : ~ (EventLess(s, t) /\ EventLess(t, s))
    BY RingEventsFit, SitesFit DEF EventsFit, StrictlyOrdered
  <2> HIDE DEF q, E, n
  <2>3. ASSUME NEW k \in 1..n, IsSegment(q[k])
        PROVE  /\ \E i \in 1..(k - 1) : q[i] = PointSite(q[k].p0)
               /\ \E j \in (k + 1)..n : q[j] = PointSite(q[k].p1)
    <3> DEFINE a == PointSite(q[k].p0)
               b == PointSite(q[k].p1)
    <3>1. a \in E /\ b \in E /\ q[k] \in E /\ SiteFits(q[k])
      BY <2>1, <2>2, <2>3
    <3>2. IsPoint(a) /\ IsPoint(b) /\ EventLess(a, q[k]) /\ EventLess(q[k], b)
      BY <2>3, <3>1, SegmentInQueue
    <3> HIDE DEF a, b
    <3>3. PICK i \in 1..n : q[i] = a
      BY <2>1, <3>1
    <3>4. PICK j \in 1..n : q[j] = b
      BY <2>1, <3>1
    <3>5. i # k /\ j # k
      BY <2>3, <3>2, <3>3, <3>4 DEF IsPoint
    <3>6. ~ (k < i) /\ ~ (j < k)
      BY <2>1, <2>2, <3>1, <3>2, <3>3, <3>4
    <3>7. i \in 1..(k - 1) /\ j \in (k + 1)..n
      BY <2>1, <3>5, <3>6
    <3> QED BY <3>3, <3>4, <3>7 DEF a, b
  <2>4. ASSUME NEW k \in 1..n, IsSegment(q[k]), ~ IsVertical(q[k]),
               NEW j \in (k + 1)..n, q[j].p0 = q[k].p0, NEW m \in k..j
        PROVE  IsSegment(q[m]) /\ q[m].p0 = q[k].p0
    <3>1. /\ j \in 1..n /\ m \in 1..n
          /\ SiteFits(q[k]) /\ SiteFits(q[j]) /\ SiteFits(q[m])
      <4>1. j \in 1..n /\ m \in 1..n
        BY <2>1
      <4> QED BY <2>1, <2>2, <4>1
    <3>2. CASE m = k
      BY <2>4, <3>2
    <3>3. CASE m = j
      <4>1. EventLess(q[k], q[j])
        BY <2>1, <3>1
      <4>2. q[k].p0[1] \in Int /\ q[j].p0[1] \in Int /\ q[k].p0[1] = q[j].p0[1]
        BY <2>4, <3>1 DEF SiteFits
      <4>3. SiteBefore(q[k], q[j])
        BY <3>1, <4>1, <4>2, EventLessIs
      <4>4. ~ IsVertical(q[j])
        BY <2>4, <4>3 DEF SiteBefore
      <4> QED BY <2>4, <3>1, <3>3, <4>4, SiteKinds
    <3>4. CASE k < m /\ m < j
      <4>1. EventLess(q[k], q[m]) /\ EventLess(q[m], q[j])
        BY <2>1, <3>1, <3>4
      <4> QED BY <2>4, <3>1, <4>1, SlantedRun
    <3> QED BY <2>1, <3>2, <3>3, <3>4
  <2> QED BY <2>1, <2>3, <2>4 DEF EndPointsAroundSegments, q, n
<1> QED BY <1>1, RingInit, RingStep, PTL DEF Spec
=============================================================================
