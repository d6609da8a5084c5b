------------------------- MODULE SiteEventsProofs --------------------------
(***************************************************************************)
(* Proofs about the operators of SiteEvents, for polygons with any integer *)
(* coordinates: their events, the order of the sweep, and the queue.       *)
(***************************************************************************)
EXTENDS SiteEvents, NaturalsLemmas, SequenceTheorems

-----------------------------------------------------------------------------
(* The queue of sites. *)

LEMMA SetOfSeq ==
    ASSUME NEW S, NEW seq \in Seq(S)
    PROVE  ToSet(seq) = {seq[k] : k \in 1..Len(seq)} /\ ToSet(seq) \in SUBSET S
  BY LenProperties, ElementOfSeq DEF ToSet

LEMMA SetOfConcat ==
    ASSUME NEW S, NEW s \in Seq(S), NEW t \in Seq(S)
    PROVE  ToSet(s \o t) = ToSet(s) \cup ToSet(t)
<1>1. Range(s \o t) = Range(s) \cup Range(t)
  BY RangeConcatenation
<1> QED BY <1>1 DEF Range, ToSet

(* What the recursive function in FlattenSeq computes. *)
Elements(seqs, m) == UNION {ToSet(seqs[p]) : p \in 1..m}

Flattens(f, m, S, seqs) ==
    /\ f \in [1..m -> Seq(S)]
    /\ \A k \in 1..m : f[k] = IF k = 1 THEN seqs[k] ELSE f[k - 1] \o seqs[k]
    /\ \A k \in 1..m : ToSet(f[k]) = Elements(seqs, k)

LEMMA MoreElements ==
    ASSUME NEW m \in Nat, NEW seqs
    PROVE  Elements(seqs, m + 1) = Elements(seqs, m) \cup ToSet(seqs[m + 1])
<1>1. 1..(m + 1) = (1..m) \cup {m + 1}
  OBVIOUS
<1> QED BY <1>1 DEF Elements

LEMMA Flattened ==
    ASSUME NEW S, NEW seqs \in Seq(Seq(S))
    PROVE  /\ FlattenSeq(seqs) \in Seq(S)
           /\ ToSet(FlattenSeq(seqs)) = Elements(seqs, Len(seqs))
<1> DEFINE n == Len(seqs)
           Step(f) == [k \in 1..n |-> IF k = 1 THEN seqs[k] ELSE f[k - 1] \o seqs[k]]
           Partial(f, m) == Flattens(f, m, S, seqs)
           D == {m \in Nat : m <= n => \E f : Partial(f, m)}
<1>1. n \in Nat /\ \A k \in 1..n : seqs[k] \in Seq(S)
  BY LenProperties, ElementOfSeq
<1>2. CASE n = 0
  <2>1. seqs = <<>>
    BY <1>2, EmptySeq
  <2>2. FlattenSeq(seqs) = <<>>
    BY <1>2, <2>1 DEF FlattenSeq
  <2>3. ToSet(<<>>) = {}
    BY DEF ToSet
  <2>4. Elements(seqs, n) = {}
    BY <1>2 DEF Elements
  <2> QED BY <2>2, <2>3, <2>4, EmptySeq
<1>3. CASE n # 0
  <2>1. 0 \in D
    <3> DEFINE f == [k \in 1..0 |-> <<>>]
    <3>1. Partial(f, 0)
      BY DEF Flattens
    <3> QED BY <3>1
  <2>2. ASSUME NEW m \in Nat, m \in D PROVE m + 1 \in D
    <3> SUFFICES ASSUME m + 1 <= n PROVE \E f : Partial(f, m + 1)
      OBVIOUS
    <3>1. PICK f : Partial(f, m)
      <4>1. m <= n
        BY <1>1
      <4> QED BY <2>2, <4>1
    <3> DEFINE q == seqs[m + 1]
               x == IF m = 0 THEN q ELSE f[m] \o q
               g == [k \in 1..(m + 1) |-> IF k = m + 1 THEN x ELSE f[k]]
    <3>2. q \in Seq(S)
      BY <1>1
    <3>3. x \in Seq(S) /\ ToSet(x) = Elements(seqs, m + 1)
      <4>1. CASE m = 0
        <5>1. Elements(seqs, 1) = ToSet(seqs[1])
          BY DEF Elements
        <5> QED BY <3>2, <4>1, <5>1
      <4>2. CASE m # 0
        <5>1. m \in 1..m /\ f[m] \in Seq(S) /\ ToSet(f[m]) = Elements(seqs, m)
          BY <3>1, <4>2 DEF Flattens
        <5>2. f[m] \o q \in Seq(S) /\ ToSet(f[m] \o q) = ToSet(f[m]) \cup ToSet(q)
          BY <5>1, <3>2, SetOfConcat, ConcatProperties
        <5>3. Elements(seqs, m + 1) = Elements(seqs, m) \cup ToSet(q)
          BY MoreElements
        <5> HIDE DEF q
        <5> QED BY <4>2, <5>1, <5>2, <5>3
      <4> QED BY <4>1, <4>2
    <3>4. Partial(g, m + 1)
      <4> HIDE DEF x
      <4>1. g \in [1..(m + 1) -> Seq(S)]
        BY <3>1, <3>3 DEF Flattens
      <4>2. ASSUME NEW k \in 1..(m + 1)
            PROVE  /\ g[k] = IF k = 1 THEN seqs[k] ELSE g[k - 1] \o seqs[k]
                   /\ ToSet(g[k]) = Elements(seqs, k)
        <5>1. CASE k = m + 1
          <6>1. g[k] = x /\ (m # 0 => g[k - 1] = f[m])
            BY <5>1
          <6> QED BY <5>1, <6>1, <3>3 DEF x
        <5>2. CASE k # m + 1
          <6>1. k \in 1..m /\ g[k] = f[k] /\ (k # 1 => g[k - 1] = f[k - 1])
            BY <5>2
          <6> QED BY <6>1, <3>1 DEF Flattens
        <5> QED BY <5>1, <5>2
      <4> HIDE DEF g
      <4> QED BY <4>1, <4>2 DEF Flattens
    <3> QED BY <3>4
  <2>3. \E f : Partial(f, n)
    <3>1. n \in D
      <4> HIDE DEF D
      <4> QED BY <1>1, <2>1, <2>2, Induction
    <3>2. n <= n
      BY <1>1
    <3> QED BY <3>1, <3>2
  <2>4. PICK f : Partial(f, n)
    BY <2>3
  <2>5. f = Step(f)
    BY <2>4 DEF Flattens
  <2> DEFINE u == CHOOSE g : g = Step(g)
  <2>6. u = Step(u)
    <3> HIDE DEF Step
    <3> QED BY <2>5
  <2>7. FlattenSeq(seqs) = u[n]
    BY <1>3 DEF FlattenSeq
  <2>8. \A k \in 1..n : u[k] = IF k = 1 THEN seqs[k] ELSE u[k - 1] \o seqs[k]
    <3>1. \A k \in 1..n : Step(u)[k] = IF k = 1 THEN seqs[k] ELSE u[k - 1] \o seqs[k]
      OBVIOUS
    <3> HIDE DEF Step, u
    <3> QED BY <2>6, <3>1
  <2> HIDE DEF u
  <2>14. \A k \in 1..n : f[k] = IF k = 1 THEN seqs[k] ELSE f[k - 1] \o seqs[k]
    BY <2>4 DEF Flattens
  <2> DEFINE E == {m \in Nat : m \in 1..n => u[m] = f[m]}
  <2>9. 0 \in E
    OBVIOUS
  <2>10. ASSUME NEW m \in Nat, m \in E PROVE m + 1 \in E
    <3> SUFFICES ASSUME m + 1 \in 1..n PROVE u[m + 1] = f[m + 1]
      OBVIOUS
    <3>1. CASE m = 0
      <4>1. 1 \in 1..n
        BY <3>1
      <4>2. u[1] = seqs[1] /\ f[1] = seqs[1]
        BY <4>1, <2>8, <2>14, Zenon
      <4>3. m + 1 = 1
        BY <3>1
      <4> QED BY <4>2, <4>3
    <3>2. CASE m # 0
      <4>1. m \in 1..n /\ (m + 1) - 1 = m /\ m + 1 # 1
        BY <1>1, <3>2
      <4>2. u[m] = f[m]
        BY <2>10, <4>1
      <4>3. m + 1 \in 1..n
        OBVIOUS
      <4>4. u[m + 1] = u[m] \o seqs[m + 1]
        BY <4>1, <4>3, <2>8, Zenon
      <4>5. f[m + 1] = f[m] \o seqs[m + 1]
        BY <4>1, <4>3, <2>14, Zenon
      <4> QED BY <4>2, <4>4, <4>5
    <3> QED BY <3>1, <3>2
  <2>11. n \in E
    <3> HIDE DEF E
    <3> QED BY <1>1, <2>9, <2>10, Induction
  <2>12. n \in 1..n /\ u[n] = f[n]
    BY <1>1, <1>3, <2>11
  <2> QED BY <2>4, <2>7, <2>12 DEF Flattens
<1> QED BY <1>2, <1>3


Point == Int \X Int
SiteRecord == [p0 : Point, p1 : Point]

(* Distinct events listed by rank: each once, and in their order. *)
LEMMA QueueSorted ==
    ASSUME NEW events, IsFiniteSet(ToSet(events)), StrictlyOrdered(ToSet(events)),
           NEW S, ToSet(events) \subseteq S
    PROVE  LET q == SitesQueue(events)
               n == Cardinality(ToSet(events))
           IN  /\ n \in Nat /\ q \in Seq(S) /\ Len(q) = n
               /\ \A k \in 1..n : q[k] \in ToSet(events)
               /\ \A s \in ToSet(events) : \E k \in 1..n : q[k] = s
               /\ \A i, j \in 1..n : i < j => EventLess(q[i], q[j])
<1> DEFINE E == ToSet(events)
           n == Cardinality(E)
           q == SitesQueue(events)
           Before(s) == {t \in E : EventLess(t, s)}
           rank(s) == Cardinality(Before(s))
           g == [s \in E |-> rank(s) + 1]
<1>1. /\ IsFiniteSet(E) /\ n \in Nat
      /\ \A s, t \in E : /\ s # t <=> (EventLess(s, t) \/ EventLess(t, s))
                         /\ ~ (EventLess(s, t) /\ EventLess(t, s))
                         /\ \A u \in E : EventLess(s, t) /\ EventLess(t, u) => EventLess(s, u)
  BY FS_CardinalityType DEF StrictlyOrdered
<1>3. q = [k \in 1..n |-> CHOOSE s \in E : rank(s) = k - 1]
  BY DEF SitesQueue
<1> HIDE DEF E
<1>4. \A s \in E : /\ IsFiniteSet(Before(s)) /\ rank(s) \in Nat /\ rank(s) + 1 \in 1..n
  <2> SUFFICES ASSUME NEW s \in E
               PROVE  IsFiniteSet(Before(s)) /\ rank(s) \in Nat /\ rank(s) + 1 \in 1..n
    OBVIOUS
  <2>1. Before(s) \in SUBSET E /\ s \notin Before(s)
    BY <1>1
  <2> HIDE DEF Before
  <2>2. IsFiniteSet(Before(s)) /\ rank(s) <= n /\ (n = rank(s) => E = Before(s))
    BY <1>1, <2>1, FS_Subset
  <2>3. rank(s) \in Nat
    BY <2>2, FS_CardinalityType
  <2>4. rank(s) # n
    BY <2>1, <2>2
  <2> HIDE DEF n, rank
  <2> QED BY <1>1, <2>2, <2>3, <2>4
<1>5. ASSUME NEW s \in E, NEW t \in E, EventLess(s, t) PROVE rank(s) < rank(t)
  <2>1. Before(s) \in SUBSET Before(t) /\ s \in Before(t) /\ s \notin Before(s)
    BY <1>1, <1>5
  <2>2. IsFiniteSet(Before(t)) /\ rank(s) \in Nat /\ rank(t) \in Nat
    BY <1>4
  <2> HIDE DEF Before
  <2>3. rank(s) <= rank(t) /\ (rank(t) = rank(s) => Before(t) = Before(s))
    BY <2>1, <2>2, FS_Subset
  <2>4. rank(t) # rank(s)
    BY <2>1, <2>3
  <2> HIDE DEF rank
  <2> QED BY <2>2, <2>3, <2>4
<1> HIDE DEF rank
<1>6. \A s, t \in E : rank(s) = rank(t) => s = t
  <2> SUFFICES ASSUME NEW s \in E, NEW t \in E, rank(s) = rank(t), s # t PROVE FALSE
    OBVIOUS
  <2>1. rank(s) \in Nat /\ rank(t) \in Nat
    BY <1>4
  <2>2. EventLess(s, t) \/ EventLess(t, s)
    BY <1>1
  <2>3. rank(s) < rank(t) \/ rank(t) < rank(s)
    BY <1>5, <2>2
  <2> QED BY <2>1, <2>3
<1>7. \A k \in 1..n : \E s \in E : rank(s) = k - 1
  <2>0. \A s \in E : g[s] = rank(s) + 1 /\ rank(s) \in Nat
    BY <1>4
  <2>1. g \in [E -> 1..n]
    BY <1>4
  <2> HIDE DEF g
  <2>2. \A s, t \in E : g[s] = g[t] => s = t
    BY <2>0, <1>6
  <2>3. g \in Injection(E, 1..n)
    BY <2>1, <2>2 DEF Injection, IsInjective
  <2>4. IsFiniteSet(1..n) /\ Cardinality(1..n) = n
    BY <1>1, UpTo
  <2>5. g \in Surjection(E, 1..n)
    <3> DEFINE T == 1..n
    <3> HIDE DEF T
    <3> QED BY <2>3, <2>4, FS_Injection DEF T
  <2> SUFFICES ASSUME NEW k \in 1..n PROVE \E s \in E : rank(s) = k - 1
    OBVIOUS
  <2>6. PICK s \in E : g[s] = k
    BY <2>5 DEF Surjection
  <2>7. rank(s) + 1 = k /\ rank(s) \in Nat
    BY <2>0, <2>6
  <2>8. rank(s) = k - 1
    BY <2>7
  <2> QED BY <2>8
<1> HIDE DEF g, n
<1>8. \A k \in 1..n : q[k] \in E /\ rank(q[k]) = k - 1
  BY <1>3, <1>7
<1>9. q \in [1..n -> E] /\ DOMAIN q = 1..n
  BY <1>3, <1>8
<1> HIDE DEF q
<1>10. q \in Seq(S) /\ Len(q) = n
  <2>1. q \in [1..n -> S]
    BY <1>9 DEF E
  <2>2. q \in Seq(S)
    BY <1>1, <2>1, SeqDef
  <2> QED BY <1>1, <1>9, <2>2, LenProperties
<1>11. ASSUME NEW s \in E PROVE \E k \in 1..n : q[k] = s
  <2>1. rank(s) \in Nat /\ rank(s) + 1 \in 1..n
    BY <1>4, <1>11, Zenon
  <2>3. (rank(s) + 1) - 1 = rank(s)
    BY <2>1
  <2>2. q[rank(s) + 1] \in E /\ rank(q[rank(s) + 1]) = rank(s)
    BY <1>8, <2>1, <2>3
  <2> QED BY <1>6, <1>11, <2>1, <2>2, Zenon
<1>12. ASSUME NEW i \in 1..n, NEW j \in 1..n, i < j PROVE EventLess(q[i], q[j])
  <2>1. q[i] \in E /\ q[j] \in E /\ rank(q[i]) = i - 1 /\ rank(q[j]) = j - 1
    BY <1>8
  <2>2. q[i] # q[j] /\ ~ (rank(q[j]) < rank(q[i]))
    BY <1>1, <1>12, <2>1
  <2> QED BY <1>1, <1>5, <2>1, <2>2
<1> QED BY <1>1, <1>8, <1>10, <1>11, <1>12 DEF E, n, q

(* The events of a polygon: every segment between two point events. *)
EventsFit(E) ==
    /\ E \subseteq SiteRecord
    /\ \A s \in E : IsSegment(s) => /\ PointLess(s.p0, s.p1)
                                   /\ PointSite(s.p0) \in E /\ PointSite(s.p1) \in E

LEMMA SegmentEventsFit ==
    ASSUME NEW seg \in Point \X Point
    PROVE  /\ SegmentEvents(seg) \in Seq(SiteRecord)
           /\ ToSet(SegmentEvents(seg))
                = {PointSite(seg[1]), PointSite(seg[2]), SegmentSite(seg[1], seg[2])}
           /\ EventsFit(ToSet(SegmentEvents(seg)))
<1>1. seg[1] \in Point /\ seg[2] \in Point
  OBVIOUS
<1> DEFINE a == PointSite(seg[1])
           b == PointSite(seg[2])
           c == SegmentSite(seg[1], seg[2])
<1>2. a \in SiteRecord /\ b \in SiteRecord /\ c \in SiteRecord
  BY <1>1 DEF PointSite, SegmentSite, SiteRecord
<1>3. IsPoint(a) /\ IsPoint(b)
  BY DEF IsPoint, IsSegment, PointSite
<1>4. IsSegment(c) => /\ PointLess(c.p0, c.p1)
                      /\ PointSite(c.p0) \in {a, b} /\ PointSite(c.p1) \in {a, b}
  <2>1. CASE PointLess(seg[1], seg[2])
    BY <2>1 DEF SegmentSite
  <2>2. CASE ~ PointLess(seg[1], seg[2])
    <3>1. c = [p0 |-> seg[2], p1 |-> seg[1]]
      BY <2>2 DEF SegmentSite
    <3>2. PointLess(seg[2], seg[1]) \/ seg[1] = seg[2]
      BY <1>1, <2>2 DEF PointLess, Point
    <3> QED BY <3>1, <3>2 DEF IsSegment
  <2> QED BY <2>1, <2>2
<1>5. SegmentEvents(seg) = <<a, b, c>>
  BY DEF SegmentEvents
<1> HIDE DEF a, b, c
<1>6. ToSet(<<a, b, c>>) = {a, b, c} /\ <<a, b, c>> \in Seq(SiteRecord)
  BY <1>2 DEF ToSet
<1>7. EventsFit({a, b, c})
  BY <1>2, <1>3, <1>4 DEF EventsFit, IsPoint
<1> QED BY <1>5, <1>6, <1>7 DEF a, b, c

LEMMA RingSegmentsTyped ==
    ASSUME NEW ring \in Seq(Point)
    PROVE  RingSegments(ring) \in Seq(Point \X Point)
<1> DEFINE n == Len(ring)
           sides == [k \in 1..(n - 1) |-> <<ring[k], ring[k + 1]>>]
<1>1. n \in Nat /\ \A k \in 1..n : ring[k] \in Point
  BY LenProperties, ElementOfSeq
<1>2. sides \in Seq(Point \X Point)
  <2>1. CASE n = 0
    <3>1. sides = <<>>
      BY <2>1
    <3> QED BY <3>1, EmptySeq
  <2>2. CASE n # 0
    <3>1. n - 1 \in Nat /\ \A k \in 1..(n - 1) : k \in 1..n /\ k + 1 \in 1..n
      BY <1>1, <2>2
    <3>2. \A k \in 1..(n - 1) : <<ring[k], ring[k + 1]>> \in Point \X Point
      BY <1>1, <3>1
    <3>3. sides \in [1..(n - 1) -> Point \X Point]
      BY <3>2
    <3> HIDE DEF sides
    <3> QED BY <3>1, <3>3, SeqDef
  <2> QED BY <2>1, <2>2
<1>3. n > 2 => <<ring[n], ring[1]>> \in Point \X Point
  <2>1. n > 2 => n \in 1..n /\ 1 \in 1..n
    BY <1>1
  <2> QED BY <1>1, <2>1
<1>4. RingSegments(ring)
        = IF n > 2 /\ ring[1] # ring[n] THEN Append(sides, <<ring[n], ring[1]>>) ELSE sides
  BY DEF RingSegments
<1> HIDE DEF sides, n
<1> QED BY <1>2, <1>3, <1>4, AppendProperties

LEMMA MapSeq ==
    ASSUME NEW S, NEW n \in Nat, NEW f \in [1..n -> S]
    PROVE  f \in Seq(S) /\ Len(f) = n
<1>1. f \in Seq(S)
  BY SeqDef
<1> QED BY <1>1, LenProperties

LEMMA PolygonEventsFit ==
    ASSUME NEW polygon \in Seq(Seq(Point))
    PROVE  /\ PolygonEvents(polygon) \in Seq(SiteRecord)
           /\ EventsFit(ToSet(PolygonEvents(polygon)))
<1> DEFINE rings == [k \in DOMAIN polygon |-> RingSegments(polygon[k])]
           segs == PolygonSegments(polygon)
           each == [k \in DOMAIN segs |-> SegmentEvents(segs[k])]
<1>1. rings \in Seq(Seq(Point \X Point))
  <2>1. Len(polygon) \in Nat /\ DOMAIN polygon = 1..Len(polygon)
    BY LenProperties
  <2>2. \A k \in 1..Len(polygon) : RingSegments(polygon[k]) \in Seq(Point \X Point)
    BY ElementOfSeq, RingSegmentsTyped
  <2>3. rings \in [1..Len(polygon) -> Seq(Point \X Point)]
    BY <2>1, <2>2
  <2> HIDE DEF rings
  <2> QED BY <2>1, <2>3, MapSeq
<1>2. segs \in Seq(Point \X Point)
  <2>1. segs = FlattenSeq(rings)
    BY DEF PolygonSegments
  <2> HIDE DEF segs, rings
  <2> QED BY <1>1, <2>1, Flattened
<1>3. PolygonEvents(polygon) = FlattenSeq(each)
  BY DEF PolygonEvents
<1> HIDE DEF segs
<1>4. /\ Len(segs) \in Nat /\ DOMAIN segs = 1..Len(segs)
      /\ \A k \in 1..Len(segs) : segs[k] \in Point \X Point
  BY <1>2, LenProperties, ElementOfSeq
<1>5. /\ each \in Seq(Seq(SiteRecord)) /\ Len(each) = Len(segs)
      /\ \A k \in 1..Len(segs) : EventsFit(ToSet(each[k]))
  <2>1. each \in [1..Len(segs) -> Seq(SiteRecord)]
    BY <1>4, SegmentEventsFit
  <2>2. \A k \in 1..Len(segs) : EventsFit(ToSet(each[k]))
    BY <1>4, SegmentEventsFit
  <2> HIDE DEF each
  <2> QED BY <1>4, <2>1, <2>2, MapSeq
<1> HIDE DEF each
<1>6. /\ FlattenSeq(each) \in Seq(SiteRecord)
      /\ ToSet(FlattenSeq(each)) = UNION {ToSet(each[k]) : k \in 1..Len(each)}
  BY <1>5, Flattened DEF Elements
<1>7. EventsFit(UNION {ToSet(each[k]) : k \in 1..Len(each)})
  BY <1>5 DEF EventsFit
<1> QED BY <1>3, <1>6, <1>7

-----------------------------------------------------------------------------
(* The order of the sweep. *)

LEMMA Scaled ==
    ASSUME NEW x \in Int, NEW y \in Int, NEW k \in Nat \ {0}
    PROVE  x * k > y * k <=> x > y
  OBVIOUS

(* Of directions to the right, given by their slopes, the relation "steeper" *)
(* is transitive.                                                           *)
LEMMA SteeperThanSteeper ==
    ASSUME NEW a \in Nat \ {0}, NEW b \in Nat \ {0}, NEW c \in Nat \ {0},
           NEW p \in Int, NEW q \in Int, NEW r \in Int, p * b > a * q, q * c > b * r
    PROVE  p * c > a * r
<1>1. (p * b) * c > (a * q) * c
  BY Scaled
<1>2. (q * c) * a > (b * r) * a
  BY Scaled
<1>3. /\ (p * b) * c = (p * c) * b /\ (a * q) * c = (q * c) * a
      /\ (b * r) * a = (a * r) * b
  OBVIOUS
<1>4. (p * c) * b > (a * r) * b
  BY <1>1, <1>2, <1>3
<1> QED BY <1>4, Scaled

Dx(s) == s.p1[1] - s.p0[1]
Dy(s) == s.p1[2] - s.p0[2]

(* Numbers of a site, for the provers of arithmetic. *)
SiteFits(s) ==
    /\ s = [p0 |-> <<s.p0[1], s.p0[2]>>, p1 |-> <<s.p1[1], s.p1[2]>>]
    /\ s.p0[1] \in Int /\ s.p0[2] \in Int /\ s.p1[1] \in Int /\ s.p1[2] \in Int
    /\ IsSegment(s) => PointLess(s.p0, s.p1)

Steeper(s, t) == Dy(s) * Dx(t) > Dx(s) * Dy(t)

SiteBefore(s, t) ==
    \/ IsVertical(s) /\ ~ IsVertical(t)
    \/ /\ IsVertical(s) /\ IsVertical(t)
       /\ \/ s.p0[2] < t.p0[2]
          \/ s.p0[2] = t.p0[2] /\ IsPoint(s) /\ IsSegment(t)
    \/ /\ ~ IsVertical(s) /\ ~ IsVertical(t)
       /\ \/ s.p0[2] < t.p0[2]
          \/ s.p0[2] = t.p0[2] /\ Steeper(s, t)

LEMMA SiteKinds ==
    ASSUME NEW s, SiteFits(s)
    PROVE  /\ IsPoint(s) => IsVertical(s)
           /\ IsPoint(s) <=> s.p1 = s.p0
           /\ IsSegment(s) <=> ~ IsPoint(s)
           /\ IsVertical(s) <=> Dx(s) = 0
           /\ ~ IsVertical(s) => Dx(s) \in Nat \ {0}
           /\ Dx(s) \in Int /\ Dy(s) \in Int
  BY DEF SiteFits, IsPoint, IsSegment, IsVertical, Dx, Dy, PointLess

LEMMA OneOrderFromOneStart ==
    ASSUME NEW s, NEW t, SiteFits(s), SiteFits(t), s.p0 = t.p0
    PROVE  /\ Determinant(s.p1, s.p0, t.p1) = Dy(s) * Dx(t) - Dx(s) * Dy(t)
           /\ TurnsLeft(s.p1, s.p0, t.p1) <=> Steeper(s, t)
<1> DEFINE ax == Dx(s)
           ay == Dy(s)
           bx == Dx(t)
           by == Dy(t)
<1>1. ax \in Int /\ ay \in Int /\ bx \in Int /\ by \in Int
  BY SiteKinds
<1>2. /\ s.p1[1] - s.p0[1] = ax /\ s.p1[2] - s.p0[2] = ay
      /\ s.p0[2] - t.p1[2] = 0 - by /\ s.p0[1] - t.p1[1] = 0 - bx
  BY DEF SiteFits, Dx, Dy
<1>3. Determinant(s.p1, s.p0, t.p1) = ax * (0 - by) - ay * (0 - bx)
  BY <1>2 DEF Determinant
<1> HIDE DEF ax, ay, bx, by
<1>4. ax * (0 - by) - ay * (0 - bx) = ay * bx - ax * by
  BY <1>1
<1>5. Determinant(s.p1, s.p0, t.p1) = ay * bx - ax * by
  BY <1>3, <1>4
<1>6. ay * bx - ax * by > 0 <=> ay * bx > ax * by
  BY <1>1
<1> QED BY <1>5, <1>6 DEF TurnsLeft, Steeper, ax, ay, bx, by

LEMMA EventLessIs ==
    ASSUME NEW s, NEW t, SiteFits(s), SiteFits(t)
    PROVE  EventLess(s, t) <=> \/ s.p0[1] < t.p0[1]
                               \/ s.p0[1] = t.p0[1] /\ SiteBefore(s, t)
<1> SUFFICES ASSUME s.p0[1] = t.p0[1]
             PROVE  (IF IsPoint(s) THEN PointBefore(s, t) ELSE SegmentBefore(s, t)) <=> SiteBefore(s, t)
  BY DEF EventLess
<1>0. s.p0[2] \in Int /\ t.p0[2] \in Int
  BY DEF SiteFits
<1>1. CASE IsPoint(s)
  BY <1>0, <1>1, SiteKinds DEF PointBefore, SiteBefore
<1>2. CASE ~ IsPoint(s) /\ IsVertical(t)
  BY <1>0, <1>2, SiteKinds DEF SegmentBefore, SiteBefore
<1>3. CASE ~ IsPoint(s) /\ ~ IsVertical(t) /\ IsVertical(s)
  BY <1>0, <1>3, SiteKinds DEF SegmentBefore, SiteBefore
<1>4. CASE ~ IsPoint(s) /\ ~ IsVertical(t) /\ ~ IsVertical(s)
  <2>1. s.p0[2] = t.p0[2] => s.p0 = t.p0
    BY DEF SiteFits
  <2>2. s.p0[2] = t.p0[2] => (TurnsLeft(s.p1, s.p0, t.p1) <=> Steeper(s, t))
    BY <2>1, OneOrderFromOneStart
  <2>3. SegmentBefore(s, t) <=> \/ s.p0[2] < t.p0[2]
                                \/ s.p0[2] = t.p0[2] /\ TurnsLeft(s.p1, s.p0, t.p1)
    BY <1>4 DEF SegmentBefore
  <2> QED BY <1>4, <2>2, <2>3 DEF SiteBefore
<1> QED BY <1>1, <1>2, <1>3, <1>4

(* Two of the sites that one start and one column have. *)
LEMMA DifferentBefore ==
    ASSUME NEW s, NEW t, SiteFits(s), SiteFits(t), s # t, ~ Overlap(s, t), s.p0[1] = t.p0[1]
    PROVE  SiteBefore(s, t) \/ SiteBefore(t, s)
<1>0. s.p0[2] \in Int /\ t.p0[2] \in Int
  BY DEF SiteFits
<1>1. CASE s.p0 = t.p0
  <2>1. IsSegment(s) \/ IsSegment(t)
    BY <1>1, SiteKinds DEF SiteFits
  <2>2. CASE IsSegment(s) /\ IsSegment(t)
    <3> DEFINE x == Dy(s) * Dx(t)
               y == Dx(s) * Dy(t)
    <3>1. Dx(s) \in Int /\ Dy(s) \in Int /\ Dx(t) \in Int /\ Dy(t) \in Int
      BY SiteKinds
    <3>2. x - y # 0
      BY <1>1, <2>2, OneOrderFromOneStart DEF Overlap
    <3>3. ~ (IsVertical(s) /\ IsVertical(t))
      <4>1. IsVertical(s) /\ IsVertical(t) => x = 0 /\ y = 0
        BY <3>1, SiteKinds
      <4> HIDE DEF x, y
      <4> QED BY <3>2, <4>1
    <3>4. x \in Int /\ y \in Int /\ (Steeper(s, t) <=> x > y)
      BY <3>1 DEF Steeper
    <3>5. Steeper(t, s) <=> y > x
      <4>1. Dy(t) * Dx(s) = y /\ Dx(t) * Dy(s) = x
        BY <3>1
      <4> HIDE DEF x, y
      <4> QED BY <4>1 DEF Steeper
    <3> HIDE DEF x, y
    <3>6. Steeper(s, t) \/ Steeper(t, s)
      BY <3>2, <3>4, <3>5
    <3> QED BY <1>1, <3>3, <3>6 DEF SiteBefore
  <2>3. CASE IsPoint(s) \/ IsPoint(t)
    BY <1>1, <2>1, <2>3, SiteKinds DEF SiteBefore
  <2> QED BY <2>2, <2>3, SiteKinds
<1>2. CASE s.p0 # t.p0
  <2>1. s.p0[2] # t.p0[2]
    BY <1>2 DEF SiteFits
  <2> QED BY <1>0, <2>1 DEF SiteBefore
<1> QED BY <1>1, <1>2

LEMMA NotBothBefore ==
    ASSUME NEW s, NEW t, SiteFits(s), SiteFits(t)
    PROVE  ~ (SiteBefore(s, t) /\ SiteBefore(t, s))
<1>0. s.p0[2] \in Int /\ t.p0[2] \in Int
  BY DEF SiteFits
<1>1. ~ (Steeper(s, t) /\ Steeper(t, s))
  <2> DEFINE x == Dy(s) * Dx(t)
             y == Dx(s) * Dy(t)
  <2>1. Dx(s) \in Int /\ Dy(s) \in Int /\ Dx(t) \in Int /\ Dy(t) \in Int
    BY SiteKinds
  <2>2. x \in Int /\ y \in Int /\ Dy(t) * Dx(s) = y /\ Dx(t) * Dy(s) = x
    BY <2>1
  <2> HIDE DEF x, y
  <2>3. ~ (x > y /\ y > x)
    BY <2>2
  <2> QED BY <2>2, <2>3 DEF Steeper, x, y
<1> QED BY <1>0, <1>1, SiteKinds DEF SiteBefore

LEMMA BeforeTransitive ==
    ASSUME NEW s, NEW t, NEW u, SiteFits(s), SiteFits(t), SiteFits(u), SiteBefore(s, t), SiteBefore(t, u)
    PROVE  SiteBefore(s, u)
<1>0. s.p0[2] \in Int /\ t.p0[2] \in Int /\ u.p0[2] \in Int
  BY DEF SiteFits
<1>1. CASE IsVertical(t)
  BY <1>0, <1>1, SiteKinds DEF SiteBefore
<1>2. CASE ~ IsVertical(t) /\ IsVertical(s)
  BY <1>2 DEF SiteBefore
<1>3. CASE ~ IsVertical(t) /\ ~ IsVertical(s)
  <2>1. ~ IsVertical(u)
    BY <1>3 DEF SiteBefore
  <2>2. Steeper(s, t) /\ Steeper(t, u) => Steeper(s, u)
    <3>1. /\ Dx(s) \in Nat \ {0} /\ Dx(t) \in Nat \ {0} /\ Dx(u) \in Nat \ {0}
          /\ Dy(s) \in Int /\ Dy(t) \in Int /\ Dy(u) \in Int
      BY <1>3, <2>1, SiteKinds
    <3> QED BY <3>1, SteeperThanSteeper DEF Steeper
  <2> QED BY <1>0, <1>3, <2>1, <2>2 DEF SiteBefore
<1> QED BY <1>1, <1>2, <1>3

LEMMA SitesFit ==
    ASSUME NEW E, EventsFit(E), NEW s \in E
    PROVE  SiteFits(s)
<1>1. s \in SiteRecord /\ (IsSegment(s) => PointLess(s.p0, s.p1))
  BY DEF EventsFit
<1> QED BY <1>1 DEF SiteFits, SiteRecord, Point

(* event_comparison_predicate is a strict total order on the events of any   *)
(* integer polygon, if no side runs along another one from the same start.   *)
LEMMA SweepOrderStrict ==
    ASSUME NEW E, EventsFit(E), \A s, t \in E : ~ Overlap(s, t)
    PROVE  StrictlyOrdered(E)
<1> SUFFICES ASSUME NEW s \in E, NEW t \in E
             PROVE  /\ s # t <=> (EventLess(s, t) \/ EventLess(t, s))
                    /\ ~ (EventLess(s, t) /\ EventLess(t, s))
                    /\ \A u \in E : EventLess(s, t) /\ EventLess(t, u) => EventLess(s, u)
  BY DEF StrictlyOrdered
<1>1. \A u \in E : SiteFits(u)
  BY SitesFit
<1>2. \A u \in E : u.p0[1] \in Int
  BY <1>1 DEF SiteFits
<1>3. \A u, v \in E : EventLess(u, v) <=> \/ u.p0[1] < v.p0[1]
                                          \/ u.p0[1] = v.p0[1] /\ SiteBefore(u, v)
  BY <1>1, EventLessIs
<1>4. ~ (EventLess(s, t) /\ EventLess(t, s))
  BY <1>1, <1>2, <1>3, NotBothBefore
<1>5. s # t => EventLess(s, t) \/ EventLess(t, s)
  BY <1>1, <1>2, <1>3, DifferentBefore
<1>6. \A u \in E : EventLess(s, t) /\ EventLess(t, u) => EventLess(s, u)
  BY <1>1, <1>2, <1>3, BeforeTransitive
<1> QED BY <1>4, <1>5, <1>6
=============================================================================
