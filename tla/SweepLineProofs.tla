-------------------------- MODULE SweepLineProofs --------------------------
(***************************************************************************)
(* Proofs about HalfEdges: for every set of sites, the graph that is built *)
(* by adding sites and joining open half-edges is well typed, well linked  *)
(* and trivalent, and no link is ever overwritten.                         *)
(*                                                                         *)
(* Proofs about SweepLine: for every polygon, and whatever the order of    *)
(* circle events, beach line, queues and graph agree, the sweep uses the   *)
(* half-edge graph as HalfEdgeSpec allows, the containers never grow       *)
(* beyond what was reserved for them, and in the end the half-edges of     *)
(* each cell hang together.                                                *)
(***************************************************************************)
EXTENDS SweepLine, SiteEventsProofs

-----------------------------------------------------------------------------
(* The graph.                                                               *)

(* Two rows pushed onto a column of the edge table. *)
LEMMA PushColumn ==
    ASSUME NEW S, NEW column \in [1..numEdges -> S], numEdges \in Nat,
           NEW a \in S, NEW b \in S
    PROVE  Push(column, a, b) \in [1..(numEdges + 2) -> S]
  BY DEF Push

LEMMA Widen ==
    ASSUME NEW D, NEW A, NEW B, A \subseteq B, NEW f \in [D -> A]
    PROVE  f \in [D -> B]
  OBVIOUS

(* The links after a circle event, one half-edge at a time. *)
LEMMA JoinedColumns ==
    ASSUME GraphTypeOK, NEW e12 \in Edge, NEW e23 \in Edge, TwinsPaired,
           e12 # e23, twin[e12] # e23
    PROVE  /\ DOMAIN StartAtNewVertex(e12, e23) = 1..(numEdges + 2)
           /\ DOMAIN LinkNext(e12, e23) = 1..(numEdges + 2)
           /\ DOMAIN LinkPrev(e12, e23) = 1..(numEdges + 2)
           /\ \A e \in 1..(numEdges + 2) :
                /\ StartAtNewVertex(e12, e23)[e] =
                     IF e = e23 THEN numVertices + 1
                     ELSE IF e = e12 THEN numVertices + 1
                     ELSE IF e = numEdges + 1 THEN Null
                     ELSE IF e = numEdges + 2 THEN numVertices + 1 ELSE vertex0[e]
                /\ LinkNext(e12, e23)[e] =
                     IF e = twin[e23] THEN numEdges + 2
                     ELSE IF e = twin[e12] THEN e23
                     ELSE IF e = numEdges + 1 THEN e12
                     ELSE IF e = numEdges + 2 THEN Null ELSE next[e]
                /\ LinkPrev(e12, e23)[e] =
                     IF e = numEdges + 2 THEN twin[e23]
                     ELSE IF e = e23 THEN twin[e12]
                     ELSE IF e = e12 THEN numEdges + 1
                     ELSE IF e = numEdges + 1 THEN Null ELSE prev[e]
<1>1. /\ e12 \in 1..numEdges /\ e23 \in 1..numEdges /\ numEdges \in Nat
      /\ twin[e12] \in 1..numEdges /\ twin[e23] \in 1..numEdges
      /\ twin[e12] # twin[e23]
      /\ numVertices \in Nat /\ vertex0 \in [1..numEdges -> 0..numVertices]
      /\ next \in [1..numEdges -> 0..numEdges] /\ prev \in [1..numEdges -> 0..numEdges]
  BY DEF GraphTypeOK, TwinsPaired, Edge
<1>2. /\ DOMAIN StartAtNewVertex(e12, e23) = 1..(numEdges + 2)
      /\ DOMAIN LinkNext(e12, e23) = 1..(numEdges + 2)
      /\ DOMAIN LinkPrev(e12, e23) = 1..(numEdges + 2)
  BY DEF StartAtNewVertex, LinkNext, LinkPrev, Push
<1>3. ASSUME NEW e \in 1..(numEdges + 2)
      PROVE  StartAtNewVertex(e12, e23)[e] =
                     IF e = e23 THEN numVertices + 1
                     ELSE IF e = e12 THEN numVertices + 1
                     ELSE IF e = numEdges + 1 THEN Null
                     ELSE IF e = numEdges + 2 THEN numVertices + 1 ELSE vertex0[e]
  BY <1>1 DEF StartAtNewVertex, Push, Null
<1>4. ASSUME NEW e \in 1..(numEdges + 2)
      PROVE  LinkNext(e12, e23)[e] =
                     IF e = twin[e23] THEN numEdges + 2
                     ELSE IF e = twin[e12] THEN e23
                     ELSE IF e = numEdges + 1 THEN e12
                     ELSE IF e = numEdges + 2 THEN Null ELSE next[e]
  BY <1>1 DEF LinkNext, Push, Null
<1>5. ASSUME NEW e \in 1..(numEdges + 2)
      PROVE  LinkPrev(e12, e23)[e] =
                     IF e = numEdges + 2 THEN twin[e23]
                     ELSE IF e = e23 THEN twin[e12]
                     ELSE IF e = e12 THEN numEdges + 1
                     ELSE IF e = numEdges + 1 THEN Null ELSE prev[e]
  BY <1>1 DEF LinkPrev, Push, Null
<1> QED BY <1>2, <1>3, <1>4, <1>5

-----------------------------------------------------------------------------
(* The two ways the graph grows, as facts about single half-edges. *)

LEMMA AddSiteEffect ==
    ASSUME GraphTypeOK, NEW s1 \in Site, NEW s2 \in Site, InsertSiteEdge(s1, s2)
    PROVE  /\ GraphTypeOK'
           /\ numEdges' = numEdges + 2
           /\ \A e \in Edge' :
                /\ e \in Edge => /\ cell'[e] = cell[e] /\ twin'[e] = twin[e]
                                 /\ vertex0'[e] = vertex0[e]
                                 /\ next'[e] = next[e] /\ prev'[e] = prev[e]
                /\ e \notin Edge => vertex0'[e] = Null /\ next'[e] = Null /\ prev'[e] = Null
           /\ cell'[numEdges + 1] = s1 /\ cell'[numEdges + 2] = s2
           /\ twin'[numEdges + 1] = numEdges + 2 /\ twin'[numEdges + 2] = numEdges + 1
<1> USE DEF Edge, Null
<1>1. numEdges \in Nat /\ numEdges' = numEdges + 2 /\ numVertices' = numVertices
  BY DEF GraphTypeOK, InsertSiteEdge
<1>2. cells' \in Seq(Site)
  BY DEF GraphTypeOK, InsertSiteEdge, PushCells
<1>3. /\ cell' = Push(cell, s1, s2)
      /\ twin' = Push(twin, numEdges + 2, numEdges + 1)
      /\ vertex0' = Push(vertex0, 0, 0)
      /\ next' = Push(next, 0, 0) /\ prev' = Push(prev, 0, 0)
  BY DEF InsertSiteEdge
<1>4. /\ cell \in [1..numEdges -> Site] /\ twin \in [1..numEdges -> 1..numEdges]
      /\ vertex0 \in [1..numEdges -> 0..numVertices] /\ numVertices \in Nat
      /\ next \in [1..numEdges -> 0..numEdges] /\ prev \in [1..numEdges -> 0..numEdges]
  BY DEF GraphTypeOK
<1>5. cell' \in [1..(numEdges + 2) -> Site]
  BY <1>1, <1>3, <1>4, PushColumn
<1>6. twin' \in [1..(numEdges + 2) -> 1..(numEdges + 2)]
  <2>1. 1..numEdges \subseteq 1..(numEdges + 2)
    BY <1>1
  <2>2. twin \in [1..numEdges -> 1..(numEdges + 2)]
    BY <1>4, <2>1, Widen
  <2>3. numEdges + 1 \in 1..(numEdges + 2) /\ numEdges + 2 \in 1..(numEdges + 2)
    BY <1>1
  <2> QED BY <1>1, <1>3, <2>2, <2>3, PushColumn
<1>7. vertex0' \in [1..(numEdges + 2) -> 0..numVertices]
  <2>1. 0 \in 0..numVertices
    BY <1>4
  <2> QED BY <1>1, <1>3, <1>4, <2>1, PushColumn
<1>8. /\ next' \in [1..(numEdges + 2) -> 0..(numEdges + 2)]
      /\ prev' \in [1..(numEdges + 2) -> 0..(numEdges + 2)]
  <2>0. 0..numEdges \subseteq 0..(numEdges + 2) /\ 0 \in 0..(numEdges + 2)
    BY <1>1
  <2>1. /\ next \in [1..numEdges -> 0..(numEdges + 2)]
        /\ prev \in [1..numEdges -> 0..(numEdges + 2)]
    BY <1>4, <2>0, Widen
  <2>2. next' \in [1..(numEdges + 2) -> 0..(numEdges + 2)]
    BY <1>1, <1>3, <2>0, <2>1, PushColumn
  <2>3. prev' \in [1..(numEdges + 2) -> 0..(numEdges + 2)]
    BY <1>1, <1>3, <2>0, <2>1, PushColumn
  <2> QED BY <2>2, <2>3
<1>9. GraphTypeOK'
  <2>1. /\ cells' \in Seq(Site) /\ numVertices' \in Nat /\ numEdges' \in Nat
        /\ 1..numEdges' = 1..(numEdges + 2)
    BY <1>1, <1>2, <1>4
  <2> QED BY <1>1, <1>5, <1>6, <1>7, <1>8, <2>1 DEF GraphTypeOK
<1>10. ASSUME NEW e \in 1..(numEdges + 2)
       PROVE  /\ e \in 1..numEdges => /\ cell'[e] = cell[e] /\ twin'[e] = twin[e]
                                      /\ vertex0'[e] = vertex0[e]
                                      /\ next'[e] = next[e] /\ prev'[e] = prev[e]
              /\ e \notin 1..numEdges => vertex0'[e] = 0 /\ next'[e] = 0 /\ prev'[e] = 0
  <2>1. CASE e \in 1..numEdges
    <3>1. e # numEdges + 1 /\ e # numEdges + 2
      BY <1>1, <2>1
    <3> QED BY <1>3, <2>1, <3>1 DEF Push
  <2>2. CASE e \notin 1..numEdges
    <3>1. e = numEdges + 1 \/ e = numEdges + 2
      BY <1>1, <2>2
    <3> QED BY <1>3, <2>2, <3>1 DEF Push
  <2> QED BY <2>1, <2>2
<1>11. /\ cell'[numEdges + 1] = s1 /\ cell'[numEdges + 2] = s2
       /\ twin'[numEdges + 1] = numEdges + 2 /\ twin'[numEdges + 2] = numEdges + 1
  BY <1>1, <1>3, <1>4 DEF Push
<1> QED BY <1>1, <1>9, <1>10, <1>11

LEMMA ExceptTyped ==
    ASSUME NEW D, NEW S, NEW f \in [D -> S], NEW d, NEW v \in S
    PROVE  [f EXCEPT ![d] = v] \in [D -> S]
  OBVIOUS

LEMMA JoinEffect ==
    ASSUME GraphTypeOK, TwinsPaired, NEW e12 \in Edge, NEW e23 \in Edge,
           e12 # e23, twin[e12] # e23, NEW s1 \in Site, NEW s3 \in Site,
           InsertCircleEdge(s1, s3, e12, e23)
    PROVE  /\ GraphTypeOK'
           /\ numEdges' = numEdges + 2 /\ numVertices' = numVertices + 1
           /\ cells' = cells
           /\ \A e \in Edge : cell'[e] = cell[e] /\ twin'[e] = twin[e]
           /\ cell'[numEdges + 1] = s1 /\ cell'[numEdges + 2] = s3
           /\ twin'[numEdges + 1] = numEdges + 2 /\ twin'[numEdges + 2] = numEdges + 1
           /\ \A e \in 1..(numEdges + 2) :
                /\ vertex0'[e] =
                     IF e = e23 THEN numVertices + 1
                     ELSE IF e = e12 THEN numVertices + 1
                     ELSE IF e = numEdges + 1 THEN Null
                     ELSE IF e = numEdges + 2 THEN numVertices + 1 ELSE vertex0[e]
                /\ next'[e] =
                     IF e = twin[e23] THEN numEdges + 2
                     ELSE IF e = twin[e12] THEN e23
                     ELSE IF e = numEdges + 1 THEN e12
                     ELSE IF e = numEdges + 2 THEN Null ELSE next[e]
                /\ prev'[e] =
                     IF e = numEdges + 2 THEN twin[e23]
                     ELSE IF e = e23 THEN twin[e12]
                     ELSE IF e = e12 THEN numEdges + 1
                     ELSE IF e = numEdges + 1 THEN Null ELSE prev[e]
<1>1. /\ numEdges \in Nat /\ numVertices \in Nat /\ cells \in Seq(Site)
      /\ numEdges' = numEdges + 2 /\ numVertices' = numVertices + 1 /\ cells' = cells
      /\ cell' = Push(cell, s1, s3)
      /\ twin' = Push(twin, numEdges + 2, numEdges + 1)
      /\ vertex0' = StartAtNewVertex(e12, e23)
      /\ next' = LinkNext(e12, e23) /\ prev' = LinkPrev(e12, e23)
  BY DEF GraphTypeOK, InsertCircleEdge
<1>2. /\ cell \in [1..numEdges -> Site] /\ twin \in [1..numEdges -> 1..numEdges]
      /\ vertex0 \in [1..numEdges -> 0..numVertices]
      /\ next \in [1..numEdges -> 0..numEdges] /\ prev \in [1..numEdges -> 0..numEdges]
      /\ e12 \in 1..numEdges /\ e23 \in 1..numEdges
      /\ twin[e12] \in 1..numEdges /\ twin[e23] \in 1..numEdges
  BY DEF GraphTypeOK, Edge
<1>3. /\ 1..numEdges \subseteq 1..(numEdges + 2)
      /\ 0..numEdges \subseteq 0..(numEdges + 2)
      /\ 0..numVertices \subseteq 0..(numVertices + 1)
      /\ numEdges + 1 \in 1..(numEdges + 2) /\ numEdges + 2 \in 1..(numEdges + 2)
      /\ Null \in 0..(numEdges + 2) /\ Null \in 0..(numVertices + 1)
      /\ numVertices + 1 \in 0..(numVertices + 1)
  BY <1>1 DEF Null
<1>4. /\ cell' \in [1..(numEdges + 2) -> Site]
      /\ cell'[numEdges + 1] = s1 /\ cell'[numEdges + 2] = s3
  <2>1. Push(cell, s1, s3) \in [1..(numEdges + 2) -> Site]
    BY <1>1, <1>2, PushColumn
  <2> QED BY <1>1, <2>1 DEF Push
<1>5. /\ twin' \in [1..(numEdges + 2) -> 1..(numEdges + 2)]
      /\ twin'[numEdges + 1] = numEdges + 2 /\ twin'[numEdges + 2] = numEdges + 1
  <2>1. twin \in [1..numEdges -> 1..(numEdges + 2)]
    BY <1>2, <1>3, Widen
  <2>2. Push(twin, numEdges + 2, numEdges + 1) \in [1..(numEdges + 2) -> 1..(numEdges + 2)]
    BY <1>1, <1>3, <2>1, PushColumn
  <2> QED BY <1>1, <2>2 DEF Push
<1>6. \A e \in Edge : cell'[e] = cell[e] /\ twin'[e] = twin[e]
  <2> SUFFICES ASSUME NEW e \in 1..numEdges
               PROVE  cell'[e] = cell[e] /\ twin'[e] = twin[e]
    BY DEF Edge
  <2>1. e \in 1..(numEdges + 2) /\ e # numEdges + 1 /\ e # numEdges + 2
    BY <1>1
  <2> QED BY <1>1, <2>1 DEF Push
<1>7. vertex0' \in [1..(numEdges + 2) -> 0..(numVertices + 1)]
  <2>1. vertex0 \in [1..numEdges -> 0..(numVertices + 1)]
    BY <1>2, <1>3, Widen
  <2>2. Push(vertex0, Null, numVertices + 1) \in [1..(numEdges + 2) -> 0..(numVertices + 1)]
    BY <1>1, <1>3, <2>1, PushColumn
  <2> QED BY <1>1, <1>3, <2>2, ExceptTyped DEF StartAtNewVertex
<1>8. next' \in [1..(numEdges + 2) -> 0..(numEdges + 2)]
  <2>1. next \in [1..numEdges -> 0..(numEdges + 2)]
    BY <1>2, <1>3, Widen
  <2>2. Push(next, Null, Null) \in [1..(numEdges + 2) -> 0..(numEdges + 2)]
    BY <1>1, <1>3, <2>1, PushColumn
  <2>3. e12 \in 0..(numEdges + 2) /\ e23 \in 0..(numEdges + 2) /\ numEdges + 2 \in 0..(numEdges + 2)
    BY <1>1, <1>2
  <2> QED BY <1>1, <2>2, <2>3, ExceptTyped DEF LinkNext
<1>9. prev' \in [1..(numEdges + 2) -> 0..(numEdges + 2)]
  <2>1. prev \in [1..numEdges -> 0..(numEdges + 2)]
    BY <1>2, <1>3, Widen
  <2>2. Push(prev, Null, Null) \in [1..(numEdges + 2) -> 0..(numEdges + 2)]
    BY <1>1, <1>3, <2>1, PushColumn
  <2>0. /\ \A k \in 1..numEdges : k \in 0..(numEdges + 2)
        /\ numEdges + 1 \in 0..(numEdges + 2)
    BY <1>1
  <2>3. /\ twin[e12] \in 0..(numEdges + 2) /\ twin[e23] \in 0..(numEdges + 2)
        /\ numEdges + 1 \in 0..(numEdges + 2)
    BY <1>2, <2>0
  <2> QED BY <1>1, <2>2, <2>3, ExceptTyped DEF LinkPrev
<1>10. GraphTypeOK'
  <2>1. /\ cells' \in Seq(Site) /\ numVertices' \in Nat /\ numEdges' \in Nat
    BY <1>1
  <2> QED BY <1>1, <1>4, <1>5, <1>7, <1>8, <1>9, <2>1 DEF GraphTypeOK, Edge
<1> QED BY <1>1, <1>4, <1>5, <1>6, <1>10, JoinedColumns
-----------------------------------------------------------------------------
(* The inductive invariant.  The links lead somewhere only because the      *)
(* columns are typed, and a join keeps them inverse only because an open    *)
(* half-edge has no predecessor and its twin no successor.                  *)
GraphInv == GraphTypeOK /\ WellLinked

LEMMA InitGraphInv == GraphInit => GraphInv
<1> SUFFICES ASSUME GraphInit PROVE GraphInv
  OBVIOUS
<1>1. Edge = {}
  BY DEF GraphInit, Edge
<1>2. GraphTypeOK
  BY <1>1 DEF GraphInit, GraphTypeOK
<1>3. WellLinked
  BY <1>1 DEF WellLinked, TwinsPaired, LinksFollowVertices, LinksInverse, LinksStayInCell
<1> QED BY <1>2, <1>3 DEF GraphInv

LEMMA SingleSiteKeepsGraphInv ==
    ASSUME GraphInv, 1 \in Site, ProcessSingleSite(1)
    PROVE  GraphInv'
<1>1. GraphTypeOK'
  <2>1. cells' \in Seq(Site)
    BY AppendProperties DEF GraphInv, GraphTypeOK, ProcessSingleSite
  <2> QED BY <2>1 DEF GraphInv, GraphTypeOK, ProcessSingleSite, Edge
<1>2. WellLinked'
  BY DEF GraphInv, WellLinked, TwinsPaired, LinksFollowVertices, LinksInverse,
         LinksStayInCell, ProcessSingleSite, Edge, Vertex1, Null
<1> QED BY <1>1, <1>2 DEF GraphInv

(* What the invariant says of one half-edge, in the arithmetic the provers  *)
(* work with.                                                               *)
LEMMA EdgeFacts ==
    ASSUME GraphInv
    PROVE  /\ numEdges \in Nat /\ numVertices \in Nat
           /\ \A e \in 1..numEdges :
                /\ cell[e] \in Site
                /\ twin[e] \in 1..numEdges /\ twin[e] # e /\ twin[twin[e]] = e
                /\ vertex0[e] \in 0..numVertices
                /\ next[e] \in 0..numEdges /\ prev[e] \in 0..numEdges
                /\ prev[e] = 0 <=> vertex0[e] = 0
                /\ next[e] = 0 <=> vertex0[twin[e]] = 0
                /\ next[e] # 0 => /\ next[e] \in 1..numEdges /\ prev[next[e]] = e
                                  /\ cell[next[e]] = cell[e]
                                  /\ vertex0[next[e]] = vertex0[twin[e]]
                /\ prev[e] # 0 => prev[e] \in 1..numEdges /\ next[prev[e]] = e
<1>1. /\ numEdges \in Nat /\ numVertices \in Nat
      /\ \A e \in 1..numEdges : /\ cell[e] \in Site /\ twin[e] \in 1..numEdges
                                /\ vertex0[e] \in 0..numVertices
                                /\ next[e] \in 0..numEdges /\ prev[e] \in 0..numEdges
  BY DEF GraphInv, GraphTypeOK, Edge
<1>2. \A k \in 0..numEdges : k # 0 => k \in 1..numEdges
  BY <1>1
<1> QED
  BY <1>1, <1>2 DEF GraphInv, WellLinked, TwinsPaired, LinksFollowVertices, LinksInverse,
                    LinksStayInCell, Edge, Null, Vertex1

LEMMA AddSiteKeepsGraphInv ==
    ASSUME GraphInv, NEW s1 \in Site, NEW s2 \in Site, InsertSiteEdge(s1, s2)
    PROVE  GraphInv'
<1>1. GraphTypeOK'
  BY AddSiteEffect DEF GraphInv
<1>0. /\ GraphTypeOK /\ numEdges \in Nat /\ numEdges' = numEdges + 2
      /\ \A e \in 1..numEdges : e \in 1..(numEdges + 2)
      /\ numEdges + 1 \in 1..(numEdges + 2) /\ numEdges + 1 \notin 1..numEdges
      /\ numEdges + 2 \in 1..(numEdges + 2) /\ numEdges + 2 \notin 1..numEdges
  BY DEF GraphInv, GraphTypeOK, InsertSiteEdge
<1>2. /\ numEdges \in Nat /\ numEdges' = numEdges + 2
      /\ \A e \in 1..numEdges : /\ cell'[e] = cell[e] /\ twin'[e] = twin[e]
                                /\ vertex0'[e] = vertex0[e]
                                /\ next'[e] = next[e] /\ prev'[e] = prev[e]
      /\ \A e \in {numEdges + 1, numEdges + 2} :
            /\ vertex0'[e] = 0 /\ next'[e] = 0 /\ prev'[e] = 0
      /\ twin'[numEdges + 1] = numEdges + 2 /\ twin'[numEdges + 2] = numEdges + 1
  BY <1>0, AddSiteEffect DEF Edge, Null
<1> SUFFICES ASSUME NEW e \in 1..(numEdges + 2)
             PROVE  /\ twin'[e] # e /\ twin'[twin'[e]] = e
                    /\ prev'[e] = 0 <=> vertex0'[e] = 0
                    /\ next'[e] = 0 <=> vertex0'[twin'[e]] = 0
                    /\ next'[e] # 0 => /\ prev'[next'[e]] = e
                                       /\ cell'[next'[e]] = cell'[e]
                                       /\ vertex0'[next'[e]] = vertex0'[twin'[e]]
                    /\ prev'[e] # 0 => next'[prev'[e]] = e
  BY <1>1, <1>2 DEF GraphInv, WellLinked, TwinsPaired, LinksFollowVertices, LinksInverse,
                    LinksStayInCell, Edge, Null, Vertex1
<1>3. CASE e \in 1..numEdges
  BY <1>2, <1>3, EdgeFacts
<1>4. CASE e = numEdges + 1 \/ e = numEdges + 2
  BY <1>2, <1>4
<1> QED BY <1>2, <1>3, <1>4
(* What a join finds and does, with n old half-edges, the new ones n + 1    *)
(* and n + 2, the twins t12 and t23 of the joined ones, and the vertex v.   *)
Joined(e12, e23, t12, t23, n, v) ==
    /\ n = numEdges /\ v = numVertices + 1 /\ t12 = twin[e12] /\ t23 = twin[e23]
    /\ n \in Nat /\ v \in Nat /\ v # 0 /\ numEdges' = n + 2 /\ numVertices' = v
    /\ e12 \in 1..n /\ e23 \in 1..n /\ t12 \in 1..n /\ t23 \in 1..n
    /\ e12 # e23 /\ e12 # t12 /\ e12 # t23 /\ e23 # t12 /\ e23 # t23 /\ t12 # t23
    /\ twin[t12] = e12 /\ twin[t23] = e23
    /\ prev[e12] = 0 /\ prev[e23] = 0 /\ next[t12] = 0 /\ next[t23] = 0
    /\ vertex0[e12] = 0 /\ vertex0[e23] = 0
    /\ cell[t12] = cell[e23] /\ cells' = cells
    /\ \A e \in 1..n : /\ cell'[e] = cell[e] /\ twin'[e] = twin[e]
                       /\ e # e12 /\ e # e23 => vertex0'[e] = vertex0[e] /\ prev'[e] = prev[e]
                       /\ e # t12 /\ e # t23 => next'[e] = next[e]
    /\ vertex0'[e12] = v /\ vertex0'[e23] = v
    /\ vertex0'[n + 1] = 0 /\ vertex0'[n + 2] = v
    /\ prev'[e12] = n + 1 /\ prev'[e23] = t12 /\ prev'[n + 1] = 0 /\ prev'[n + 2] = t23
    /\ next'[t12] = e23 /\ next'[t23] = n + 2 /\ next'[n + 1] = e12 /\ next'[n + 2] = 0
    /\ cell'[n + 1] = cell[e12] /\ cell'[n + 2] = cell[t23]
    /\ twin'[n + 1] = n + 2 /\ twin'[n + 2] = n + 1

LEMMA JoinFacts ==
    ASSUME GraphInv, NEW e12 \in Edge, NEW e23 \in Edge, JoinBisectors(e12, e23),
           NEW n, n = numEdges, NEW v, v = numVertices + 1,
           NEW t12, t12 = twin[e12], NEW t23, t23 = twin[e23]
    PROVE  GraphTypeOK' /\ Joined(e12, e23, t12, t23, n, v)
<1>1. /\ n \in Nat /\ v \in Nat /\ v # 0
      /\ \A e \in 1..n : e \in 1..(n + 2) /\ e # n + 1 /\ e # n + 2
      /\ n + 1 \in 1..(n + 2) /\ n + 2 \in 1..(n + 2) /\ n + 1 # n + 2
  BY DEF GraphInv, GraphTypeOK
<1>2. /\ e12 \in 1..n /\ e23 \in 1..n /\ e12 # e23 /\ t12 # e23
      /\ vertex0[e12] = 0 /\ vertex0[e23] = 0 /\ cell[t12] = cell[e23]
      /\ InsertCircleEdge(cell[e12], cell[t23], e12, e23)
  BY DEF JoinBisectors, Open, Edge, Null
<1>3. /\ t12 \in 1..n /\ t23 \in 1..n
      /\ e12 # t12 /\ e12 # t23 /\ e23 # t23 /\ t12 # t23
      /\ twin[t12] = e12 /\ twin[t23] = e23
      /\ prev[e12] = 0 /\ prev[e23] = 0 /\ next[t12] = 0 /\ next[t23] = 0
      /\ cell[e12] \in Site /\ cell[t23] \in Site
  BY <1>2, EdgeFacts
<1>4. GraphTypeOK /\ TwinsPaired
  BY DEF GraphInv, WellLinked
<1>5. /\ GraphTypeOK'
      /\ numEdges' = n + 2 /\ numVertices' = v /\ cells' = cells
      /\ \A e \in 1..n : cell'[e] = cell[e] /\ twin'[e] = twin[e]
      /\ cell'[n + 1] = cell[e12] /\ cell'[n + 2] = cell[t23]
      /\ twin'[n + 1] = n + 2 /\ twin'[n + 2] = n + 1
      /\ \A e \in 1..(n + 2) :
            /\ vertex0'[e] = IF e = e23 THEN v ELSE IF e = e12 THEN v
                              ELSE IF e = n + 1 THEN 0 ELSE IF e = n + 2 THEN v ELSE vertex0[e]
            /\ next'[e] = IF e = t23 THEN n + 2 ELSE IF e = t12 THEN e23
                           ELSE IF e = n + 1 THEN e12 ELSE IF e = n + 2 THEN 0 ELSE next[e]
            /\ prev'[e] = IF e = n + 2 THEN t23 ELSE IF e = e23 THEN t12
                           ELSE IF e = e12 THEN n + 1 ELSE IF e = n + 1 THEN 0 ELSE prev[e]
  BY <1>2, <1>3, <1>4, JoinEffect DEF Edge, Null
<1> QED BY <1>1, <1>2, <1>3, <1>5 DEF Joined

LEMMA JoinKeepsGraphInv ==
    ASSUME GraphInv, NEW e12 \in Edge, NEW e23 \in Edge, JoinBisectors(e12, e23)
    PROVE  GraphInv'
<1>1. PICK n, v, t12, t23 : GraphTypeOK' /\ Joined(e12, e23, t12, t23, n, v)
  BY JoinFacts
<1> DEFINE Linked(e) ==
            /\ twin'[e] # e /\ twin'[twin'[e]] = e
            /\ prev'[e] = 0 <=> vertex0'[e] = 0
            /\ next'[e] = 0 <=> vertex0'[twin'[e]] = 0
            /\ next'[e] # 0 => /\ prev'[next'[e]] = e
                               /\ cell'[next'[e]] = cell'[e]
                               /\ vertex0'[next'[e]] = vertex0'[twin'[e]]
            /\ prev'[e] # 0 => next'[prev'[e]] = e
<1>2. SUFFICES ASSUME NEW e \in 1..(n + 2) PROVE Linked(e)
  BY <1>1 DEF Joined, GraphInv, WellLinked, TwinsPaired, LinksFollowVertices, LinksInverse,
              LinksStayInCell, Edge, Null, Vertex1
<1>3. CASE e = n + 1
  BY <1>1, <1>3 DEF Joined
<1>4. CASE e = n + 2
  BY <1>1, <1>4 DEF Joined
<1>5. CASE e \in {e12, e23, t12, t23}
  BY <1>1, <1>5, EdgeFacts DEF Joined
<1>6. CASE e \in 1..n /\ e \notin {e12, e23, t12, t23}
  BY <1>1, <1>6, EdgeFacts DEF Joined
<1>7. n \in Nat
  BY <1>1 DEF Joined
<1> QED BY <1>2, <1>3, <1>4, <1>5, <1>6, <1>7
LEMMA StepKeepsGraphInv == GraphInv /\ [GraphNext]_graphVars => GraphInv'
<1> SUFFICES ASSUME GraphInv, [GraphNext]_graphVars PROVE GraphInv'
  OBVIOUS
<1>1. CASE cells = <<>> /\ 1 \in Site /\ ProcessSingleSite(1)
  BY <1>1, SingleSiteKeepsGraphInv
<1>2. CASE \E s1, s2 \in Site : AddSite(s1, s2)
  BY <1>2, AddSiteKeepsGraphInv DEF AddSite
<1>3. CASE \E e12, e23 \in Edge : JoinBisectors(e12, e23)
  BY <1>3, JoinKeepsGraphInv
<1>4. CASE UNCHANGED graphVars
  BY <1>4 DEF GraphInv, GraphTypeOK, WellLinked, TwinsPaired, LinksFollowVertices,
              LinksInverse, LinksStayInCell, graphVars, Edge, Vertex1
<1> QED BY <1>1, <1>2, <1>3, <1>4 DEF GraphNext

LEMMA InvariantGraphInv == HalfEdgeSpec => []GraphInv
BY InitGraphInv, StepKeepsGraphInv, PTL DEF HalfEdgeSpec

(* The graph is well typed and well linked for every set of sites: whoever  *)
(* follows twin, next, prev and vertex0 in medial_axis.hpp stays in edges_, *)
(* comes back the way it went and never leaves the cell.                    *)
THEOREM GraphWellLinked == HalfEdgeSpec => [](GraphTypeOK /\ WellLinked)
<1>1. GraphInv => GraphTypeOK /\ WellLinked
  BY DEF GraphInv
<1> QED BY <1>1, InvariantGraphInv, PTL

-----------------------------------------------------------------------------
(* A half-edge's start vertex and links are set once: no circle event       *)
(* overwrites a pointer that an earlier one has set.                        *)
THEOREM LinksArePermanent == HalfEdgeSpec => LinksPermanent
<1> DEFINE Kept(e) == /\ ~ Open(e) => vertex0'[e] = vertex0[e] /\ prev'[e] = prev[e]
                      /\ next[e] # Null => next'[e] = next[e]
                      /\ cell'[e] = cell[e] /\ twin'[e] = twin[e]
<1>1. ASSUME GraphInv, GraphNext, NEW e \in Edge PROVE Kept(e)
  <2>1. CASE cells = <<>> /\ 1 \in Site /\ ProcessSingleSite(1)
    BY <2>1 DEF ProcessSingleSite
  <2>2. CASE \E s1, s2 \in Site : AddSite(s1, s2)
    <3>1. PICK s1 \in Site, s2 \in Site : InsertSiteEdge(s1, s2)
      BY <2>2 DEF AddSite
    <3>2. GraphTypeOK /\ numEdges \in Nat /\ numEdges' = numEdges + 2
      BY <1>1, <3>1 DEF GraphInv, GraphTypeOK, InsertSiteEdge
    <3>3. e \in Edge'
      BY <1>1, <3>2 DEF Edge
    <3> QED BY <1>1, <3>1, <3>2, <3>3, AddSiteEffect
  <2>3. CASE \E e12, e23 \in Edge : JoinBisectors(e12, e23)
    <3>1. PICK e12 \in Edge, e23 \in Edge : JoinBisectors(e12, e23)
      BY <2>3
    <3>2. PICK n, v, t12, t23 : GraphTypeOK' /\ Joined(e12, e23, t12, t23, n, v)
      BY <1>1, <3>1, JoinFacts
    <3>3. e \in 1..n
      BY <1>1, <3>2 DEF Joined, Edge
    <3> QED BY <3>2, <3>3 DEF Joined, Open, Null
  <2> QED BY <1>1, <2>1, <2>2, <2>3 DEF GraphNext
<1>2. GraphInv /\ [GraphNext]_graphVars => [\A e \in Edge : Kept(e)]_graphVars
  BY <1>1
<1> QED BY <1>2, InvariantGraphInv, PTL DEF HalfEdgeSpec, LinksPermanent
-----------------------------------------------------------------------------
(* A vertex and its three half-edges: a join starts exactly three at a      *)
(* vertex no other half-edge knows, and an older vertex keeps its own.      *)
LEMMA StepKeepsTrivalent ==
    ASSUME GraphInv, Trivalent, [GraphNext]_graphVars
    PROVE  Trivalent'
<1> DEFINE Turn(e) == twin[prev[e]]
           Around(e) == /\ e # Turn(e) /\ Turn(e) # Turn(Turn(e)) /\ Turn(Turn(e)) # e
                        /\ Turn(Turn(Turn(e))) = e
                        /\ \A h \in 1..numEdges :
                             vertex0[h] = vertex0[e] <=> h \in {e, Turn(e), Turn(Turn(e))}
                        /\ Turn(e) \in 1..numEdges /\ Turn(Turn(e)) \in 1..numEdges
<1>1. ASSUME NEW e \in 1..numEdges, vertex0[e] # 0
      PROVE  Around(e)
  <2>1. /\ e # Turn(e) /\ Turn(e) # Turn(Turn(e)) /\ Turn(Turn(e)) # e
        /\ Turn(Turn(Turn(e))) = e
        /\ {h \in 1..numEdges : vertex0[h] = vertex0[e]} = {e, Turn(e), Turn(Turn(e))}
    BY <1>1 DEF Trivalent, Open, Edge, Null, RotNext
  <2> HIDE DEF Turn
  <2>2. Turn(e) \in {e, Turn(e), Turn(Turn(e))} /\ Turn(Turn(e)) \in {e, Turn(e), Turn(Turn(e))}
    OBVIOUS
  <2>3. /\ \A h \in 1..numEdges : vertex0[h] = vertex0[e] <=> h \in {e, Turn(e), Turn(Turn(e))}
        /\ Turn(e) \in 1..numEdges /\ Turn(Turn(e)) \in 1..numEdges
    BY <2>1, <2>2
  <2> QED BY <2>1, <2>3
<1>2. SUFFICES ASSUME NEW e \in 1..numEdges', vertex0'[e] # 0 PROVE Around(e)'
  BY DEF Trivalent, Open, Edge, Null, RotNext
<1>3. ASSUME e \in 1..numEdges, vertex0[e] # 0, 1..numEdges \subseteq 1..numEdges',
             \A h \in 1..numEdges : vertex0[h] # 0 =>
                 vertex0'[h] = vertex0[h] /\ Turn(h)' = Turn(h),
             \A h \in 1..numEdges' : vertex0'[h] = vertex0[e] =>
                 h \in 1..numEdges /\ vertex0[h] = vertex0[e]
      PROVE  Around(e)'
  <2>1. PICK f \in 1..numEdges, g \in 1..numEdges :
            /\ f = Turn(e) /\ g = Turn(f) /\ e = Turn(g)
            /\ e # f /\ f # g /\ g # e
            /\ \A h \in 1..numEdges : vertex0[h] = vertex0[e] <=> h \in {e, f, g}
    BY <1>1, <1>3
  <2>2. Turn(e)' = f /\ Turn(f)' = g /\ Turn(g)' = e
    BY <1>3, <2>1
  <2>3. \A h \in 1..numEdges' : vertex0'[h] = vertex0'[e] <=> h \in {e, f, g}
    BY <1>3, <2>1
  <2>4. Turn(Turn(e))' = g /\ Turn(Turn(Turn(e)))' = e
    BY <2>2
  <2>5. f \in 1..numEdges' /\ g \in 1..numEdges'
    BY <1>3, <2>1
  <2> QED BY <2>1, <2>2, <2>3, <2>4, <2>5
<1>4. CASE UNCHANGED <<numEdges, twin, vertex0, next, prev>>
  BY <1>1, <1>2, <1>4
<1>5. CASE \E s1, s2 \in Site : InsertSiteEdge(s1, s2)
  <2>1. PICK s1 \in Site, s2 \in Site : InsertSiteEdge(s1, s2)
    BY <1>5
  <2>2. /\ numEdges \in Nat /\ numEdges' = numEdges + 2
        /\ 1..numEdges \subseteq 1..numEdges'
        /\ numEdges + 1 \in 1..numEdges' /\ numEdges + 1 \notin 1..numEdges
        /\ numEdges + 2 \in 1..numEdges' /\ numEdges + 2 \notin 1..numEdges
        /\ \A h \in 1..numEdges' : h \notin 1..numEdges => h \in {numEdges + 1, numEdges + 2}
    BY <2>1, EdgeFacts DEF InsertSiteEdge
  <2>3. /\ \A h \in 1..numEdges : /\ twin'[h] = twin[h] /\ prev'[h] = prev[h]
                                  /\ vertex0'[h] = vertex0[h]
        /\ \A h \in 1..numEdges' : h \notin 1..numEdges => vertex0'[h] = 0
    BY <2>1, <2>2, AddSiteEffect DEF GraphInv, Edge, Null
  <2>4. \A h \in 1..numEdges : vertex0[h] # 0 => Turn(h)' = Turn(h)
    BY <2>3, EdgeFacts
  <2> QED BY <1>2, <1>3, <2>2, <2>3, <2>4
<1>6. CASE \E e12, e23 \in Edge : JoinBisectors(e12, e23)
  <2>1. PICK e12 \in Edge, e23 \in Edge : JoinBisectors(e12, e23)
    BY <1>6
  <2>2. PICK n, v, t12, t23 : GraphTypeOK' /\ Joined(e12, e23, t12, t23, n, v)
    BY <2>1, JoinFacts
  <2>3. \A h \in 1..n : vertex0[h] # v
    BY <2>2, EdgeFacts DEF Joined
  <2>4. CASE e \in 1..n /\ e \notin {e12, e23}
    <3>1. 1..numEdges \subseteq 1..numEdges'
      BY <2>2 DEF Joined
    <3>2. \A h \in 1..numEdges : vertex0[h] # 0 =>
              vertex0'[h] = vertex0[h] /\ Turn(h)' = Turn(h)
      BY <2>2, EdgeFacts DEF Joined
    <3>3. \A h \in 1..numEdges' : vertex0'[h] = vertex0[e] =>
              h \in 1..numEdges /\ vertex0[h] = vertex0[e]
      BY <1>2, <2>2, <2>3, <2>4 DEF Joined
    <3> QED BY <1>2, <1>3, <2>2, <2>4, <3>1, <3>2, <3>3 DEF Joined
  <2>5. CASE e \in {e12, e23, n + 2}
    <3>1. {h \in 1..numEdges' : vertex0'[h] = v} = {e12, e23, n + 2}
      BY <2>2, <2>3 DEF Joined
    <3>2. Turn(e12)' = n + 2 /\ Turn(n + 2)' = e23 /\ Turn(e23)' = e12
      BY <2>2 DEF Joined
    <3> QED BY <2>2, <2>5, <3>1, <3>2 DEF Joined
  <2>6. e # n + 1
    BY <1>2, <2>2 DEF Joined
  <2> QED BY <1>2, <2>2, <2>4, <2>5, <2>6 DEF Joined
<1> QED BY <1>4, <1>5, <1>6 DEF GraphNext, ProcessSingleSite, AddSite, graphVars
(* Every vertex of the graph is the start of exactly three half-edges and   *)
(* rot_next turns through all three, so every loop over rot_next() ends     *)
(* where it began and misses none.                                          *)
THEOREM VerticesTrivalent == HalfEdgeSpec => []Trivalent
<1>1. GraphInit => Trivalent
  BY DEF GraphInit, Trivalent, Edge
<1>2. GraphInv /\ Trivalent /\ [GraphNext]_graphVars => Trivalent'
  BY StepKeepsTrivalent
<1> QED BY <1>1, <1>2, InvariantGraphInv, PTL DEF HalfEdgeSpec

-----------------------------------------------------------------------------
(* The cells grow only with the sites, in the order of the sites. *)
LEMMA StepKeepsCells ==
    ASSUME GraphInv, CellsIndexedBySite, [GraphNext]_graphVars
    PROVE  CellsIndexedBySite'
<1>1. CASE cells = <<>> /\ 1 \in Site /\ ProcessSingleSite(1)
  <2>1. cells' = <<1>> /\ numEdges' = numEdges /\ cell' = cell
    BY <1>1 DEF ProcessSingleSite
  <2>2. Edge = {}
    BY <1>1 DEF CellsIndexedBySite
  <2> QED BY <2>1, <2>2 DEF CellsIndexedBySite, Edge
<1>2. CASE \E s1, s2 \in Site : AddSite(s1, s2)
  <2>1. PICK s1 \in Site, s2 \in Site : AddSite(s1, s2)
    BY <1>2
  <2>2. /\ cells \in Seq(Site) /\ numEdges \in Nat /\ numEdges' = numEdges + 2
        /\ InsertSiteEdge(s1, s2) /\ cells' = PushCells(s1, s2)
    BY <2>1 DEF GraphInv, GraphTypeOK, AddSite, InsertSiteEdge
  <2>3. /\ DOMAIN cells \subseteq DOMAIN cells' /\ s1 \in DOMAIN cells' /\ s2 \in DOMAIN cells'
        /\ \A i \in DOMAIN cells' : cells'[i] = i
    <3>1. CASE cells = <<>>
      BY <2>1, <2>2, <3>1 DEF AddSite, PushCells
    <3>2. CASE cells # <<>>
      <4>1. s1 \in 1..Len(cells) /\ s2 = Len(cells) + 1 /\ cells' = Append(cells, s2)
        BY <2>1, <2>2, <3>2 DEF AddSite, PushCells
      <4>2. /\ Len(cells') = Len(cells) + 1 /\ cells'[Len(cells) + 1] = s2
            /\ \A i \in 1..Len(cells) : cells'[i] = cells[i]
            /\ DOMAIN cells = 1..Len(cells) /\ DOMAIN cells' = 1..(Len(cells) + 1)
            /\ Len(cells) \in Nat
        BY <2>2, <4>1
      <4> QED BY <4>1, <4>2 DEF CellsIndexedBySite
    <3> QED BY <3>1, <3>2
  <2>4. \A e \in Edge' : cell'[e] \in DOMAIN cells'
    <3> SUFFICES ASSUME NEW e \in Edge' PROVE cell'[e] \in DOMAIN cells'
      OBVIOUS
    <3>1. e \in Edge \/ e = numEdges + 1 \/ e = numEdges + 2
      BY <2>2 DEF Edge
    <3> QED BY <2>2, <2>3, <3>1, AddSiteEffect DEF GraphInv, CellsIndexedBySite
  <2> QED BY <2>3, <2>4 DEF CellsIndexedBySite
<1>3. CASE \E e12, e23 \in Edge : JoinBisectors(e12, e23)
  <2>1. PICK e12 \in Edge, e23 \in Edge : JoinBisectors(e12, e23)
    BY <1>3
  <2>2. PICK n, v, t12, t23 : GraphTypeOK' /\ Joined(e12, e23, t12, t23, n, v)
    BY <2>1, JoinFacts
  <2>3. \A e \in Edge' : e \in 1..n \/ e = n + 1 \/ e = n + 2
    BY <2>2 DEF Joined, Edge
  <2> QED BY <2>2, <2>3 DEF Joined, CellsIndexedBySite, Edge
<1>4. CASE UNCHANGED graphVars
  BY <1>4 DEF CellsIndexedBySite, graphVars, Edge
<1> QED BY <1>1, <1>2, <1>3, <1>4 DEF GraphNext

(* cells_ holds the cell of site i at index i, and a half-edge never points *)
(* at a cell that was not pushed yet.                                       *)
THEOREM CellsAreIndexedBySite == HalfEdgeSpec => []CellsIndexedBySite
<1>1. GraphInit => CellsIndexedBySite
  BY DEF GraphInit, CellsIndexedBySite, Edge
<1>2. GraphInv /\ CellsIndexedBySite /\ [GraphNext]_graphVars => CellsIndexedBySite'
  BY StepKeepsCells
<1> QED BY <1>1, <1>2, InvariantGraphInv, PTL DEF HalfEdgeSpec

-----------------------------------------------------------------------------
(* Every operation on the beach line replaces the elements i to j - 1 of a  *)
(* sequence b by those of new.                                              *)
Spliced(S, c, b, i, j, new) ==
    /\ b \in Seq(S) /\ new \in Seq(S) /\ c \in Seq(S)
    /\ i \in 1..(Len(b) + 1) /\ j \in i..(Len(b) + 1)
    /\ Len(c) = Len(b) - (j - i) + Len(new)
    /\ \A k \in 1..(i - 1) : c[k] = b[k]
    /\ \A k \in 1..Len(new) : c[i - 1 + k] = new[k]
    /\ \A k \in j..Len(b) : c[k - j + i + Len(new)] = b[k]

Kept(b, i, j) == {k \in 1..Len(b) : k < i \/ k >= j}

LEMMA ReplaceBySplices ==
    ASSUME NEW S, NEW b \in Seq(S), NEW new \in Seq(S),
           NEW i \in 1..(Len(b) + 1), NEW j \in i..(Len(b) + 1)
    PROVE  Spliced(S, ReplaceBy(b, i, j, new), b, i, j, new)
<1> DEFINE front == SubSeq(b, 1, i - 1)
           back == SubSeq(b, j, Len(b))
           w == Len(new)
           n == Len(b)
<1>1. n \in Nat /\ w \in Nat /\ i \in Int /\ j \in Int /\ \A k \in 1..n : b[k] \in S
  <2>1. n \in Nat /\ w \in Nat
    BY LenProperties
  <2> QED BY <2>1, ElementOfSeq
<1>2. front \in Seq(S) /\ Len(front) = i - 1 /\ \A k \in 1..(i - 1) : front[k] = b[k]
  <2>1. \A k \in 1..(i - 1) : b[k] \in S
    BY <1>1
  <2>2. 1 \in Int /\ i - 1 \in Int
    BY <1>1
  <2>3. /\ SubSeq(b, 1, i - 1) \in Seq(S)
        /\ Len(SubSeq(b, 1, i - 1)) = IF 1 <= i - 1 THEN i - 1 - 1 + 1 ELSE 0
        /\ \A k \in 1..(i - 1 - 1 + 1) : SubSeq(b, 1, i - 1)[k] = b[1 + k - 1]
    BY <2>1, <2>2, SubSeqProperties
  <2> QED BY <2>3, <1>1
<1>3. back \in Seq(S) /\ Len(back) = n - j + 1 /\ \A k \in 1..(n - j + 1) : back[k] = b[j + k - 1]
  <2>1. \A k \in j..n : b[k] \in S
    BY <1>1
  <2>2. /\ SubSeq(b, j, n) \in Seq(S)
        /\ Len(SubSeq(b, j, n)) = IF j <= n THEN n - j + 1 ELSE 0
        /\ \A k \in 1..(n - j + 1) : SubSeq(b, j, n)[k] = b[j + k - 1]
    BY <1>1, <2>1, SubSeqProperties
  <2> QED BY <2>2, <1>1
<1> HIDE DEF front, back
<1>4. /\ front \o new \in Seq(S) /\ Len(front \o new) = i - 1 + w
      /\ \A k \in 1..(i - 1 + w) :
            (front \o new)[k] = IF k <= i - 1 THEN front[k] ELSE new[k - (i - 1)]
  <2>1. /\ front \o new \in Seq(S) /\ Len(front \o new) = Len(front) + Len(new)
        /\ \A k \in 1..(Len(front) + Len(new)) :
              (front \o new)[k] = IF k <= Len(front) THEN front[k] ELSE new[k - Len(front)]
    BY <1>2, ConcatProperties
  <2> QED BY <1>2, <2>1
<1> DEFINE all == front \o new \o back
<1>5. /\ all \in Seq(S) /\ Len(all) = i - 1 + w + (n - j + 1)
      /\ \A k \in 1..(i - 1 + w + (n - j + 1)) :
            all[k] = IF k <= i - 1 + w THEN (front \o new)[k] ELSE back[k - (i - 1 + w)]
  <2> DEFINE start == front \o new
  <2>1. start \in Seq(S) /\ Len(start) = i - 1 + w
    BY <1>4
  <2> HIDE DEF start
  <2>2. /\ start \o back \in Seq(S) /\ Len(start \o back) = Len(start) + Len(back)
        /\ \A k \in 1..(Len(start) + Len(back)) :
              (start \o back)[k] = IF k <= Len(start) THEN start[k] ELSE back[k - Len(start)]
    <3>1. back \in Seq(S)
      BY <1>3
    <3> QED BY <2>1, <3>1, ConcatProperties
  <2>3. /\ start \o back \in Seq(S) /\ Len(start \o back) = i - 1 + w + (n - j + 1)
        /\ \A k \in 1..(i - 1 + w + (n - j + 1)) :
              (start \o back)[k] = IF k <= i - 1 + w THEN start[k] ELSE back[k - (i - 1 + w)]
    BY <1>3, <2>1, <2>2
  <2> QED BY <2>3 DEF start
<1>6. ReplaceBy(b, i, j, new) = all
  BY DEF ReplaceBy, front, back
<1> HIDE DEF all
<1>7. \A k \in 1..(i - 1) : all[k] = b[k]
  BY <1>1, <1>2, <1>4, <1>5
<1>8. \A k \in 1..w : all[i - 1 + k] = new[k]
  <2> SUFFICES ASSUME NEW k \in 1..w PROVE all[i - 1 + k] = new[k]
    OBVIOUS
  <2>1. i - 1 + k \in 1..(i - 1 + w) /\ i - 1 + k \in 1..(i - 1 + w + (n - j + 1))
    BY <1>1
  <2>2. ~ (i - 1 + k <= i - 1) /\ (i - 1 + k) - (i - 1) = k /\ i - 1 + k <= i - 1 + w
    BY <1>1
  <2>3. all[i - 1 + k] = (front \o new)[i - 1 + k]
    BY <2>1, <2>2, <1>5
  <2>4. (front \o new)[i - 1 + k] = new[(i - 1 + k) - (i - 1)]
    BY <2>1, <2>2, <1>4
  <2> QED BY <2>2, <2>3, <2>4
<1>9. \A k \in j..n : all[k - j + i + w] = b[k]
  <2> SUFFICES ASSUME NEW k \in j..n PROVE all[k - j + i + w] = b[k]
    OBVIOUS
  <2>1. /\ k - j + i + w \in 1..(i - 1 + w + (n - j + 1)) /\ ~ (k - j + i + w <= i - 1 + w)
        /\ (k - j + i + w) - (i - 1 + w) = k - j + 1
        /\ k - j + 1 \in 1..(n - j + 1) /\ j + (k - j + 1) - 1 = k
    BY <1>1
  <2>2. all[k - j + i + w] = back[k - j + 1]
    BY <2>1, <1>5
  <2> QED BY <2>1, <2>2, <1>3
<1>10. Len(all) = Len(b) - (j - i) + Len(new)
  BY <1>1, <1>5
<1> QED BY <1>5, <1>6, <1>7, <1>8, <1>9, <1>10 DEF Spliced

(* Where the elements of the new sequence come from. *)
Placed(c, b, i, j, new) ==
    \A k \in 1..Len(c) :
        \/ k \in 1..(i - 1) /\ k \in Kept(b, i, j) /\ c[k] = b[k]
        \/ k - i + 1 \in 1..Len(new) /\ c[k] = new[k - i + 1]
        \/ /\ k - Len(new) - i + j \in j..Len(b)
           /\ k - Len(new) - i + j \in Kept(b, i, j)
           /\ c[k] = b[k - Len(new) - i + j]

LEMMA SplicedPlaces ==
    ASSUME NEW S, NEW c, NEW b, NEW i, NEW j, NEW new, Spliced(S, c, b, i, j, new)
    PROVE  /\ Len(b) \in Nat /\ Len(new) \in Nat /\ Len(c) \in Nat /\ i \in Int /\ j \in Int
           /\ Len(c) = Len(b) - (j - i) + Len(new)
           /\ Placed(c, b, i, j, new)
<1>1. /\ Len(b) \in Nat /\ Len(new) \in Nat /\ Len(c) \in Nat /\ i \in Int /\ j \in Int
      /\ Len(c) = Len(b) - (j - i) + Len(new)
      /\ 1 <= i /\ i <= j /\ j <= Len(b) + 1
  BY LenProperties DEF Spliced
<1>2. ASSUME NEW k \in 1..Len(c)
      PROVE  \/ k \in 1..(i - 1) /\ k \in Kept(b, i, j) /\ c[k] = b[k]
             \/ k - i + 1 \in 1..Len(new) /\ c[k] = new[k - i + 1]
             \/ /\ k - Len(new) - i + j \in j..Len(b)
                /\ k - Len(new) - i + j \in Kept(b, i, j)
                /\ c[k] = b[k - Len(new) - i + j]
  <2>1. CASE k < i
    BY <1>1, <2>1 DEF Spliced, Kept
  <2>2. CASE k >= i /\ k < i + Len(new)
    <3>1. k - i + 1 \in 1..Len(new) /\ i - 1 + (k - i + 1) = k
      BY <1>1, <2>2
    <3> QED BY <3>1 DEF Spliced
  <2>3. CASE k >= i + Len(new)
    <3> DEFINE m == k - Len(new) - i + j
    <3>1. m \in j..Len(b) /\ m - j + i + Len(new) = k /\ m \in 1..Len(b) /\ m >= j
      BY <1>1, <2>3
    <3>2. c[k] = b[m]
      BY <3>1 DEF Spliced
    <3> QED BY <3>1, <3>2 DEF Kept
  <2> QED BY <1>1, <2>1, <2>2, <2>3
<1> QED BY <1>1, <1>2 DEF Placed

MadeOf(c, b, i, j, new) ==
    \A x : (\E k \in 1..Len(c) : c[k] = x) <=> \/ \E k \in Kept(b, i, j) : b[k] = x
                                              \/ \E k \in 1..Len(new) : new[k] = x

LEMMA SplicedElements ==
    ASSUME NEW S, NEW c, NEW b, NEW i, NEW j, NEW new, Spliced(S, c, b, i, j, new)
    PROVE  MadeOf(c, b, i, j, new)
<1> SUFFICES ASSUME NEW x
             PROVE  (\E k \in 1..Len(c) : c[k] = x)
                        <=> \/ \E k \in Kept(b, i, j) : b[k] = x
                            \/ \E k \in 1..Len(new) : new[k] = x
  BY DEF MadeOf
<1>1. (\E k \in 1..Len(c) : c[k] = x) => \/ \E k \in Kept(b, i, j) : b[k] = x
                                         \/ \E k \in 1..Len(new) : new[k] = x
  <2> SUFFICES ASSUME NEW k \in 1..Len(c)
               PROVE  \/ \E m \in Kept(b, i, j) : b[m] = c[k]
                      \/ \E m \in 1..Len(new) : new[m] = c[k]
    OBVIOUS
  <2>1. \/ k \in Kept(b, i, j) /\ c[k] = b[k]
        \/ k - i + 1 \in 1..Len(new) /\ c[k] = new[k - i + 1]
        \/ /\ k - Len(new) - i + j \in Kept(b, i, j)
           /\ c[k] = b[k - Len(new) - i + j]
    <3>1. Placed(c, b, i, j, new)
      BY SplicedPlaces
    <3> QED BY <3>1, Zenon DEF Placed
  <2> QED BY <2>1
<1>2. ASSUME NEW k \in Kept(b, i, j) PROVE \E m \in 1..Len(c) : c[m] = b[k]
  <2>1. CASE k < i
    <3>1. k \in 1..(i - 1) /\ k \in 1..Len(c)
      BY <2>1, SplicedPlaces DEF Kept, Spliced
    <3> QED BY <3>1 DEF Spliced
  <2>2. CASE k >= j
    <3>1. k \in j..Len(b) /\ k - j + i + Len(new) \in 1..Len(c)
      BY <2>2, SplicedPlaces DEF Kept, Spliced
    <3> QED BY <3>1 DEF Spliced
  <2> QED BY <2>1, <2>2 DEF Kept
<1>3. ASSUME NEW k \in 1..Len(new) PROVE \E m \in 1..Len(c) : c[m] = new[k]
  <2>1. i - 1 + k \in 1..Len(c)
    BY SplicedPlaces DEF Spliced
  <2> QED BY <2>1 DEF Spliced
<1> QED BY <1>1, <1>2, <1>3

(* A relation between neighbours, or between any two elements, holds again  *)
(* when it holds within both parts and where they meet.                     *)
SplicesNear(b, i, j, new, R) ==
    /\ \A k \in 2..Len(b) : k < i \/ k > j => <<b[k - 1], b[k]>> \in R
    /\ \A k \in 2..Len(new) : <<new[k - 1], new[k]>> \in R
    /\ new # <<>> /\ i > 1 => <<b[i - 1], new[1]>> \in R
    /\ new # <<>> /\ j <= Len(b) => <<new[Len(new)], b[j]>> \in R
    /\ new = <<>> /\ i > 1 /\ j <= Len(b) => <<b[i - 1], b[j]>> \in R

SplicesApart(b, i, j, new, R) ==
    /\ \A k, m \in Kept(b, i, j) : k # m => <<b[k], b[m]>> \in R
    /\ \A k, m \in 1..Len(new) : k # m => <<new[k], new[m]>> \in R
    /\ \A k \in Kept(b, i, j), m \in 1..Len(new) :
            <<b[k], new[m]>> \in R /\ <<new[m], b[k]>> \in R

LEMMA SplicedNeighbours ==
    ASSUME NEW S, NEW c, NEW b, NEW i, NEW j, NEW new, Spliced(S, c, b, i, j, new),
           NEW R, SplicesNear(b, i, j, new, R)
    PROVE  \A k \in 2..Len(c) : <<c[k - 1], c[k]>> \in R
<1> SUFFICES ASSUME NEW k \in 2..Len(c) PROVE <<c[k - 1], c[k]>> \in R
  OBVIOUS
<1> DEFINE w == Len(new)
           n == Len(b)
<1>1. /\ n \in Nat /\ w \in Nat /\ Len(c) \in Nat /\ i \in Int /\ j \in Int
      /\ 1 <= i /\ i <= j /\ j <= n + 1 /\ Len(c) = n - (j - i) + w
      /\ new = <<>> <=> w = 0
  BY SplicedPlaces, EmptySeq DEF Spliced
<1>2. /\ \A m \in 1..(i - 1) : c[m] = b[m]
      /\ \A m \in 1..w : c[i - 1 + m] = new[m]
      /\ \A m \in j..n : c[m - j + i + w] = b[m]
  BY DEF Spliced
<1> HIDE DEF w, n
<1>3. CASE k < i
  <2>1. k - 1 \in 1..(i - 1) /\ k \in 1..(i - 1) /\ k \in 2..n
    BY <1>1, <1>3
  <2>2. c[k - 1] = b[k - 1] /\ c[k] = b[k]
    BY <2>1, <1>2
  <2> QED BY <2>1, <2>2, <1>3 DEF n, SplicesNear
<1>4. CASE k = i /\ w > 0
  <2>1. k - 1 \in 1..(i - 1) /\ 1 \in 1..w /\ i - 1 + 1 = k /\ i > 1
    BY <1>1, <1>4
  <2>2. c[k - 1] = b[i - 1] /\ c[k] = new[1]
    BY <2>1, <1>2, <1>4
  <2> QED BY <2>1, <2>2, <1>1, <1>4 DEF SplicesNear
<1>5. CASE k > i /\ k < i + w
  <2>1. /\ k - i + 1 \in 2..w /\ k - i \in 1..w /\ k - i + 1 \in 1..w
        /\ i - 1 + (k - i + 1) = k /\ i - 1 + (k - i) = k - 1 /\ (k - i + 1) - 1 = k - i
    BY <1>1, <1>5
  <2>2. c[k] = new[k - i + 1] /\ c[k - 1] = new[k - i]
    BY <2>1, <1>2
  <2> QED BY <2>1, <2>2 DEF w, SplicesNear
<1>6. CASE k = i + w /\ w > 0
  <2>1. /\ w \in 1..w /\ i - 1 + w = k - 1 /\ j \in j..n /\ j - j + i + w = k
    BY <1>1, <1>6
  <2>2. c[k - 1] = new[w] /\ c[k] = b[j]
    BY <2>1, <1>2
  <2> QED BY <2>1, <2>2, <1>1, <1>6 DEF w, n, SplicesNear
<1>7. CASE k = i /\ w = 0
  <2>1. k - 1 \in 1..(i - 1) /\ j \in j..n /\ j - j + i + w = k /\ i > 1
    BY <1>1, <1>7
  <2>2. c[k - 1] = b[i - 1] /\ c[k] = b[j]
    BY <2>1, <1>2, <1>7
  <2> QED BY <2>1, <2>2, <1>1, <1>7 DEF n, SplicesNear
<1>8. CASE k > i + w
  <2> DEFINE m == k - i - w + j
  <2>1. /\ m \in j..n /\ m - 1 \in j..n /\ m - j + i + w = k /\ (m - 1) - j + i + w = k - 1
        /\ m \in 2..n /\ m > j
    BY <1>1, <1>8
  <2>2. c[k] = b[m] /\ c[k - 1] = b[m - 1]
    BY <2>1, <1>2
  <2> QED BY <2>1, <2>2 DEF n, SplicesNear
<1>9. k < i \/ (k = i /\ w > 0) \/ (k > i /\ k < i + w) \/ (k = i + w /\ w > 0)
      \/ (k = i /\ w = 0) \/ k > i + w
  BY <1>1
<1> QED BY <1>3, <1>4, <1>5, <1>6, <1>7, <1>8, <1>9

LEMMA SplicedApart ==
    ASSUME NEW S, NEW c, NEW b, NEW i, NEW j, NEW new, Spliced(S, c, b, i, j, new),
           NEW R, SplicesApart(b, i, j, new, R)
    PROVE  \A k, m \in 1..Len(c) : k # m => <<c[k], c[m]>> \in R
<1> SUFFICES ASSUME NEW k \in 1..Len(c), NEW m \in 1..Len(c), k # m
             PROVE  <<c[k], c[m]>> \in R
  OBVIOUS
<1> DEFINE Low(p) == p \in 1..(i - 1) /\ p \in Kept(b, i, j) /\ c[p] = b[p]
           In(p) == p - i + 1 \in 1..Len(new) /\ c[p] = new[p - i + 1]
           High(p) == /\ p - Len(new) - i + j \in j..Len(b)
                      /\ p - Len(new) - i + j \in Kept(b, i, j)
                      /\ c[p] = b[p - Len(new) - i + j]
<1>1. /\ Len(b) \in Nat /\ Len(new) \in Nat /\ Len(c) \in Nat /\ i \in Int /\ j \in Int
      /\ i <= j
  BY SplicedPlaces DEF Spliced
<1>0. \A p \in 1..Len(c) : Low(p) \/ In(p) \/ High(p)
  <2>1. Placed(c, b, i, j, new)
    BY SplicedPlaces
  <2> QED BY <2>1, Zenon DEF Placed
<1>2. Low(k) \/ In(k) \/ High(k)
  BY <1>0
<1>3. Low(m) \/ In(m) \/ High(m)
  BY <1>0
<1>4. k - i + 1 # m - i + 1 /\ k - Len(new) - i + j # m - Len(new) - i + j
  BY <1>1
<1>5. CASE Low(k) /\ High(m)
  <2>1. k # m - Len(new) - i + j
    BY <1>1, <1>5
  <2> QED BY <2>1, <1>5 DEF SplicesApart
<1>6. CASE High(k) /\ Low(m)
  <2>1. m # k - Len(new) - i + j
    BY <1>1, <1>6
  <2> QED BY <2>1, <1>6 DEF SplicesApart
<1>7. CASE Low(k) /\ Low(m)
  BY <1>7 DEF SplicesApart
<1>8. CASE In(k) /\ In(m)
  BY <1>4, <1>8 DEF SplicesApart
<1>9. CASE High(k) /\ High(m)
  BY <1>4, <1>9 DEF SplicesApart
<1>10. CASE In(k) /\ (Low(m) \/ High(m))
  BY <1>10 DEF SplicesApart
<1>11. CASE (Low(k) \/ High(k)) /\ In(m)
  BY <1>11 DEF SplicesApart
<1> QED BY <1>2, <1>3, <1>5, <1>6, <1>7, <1>8, <1>9, <1>10, <1>11

-----------------------------------------------------------------------------
(* The queue of sites. *)

(* What the sweep relies on: a point comes first, points come in order, and *)
(* the far end of a segment after the segment.                              *)
SitesInv ==
    /\ sites \in Seq(SiteRecord)
    /\ N \in Nat \ {0} /\ reserved \in Nat /\ N <= reserved /\ 1..N \subseteq Site
    /\ IsPoint(sites[1])
    /\ \A i, j \in 1..N : i < j /\ IsPoint(sites[i]) /\ IsPoint(sites[j])
                            => ~ PointLess(sites[j].p0, sites[i].p0)
    /\ \A k \in 1..N : IsSegment(sites[k]) =>
            \E j \in (k + 1)..N : sites[j] = PointSite(sites[k].p1)

(* The queue is the increasing enumeration of the site events. *)
QueueOfEvents(E, n) ==
    /\ EventsFit(E) /\ StrictlyOrdered(E)
    /\ n \in Nat \ {0} /\ n <= reserved /\ reserved \in Nat /\ 1..n \subseteq Site
    /\ sites \in Seq(SiteRecord) /\ Len(sites) = n
    /\ \A k \in 1..n : sites[k] \in E
    /\ \A s \in E : \E k \in 1..n : sites[k] = s
    /\ \A i, j \in 1..n : i < j => EventLess(sites[i], sites[j])

LEMMA InitQueue == Init => \E E, n : QueueOfEvents(E, n)
<1> SUFFICES ASSUME Init PROVE \E E, n : QueueOfEvents(E, n)
  OBVIOUS
<1>1. PICK polygon \in Inputs : /\ sites = SitesQueue(PolygonEvents(polygon))
                                /\ reserved = Len(PolygonEvents(polygon))
  BY DEF Init
<1> DEFINE events == PolygonEvents(polygon)
           E == ToSet(events)
           n == Cardinality(E)
<1>2. /\ polygon \in Seq(Seq(Point)) /\ events # <<>> /\ 1..n \subseteq Site
      /\ \A s, t \in E : ~ Overlap(s, t)
  BY InputsAssumption DEF Point
<1>3. events \in Seq(SiteRecord) /\ EventsFit(E) /\ StrictlyOrdered(E)
  BY <1>2, PolygonEventsFit, SweepOrderStrict
<1> HIDE DEF events
<1>4. IsFiniteSet(E) /\ n \in Nat /\ n <= Len(events) /\ Len(events) \in Nat /\ n # 0
  <2>1. Len(events) \in Nat \ {0} /\ DOMAIN events = 1..Len(events)
    BY <1>2, <1>3, LenProperties, EmptySeq
  <2>2. IsFiniteSet(1..Len(events)) /\ Cardinality(1..Len(events)) = Len(events)
    BY <2>1, UpTo
  <2> DEFINE g == [k \in 1..Len(events) |-> events[k]]
             T == 1..Len(events)
  <2>3. g \in Surjection(T, E)
    BY <2>1 DEF Surjection, ToSet
  <2> HIDE DEF g, T, E
  <2>4. IsFiniteSet(E) /\ Cardinality(E) <= Cardinality(T)
    BY <2>2, <2>3, FS_Surjection DEF T
  <2>5. 1 \in 1..Len(events) /\ E # {}
    BY <2>1 DEF E, ToSet
  <2> QED BY <2>1, <2>2, <2>4, <2>5, FS_CardinalityType, FS_EmptySet DEF T
<1> HIDE DEF E
<1>5. /\ sites \in Seq(SiteRecord) /\ Len(sites) = n
      /\ \A k \in 1..n : sites[k] \in E
      /\ \A s \in E : \E k \in 1..n : sites[k] = s
      /\ \A i, j \in 1..n : i < j => EventLess(sites[i], sites[j])
  <2>1. E \subseteq SiteRecord
    BY <1>3 DEF EventsFit
  <2>2. sites = SitesQueue(events)
    BY <1>1 DEF events
  <2>3. LET q == SitesQueue(events)
            m == Cardinality(ToSet(events))
        IN  /\ m \in Nat /\ q \in Seq(SiteRecord) /\ Len(q) = m
            /\ \A k \in 1..m : q[k] \in ToSet(events)
            /\ \A s \in ToSet(events) : \E k \in 1..m : q[k] = s
            /\ \A i, j \in 1..m : i < j => EventLess(q[i], q[j])
    BY <1>3, <1>4, <2>1, QueueSorted DEF E
  <2> QED BY <2>2, <2>3 DEF E
<1>6. reserved \in Nat /\ n <= reserved
  BY <1>1, <1>4 DEF events
<1>7. QueueOfEvents(E, n)
  BY <1>2, <1>3, <1>4, <1>5, <1>6 DEF QueueOfEvents, E
<1> QED BY <1>7

LEMMA InitSites == Init => SitesInv
<1> SUFFICES ASSUME Init PROVE SitesInv
  OBVIOUS
<1>1. PICK E, n : QueueOfEvents(E, n)
  BY InitQueue
<1>2. EventsFit(E) /\ 1..n \subseteq Site
  BY <1>1 DEF QueueOfEvents
<1>3. n \in Nat /\ n # 0 /\ reserved \in Nat /\ n <= reserved
  BY <1>1 DEF QueueOfEvents
<1>4. /\ sites \in Seq(SiteRecord) /\ Len(sites) = n
      /\ \A k \in 1..n : sites[k] \in E
      /\ \A s \in E : \E k \in 1..n : sites[k] = s
      /\ \A i, j \in 1..n : i < j => EventLess(sites[i], sites[j])
  BY <1>1 DEF QueueOfEvents
<1>5. N = n
  BY <1>4 DEF N
<1>6. \A k \in 1..n : /\ sites[k].p0 \in Point /\ sites[k].p1 \in Point
                      /\ sites[k].p0[1] \in Int /\ sites[k].p0[2] \in Int
                      /\ sites[k].p1[1] \in Int /\ sites[k].p1[2] \in Int
  BY <1>2, <1>4 DEF EventsFit, SiteRecord, Point
<1>7. IsPoint(sites[1])
  <2>1. 1 \in 1..n
    BY <1>3
  <2> SUFFICES ASSUME IsSegment(sites[1]) PROVE FALSE
    BY DEF IsPoint
  <2>2. PICK k \in 1..n : sites[k] = PointSite(sites[1].p0)
    BY <1>2, <1>4, <2>1 DEF EventsFit
  <2>3. sites[k].p0 = sites[1].p0 /\ sites[k].p1 = sites[1].p0 /\ IsVertical(sites[k])
    BY <2>2 DEF PointSite, IsVertical
  <2>4. k # 1
    BY <2>3 DEF IsSegment
  <2>5. EventLess(sites[1], sites[k])
    BY <1>3, <1>4, <2>1, <2>4
  <2>6. SegmentBefore(sites[1], sites[k])
    BY <1>6, <2>1, <2>3, <2>5 DEF EventLess, IsPoint
  <2> QED BY <1>6, <2>1, <2>3, <2>6 DEF SegmentBefore
<1>8. ASSUME NEW i \in 1..n, NEW j \in 1..n, i < j, IsPoint(sites[i]), IsPoint(sites[j])
       PROVE  ~ PointLess(sites[j].p0, sites[i].p0)
  <2>1. EventLess(sites[i], sites[j])
    BY <1>4, <1>8
  <2> QED BY <1>6, <1>8, <2>1 DEF EventLess, PointBefore, PointLess
<1>9. ASSUME NEW k \in 1..n, IsSegment(sites[k])
       PROVE  \E j \in (k + 1)..n : sites[j] = PointSite(sites[k].p1)
  <2>1. PointLess(sites[k].p0, sites[k].p1) /\ PointSite(sites[k].p1) \in E
    BY <1>2, <1>4, <1>9 DEF EventsFit
  <2>2. PICK j \in 1..n : sites[j] = PointSite(sites[k].p1)
    BY <1>4, <2>1
  <2>3. sites[j].p0 = sites[k].p1 /\ sites[j].p1 = sites[k].p1 /\ IsPoint(sites[j])
    BY <2>2 DEF PointSite, IsPoint, IsSegment
  <2>4. j # k
    BY <1>9, <2>3 DEF IsSegment
  <2>5. ~ (j < k)
    <3> SUFFICES ASSUME j < k PROVE FALSE
      OBVIOUS
    <3>1. EventLess(sites[j], sites[k])
      BY <1>4
    <3>2. PointBefore(sites[j], sites[k]) /\ sites[k].p0[1] = sites[k].p1[1]
      BY <1>6, <2>1, <2>3, <3>1 DEF EventLess, PointLess
    <3> QED BY <1>6, <1>9, <2>1, <2>3, <3>2 DEF PointBefore, PointLess, IsPoint, IsVertical
  <2>6. j \in (k + 1)..n
    BY <1>3, <2>4, <2>5
  <2> QED BY <2>2, <2>6
<1> QED BY <1>2, <1>3, <1>4, <1>5, <1>7, <1>8, <1>9 DEF SitesInv

(* The run of sites on the first vertical line, and the run of segments that *)
(* start in one point: both are found.                                       *)
LEMMA SkipFound == SitesInv => Skip \in 1..N /\ \A m \in 1..Skip : OnFirstVertical(m)
<1> SUFFICES ASSUME SitesInv PROVE Skip \in 1..N /\ \A m \in 1..Skip : OnFirstVertical(m)
  OBVIOUS
<1>1. N \in Nat \ {0} /\ OnFirstVertical(1)
  BY DEF SitesInv, OnFirstVertical, IsVertical, IsPoint, IsSegment
<1> DEFINE Stop(k) == k < N => ~ OnFirstVertical(k + 1)
           D == {k \in Nat : k \in 1..N /\ Stop(k)}
<1>2. N \in D
  BY <1>1
<1>3. PICK k \in D : \A m \in D : k <= m
  <2> HIDE DEF D
  <2>1. D \in SUBSET Nat
    BY DEF D
  <2> QED BY <1>2, <2>1, LeastNatural
<1>4. \A m \in 1..k : OnFirstVertical(m)
  <2> SUFFICES ASSUME NEW m \in 1..k PROVE OnFirstVertical(m)
    OBVIOUS
  <2>1. CASE m = 1
    BY <1>1, <2>1
  <2>2. CASE m # 1
    <3>1. m - 1 \in Nat /\ m - 1 \in 1..N /\ m - 1 < k /\ (m - 1) + 1 = m
      BY <1>1, <1>3, <2>2
    <3>2. m - 1 \notin D
      BY <1>3, <3>1
    <3>3. OnFirstVertical((m - 1) + 1)
      BY <3>1, <3>2
    <3> QED BY <3>1, <3>3
  <2> QED BY <2>1, <2>2
<1>5. k \in 1..N /\ Stop(k)
  BY <1>3
<1> HIDE DEF Stop
<1>6. \E m \in 1..N : (\A p \in 1..m : OnFirstVertical(p)) /\ Stop(m)
  BY <1>4, <1>5
<1>7. Skip = CHOOSE m \in 1..N : (\A p \in 1..m : OnFirstVertical(p)) /\ Stop(m)
  BY DEF Skip, Stop
<1> QED BY <1>6, <1>7

LEMMA RunFound ==
    ASSUME SitesInv, cursor \in 1..N
    PROVE  /\ EndOfRun \in (cursor + 1)..(N + 1)
           /\ IsPoint(sites[cursor]) => EndOfRun = cursor + 1
           /\ \A j \in cursor..(EndOfRun - 1) : j # cursor => IsSegment(sites[j])
<1>1. N \in Nat \ {0} /\ cursor \in Nat
  BY DEF SitesInv
<1>2. CASE IsPoint(sites[cursor])
  <2>1. EndOfRun = cursor + 1
    BY <1>2 DEF EndOfRun, SiteEvent
  <2>2. \A j \in cursor..cursor : j = cursor
    BY <1>1
  <2>3. cursor + 1 - 1 = cursor
    BY <1>1
  <2> QED BY <1>1, <2>1, <2>2, <2>3
<1>3. CASE ~ IsPoint(sites[cursor])
  <2> DEFINE Stop(k) == k <= N => ~ SameStart(k)
             D == {k \in Nat : k \in (cursor + 1)..(N + 1) /\ Stop(k)}
  <2>6. EndOfRun = CHOOSE k \in (cursor + 1)..(N + 1) :
                        /\ \A j \in cursor..(k - 1) : SameStart(j)
                        /\ k <= N => ~ SameStart(k)
    <3>1. ~ IsPoint(SiteEvent)
      BY <1>3 DEF SiteEvent
    <3> QED BY <3>1, Zenon DEF EndOfRun
  <2>1. N + 1 \in D /\ SameStart(cursor)
    BY <1>1, <1>3 DEF SameStart, SiteEvent, IsPoint
  <2>2. PICK k \in D : \A m \in D : k <= m
    <3> HIDE DEF D
    <3>1. D \in SUBSET Nat
      BY DEF D
    <3> QED BY <2>1, <3>1, LeastNatural
  <2>3. \A j \in cursor..(k - 1) : SameStart(j)
    <3> SUFFICES ASSUME NEW j \in cursor..(k - 1) PROVE SameStart(j)
      OBVIOUS
    <3>1. CASE j = cursor
      BY <2>1, <3>1
    <3>2. CASE j # cursor
      <4>1. j \in Nat /\ j \in (cursor + 1)..(N + 1) /\ j < k
        BY <1>1, <2>2, <3>2
      <4>2. j \notin D
        BY <2>2, <4>1
      <4> QED BY <4>1, <4>2
    <3> QED BY <3>1, <3>2
  <2>4. k \in (cursor + 1)..(N + 1) /\ Stop(k)
    BY <2>2
  <2>5. \E m \in (cursor + 1)..(N + 1) : /\ \A j \in cursor..(m - 1) : SameStart(j)
                                         /\ m <= N => ~ SameStart(m)
    BY <2>3, <2>4
  <2> HIDE DEF Stop, D
  <2>7. /\ EndOfRun \in (cursor + 1)..(N + 1)
        /\ \A j \in cursor..(EndOfRun - 1) : SameStart(j)
    BY <2>5, <2>6
  <2> QED BY <1>3, <2>7 DEF SameStart
<1> QED BY <1>2, <1>3

-----------------------------------------------------------------------------
(* Nodes of the beach line, by what they hold. *)
Arcs == [site : Nat, inv : BOOLEAN]
Nodes == [id : Int, l : Arcs, r : Arcs, edge : Nat,
          event : {NoEvent} \cup (Arcs \X Arcs \X Arcs)]

(* A bisector's half-edge is open and bounds the cells of its two sites.  A *)
(* temporary node stands between the two arcs of one segment and waits for  *)
(* no circle event.                                                         *)
Bisectors ==
    {n \in Nodes : /\ n.id \in 1..numEdges /\ n.edge \in 1..numEdges
                   /\ n.l.site \in 1..Len(cells) /\ n.r.site \in 1..Len(cells)
                   /\ Open(n.edge)
                   /\ cell[n.edge] = n.l.site /\ cell[twin[n.edge]] = n.r.site}

Temporaries ==
    {n \in Nodes : /\ n.edge = Null /\ n.event = NoEvent /\ n.id = - n.l.site
                   /\ n.l.site \in 1..Len(cells) /\ n.r.site = n.l.site
                   /\ IsSegment(sites[n.l.site])}

(* Neighbours share an arc.  An event belongs to the upper one of two        *)
(* bisectors, was computed from their three arcs, and lets two half-edges    *)
(* meet that are no twins.                                                   *)
EventFits(m, n) ==
    /\ m.edge # Null /\ n.edge # Null /\ twin[m.edge] # n.edge
    /\ n.event[1].site = m.l.site /\ n.event[2].site = n.l.site
    /\ n.event[3].site = n.r.site

Neighbours ==
    {p \in Nodes \X Nodes : /\ p[1].r.site = p[2].l.site
                            /\ p[2].event # NoEvent => EventFits(p[1], p[2])}

(* No two nodes have one identity or one half-edge. *)
Apart ==
    {p \in Nodes \X Nodes : /\ p[1].id # p[2].id
                            /\ p[1].edge # Null => p[1].edge # p[2].edge}

(* Nodes b of the beach line and the events that wait for them. *)
Chain(b, good, near, queue) ==
    /\ b \in Seq(Nodes)
    /\ \A k \in 1..Len(b) : b[k] \in good
    /\ \A k \in 2..Len(b) : <<b[k - 1], b[k]>> \in near
    /\ \A k, m \in 1..Len(b) : k # m => <<b[k], b[m]>> \in Apart
    /\ b # <<>> => b[1].event = NoEvent /\ b[1].edge # Null /\ b[Len(b)].edge # Null
    /\ queue = UNION {EventsOf(b[k]) : k \in 1..Len(b)}

BeachInv == Chain(beach, Bisectors \cup Temporaries, Neighbours, circles)

(* A queued end point is that of a segment whose temporary node is in the   *)
(* beach line, and its point is still to be swept.                          *)
Waiting(b) == {b[k].id : k \in {m \in 1..Len(b) : IsTemporary(b[m])}}

EndPointsInv ==
    /\ IsFiniteSet(endPoints)
    /\ \A ep \in endPoints :
        /\ \E s \in 1..Len(cells) : /\ IsSegment(sites[s])
                                    /\ ep = [point |-> sites[s].p1, node |-> -s]
        /\ \E s \in cursor..N : sites[s] = PointSite(ep.point)
    /\ {ep.node : ep \in endPoints} = Waiting(beach)

(* Each site but the first brings two half-edges and at most two bisectors, *)
(* each circle event two half-edges and a vertex for one bisector.          *)
CountInv ==
    /\ cells = <<>> => numEdges = 0 /\ numVertices = 0 /\ beach = <<>>
    /\ cells # <<>> =>
        /\ numEdges = 2 * (Len(cells) - 1) + 2 * numVertices
        /\ Len(beach) - Cardinality(endPoints) + numVertices <= 2 * (Len(cells) - 1)

PhaseInv ==
    /\ pc \in Phases /\ cursor \in 1..(N + 1) /\ last \in 1..(N + 1)
    /\ right \in 0..(Len(beach) + 1) /\ (pc # "arcs" => right = 0)
    /\ Len(cells) <= N
    /\ pc = "init" =>
        /\ endPoints = {} /\ circles = {}
        /\ \/ cursor = 1 /\ cells = <<>>
           \/ /\ cursor \in 2..N /\ cursor < Skip /\ Len(cells) = cursor
              /\ beach # <<>> /\ beach[Len(beach)].r.site = cursor
    /\ pc \in {"events", "site", "arcs"} =>
        /\ cursor > 1 /\ Len(cells) = cursor - 1
        /\ N > 1 => beach # <<>>
    /\ pc = "arcs" =>
        /\ cursor < last /\ right # 0
        /\ \A j \in cursor..(last - 1) : j # cursor => IsSegment(sites[j])
        /\ IsPoint(sites[cursor]) => \A ep \in endPoints : ep.point # sites[cursor].p0
    /\ pc = "done" => beach = <<>> /\ endPoints = {} /\ circles = {} /\ cells # <<>>

SweepInv == GraphInv /\ SitesInv /\ BeachInv /\ EndPointsInv /\ CountInv /\ PhaseInv

-----------------------------------------------------------------------------
(* Three arcs of which two neighbours belong to one segment never meet: no  *)
(* event is found next to a temporary node.                                 *)
LEMMA NoEventOnOneSegment ==
    ASSUME NEW a, NEW b, NEW c, IsSegment(sites[b.site]), a.site = b.site \/ b.site = c.site
    PROVE  Candidate(a, b, c) = NoEvent
<1>1. IsSegment(At(b)) /\ (SameSite(At(a), At(b)) \/ SameSite(At(b), At(c)))
  BY DEF IsSegment, At, SameSite
<1>2. SameSite(At(a), At(b)) => IsSegment(At(a))
  BY <1>1 DEF SameSite, IsSegment
<1>3. SameSite(At(b), At(c)) => IsSegment(At(c))
  BY <1>1 DEF SameSite, IsSegment
<1>4. ~ CircleExists(At(a), At(b), At(c))
  <2>1. CASE IsSegment(At(a)) /\ IsSegment(At(c))
    BY <1>1, <2>1 DEF CircleExists
  <2>2. CASE IsSegment(At(a)) /\ ~ IsSegment(At(c))
    BY <1>1, <1>3, <2>2 DEF CircleExists, PointAndSegments
  <2>3. CASE ~ IsSegment(At(a)) /\ IsSegment(At(c))
    BY <1>1, <1>2, <2>3 DEF CircleExists, PointAndSegments
  <2> QED BY <1>1, <1>2, <1>3, <2>1, <2>2, <2>3
<1> QED BY <1>4 DEF Candidate

LEMMA CandidateFacts ==
    ASSUME NEW a \in Arcs, NEW b \in Arcs, NEW c \in Arcs
    PROVE  /\ Candidate(a, b, c) \in {NoEvent} \cup (Arcs \X Arcs \X Arcs)
           /\ Candidate(a, b, c) # NoEvent => Candidate(a, b, c) = <<a, b, c>>
  BY DEF Candidate

LEMMA ArcFacts ==
    /\ \A s \in Nat : Arc(s) \in Arcs /\ Arc(s).site = s
    /\ \A a \in Arcs : Back(a) \in Arcs /\ Back(a).site = a.site
  BY DEF Arc, Arcs, Back

(* A node whose events are known: what EventsOf says of it. *)
LEMMA EventsOfNode ==
    ASSUME NEW n, NEW ev
    PROVE  ev \in EventsOf(n) <=> n.event # NoEvent /\ ev = [node |-> n.id, arcs |-> n.event]
  BY DEF EventsOf, Event

(* The beach line after a splice: a chain again when the kept nodes are     *)
(* still good, the new ones are, both fit together, and the queue holds the *)
(* events of both.                                                          *)
SpliceFits(b, i, j, new, good, near, queue) ==
    /\ \A k \in Kept(b, i, j) : b[k] \in good
    /\ \A k \in 1..Len(new) : new[k] \in good
    /\ SplicesNear(b, i, j, new, near) /\ SplicesApart(b, i, j, new, Apart)
    /\ new = <<>> => i > 1 /\ j <= Len(b)
    /\ IF i > 1 THEN b[1].event = NoEvent /\ b[1].edge # Null
                ELSE new[1].event = NoEvent /\ new[1].edge # Null
    /\ IF j <= Len(b) THEN b[Len(b)].edge # Null ELSE new[Len(new)].edge # Null
    /\ queue = (UNION {EventsOf(b[k]) : k \in Kept(b, i, j)})
                    \cup (UNION {EventsOf(new[k]) : k \in 1..Len(new)})

LEMMA SpliceKeepsChain ==
    ASSUME NEW b, NEW c, NEW i, NEW j, NEW new, Spliced(Nodes, c, b, i, j, new),
           NEW good, NEW near, NEW queue, SpliceFits(b, i, j, new, good, near, queue)
    PROVE  Chain(c, good, near, queue)
<1>0. b \in Seq(Nodes) /\ c \in Seq(Nodes) /\ new \in Seq(Nodes)
  BY DEF Spliced
<1>7. \A x : (\E k \in 1..Len(c) : c[k] = x)
                <=> \/ \E k \in Kept(b, i, j) : b[k] = x
                    \/ \E k \in 1..Len(new) : new[k] = x
  <2>1. MadeOf(c, b, i, j, new)
    BY SplicedElements, Zenon
  <2> QED BY <2>1 DEF MadeOf
<1>1. \A k \in 1..Len(c) : c[k] \in good
  <2> SUFFICES ASSUME NEW k \in 1..Len(c) PROVE c[k] \in good
    OBVIOUS
  <2>1. \/ \E m \in Kept(b, i, j) : b[m] = c[k]
        \/ \E m \in 1..Len(new) : new[m] = c[k]
    BY <1>7
  <2> QED BY <2>1 DEF SpliceFits
<1>2. \A k \in 2..Len(c) : <<c[k - 1], c[k]>> \in near
  <2>1. SplicesNear(b, i, j, new, near)
    BY DEF SpliceFits
  <2> QED BY <2>1, SplicedNeighbours, Zenon
<1>3. \A k, m \in 1..Len(c) : k # m => <<c[k], c[m]>> \in Apart
  <2>1. SplicesApart(b, i, j, new, Apart)
    BY DEF SpliceFits
  <2> QED BY <2>1, SplicedApart, Zenon
<1>4. /\ Len(b) \in Nat /\ Len(new) \in Nat /\ Len(c) \in Nat /\ i \in Int /\ j \in Int
      /\ Len(c) = Len(b) - (j - i) + Len(new)
      /\ 1 <= i /\ i <= j /\ j <= Len(b) + 1
      /\ (new = <<>> <=> Len(new) = 0) /\ (b = <<>> <=> Len(b) = 0)
      /\ (c = <<>> <=> Len(c) = 0)
      /\ \A k \in 1..(i - 1) : c[k] = b[k]
      /\ \A k \in 1..Len(new) : c[i - 1 + k] = new[k]
      /\ \A k \in j..Len(b) : c[k - j + i + Len(new)] = b[k]
  <2>1. /\ Len(b) \in Nat /\ Len(new) \in Nat /\ Len(c) \in Nat
        /\ (new = <<>> <=> Len(new) = 0) /\ (b = <<>> <=> Len(b) = 0)
        /\ (c = <<>> <=> Len(c) = 0)
    BY <1>0, LenProperties, EmptySeq
  <2> QED BY <1>0, <2>1 DEF Spliced
<1>5. c # <<>> => /\ c[1].event = NoEvent /\ c[1].edge # Null
                  /\ c[Len(c)].edge # Null
  <2> SUFFICES ASSUME c # <<>>
               PROVE  c[1].event = NoEvent /\ c[1].edge # Null /\ c[Len(c)].edge # Null
    OBVIOUS
  <2>1. c[1].event = NoEvent /\ c[1].edge # Null
    <3>1. CASE i > 1
      <4>1. 1 \in 1..(i - 1) /\ b # <<>>
        BY <1>4, <3>1
      <4>2. c[1] = b[1]
        BY <1>4, <4>1
      <4> QED BY <4>1, <4>2, <3>1 DEF SpliceFits
    <3>2. CASE i = 1
      <4>1. new # <<>> /\ 1 \in 1..Len(new) /\ i - 1 + 1 = 1
        BY <1>4, <3>2 DEF SpliceFits
      <4>2. c[1] = new[1]
        BY <1>4, <4>1, <3>2
      <4> QED BY <3>2, <4>1, <4>2 DEF SpliceFits
    <3> QED BY <1>4, <3>1, <3>2
  <2>2. c[Len(c)].edge # Null
    <3>1. CASE j <= Len(b)
      <4>1. /\ Len(b) \in j..Len(b) /\ Len(b) - j + i + Len(new) = Len(c)
            /\ b # <<>>
        BY <1>4, <3>1
      <4>2. c[Len(c)] = b[Len(b)]
        BY <1>4, <4>1
      <4> QED BY <4>1, <4>2, <3>1 DEF SpliceFits
    <3>2. CASE j = Len(b) + 1
      <4>1. new # <<>> /\ Len(new) \in 1..Len(new) /\ i - 1 + Len(new) = Len(c)
        BY <1>4, <3>2 DEF SpliceFits
      <4>2. c[Len(c)] = new[Len(new)]
        BY <1>4, <4>1
      <4> QED BY <3>2, <4>1, <4>2 DEF SpliceFits
    <3> QED BY <1>4, <3>1, <3>2
  <2> QED BY <2>1, <2>2
<1>6. queue = UNION {EventsOf(c[k]) : k \in 1..Len(c)}
  <2>1. ASSUME NEW ev, ev \in queue PROVE \E k \in 1..Len(c) : ev \in EventsOf(c[k])
    <3>1. \/ \E k \in Kept(b, i, j) : ev \in EventsOf(b[k])
          \/ \E k \in 1..Len(new) : ev \in EventsOf(new[k])
      BY <2>1 DEF SpliceFits
    <3>2. \E x : /\ ev \in EventsOf(x)
                 /\ \/ \E k \in Kept(b, i, j) : b[k] = x
                    \/ \E k \in 1..Len(new) : new[k] = x
      BY <3>1, Zenon
    <3> QED BY <1>7, <3>2, Zenon
  <2>2. ASSUME NEW k \in 1..Len(c), NEW ev \in EventsOf(c[k]) PROVE ev \in queue
    <3>1. \/ \E m \in Kept(b, i, j) : b[m] = c[k]
          \/ \E m \in 1..Len(new) : new[m] = c[k]
      BY <1>7, Zenon
    <3>2. \/ \E m \in Kept(b, i, j) : ev \in EventsOf(b[m])
          \/ \E m \in 1..Len(new) : ev \in EventsOf(new[m])
      BY <3>1, <2>2, Zenon
    <3> QED BY <3>2 DEF SpliceFits
  <2> QED BY <2>1, <2>2
<1> QED BY <1>0, <1>1, <1>2, <1>3, <1>5, <1>6 DEF Chain

-----------------------------------------------------------------------------
(* What every operation does to the beach line: the nodes from i to j - 1   *)
(* give way to new ones, and the node at j, if there is one, gets another    *)
(* event.                                                                   *)
Retimed(b1, b, j) ==
    /\ b1 \in Seq(Nodes) /\ Len(b1) = Len(b)
    /\ \A k \in 1..Len(b) : /\ k # j => b1[k] = b[k]
                            /\ b1[k].id = b[k].id /\ b1[k].edge = b[k].edge

OldFit(b, b1, i, j, good, near) ==
    /\ \A k \in Kept(b, i, j) : b1[k] \in good
    /\ \A k \in 2..Len(b) : k < i \/ k > j => <<b1[k - 1], b1[k]>> \in near

NewFit(new, good, near) ==
    /\ \A k \in 1..Len(new) : new[k] \in good
    /\ \A k \in 2..Len(new) : <<new[k - 1], new[k]>> \in near
    /\ \A k, m \in 1..Len(new) : k # m => <<new[k], new[m]>> \in Apart

JointFit(b, b1, i, j, new, near) ==
    /\ IF new = <<>> THEN i > 1 /\ j <= Len(b) /\ <<b[i - 1], b1[j]>> \in near
       ELSE /\ i > 1 => <<b[i - 1], new[1]>> \in near
            /\ j <= Len(b) => <<new[Len(new)], b1[j]>> \in near
            /\ i = 1 => new[1].event = NoEvent /\ new[1].edge # Null
            /\ j = Len(b) + 1 => new[Len(new)].edge # Null
    /\ \A k \in Kept(b, i, j), m \in 1..Len(new) :
            <<b[k], new[m]>> \in Apart /\ <<new[m], b[k]>> \in Apart

(* The events of the nodes from i to j are withdrawn, those of the node at  *)
(* j and of the new nodes are pushed.                                       *)
QueueFits(b, b1, i, j, new, queue0, queue) ==
    queue = (queue0 \ UNION {EventsOf(b[k]) : k \in {m \in 1..Len(b) : i <= m /\ m <= j}})
                \cup ((UNION {EventsOf(b1[k]) : k \in {m \in 1..Len(b) : m = j}})
                       \cup (UNION {EventsOf(new[k]) : k \in 1..Len(new)}))

LEMMA ChangeKeepsChain ==
    ASSUME NEW b, NEW good0, NEW near0, NEW queue0, Chain(b, good0, near0, queue0),
           NEW b1, NEW c, NEW i, NEW j, NEW new,
           Retimed(b1, b, j), Spliced(Nodes, c, b1, i, j, new),
           NEW good, NEW near, NEW queue,
           OldFit(b, b1, i, j, good, near), NewFit(new, good, near),
           JointFit(b, b1, i, j, new, near), QueueFits(b, b1, i, j, new, queue0, queue)
    PROVE  Chain(c, good, near, queue)
<1>1. /\ Len(b) \in Nat /\ Len(b1) = Len(b) /\ Len(new) \in Nat
      /\ i \in Int /\ j \in Int /\ 1 <= i /\ i <= j /\ j <= Len(b) + 1
      /\ Kept(b1, i, j) = Kept(b, i, j) /\ b \in Seq(Nodes)
      /\ (b = <<>> <=> Len(b) = 0) /\ (new = <<>> <=> Len(new) = 0)
  <2>1. /\ b \in Seq(Nodes) /\ new \in Seq(Nodes) /\ Len(b1) = Len(b)
        /\ i \in 1..(Len(b1) + 1) /\ j \in i..(Len(b1) + 1)
    BY DEF Chain, Spliced, Retimed
  <2>2. /\ Len(b) \in Nat /\ Len(new) \in Nat
        /\ (b = <<>> <=> Len(b) = 0) /\ (new = <<>> <=> Len(new) = 0)
    BY <2>1, LenProperties, EmptySeq
  <2> QED BY <2>1, <2>2 DEF Kept
<1>2. \A k \in 1..Len(b) : /\ k # j => b1[k] = b[k]
                           /\ b1[k].id = b[k].id /\ b1[k].edge = b[k].edge
                           /\ b1[k] \in Nodes /\ b[k] \in Nodes
  <2>1. \A k \in 1..Len(b) : b1[k] \in Nodes
    BY <1>1, ElementOfSeq DEF Retimed
  <2>2. \A k \in 1..Len(b) : b[k] \in Nodes
    BY <1>1, ElementOfSeq
  <2> QED BY <2>1, <2>2 DEF Retimed
<1>3. SplicesNear(b1, i, j, new, near)
  <2>1. i > 1 => b1[i - 1] = b[i - 1]
    BY <1>1, <1>2
  <2> QED BY <1>1, <2>1 DEF SplicesNear, OldFit, NewFit, JointFit
<1>4. SplicesApart(b1, i, j, new, Apart)
  <2>1. ASSUME NEW k \in Kept(b, i, j), NEW m \in Kept(b, i, j), k # m
        PROVE  <<b1[k], b1[m]>> \in Apart
    <3>1. <<b[k], b[m]>> \in Apart /\ k \in 1..Len(b) /\ m \in 1..Len(b)
      BY <2>1 DEF Chain, Kept
    <3> QED BY <1>2, <3>1 DEF Apart
  <2>2. ASSUME NEW k \in Kept(b, i, j), NEW m \in 1..Len(new)
        PROVE  <<b1[k], new[m]>> \in Apart /\ <<new[m], b1[k]>> \in Apart
    <3>1. /\ <<b[k], new[m]>> \in Apart /\ <<new[m], b[k]>> \in Apart
          /\ k \in 1..Len(b)
      BY DEF JointFit, Kept
    <3> QED BY <1>2, <3>1 DEF Apart
  <2> QED BY <1>1, <2>1, <2>2 DEF SplicesApart, NewFit
<1>5. /\ new = <<>> => i > 1 /\ j <= Len(b1)
      /\ IF i > 1 THEN b1[1].event = NoEvent /\ b1[1].edge # Null
                  ELSE new[1].event = NoEvent /\ new[1].edge # Null
      /\ IF j <= Len(b1) THEN b1[Len(b1)].edge # Null ELSE new[Len(new)].edge # Null
  <2>1. CASE i > 1
    <3>1. b # <<>> /\ 1 \in 1..Len(b) /\ b1[1] = b[1]
      BY <1>1, <1>2, <2>1
    <3> QED BY <1>1, <1>2, <2>1, <3>1 DEF Chain, JointFit
  <2>2. CASE i = 1
    BY <1>1, <1>2, <2>2 DEF Chain, JointFit
  <2> QED BY <1>1, <2>1, <2>2
<1>6. queue = (UNION {EventsOf(b1[k]) : k \in Kept(b1, i, j)})
                    \cup (UNION {EventsOf(new[k]) : k \in 1..Len(new)})
  <2>1. \A ev : ev \in queue0 <=> \E k \in 1..Len(b) : ev \in EventsOf(b[k])
    BY DEF Chain
  <2>2. ASSUME NEW k \in 1..Len(b), NEW m \in 1..Len(b), k # m,
               NEW ev \in EventsOf(b[k])
        PROVE  ev \notin EventsOf(b[m])
    <3>1. b[k].id # b[m].id
      BY <2>2 DEF Chain, Apart
    <3> QED BY <3>1, <2>2 DEF EventsOf, Event
  <2>3. ASSUME NEW ev
        PROVE  ev \in queue <=> \/ \E k \in Kept(b, i, j) : ev \in EventsOf(b1[k])
                               \/ \E k \in 1..Len(new) : ev \in EventsOf(new[k])
    <3> DEFINE Old == \E k \in 1..Len(b) : ev \in EventsOf(b[k])
               Gone == \E k \in 1..Len(b) : i <= k /\ k <= j /\ ev \in EventsOf(b[k])
               Again == \E k \in 1..Len(b) : k = j /\ ev \in EventsOf(b1[k])
               Fresh == \E k \in 1..Len(new) : ev \in EventsOf(new[k])
               Stays == \E k \in Kept(b, i, j) : ev \in EventsOf(b1[k])
    <3>1. ev \in queue <=> (Old /\ ~ Gone) \/ Again \/ Fresh
      <4> DEFINE W == UNION {EventsOf(b[k]) : k \in {m \in 1..Len(b) : i <= m /\ m <= j}}
                 X == UNION {EventsOf(b1[k]) : k \in {m \in 1..Len(b) : m = j}}
                 Y == UNION {EventsOf(new[k]) : k \in 1..Len(new)}
      <4>1. queue = (queue0 \ W) \cup (X \cup Y)
        BY DEF QueueFits
      <4>2. ev \in W <=> Gone
        OBVIOUS
      <4>3. ev \in X <=> Again
        OBVIOUS
      <4>4. ev \in Y <=> Fresh
        OBVIOUS
      <4>6. ev \in queue0 <=> Old
        BY <2>1
      <4> HIDE DEF W, X, Y, Old, Gone, Again, Fresh
      <4>5. ev \in queue <=> (ev \in queue0 /\ ev \notin W) \/ ev \in X \/ ev \in Y
        BY <4>1
      <4> QED BY <4>2, <4>3, <4>4, <4>5, <4>6
    <3>2. ASSUME NEW k \in Kept(b, i, j), ev \in EventsOf(b1[k])
          PROVE  (Old /\ ~ Gone) \/ Again
      <4>1. k \in 1..Len(b) /\ (k < i \/ k >= j)
        BY DEF Kept
      <4>2. CASE k = j
        BY <3>2, <4>1, <4>2
      <4>3. CASE k # j
        <5>1. ev \in EventsOf(b[k])
          BY <1>2, <3>2, <4>1, <4>3
        <5>2. ASSUME NEW m \in 1..Len(b), i <= m, m <= j, ev \in EventsOf(b[m]) PROVE FALSE
          <6>1. m # k
            BY <1>1, <4>1, <4>3, <5>2
          <6> QED BY <2>2, <4>1, <5>1, <5>2, <6>1
        <5> QED BY <4>1, <5>1, <5>2
      <4> QED BY <4>2, <4>3
    <3>3. ASSUME NEW k \in 1..Len(b), ev \in EventsOf(b[k]),
                 ~ Gone
          PROVE  Stays
      <4>1. ~ (i <= k /\ k <= j)
        BY <3>3
      <4>2. k \in Kept(b, i, j) /\ k # j
        BY <1>1, <4>1 DEF Kept
      <4> QED BY <1>2, <3>3, <4>2
    <3>4. ASSUME NEW k \in 1..Len(b), k = j, ev \in EventsOf(b1[k])
          PROVE  Stays
      BY <1>1, <3>4 DEF Kept
    <3>5. (Old /\ ~ Gone => Stays) /\ (Again => Stays) /\ (Stays => (Old /\ ~ Gone) \/ Again)
      <4>1. Old /\ ~ Gone => Stays
        BY <3>3
      <4>2. Again => Stays
        BY <3>4
      <4>3. Stays => (Old /\ ~ Gone) \/ Again
        <5> HIDE DEF Old, Gone, Again
        <5> QED BY <3>2
      <4> QED BY <4>1, <4>2, <4>3
    <3>6. ev \in queue <=> Stays \/ Fresh
      <4> HIDE DEF Old, Gone, Again, Stays, Fresh
      <4> QED BY <3>1, <3>5
    <3> QED BY <3>6
  <2>4. ASSUME NEW ev
        PROVE  ev \in queue <=> \/ ev \in UNION {EventsOf(b1[k]) : k \in Kept(b1, i, j)}
                               \/ ev \in UNION {EventsOf(new[k]) : k \in 1..Len(new)}
    <3>1. Kept(b1, i, j) = Kept(b, i, j)
      BY <1>1
    <3> QED BY <2>3, <3>1
  <2> QED BY <2>4
<1>7. SpliceFits(b1, i, j, new, good, near, queue)
  <2>1. /\ \A k \in Kept(b1, i, j) : b1[k] \in good
        /\ \A k \in 1..Len(new) : new[k] \in good
    BY <1>1 DEF OldFit, NewFit
  <2> QED BY <1>3, <1>4, <1>5, <1>6, <2>1 DEF SpliceFits
<1> QED BY <1>7, SpliceKeepsChain, Zenon

-----------------------------------------------------------------------------
(* Nodes whose half-edge a step does not join stay what they are. *)

LEMMA NodeFacts ==
    ASSUME NEW n \in Nodes
    PROVE  /\ n.id \in Int /\ n.edge \in Nat /\ n.l \in Arcs /\ n.r \in Arcs
           /\ n.l.site \in Nat /\ n.r.site \in Nat
           /\ n.event \in {NoEvent} \cup (Arcs \X Arcs \X Arcs)
  BY DEF Nodes, Arcs

LEMMA SiteEffect ==
    ASSUME GraphInv, NEW s1 \in Site, NEW s2 \in Site, InsertSiteEdge(s1, s2)
    PROVE  /\ numEdges \in Nat /\ numEdges' = numEdges + 2 /\ numVertices' = numVertices
           /\ \A e \in 1..numEdges : /\ cell'[e] = cell[e] /\ twin'[e] = twin[e]
                                     /\ vertex0'[e] = vertex0[e] /\ twin[e] \in 1..numEdges
           /\ vertex0'[numEdges + 1] = Null /\ vertex0'[numEdges + 2] = Null
           /\ cell'[numEdges + 1] = s1 /\ cell'[numEdges + 2] = s2
           /\ twin'[numEdges + 1] = numEdges + 2 /\ twin'[numEdges + 2] = numEdges + 1
           /\ Len(cells) \in Nat
           /\ Len(cells') = IF cells = <<>> THEN 2 ELSE Len(cells) + 1
<1>1. /\ numEdges \in Nat /\ numEdges' = numEdges + 2 /\ numVertices' = numVertices
      /\ \A e \in 1..numEdges : /\ e \in 1..(numEdges + 2) /\ twin[e] \in 1..numEdges
      /\ numEdges + 1 \in 1..(numEdges + 2) /\ numEdges + 1 \notin 1..numEdges
      /\ numEdges + 2 \in 1..(numEdges + 2) /\ numEdges + 2 \notin 1..numEdges
      /\ cells \in Seq(Site)
  BY EdgeFacts DEF InsertSiteEdge, GraphInv, GraphTypeOK
<1>2. /\ \A e \in 1..numEdges : cell'[e] = cell[e] /\ twin'[e] = twin[e] /\ vertex0'[e] = vertex0[e]
      /\ vertex0'[numEdges + 1] = Null /\ vertex0'[numEdges + 2] = Null
      /\ cell'[numEdges + 1] = s1 /\ cell'[numEdges + 2] = s2
      /\ twin'[numEdges + 1] = numEdges + 2 /\ twin'[numEdges + 2] = numEdges + 1
  BY <1>1, AddSiteEffect DEF Edge, GraphInv
<1>3. Len(cells) \in Nat /\ Len(cells') = IF cells = <<>> THEN 2 ELSE Len(cells) + 1
  <2>1. cells' = IF cells = <<>> THEN <<s1, s2>> ELSE Append(cells, s2)
    BY DEF InsertSiteEdge, PushCells
  <2>2. Len(<<s1, s2>>) = 2
    OBVIOUS
  <2>3. Len(Append(cells, s2)) = Len(cells) + 1
    BY <1>1, AppendProperties
  <2> QED BY <1>1, <2>1, <2>2, <2>3, LenProperties
<1> QED BY <1>1, <1>2, <1>3

LEMMA SiteKeepsNodes ==
    ASSUME GraphInv, NEW s1 \in Site, NEW s2 \in Site, InsertSiteEdge(s1, s2),
           UNCHANGED sites
    PROVE  /\ Bisectors \cup Temporaries \subseteq Bisectors' \cup Temporaries'
           /\ \A p \in Neighbours : p[1] \in Bisectors \cup Temporaries => p \in Neighbours'
<1>1. /\ 1..numEdges \subseteq 1..numEdges' /\ 1..Len(cells) \subseteq 1..Len(cells')
      /\ \A e \in 1..numEdges : /\ cell'[e] = cell[e] /\ twin'[e] = twin[e]
                                /\ vertex0'[e] = vertex0[e] /\ twin[e] \in 1..numEdges
                                /\ cell'[twin'[e]] = cell[twin[e]]
  BY SiteEffect
<1>2. Bisectors \subseteq Bisectors'
  <2> SUFFICES ASSUME NEW n \in Bisectors PROVE n \in Bisectors'
    OBVIOUS
  <2> QED BY <1>1 DEF Bisectors, Open
<1>3. Temporaries \subseteq Temporaries'
  BY <1>1 DEF Temporaries
<1>4. ASSUME NEW p \in Neighbours, p[1] \in Bisectors \cup Temporaries PROVE p \in Neighbours'
  <2>1. p[1].edge # Null => p[1].edge \in 1..numEdges
    BY <1>4 DEF Bisectors, Temporaries
  <2> QED BY <1>1, <2>1 DEF Neighbours, EventFits
<1> QED BY <1>2, <1>3, <1>4

LEMMA JoinKeepsNodes ==
    ASSUME GraphInv, NEW e12 \in Edge, NEW e23 \in Edge, JoinBisectors(e12, e23),
           UNCHANGED sites
    PROVE  /\ \A n \in Bisectors \cup Temporaries :
                n.edge \notin {e12, e23} => n \in Bisectors' \cup Temporaries'
           /\ \A p \in Neighbours : p[1] \in Bisectors \cup Temporaries => p \in Neighbours'
<1>1. PICK n, v, t12, t23 : Joined(e12, e23, t12, t23, n, v)
  BY JoinFacts
<1>2. /\ 1..numEdges \subseteq 1..numEdges' /\ cells' = cells
      /\ \A e \in 1..numEdges : /\ cell'[e] = cell[e] /\ twin'[e] = twin[e]
                                /\ twin[e] \in 1..numEdges
                                /\ cell'[twin'[e]] = cell[twin[e]]
                                /\ e # e12 /\ e # e23 => vertex0'[e] = vertex0[e]
  BY <1>1, EdgeFacts DEF Joined
<1>3. ASSUME NEW m \in Bisectors, m.edge \notin {e12, e23} PROVE m \in Bisectors'
  BY <1>2, <1>3 DEF Bisectors, Open
<1>4. Temporaries \subseteq Temporaries'
  BY <1>2 DEF Temporaries
<1>5. ASSUME NEW p \in Neighbours, p[1] \in Bisectors \cup Temporaries PROVE p \in Neighbours'
  <2>1. p[1].edge # Null => p[1].edge \in 1..numEdges
    BY <1>5 DEF Bisectors, Temporaries
  <2> QED BY <1>2, <2>1 DEF Neighbours, EventFits
<1> QED BY <1>3, <1>4, <1>5

-----------------------------------------------------------------------------
(* The nodes that split an arc, with the event of the lowest. *)
FreshNodes(arc1, arc2, s, ev) ==
    LET below == [id |-> numEdges + 1, l |-> arc1, r |-> Arc(s), edge |-> numEdges + 1,
                  event |-> ev]
        above(arc) == Bisector(arc, arc2, numEdges + 2)
    IN  IF IsSegment(sites[s])
        THEN <<below, TemporaryNode(s), above(Back(Arc(s)))>>
        ELSE <<below, above(Arc(s))>>

(* Short sequences put together. *)
LEMMA OneAndMore ==
    ASSUME NEW x, NEW y, NEW z
    PROVE  <<x>> \o <<y>> = <<x, y>> /\ <<x>> \o <<y, z>> = <<x, y, z>>
<1> DEFINE S == {x, y, z}
<1>1. /\ <<x>> \in Seq(S) /\ <<y>> \in Seq(S) /\ <<y, z>> \in Seq(S)
      /\ Len(<<x>>) = 1 /\ Len(<<y>>) = 1 /\ Len(<<y, z>>) = 2
      /\ <<x>>[1] = x /\ <<y>>[1] = y /\ <<y, z>>[1] = y /\ <<y, z>>[2] = z
  OBVIOUS
<1>2. <<x>> \o <<y>> = <<x, y>>
  <2> DEFINE t == <<x>> \o <<y>>
  <2>1. t \in Seq(S) /\ Len(t) = 2 /\ t[1] = x /\ t[2] = y
    <3> HIDE DEF S
    <3> QED BY <1>1, ConcatProperties
  <2> HIDE DEF t
  <2>2. t = <<x, y>>
    BY <2>1
  <2> QED BY <2>2 DEF t
<1>3. <<x>> \o <<y, z>> = <<x, y, z>>
  <2> DEFINE t == <<x>> \o <<y, z>>
  <2>1. t \in Seq(S) /\ Len(t) = 3 /\ t[1] = x /\ t[2] = y /\ t[3] = z
    <3> HIDE DEF S
    <3> QED BY <1>1, ConcatProperties
  <2> HIDE DEF t
  <2>2. t = <<x, y, z>>
    BY <2>1
  <2> QED BY <2>2 DEF t
<1> QED BY <1>2, <1>3

LEMMA NewNodesAreFresh ==
    ASSUME NEW arc1, NEW arc2, NEW s, NEW ev
    PROVE  LET nodes == NewNodes(arc1, arc2, s)
           IN  /\ <<[Head(nodes) EXCEPT !.event = ev]>> \o Tail(nodes)
                    = FreshNodes(arc1, arc2, s, ev)
               /\ nodes = FreshNodes(arc1, arc2, s, NoEvent)
<1> DEFINE below == Bisector(arc1, Arc(s), numEdges + 1)
           lower == [id |-> numEdges + 1, l |-> arc1, r |-> Arc(s), edge |-> numEdges + 1,
                     event |-> ev]
           above(arc) == Bisector(arc, arc2, numEdges + 2)
<1>1. [below EXCEPT !.event = ev] = lower
  BY DEF Bisector
<1>4. below = [id |-> numEdges + 1, l |-> arc1, r |-> Arc(s), edge |-> numEdges + 1,
                     event |-> NoEvent]
  BY DEF Bisector
<1>5. ASSUME NEW x, NEW y PROVE Head(<<x, y>>) = x /\ <<lower>> \o Tail(<<x, y>>) = <<lower, y>>
  <2>1. Head(<<x, y>>) = x /\ Tail(<<x, y>>) = <<y>>
    OBVIOUS
  <2> HIDE DEF lower
  <2> QED BY <2>1, OneAndMore
<1>6. ASSUME NEW x, NEW y, NEW z
      PROVE  Head(<<x, y, z>>) = x /\ <<lower>> \o Tail(<<x, y, z>>) = <<lower, y, z>>
  <2>1. Head(<<x, y, z>>) = x /\ Tail(<<x, y, z>>) = <<y, z>>
    OBVIOUS
  <2> HIDE DEF lower
  <2> QED BY <2>1, OneAndMore
<1>2. CASE IsSegment(sites[s])
  <2>1. NewNodes(arc1, arc2, s) = <<below, TemporaryNode(s), above(Back(Arc(s)))>>
    BY <1>2 DEF NewNodes
  <2>2. /\ FreshNodes(arc1, arc2, s, ev) = <<lower, TemporaryNode(s), above(Back(Arc(s)))>>
        /\ FreshNodes(arc1, arc2, s, NoEvent) = <<below, TemporaryNode(s), above(Back(Arc(s)))>>
    BY <1>2, <1>4 DEF FreshNodes
  <2> HIDE DEF below, above, lower
  <2> QED BY <1>1, <1>6, <2>1, <2>2
<1>3. CASE ~ IsSegment(sites[s])
  <2>1. NewNodes(arc1, arc2, s) = <<below, above(Arc(s))>>
    BY <1>3 DEF NewNodes
  <2>2. /\ FreshNodes(arc1, arc2, s, ev) = <<lower, above(Arc(s))>>
        /\ FreshNodes(arc1, arc2, s, NoEvent) = <<below, above(Arc(s))>>
    BY <1>3, <1>4 DEF FreshNodes
  <2> HIDE DEF below, above, lower
  <2> QED BY <1>1, <1>5, <2>1, <2>2
<1> QED BY <1>2, <1>3

(* A node with the step's first or second new half-edge. *)
LEMMA FreshBisectors ==
    ASSUME GraphInv, NEW s1 \in Site, NEW s2 \in Site, InsertSiteEdge(s1, s2),
           s1 \in 1..Len(cells'), s2 \in 1..Len(cells'),
           NEW n \in Nodes, n.id = n.edge,
           \/ n.edge = numEdges + 1 /\ n.l.site = s1 /\ n.r.site = s2
           \/ n.edge = numEdges + 2 /\ n.l.site = s2 /\ n.r.site = s1
    PROVE  n \in Bisectors'
<1>1. /\ numEdges \in Nat /\ numEdges' = numEdges + 2
      /\ vertex0'[numEdges + 1] = Null /\ vertex0'[numEdges + 2] = Null
      /\ cell'[numEdges + 1] = s1 /\ cell'[numEdges + 2] = s2
      /\ twin'[numEdges + 1] = numEdges + 2 /\ twin'[numEdges + 2] = numEdges + 1
  BY SiteEffect
<1> QED BY <1>1 DEF Bisectors, Open

(* What is known of them after the step that inserts them. *)
FreshFit(fresh, arc1, arc2, s, ev) ==
    /\ fresh \in Seq(Nodes) /\ Len(fresh) \in Nat /\ Len(fresh) > 1
    /\ NewFit(fresh, (Bisectors \cup Temporaries)', Neighbours')
    /\ fresh[1].l = arc1 /\ fresh[1].event = ev /\ fresh[1].edge = numEdges + 1
    /\ fresh[1].id = numEdges + 1 /\ fresh[1].r.site = s
    /\ LET top == fresh[Len(fresh)]
       IN  top.edge = numEdges + 2 /\ top.r = arc2 /\ top.l.site = s
    /\ \A k \in 1..Len(fresh) :
         /\ \/ fresh[k].id \in {numEdges + 1, numEdges + 2} /\ fresh[k].edge = fresh[k].id
            \/ IsSegment(sites[s]) /\ fresh[k].id = -s /\ fresh[k].edge = Null
         /\ k # 1 => fresh[k].event = NoEvent
    /\ IsSegment(sites[s]) => \E k \in 1..Len(fresh) : fresh[k].edge = Null
    /\ Len(fresh) = IF IsSegment(sites[s]) THEN 3 ELSE 2

LEMMA FreshFits ==
    ASSUME SitesInv, GraphInv, NEW arc1 \in Arcs, NEW arc2 \in Arcs, arc1.site = arc2.site,
           NEW s \in 1..N, InsertSiteEdge(arc2.site, s), UNCHANGED sites,
           arc2.site \in 1..N, arc2.site \in 1..Len(cells'), s \in 1..Len(cells'),
           NEW ev \in {NoEvent} \cup (Arcs \X Arcs \X Arcs),
           NEW fresh, fresh = FreshNodes(arc1, arc2, s, ev)
    PROVE  FreshFit(fresh, arc1, arc2, s, ev)
<1> DEFINE below == [id |-> numEdges + 1, l |-> arc1, r |-> Arc(s), edge |-> numEdges + 1,
                     event |-> ev]
           above(arc) == Bisector(arc, arc2, numEdges + 2)
           good == (Bisectors \cup Temporaries)'
           near == Neighbours'
<1>1. /\ arc2.site \in Site /\ s \in Site /\ numEdges \in Nat /\ s \in Nat
      /\ Arc(s) \in Arcs /\ Arc(s).site = s /\ Back(Arc(s)) \in Arcs /\ Back(Arc(s)).site = s
  BY ArcFacts, EdgeFacts DEF SitesInv
<1>2. /\ below \in Nodes /\ below.id = numEdges + 1 /\ below.l = arc1 /\ below.r.site = s
      /\ below.edge = numEdges + 1 /\ below.event = ev
  BY <1>1 DEF Nodes
<1>3. ASSUME NEW arc \in Arcs, arc.site = s
      PROVE  /\ above(arc) \in Nodes /\ above(arc).id = numEdges + 2 /\ above(arc).l.site = s
             /\ above(arc).r = arc2 /\ above(arc).edge = numEdges + 2
             /\ above(arc).event = NoEvent
  BY <1>1, <1>3 DEF Nodes, Bisector
<1>4. below \in good
  BY <1>1, <1>2, FreshBisectors
<1>5. ASSUME NEW arc \in Arcs, arc.site = s PROVE above(arc) \in good
  BY <1>1, <1>3, <1>5, FreshBisectors
<1>6. CASE IsSegment(sites[s])
  <2> DEFINE mid == TemporaryNode(s)
             top == above(Back(Arc(s)))
  <2>1. fresh = <<below, mid, top>>
    BY <1>6 DEF FreshNodes
  <2>2. /\ mid \in Nodes /\ mid.id = -s /\ mid.l.site = s /\ mid.r.site = s
        /\ mid.edge = Null /\ mid.event = NoEvent
    BY <1>1 DEF TemporaryNode, Nodes, Null
  <2>3. mid \in good
    BY <1>6, <2>2 DEF Temporaries
  <2>4. /\ top \in Nodes /\ top.id = numEdges + 2 /\ top.l.site = s
        /\ top.r = arc2 /\ top.edge = numEdges + 2 /\ top.event = NoEvent /\ top \in good
    BY <1>1, <1>3, <1>5
  <2> HIDE DEF below, above, mid, top
  <2>5. <<below, mid>> \in near /\ <<mid, top>> \in near
    BY <1>2, <2>2, <2>4 DEF Neighbours
  <2>6. \A p, q \in {below, mid, top} : p # q => <<p, q>> \in Apart
    BY <1>1, <1>2, <2>2, <2>4 DEF Apart, Null
  <2>7. below # mid /\ mid # top /\ below # top
    BY <1>1, <1>2, <2>2, <2>4
  <2> HIDE DEF good, near
  <2>8. /\ fresh \in Seq(Nodes) /\ Len(fresh) = 3
        /\ fresh[1] = below /\ fresh[2] = mid /\ fresh[3] = top
    BY <1>2, <2>1, <2>2, <2>4
  <2>9. \A k \in 1..3 : k = 1 \/ k = 2 \/ k = 3
    OBVIOUS
  <2>10. NewFit(fresh, good, near)
    <3>1. \A k \in 1..Len(fresh) : fresh[k] \in good
      BY <1>4, <2>3, <2>4, <2>8, <2>9
    <3>2. \A k \in 2..Len(fresh) : <<fresh[k - 1], fresh[k]>> \in near
      <4>1. \A k \in 2..3 : (k = 2 /\ k - 1 = 1) \/ (k = 3 /\ k - 1 = 2)
        OBVIOUS
      <4> QED BY <2>5, <2>8, <4>1
    <3>3. \A k, m \in 1..Len(fresh) : k # m => <<fresh[k], fresh[m]>> \in Apart
      BY <2>6, <2>7, <2>8, <2>9
    <3> QED BY <3>1, <3>2, <3>3 DEF NewFit
  <2> QED BY <1>2, <1>6, <2>2, <2>4, <2>8, <2>9, <2>10 DEF good, near, FreshFit
<1>7. CASE ~ IsSegment(sites[s])
  <2> DEFINE top == above(Arc(s))
  <2>1. fresh = <<below, top>>
    BY <1>7 DEF FreshNodes
  <2>4. /\ top \in Nodes /\ top.id = numEdges + 2 /\ top.l.site = s
        /\ top.r = arc2 /\ top.edge = numEdges + 2 /\ top.event = NoEvent /\ top \in good
    BY <1>1, <1>3, <1>5
  <2> HIDE DEF below, above, top
  <2>5. <<below, top>> \in near
    BY <1>2, <2>4 DEF Neighbours
  <2>6. \A p, q \in {below, top} : p # q => <<p, q>> \in Apart
    BY <1>1, <1>2, <2>4 DEF Apart, Null
  <2>7. below # top
    BY <1>1, <1>2, <2>4
  <2> HIDE DEF good, near
  <2>8. /\ fresh \in Seq(Nodes) /\ Len(fresh) = 2
        /\ fresh[1] = below /\ fresh[2] = top
    BY <1>2, <2>1, <2>4
  <2>9. \A k \in 1..2 : k = 1 \/ k = 2
    OBVIOUS
  <2>10. NewFit(fresh, good, near)
    <3>1. \A k \in 1..Len(fresh) : fresh[k] \in good
      BY <1>4, <2>4, <2>8, <2>9
    <3>2. \A k \in 2..Len(fresh) : <<fresh[k - 1], fresh[k]>> \in near
      <4>1. \A k \in 2..2 : k = 2 /\ k - 1 = 1
        OBVIOUS
      <4> QED BY <2>5, <2>8, <4>1
    <3>3. \A k, m \in 1..Len(fresh) : k # m => <<fresh[k], fresh[m]>> \in Apart
      BY <2>6, <2>7, <2>8, <2>9
    <3> QED BY <3>1, <3>2, <3>3 DEF NewFit
  <2> QED BY <1>2, <1>7, <2>4, <2>8, <2>9, <2>10 DEF good, near, FreshFit
<1> QED BY <1>6, <1>7

-----------------------------------------------------------------------------
(* The temporary nodes after a change, and the change itself as a splice.   *)
StillWaiting(b, i, j) == {b[k].id : k \in {m \in Kept(b, i, j) : b[m].edge = Null}}

LEMMA WaitingAfter ==
    ASSUME NEW b, NEW b1, NEW c, NEW i, NEW j, NEW new,
           Retimed(b1, b, j), Spliced(Nodes, c, b1, i, j, new)
    PROVE  Waiting(c) = StillWaiting(b, i, j) \cup Waiting(new)
<1>1. MadeOf(c, b1, i, j, new)
  BY SplicedElements, Zenon
<1>2. /\ Kept(b1, i, j) = Kept(b, i, j)
      /\ \A k \in Kept(b, i, j) : b1[k].id = b[k].id /\ b1[k].edge = b[k].edge
  BY DEF Retimed, Kept
<1>3. ASSUME NEW x
      PROVE  x \in Waiting(c) <=> \/ \E k \in Kept(b, i, j) : b[k].edge = Null /\ b[k].id = x
                                  \/ \E k \in 1..Len(new) : new[k].edge = Null /\ new[k].id = x
  <2>1. ASSUME NEW k \in 1..Len(c), c[k].edge = Null, c[k].id = x
        PROVE  \/ \E m \in Kept(b, i, j) : b[m].edge = Null /\ b[m].id = x
               \/ \E m \in 1..Len(new) : new[m].edge = Null /\ new[m].id = x
    <3>1. \/ \E m \in Kept(b, i, j) : b1[m] = c[k]
          \/ \E m \in 1..Len(new) : new[m] = c[k]
      BY <1>1, <1>2 DEF MadeOf
    <3> QED BY <1>2, <2>1, <3>1
  <2>2. ASSUME NEW k \in Kept(b, i, j), b[k].edge = Null, b[k].id = x
        PROVE  \E m \in 1..Len(c) : c[m].edge = Null /\ c[m].id = x
    <3>1. \E m \in 1..Len(c) : c[m] = b1[k]
      BY <1>1, <1>2 DEF MadeOf
    <3> QED BY <1>2, <2>2, <3>1
  <2>3. ASSUME NEW k \in 1..Len(new), new[k].edge = Null, new[k].id = x
        PROVE  \E m \in 1..Len(c) : c[m].edge = Null /\ c[m].id = x
    <3>1. \E m \in 1..Len(c) : c[m] = new[k]
      BY <1>1 DEF MadeOf
    <3> QED BY <2>3, <3>1
  <2>4. x \in Waiting(c) <=> \E k \in 1..Len(c) : c[k].edge = Null /\ c[k].id = x
    BY DEF Waiting, IsTemporary
  <2> QED BY <2>1, <2>2, <2>3, <2>4
<1>4. ASSUME NEW x
      PROVE  /\ x \in Waiting(new) <=> \E k \in 1..Len(new) : new[k].edge = Null /\ new[k].id = x
             /\ x \in StillWaiting(b, i, j) <=> \E k \in Kept(b, i, j) : b[k].edge = Null /\ b[k].id = x
  BY DEF Waiting, IsTemporary, StillWaiting
<1> QED BY <1>3, <1>4

LEMMA SameSplices ==
    ASSUME NEW b \in Seq(Nodes)
    PROVE  \A j : Retimed(b, b, j)
  BY DEF Retimed

(* The nodes from i to j - 1 and the one at j give way to new ones and the  *)
(* node at j with another event.                                            *)
LEMMA RetimedSplices ==
    ASSUME NEW b \in Seq(Nodes), NEW new \in Seq(Nodes), NEW x \in Nodes,
           NEW i \in 1..Len(b), NEW j \in i..Len(b), x.id = b[j].id, x.edge = b[j].edge
    PROVE  /\ Retimed([b EXCEPT ![j] = x], b, j)
           /\ Spliced(Nodes, ReplaceBy(b, i, j + 1, new \o <<x>>),
                      [b EXCEPT ![j] = x], i, j, new)
<1> DEFINE b1 == [b EXCEPT ![j] = x]
           c == ReplaceBy(b, i, j + 1, new \o <<x>>)
<1>1. /\ Len(b) \in Nat /\ Len(new) \in Nat /\ i \in Nat /\ j \in Nat
      /\ i <= j /\ j <= Len(b) /\ 1 <= i
  BY LenProperties
<1>2. b1 \in Seq(Nodes) /\ Len(b1) = Len(b) /\ \A k \in 1..Len(b) : b1[k] = IF k = j THEN x ELSE b[k]
  BY <1>1, ExceptSeq
<1>3. /\ new \o <<x>> \in Seq(Nodes) /\ Len(new \o <<x>>) = Len(new) + 1
      /\ \A k \in 1..Len(new) : (new \o <<x>>)[k] = new[k]
      /\ (new \o <<x>>)[Len(new) + 1] = x
  <2>1. <<x>> \in Seq(Nodes) /\ Len(<<x>>) = 1 /\ <<x>>[1] = x
    OBVIOUS
  <2> QED BY <1>1, <2>1, ConcatProperties
<1>4. Spliced(Nodes, c, b, i, j + 1, new \o <<x>>)
  <2>1. i \in 1..(Len(b) + 1) /\ j + 1 \in i..(Len(b) + 1)
    BY <1>1
  <2> QED BY <1>3, <2>1, ReplaceBySplices
<1> HIDE DEF b1, c
<1>5. Retimed(b1, b, j)
  BY <1>2 DEF Retimed
<1>6. Spliced(Nodes, c, b1, i, j, new)
  <2>1. /\ c \in Seq(Nodes) /\ Len(c) = Len(b) - (j + 1 - i) + (Len(new) + 1)
        /\ \A k \in 1..(i - 1) : c[k] = b[k]
        /\ \A k \in 1..(Len(new) + 1) : c[i - 1 + k] = (new \o <<x>>)[k]
        /\ \A k \in (j + 1)..Len(b) : c[k - (j + 1) + i + (Len(new) + 1)] = b[k]
    BY <1>3, <1>4 DEF Spliced
  <2>2. \A k \in 1..(i - 1) : c[k] = b1[k]
    BY <1>1, <1>2, <2>1
  <2>3. \A k \in 1..Len(new) : c[i - 1 + k] = new[k]
    BY <1>1, <1>3, <2>1
  <2>4. ASSUME NEW k \in j..Len(b) PROVE c[k - j + i + Len(new)] = b1[k]
    <3>1. CASE k = j
      <4>1. k - j + i + Len(new) = i - 1 + (Len(new) + 1) /\ Len(new) + 1 \in 1..(Len(new) + 1)
        BY <1>1, <3>1
      <4>2. c[i - 1 + (Len(new) + 1)] = x
        BY <1>3, <2>1, <4>1
      <4>3. b1[k] = x
        BY <1>1, <1>2, <3>1
      <4> QED BY <4>1, <4>2, <4>3
    <3>2. CASE k # j
      <4>1. /\ k - j + i + Len(new) = k - (j + 1) + i + (Len(new) + 1)
            /\ k \in (j + 1)..Len(b) /\ k \in 1..Len(b)
        BY <1>1, <3>2
      <4>2. c[k - (j + 1) + i + (Len(new) + 1)] = b[k] /\ b1[k] = b[k]
        BY <1>2, <2>1, <3>2, <4>1
      <4> QED BY <4>1, <4>2
    <3> QED BY <3>1, <3>2
  <2> QED BY <1>1, <1>2, <2>1, <2>2, <2>3, <2>4 DEF Spliced
<1> QED BY <1>5, <1>6 DEF b1, c

LEMMA EndSplices ==
    ASSUME NEW S, NEW b \in Seq(S), NEW new \in Seq(S)
    PROVE  Spliced(S, b \o new, b, Len(b) + 1, Len(b) + 1, new)
<1>1. Len(b) \in Nat /\ Len(new) \in Nat
  BY LenProperties
<1>2. /\ b \o new \in Seq(S) /\ Len(b \o new) = Len(b) + Len(new)
      /\ \A k \in 1..(Len(b) + Len(new)) :
            (b \o new)[k] = IF k <= Len(b) THEN b[k] ELSE new[k - Len(b)]
  BY ConcatProperties
<1>3. \A k \in 1..(Len(b) + 1 - 1) : (b \o new)[k] = b[k]
  BY <1>1, <1>2
<1>4. \A k \in 1..Len(new) : (b \o new)[Len(b) + 1 - 1 + k] = new[k]
  BY <1>1, <1>2
<1>5. b \o new \in Seq(S) /\ Len(b \o new) = Len(b) - (Len(b) + 1 - (Len(b) + 1)) + Len(new)
  BY <1>1, <1>2
<1> QED BY <1>1, <1>3, <1>4, <1>5 DEF Spliced

-----------------------------------------------------------------------------
(* The invariant, node by node. *)
LEMMA BeachFacts ==
    ASSUME SweepInv
    PROVE  /\ beach \in Seq(Nodes) /\ Len(beach) \in Nat /\ (beach = <<>> <=> Len(beach) = 0)
           /\ Chain(beach, Bisectors \cup Temporaries, Neighbours, circles)
           /\ \A k \in 1..Len(beach) :
                /\ beach[k] \in Nodes /\ beach[k] \in Bisectors \cup Temporaries
                /\ beach[k].edge # Null => beach[k] \in Bisectors
                /\ beach[k].edge = Null => beach[k] \in Temporaries
                /\ beach[k].l.site \in 1..Len(cells) /\ beach[k].r.site \in 1..Len(cells)
                /\ k > 1 => /\ beach[k - 1] \in Nodes
                            /\ <<beach[k - 1], beach[k]>> \in Neighbours
                            /\ beach[k - 1].r.site = beach[k].l.site
           /\ Len(beach) > 0 => /\ beach[1].event = NoEvent /\ beach[1].edge # Null
                                /\ beach[Len(beach)].edge # Null
<1>1. beach \in Seq(Nodes) /\ Len(beach) \in Nat /\ (beach = <<>> <=> Len(beach) = 0)
  BY LenProperties, EmptySeq DEF SweepInv, BeachInv, Chain
<1>2. ASSUME NEW k \in 1..Len(beach)
      PROVE  /\ beach[k] \in Nodes /\ beach[k] \in Bisectors \cup Temporaries
             /\ beach[k].edge # Null => beach[k] \in Bisectors
             /\ beach[k].edge = Null => beach[k] \in Temporaries
             /\ beach[k].l.site \in 1..Len(cells) /\ beach[k].r.site \in 1..Len(cells)
  <2>1. beach[k] \in Nodes
    BY <1>1, ElementOfSeq
  <2>2. beach[k] \in Bisectors \cup Temporaries
    BY DEF SweepInv, BeachInv, Chain
  <2>3. ASSUME NEW n \in Bisectors \cup Temporaries
        PROVE  /\ n.edge # Null => n \in Bisectors
               /\ n.edge = Null => n \in Temporaries
               /\ n.l.site \in 1..Len(cells) /\ n.r.site \in 1..Len(cells)
    <3>1. CASE n \in Bisectors
      <4>1. n.edge \in 1..numEdges /\ n.l.site \in 1..Len(cells) /\ n.r.site \in 1..Len(cells)
        BY <3>1 DEF Bisectors
      <4>2. n.edge # Null
        BY <4>1 DEF Null
      <4> QED BY <3>1, <4>1, <4>2
    <3>2. CASE n \in Temporaries
      BY <3>2 DEF Temporaries
    <3> QED BY <3>1, <3>2
  <2> QED BY <2>1, <2>2, <2>3
<1>3. ASSUME NEW k \in 1..Len(beach), k > 1
      PROVE  /\ beach[k - 1] \in Nodes
             /\ <<beach[k - 1], beach[k]>> \in Neighbours
             /\ beach[k - 1].r.site = beach[k].l.site
  <2>1. k \in 2..Len(beach)
    BY <1>1, <1>3
  <2>2. <<beach[k - 1], beach[k]>> \in Neighbours
    BY <2>1 DEF SweepInv, BeachInv, Chain
  <2> QED BY <2>2 DEF Neighbours
<1>4. Len(beach) > 0 => /\ beach[1].event = NoEvent /\ beach[1].edge # Null
                        /\ beach[Len(beach)].edge # Null
  BY <1>1 DEF SweepInv, BeachInv, Chain
<1> QED BY <1>1, <1>2, <1>3, <1>4 DEF SweepInv, BeachInv

(* A node with an event follows a bisector and is one. *)
LEMMA OnlyBisectorsMeet ==
    ASSUME SweepInv, NEW k \in 1..Len(beach), beach[k].event # NoEvent
    PROVE  k > 1 /\ beach[k].edge # Null /\ beach[k - 1].edge # Null
<1>1. k > 1
  <2>1. k # 1
    BY BeachFacts
  <2> QED BY <2>1
<1>2. EventFits(beach[k - 1], beach[k])
  <2>1. <<beach[k - 1], beach[k]>> \in Neighbours
    BY <1>1, BeachFacts
  <2>2. \A p \in Neighbours : p[2].event # NoEvent => EventFits(p[1], p[2])
    BY DEF Neighbours
  <2>3. <<beach[k - 1], beach[k]>>[1] = beach[k - 1] /\ <<beach[k - 1], beach[k]>>[2] = beach[k]
    OBVIOUS
  <2> QED BY <2>1, <2>2, <2>3
<1> QED BY <1>1, <1>2 DEF EventFits

(* Two nodes of which the upper one has a new event. *)
LEMMA NewNeighbours ==
    ASSUME NEW m \in Nodes, NEW n \in Nodes, m.r.site = n.l.site,
           n.event # NoEvent =>
                /\ m.edge # Null /\ n.edge # Null /\ twin'[m.edge] # n.edge
                /\ n.event[1].site = m.l.site /\ n.event[2].site = n.l.site
                /\ n.event[3].site = n.r.site
    PROVE  <<m, n>> \in Neighbours'
  BY DEF Neighbours, EventFits

-----------------------------------------------------------------------------
(* What insert_new_arc puts where. *)
ArcSplit ==
    \E b1, fresh, arc1, arc2, ev :
        /\ Retimed(b1, beach, right) /\ Spliced(Nodes, beach', b1, right, right, fresh)
        /\ FreshFit(fresh, arc1, arc2, cursor, ev)
        /\ arc2.site \in 1..Len(cells) /\ AddSite(arc2.site, cursor)
        /\ IF right <= Len(beach) THEN arc2.site = beach[right].l.site
                                  ELSE right = Len(beach) + 1
        /\ right > 1 => arc2.site = beach[right - 1].r.site

LEMMA InsertArcSteps ==
    ASSUME SweepInv, InsertArc
    PROVE  /\ \E s \in 1..Len(cells) : AddSite(s, cursor)
           /\ ArcSplit
           /\ BeachInv'
           /\ Waiting(beach') = Waiting(beach)
                                    \cup (IF IsSegment(sites[cursor]) THEN {-cursor} ELSE {})
           /\ Len(beach') = Len(beach) + IF IsSegment(sites[cursor]) THEN 3 ELSE 2
<1> DEFINE site == Arc(cursor)
           reverse == IF OnSegment(site) THEN Back(site) ELSE site
           isEnd == right > Len(beach)
           isBegin == right = 1
           left == beach[right - 1]
           old == beach[right]
           arc1 == IF isBegin THEN old.l ELSE left.r
           arc2 == IF isEnd THEN left.r ELSE old.l
           nodes == NewNodes(arc1, arc2, cursor)
           ev == IF isBegin THEN NoEvent ELSE Candidate(left.l, arc1, site)
           below == [Head(nodes) EXCEPT !.event = ev]
           found == IF isEnd THEN NoEvent ELSE Candidate(reverse, arc2, old.r)
           above == [old EXCEPT !.event = IF isBegin /\ found = NoEvent THEN @ ELSE found]
           withdrawn == IF isBegin \/ isEnd THEN {} ELSE Deactivated(old)
           fresh == FreshNodes(arc1, arc2, cursor, ev)
           good == (Bisectors \cup Temporaries)'
           near == Neighbours'
<1>1. /\ GraphInv /\ SitesInv /\ cursor \in 1..N /\ cursor > 1 /\ Len(cells) = cursor - 1
      /\ cells # <<>> /\ right \in 1..(Len(beach) + 1) /\ Len(beach) \in Nat /\ Len(beach) > 0
      /\ N \in Nat /\ cursor \in Nat /\ beach \in Seq(Nodes) /\ 1..N \subseteq Site
  <2>1. pc = "arcs"
    BY DEF InsertArc
  <2>2. /\ GraphInv /\ SitesInv /\ N \in Nat /\ 1..N \subseteq Site
        /\ cursor \in 1..(N + 1) /\ last \in 1..(N + 1) /\ cursor < last
        /\ right \in 0..(Len(beach) + 1) /\ right # 0
        /\ cursor > 1 /\ Len(cells) = cursor - 1 /\ (N > 1 => beach # <<>>)
    BY <2>1 DEF SweepInv, PhaseInv, SitesInv
  <2>3. cells # <<>>
    <3>1. Len(<<>>) = 0
      OBVIOUS
    <3> QED BY <2>2, <3>1
  <2> QED BY <2>2, <2>3, BeachFacts
<1>2. /\ sites' = sites /\ InsertSiteEdge(arc2.site, cursor)
      /\ beach' = IF isEnd THEN beach \o <<below>> \o Tail(nodes)
                  ELSE ReplaceBy(beach, right, right + 1, <<below>> \o Tail(nodes) \o <<above>>)
      /\ circles' = (circles \ withdrawn)
                        \cup Activated(below)
                        \cup (IF found = NoEvent THEN {} ELSE Activated(above))
  BY DEF InsertArc
<1>3. /\ isBegin => ~ isEnd
      /\ ~ isEnd => /\ right \in 1..Len(beach) /\ old \in Nodes /\ arc2 = old.l
                    /\ old.l \in Arcs /\ old.r \in Arcs /\ old.l.site \in 1..Len(cells)
      /\ ~ isBegin => /\ right - 1 \in 1..Len(beach) /\ left \in Nodes /\ arc1 = left.r
                      /\ left.l \in Arcs /\ left.r \in Arcs /\ left.r.site \in 1..Len(cells)
      /\ isBegin => old.event = NoEvent /\ old.edge # Null
      /\ ~ isBegin /\ ~ isEnd => left.r.site = old.l.site
  <2>1. /\ isBegin => ~ isEnd
        /\ ~ isEnd => right \in 1..Len(beach)
        /\ ~ isBegin => right - 1 \in 1..Len(beach) /\ right > 1
    BY <1>1
  <2> QED BY <1>1, <2>1, BeachFacts, NodeFacts
<1>4. /\ arc1 \in Arcs /\ arc2 \in Arcs /\ arc1.site = arc2.site /\ arc2.site \in 1..Len(cells)
  BY <1>3
<1>5. /\ Len(cells') = cursor /\ AddSite(arc2.site, cursor)
      /\ arc2.site \in Site /\ cursor \in Site /\ arc2.site # cursor
      /\ numEdges \in Nat
  <2> HIDE DEF arc1, arc2
  <2>1. arc2.site \in Site /\ cursor \in Site /\ arc2.site # cursor
    BY <1>1, <1>4
  <2>2. Len(cells') = cursor
    BY <1>1, <1>2, <2>1, SiteEffect
  <2> QED BY <1>1, <1>2, <1>4, <2>1, <2>2, SiteEffect DEF AddSite
<1>6. /\ site \in Arcs /\ site.site = cursor /\ reverse \in Arcs /\ reverse.site = cursor
  BY <1>1, ArcFacts
<1> HIDE DEF site, reverse
<1>7. /\ ev \in {NoEvent} \cup (Arcs \X Arcs \X Arcs)
      /\ ev # NoEvent => ~ isBegin /\ left.edge # Null /\ ev = <<left.l, arc1, site>>
  <2>1. CASE isBegin
    BY <2>1
  <2>2. CASE ~ isBegin
    <3>1. left.l \in Arcs
      BY <1>3, <2>2
    <3>2. /\ ev \in {NoEvent} \cup (Arcs \X Arcs \X Arcs)
          /\ ev # NoEvent => ev = <<left.l, arc1, site>>
      BY <1>4, <1>6, <2>2, <3>1, CandidateFacts
    <3>3. left.edge = Null => ev = NoEvent
      <4> SUFFICES ASSUME left.edge = Null PROVE ev = NoEvent
        OBVIOUS
      <4>1. left \in Temporaries
        BY <1>3, <2>2, BeachFacts
      <4>2. IsSegment(sites[arc1.site]) /\ left.l.site = arc1.site
        <5>1. left.r.site = left.l.site /\ IsSegment(sites[left.l.site])
          BY <4>1 DEF Temporaries
        <5>2. arc1 = left.r
          BY <1>3, <2>2
        <5> QED BY <5>1, <5>2
      <4>3. Candidate(left.l, arc1, site) = NoEvent
        BY <4>2, NoEventOnOneSegment
      <4> QED BY <2>2, <4>3
    <3> QED BY <2>2, <3>2, <3>3
  <2> QED BY <2>1, <2>2
<1>8. /\ found \in {NoEvent} \cup (Arcs \X Arcs \X Arcs)
      /\ found # NoEvent => ~ isEnd /\ old.edge # Null /\ found = <<reverse, arc2, old.r>>
  <2>1. CASE isEnd
    BY <2>1
  <2>2. CASE ~ isEnd
    <3>1. old.r \in Arcs
      BY <1>3, <2>2
    <3>2. /\ found \in {NoEvent} \cup (Arcs \X Arcs \X Arcs)
          /\ found # NoEvent => found = <<reverse, arc2, old.r>>
      BY <1>4, <1>6, <2>2, <3>1, CandidateFacts
    <3>3. old.edge = Null => found = NoEvent
      <4> SUFFICES ASSUME old.edge = Null PROVE found = NoEvent
        OBVIOUS
      <4>1. old \in Temporaries
        BY <1>3, <2>2, BeachFacts
      <4>2. IsSegment(sites[arc2.site]) /\ arc2.site = old.r.site
        <5>1. old.r.site = old.l.site /\ IsSegment(sites[old.l.site])
          BY <4>1 DEF Temporaries
        <5>2. arc2 = old.l
          BY <1>3, <2>2
        <5> QED BY <5>1, <5>2
      <4>3. Candidate(reverse, arc2, old.r) = NoEvent
        BY <4>2, NoEventOnOneSegment
      <4> QED BY <2>2, <4>3
    <3> QED BY <2>2, <3>2, <3>3
  <2> QED BY <2>1, <2>2
<1>9. /\ isEnd \/ above = [old EXCEPT !.event = found]
      /\ ~ isEnd => /\ above \in Nodes /\ above.id = old.id /\ above.edge = old.edge
                    /\ above.l = old.l /\ above.r = old.r /\ above.event = found
  <2> SUFFICES ASSUME ~ isEnd
               PROVE  /\ above = [old EXCEPT !.event = found]
                      /\ above \in Nodes /\ above.id = old.id /\ above.edge = old.edge
                      /\ above.l = old.l /\ above.r = old.r /\ above.event = found
    OBVIOUS
  <2>1. old \in Nodes /\ (isBegin => old.event = NoEvent)
    BY <1>3
  <2> HIDE DEF old, found, isBegin
  <2>2. above = [old EXCEPT !.event = found]
    BY <2>1
  <2>3. [old EXCEPT !.event = found] \in Nodes
    BY <1>8, <2>1 DEF Nodes
  <2> HIDE DEF above
  <2> QED BY <2>1, <2>2, <2>3 DEF Nodes
<1> HIDE DEF arc1, arc2, ev, found, above
<1>10. /\ fresh \in Seq(Nodes) /\ Len(fresh) \in Nat /\ Len(fresh) > 1
       /\ NewFit(fresh, good, near)
       /\ fresh[1].l = arc1 /\ fresh[1].event = ev /\ fresh[1].edge = numEdges + 1
       /\ fresh[1].id = numEdges + 1 /\ fresh[1].r.site = cursor
       /\ fresh[Len(fresh)].edge = numEdges + 2
       /\ fresh[Len(fresh)].r = arc2 /\ fresh[Len(fresh)].l.site = cursor
       /\ \A k \in 1..Len(fresh) :
            /\ \/ fresh[k].id \in {numEdges + 1, numEdges + 2} /\ fresh[k].edge = fresh[k].id
               \/ IsSegment(sites[cursor]) /\ fresh[k].id = -cursor /\ fresh[k].edge = Null
            /\ k # 1 => fresh[k].event = NoEvent
       /\ IsSegment(sites[cursor]) => \E k \in 1..Len(fresh) : fresh[k].edge = Null
       /\ Len(fresh) = IF IsSegment(sites[cursor]) THEN 3 ELSE 2
       /\ FreshFit(fresh, arc1, arc2, cursor, ev)
  <2> HIDE DEF fresh
  <2>1. arc2.site \in 1..N /\ arc2.site \in 1..Len(cells') /\ cursor \in 1..Len(cells')
    BY <1>1, <1>4, <1>5
  <2>2. fresh = FreshNodes(arc1, arc2, cursor, ev)
    BY DEF fresh
  <2>3. sites' = sites /\ GraphInv /\ SitesInv /\ InsertSiteEdge(arc2.site, cursor)
    BY <1>1, <1>2
  <2>4. FreshFit(fresh, arc1, arc2, cursor, ev)
    BY <1>1, <1>4, <1>7, <2>1, <2>2, <2>3, FreshFits
  <2> QED BY <2>4 DEF FreshFit
<1>11. /\ <<below>> \o Tail(nodes) = fresh /\ below = fresh[1]
       /\ <<below>> \in Seq(Nodes) /\ Tail(nodes) \in Seq(Nodes)
  <2>1. <<below>> \o Tail(nodes) = fresh /\ nodes = FreshNodes(arc1, arc2, cursor, NoEvent)
    BY NewNodesAreFresh, Zenon
  <2>2. nodes \in Seq(Nodes) /\ Len(nodes) > 1
    <3> HIDE DEF nodes
    <3>1. arc2.site \in 1..N /\ arc2.site \in 1..Len(cells') /\ cursor \in 1..Len(cells')
      BY <1>1, <1>4, <1>5
    <3>2. FreshFit(nodes, arc1, arc2, cursor, NoEvent)
      BY <1>1, <1>2, <1>4, <2>1, <3>1, FreshFits
    <3> QED BY <3>2 DEF FreshFit
  <2>3. Tail(nodes) \in Seq(Nodes) /\ Head(nodes) \in Nodes
    <3> HIDE DEF nodes
    <3>1. nodes # <<>>
      BY <2>2, EmptySeq
    <3> QED BY <2>2, <3>1, HeadTailProperties
  <2>4. below \in Nodes
    <3> HIDE DEF nodes
    <3> QED BY <1>7, <2>3 DEF Nodes
  <2> HIDE DEF below, nodes, fresh
  <2>5. <<below>> \in Seq(Nodes) /\ Len(<<below>>) = 1 /\ <<below>>[1] = below
    BY <2>4
  <2>6. (<<below>> \o Tail(nodes))[1] = below
    BY <2>3, <2>5, ConcatProperties, LenProperties
  <2> QED BY <2>1, <2>3, <2>5, <2>6
<1> HIDE DEF fresh, below, nodes
<1>12. PICK b1 : /\ Retimed(b1, beach, right) /\ Spliced(Nodes, beach', b1, right, right, fresh)
                 /\ ~ isEnd => b1[right] = above
  <2>1. CASE isEnd
    <3>1. right = Len(beach) + 1
      BY <1>1, <2>1
    <3>2. beach' = (beach \o <<below>>) \o Tail(nodes)
      BY <1>2, <2>1
    <3>3. (beach \o <<below>>) \o Tail(nodes) = beach \o (<<below>> \o Tail(nodes))
      BY <1>1, <1>11, ConcatAssociative
    <3>4. Spliced(Nodes, beach', beach, right, right, fresh)
      BY <1>1, <1>10, <1>11, <3>1, <3>2, <3>3, EndSplices
    <3> QED BY <1>1, <2>1, <3>4, SameSplices
  <2>2. CASE ~ isEnd
    <3> DEFINE b1 == [beach EXCEPT ![right] = above]
    <3>1. beach' = ReplaceBy(beach, right, right + 1, fresh \o <<above>>)
      BY <1>2, <1>11, <2>2
    <3>2. right \in 1..Len(beach) /\ right \in right..Len(beach)
      BY <1>1, <1>3, <2>2
    <3>3. Retimed(b1, beach, right) /\ Spliced(Nodes, beach', b1, right, right, fresh)
      BY <1>1, <1>9, <1>10, <2>2, <3>1, <3>2, RetimedSplices
    <3>4. b1[right] = above
      BY <1>1, <3>2, <1>9, <2>2, ExceptSeq
    <3> QED BY <3>3, <3>4
  <2> QED BY <2>1, <2>2
<1>13. /\ \A k \in 1..Len(beach) : beach[k] \in good
       /\ \A k \in 2..Len(beach) : <<beach[k - 1], beach[k]>> \in near
  <2>1. /\ Bisectors \cup Temporaries \subseteq good
        /\ \A p \in Neighbours : p[1] \in Bisectors \cup Temporaries => p \in near
    BY <1>1, <1>2, <1>5, SiteKeepsNodes
  <2> HIDE DEF good, near
  <2>2. ASSUME NEW k \in 2..Len(beach) PROVE <<beach[k - 1], beach[k]>> \in near
    <3>1. k \in 1..Len(beach) /\ k - 1 \in 1..Len(beach) /\ k > 1
      BY <1>1
    <3>2. <<beach[k - 1], beach[k]>> \in Neighbours /\ beach[k - 1] \in Bisectors \cup Temporaries
      BY <3>1, BeachFacts
    <3> QED BY <2>1, <3>2
  <2> QED BY <2>1, <2>2, BeachFacts
<1>14. /\ numEdges' = numEdges + 2 /\ twin'[numEdges + 2] = numEdges + 1
       /\ \A e \in 1..numEdges : twin'[e] \in 1..numEdges
       /\ \A k \in 1..Len(beach) :
            /\ beach[k].edge \in 0..numEdges /\ beach[k].id \in Int
            /\ beach[k].id <= numEdges /\ beach[k].id > - cursor
  <2>1. /\ numEdges' = numEdges + 2 /\ twin'[numEdges + 2] = numEdges + 1
        /\ \A e \in 1..numEdges : twin'[e] \in 1..numEdges
    BY <1>2, <1>5, <1>1, SiteEffect
  <2>2. ASSUME NEW n \in Bisectors \cup Temporaries
        PROVE  n.edge \in 0..numEdges /\ n.id \in Int /\ n.id <= numEdges /\ n.id > - cursor
    <3>1. CASE n \in Bisectors
      BY <1>1, <1>5, <3>1 DEF Bisectors
    <3>2. CASE n \in Temporaries
      <4>1. n.edge = 0 /\ n.id = - n.l.site /\ n.l.site \in 1..(cursor - 1)
        BY <1>1, <3>2 DEF Temporaries, Null
      <4> QED BY <1>1, <1>5, <4>1
    <3> QED BY <3>1, <3>2
  <2> QED BY <2>1, <2>2, BeachFacts
<1>15. ~ isEnd => above \in good /\ \A n : <<old, n>> \in near => <<above, n>> \in near
  <2> SUFFICES ASSUME ~ isEnd
               PROVE  above \in good /\ \A n : <<old, n>> \in near => <<above, n>> \in near
    OBVIOUS
  <2>1. /\ above \in Nodes /\ above.id = old.id /\ above.edge = old.edge
        /\ above.l = old.l /\ above.r = old.r /\ above.event = found /\ old \in good
        /\ old.edge = Null => found = NoEvent
    BY <1>3, <1>8, <1>9, <1>13
  <2> HIDE DEF old
  <2>2. above \in good
    <3>1. CASE old \in Bisectors'
      <4>1. above \in Bisectors'
        BY <2>1, <3>1 DEF Bisectors
      <4> QED BY <4>1
    <3>2. CASE old \in Temporaries'
      <4>1. above \in Temporaries'
        BY <2>1, <3>2 DEF Temporaries
      <4> QED BY <4>1
    <3> QED BY <2>1, <3>1, <3>2
  <2>3. ASSUME NEW n, <<old, n>> \in near PROVE <<above, n>> \in near
    BY <2>1, <2>3 DEF Neighbours, EventFits
  <2> QED BY <2>2, <2>3
<1>16. ASSUME ~ isBegin PROVE <<left, fresh[1]>> \in near
  <2>1. /\ left \in Nodes /\ left.r.site = fresh[1].l.site /\ left.edge \in 0..numEdges
        /\ fresh[1] \in Nodes
    <3>1. fresh[1] \in Nodes
      BY <1>10, ElementOfSeq
    <3> QED BY <1>3, <1>10, <1>14, <1>16, <3>1
  <2>2. ASSUME ev # NoEvent
        PROVE  /\ left.edge # Null /\ fresh[1].edge # Null /\ twin'[left.edge] # fresh[1].edge
               /\ ev[1].site = left.l.site /\ ev[2].site = fresh[1].l.site
               /\ ev[3].site = fresh[1].r.site
    <3>1. /\ left.edge # Null /\ ev = <<left.l, arc1, site>> /\ fresh[1].event = ev
          /\ fresh[1].l = arc1 /\ fresh[1].edge = numEdges + 1 /\ fresh[1].r.site = cursor
      BY <1>7, <1>10, <2>2
    <3>2. fresh[1].edge # Null /\ twin'[left.edge] # fresh[1].edge
      BY <1>5, <1>14, <2>1, <3>1 DEF Null
    <3>3. ev[1] = left.l /\ ev[2] = arc1 /\ ev[3] = site
      BY <3>1
    <3> HIDE DEF left
    <3> QED BY <1>6, <3>1, <3>2, <3>3
  <2> HIDE DEF left
  <2> QED BY <1>10, <2>1, <2>2, NewNeighbours
<1>17. ASSUME ~ isEnd PROVE <<fresh[Len(fresh)], above>> \in near
  <2> DEFINE top == fresh[Len(fresh)]
  <2>1. /\ top \in Nodes /\ above \in Nodes /\ top.r = above.l /\ old.edge \in 0..numEdges
        /\ top.edge = numEdges + 2 /\ top.l.site = cursor /\ above.edge = old.edge
        /\ above.event = found /\ above.l = arc2 /\ above.r = old.r
    <3>1. fresh[Len(fresh)] \in Nodes
      BY <1>10, ElementOfSeq
    <3> QED BY <1>3, <1>9, <1>10, <1>14, <1>17, <3>1
  <2> HIDE DEF top
  <2>2. ASSUME found # NoEvent
        PROVE  /\ top.edge # Null /\ above.edge # Null /\ twin'[top.edge] # above.edge
               /\ found[1].site = top.l.site /\ found[2].site = above.l.site
               /\ found[3].site = above.r.site
    <3>1. old.edge # Null /\ found = <<reverse, arc2, old.r>>
      BY <1>8, <2>2
    <3>2. top.edge # Null /\ twin'[top.edge] # above.edge
      BY <1>5, <1>14, <2>1, <3>1 DEF Null
    <3>3. found[1] = reverse /\ found[2] = arc2 /\ found[3] = old.r
      BY <3>1
    <3> HIDE DEF old
    <3> QED BY <1>6, <2>1, <3>1, <3>2, <3>3
  <2>3. <<top, above>> \in near
    <3> HIDE DEF old
    <3> QED BY <2>1, <2>2, NewNeighbours
  <2> QED BY <2>3 DEF top
<1> HIDE DEF good, near
<1>18. OldFit(beach, b1, right, right, good, near)
  <2>1. \A k \in 1..Len(beach) : k # right => b1[k] = beach[k]
    BY <1>12 DEF Retimed
  <2>2. ASSUME NEW k \in 1..Len(beach) PROVE b1[k] \in good
    <3>1. CASE k = right
      BY <1>1, <1>12, <1>15, <3>1
    <3>2. CASE k # right
      BY <1>13, <2>1, <3>2
    <3> QED BY <3>1, <3>2
  <2>3. ASSUME NEW k \in 2..Len(beach), k < right \/ k > right
        PROVE  <<b1[k - 1], b1[k]>> \in near
    <3>1. k \in 1..Len(beach) /\ k - 1 \in 1..Len(beach) /\ b1[k] = beach[k]
      BY <1>1, <2>1, <2>3
    <3>2. <<beach[k - 1], beach[k]>> \in near
      BY <1>13
    <3>3. CASE k - 1 = right
      <4>1. ~ isEnd /\ b1[k - 1] = above /\ beach[k - 1] = old
        BY <1>1, <1>12, <3>1, <3>3
      <4> QED BY <1>15, <3>1, <3>2, <4>1
    <3>4. CASE k - 1 # right
      BY <2>1, <3>1, <3>2, <3>4
    <3> QED BY <3>3, <3>4
  <2> QED BY <2>2, <2>3 DEF OldFit, Kept
<1>19. JointFit(beach, b1, right, right, fresh, near)
  <2>1. fresh # <<>>
    BY <1>10, EmptySeq
  <2>2. right > 1 => <<beach[right - 1], fresh[1]>> \in near
    BY <1>1, <1>16
  <2>3. right <= Len(beach) => <<fresh[Len(fresh)], b1[right]>> \in near
    BY <1>1, <1>12, <1>17
  <2>4. right = 1 => fresh[1].event = NoEvent /\ fresh[1].edge # Null
    BY <1>5, <1>7, <1>10 DEF Null
  <2>5. fresh[Len(fresh)].edge # Null
    BY <1>5, <1>10 DEF Null
  <2>6. ASSUME NEW k \in 1..Len(beach), NEW m \in 1..Len(fresh)
        PROVE  <<beach[k], fresh[m]>> \in Apart /\ <<fresh[m], beach[k]>> \in Apart
    <3>1. /\ beach[k] \in Nodes /\ fresh[m] \in Nodes /\ beach[k].edge \in 0..numEdges
          /\ beach[k].id \in Int /\ beach[k].id <= numEdges /\ beach[k].id > - cursor
      BY <1>10, <1>14, BeachFacts, ElementOfSeq
    <3>2. \/ fresh[m].id \in {numEdges + 1, numEdges + 2} /\ fresh[m].edge = fresh[m].id
          \/ fresh[m].id = -cursor /\ fresh[m].edge = Null
      BY <1>10
    <3>3. beach[k].id # fresh[m].id /\ (beach[k].edge # Null => beach[k].edge # fresh[m].edge)
          /\ (fresh[m].edge # Null => fresh[m].edge # beach[k].edge)
      BY <1>1, <1>5, <3>1, <3>2 DEF Null
    <3> QED BY <3>1, <3>3 DEF Apart
  <2> QED BY <2>1, <2>2, <2>3, <2>4, <2>5, <2>6 DEF JointFit, Kept
<1>20. QueueFits(beach, b1, right, right, fresh, circles, circles')
  <2> DEFINE W == UNION {EventsOf(beach[k]) : k \in {m \in 1..Len(beach) : right <= m /\ m <= right}}
             X == UNION {EventsOf(b1[k]) : k \in {m \in 1..Len(beach) : m = right}}
             Y == UNION {EventsOf(fresh[k]) : k \in 1..Len(fresh)}
  <2>1. Y = Activated(below)
    <3>1. \A k \in 1..Len(fresh) : k # 1 => EventsOf(fresh[k]) = {}
      BY <1>10 DEF EventsOf
    <3>2. 1 \in 1..Len(fresh)
      BY <1>10
    <3>3. \A x : x \in Y <=> \E k \in 1..Len(fresh) : x \in EventsOf(fresh[k])
      OBVIOUS
    <3>4. \A x : x \in Y <=> x \in EventsOf(fresh[1])
      BY <3>1, <3>2, <3>3
    <3> QED BY <1>11, <3>4 DEF Activated
  <2>2. CASE isEnd
    <3>1. \A m \in 1..Len(beach) : ~ (right <= m /\ m <= right) /\ m # right
      BY <1>1, <2>2
    <3>2. W = {} /\ X = {} /\ withdrawn = {} /\ found = NoEvent
      BY <3>1, <2>2 DEF found
    <3> HIDE DEF W, X, Y, withdrawn
    <3> QED BY <1>2, <2>1, <3>2 DEF QueueFits, W, X, Y
  <2>3. CASE ~ isEnd
    <3>1. /\ right \in 1..Len(beach)
          /\ \A m \in 1..Len(beach) : (right <= m /\ m <= right) <=> m = right
      BY <1>1, <2>3
    <3>2. W = EventsOf(old)
      <4>1. {m \in 1..Len(beach) : right <= m /\ m <= right} = {right}
        BY <3>1
      <4> QED BY <4>1
    <3>3. X = EventsOf(above)
      <4>1. {m \in 1..Len(beach) : m = right} = {right}
        BY <3>1
      <4> QED BY <1>12, <2>3, <4>1
    <3>4. withdrawn = EventsOf(old)
      <4>1. isBegin => EventsOf(old) = {}
        BY <1>3 DEF EventsOf
      <4> QED BY <2>3, <4>1 DEF Deactivated
    <3>5. (IF found = NoEvent THEN {} ELSE Activated(above)) = EventsOf(above)
      <4>1. above.event = found
        BY <1>9, <2>3
      <4> QED BY <4>1 DEF Activated, EventsOf
    <3> HIDE DEF W, X, Y, withdrawn, old
    <3>6. circles' = (circles \ W) \cup (X \cup Y)
      BY <1>2, <2>1, <3>2, <3>3, <3>4, <3>5
    <3> QED BY <3>6 DEF QueueFits, W, X, Y
  <2> QED BY <2>2, <2>3
<1>21. BeachInv'
  <2>1. NewFit(fresh, good, near) /\ Retimed(b1, beach, right)
        /\ Spliced(Nodes, beach', b1, right, right, fresh)
    BY <1>10, <1>12
  <2>2. Chain(beach, Bisectors \cup Temporaries, Neighbours, circles)
    BY BeachFacts
  <2>3. Chain(beach', good, near, circles')
    BY <2>1, <2>2, <1>18, <1>19, <1>20, ChangeKeepsChain, Zenon
  <2> QED BY <2>3 DEF BeachInv, good, near
<1>22. Waiting(beach') = Waiting(beach)
                            \cup (IF IsSegment(sites[cursor]) THEN {-cursor} ELSE {})
  <2>1. Waiting(beach') = StillWaiting(beach, right, right) \cup Waiting(fresh)
    <3>1. Retimed(b1, beach, right) /\ Spliced(Nodes, beach', b1, right, right, fresh)
      BY <1>12
    <3> QED BY <3>1, WaitingAfter
  <2>2. Kept(beach, right, right) = 1..Len(beach)
    BY <1>1 DEF Kept
  <2>3. Waiting(fresh) = IF IsSegment(sites[cursor]) THEN {-cursor} ELSE {}
    <3>1. \A k \in 1..Len(fresh) : fresh[k].edge = Null => IsSegment(sites[cursor]) /\ fresh[k].id = -cursor
      BY <1>5, <1>10 DEF Null
    <3> QED BY <1>10, <3>1 DEF Waiting, IsTemporary
  <2> QED BY <2>1, <2>2, <2>3 DEF Waiting, StillWaiting, IsTemporary
<1>23. Len(beach') = Len(beach) + IF IsSegment(sites[cursor]) THEN 3 ELSE 2
  <2>1. Len(beach') = Len(b1) - (right - right) + Len(fresh) /\ Len(b1) = Len(beach)
    BY <1>12 DEF Spliced, Retimed
  <2> QED BY <1>1, <1>10, <2>1
<1>24. ArcSplit
  <2>1. /\ Retimed(b1, beach, right) /\ Spliced(Nodes, beach', b1, right, right, fresh)
        /\ FreshFit(fresh, arc1, arc2, cursor, ev)
        /\ arc2.site \in 1..Len(cells) /\ AddSite(arc2.site, cursor)
    BY <1>4, <1>5, <1>10, <1>12
  <2>2. /\ right <= Len(beach) => arc2.site = beach[right].l.site
        /\ ~ (right <= Len(beach)) => right = Len(beach) + 1
        /\ right > 1 => arc2.site = beach[right - 1].r.site
    <3>1. right <= Len(beach) => ~ isEnd
      BY <1>1
    <3>2. right > 1 => ~ isBegin
      BY <1>1
    <3>3. ~ (right <= Len(beach)) => right = Len(beach) + 1
      BY <1>1
    <3> QED BY <1>3, <1>4, <3>1, <3>2, <3>3
  <2> QED BY <2>1, <2>2, Zenon DEF ArcSplit
<1> QED BY <1>4, <1>5, <1>21, <1>22, <1>23, <1>24

LEMMA SitesStay == SitesInv /\ UNCHANGED <<sites, reserved>> => SitesInv' /\ N' = N
  BY DEF SitesInv, N

LEMMA SiteStep ==
    ASSUME SweepInv, NEW s1 \in Site, NEW s2 \in Site, AddSite(s1, s2)
    PROVE  GraphNext /\ GraphInv'
<1>1. GraphNext
  BY DEF GraphNext
<1> QED BY <1>1, StepKeepsGraphInv DEF SweepInv

(* The end point of a new segment is queued, and it is ahead. *)
LEMMA EndPointQueued ==
    ASSUME SitesInv, EndPointsInv, NEW s \in 1..N, Len(cells) \in 0..(s - 1), Len(cells') = s,
           UNCHANGED sites, endPoints' = endPoints \cup NewEndPoints(s), cursor' = s + 1,
           \A ep \in endPoints : \E k \in (s + 1)..N : sites[k] = PointSite(ep.point),
           Waiting(beach') = Waiting(beach) \cup (IF IsSegment(sites[s]) THEN {-s} ELSE {})
    PROVE  /\ EndPointsInv'
           /\ Cardinality(endPoints) \in Nat
           /\ Cardinality(endPoints') = Cardinality(endPoints)
                                            + IF IsSegment(sites[s]) THEN 1 ELSE 0
<1>1. /\ IsFiniteSet(endPoints) /\ N \in Nat /\ s \in Nat /\ Cardinality(endPoints) \in Nat
      /\ \A ep \in endPoints : \E k \in 1..(s - 1) :
            IsSegment(sites[k]) /\ ep = [point |-> sites[k].p1, node |-> -k]
      /\ {ep.node : ep \in endPoints} = Waiting(beach) /\ N' = N
  BY FS_CardinalityType DEF EndPointsInv, SitesInv, N
<1> DEFINE x == [point |-> sites[s].p1, node |-> -s]
<1>2. NewEndPoints(s) = IF IsSegment(sites[s]) THEN {x} ELSE {}
  BY DEF NewEndPoints
<1>3. x \notin endPoints
  <2> SUFFICES ASSUME x \in endPoints PROVE FALSE
    OBVIOUS
  <2>1. PICK k \in 1..(s - 1) : x = [point |-> sites[k].p1, node |-> -k]
    BY <1>1
  <2>2. x.node = -s /\ x.node = -k
    <3>1. x.node = -s
      OBVIOUS
    <3> HIDE DEF x
    <3> QED BY <2>1, <3>1
  <2> QED BY <1>1, <2>2
<1>4. CASE IsSegment(sites[s])
  <2>1. endPoints' = endPoints \cup {x}
    BY <1>2, <1>4
  <2>2. IsFiniteSet(endPoints') /\ Cardinality(endPoints') = Cardinality(endPoints) + 1
    <3> HIDE DEF x
    <3>1. /\ IsFiniteSet(endPoints \cup {x})
          /\ Cardinality(endPoints \cup {x})
                = IF x \in endPoints THEN Cardinality(endPoints) ELSE Cardinality(endPoints) + 1
      BY <1>1, FS_AddElement, Zenon
    <3> QED BY <1>3, <2>1, <3>1, Zenon
  <2>3. ASSUME NEW ep \in endPoints'
        PROVE  /\ \E k \in 1..s : /\ IsSegment(sites[k])
                                  /\ ep = [point |-> sites[k].p1, node |-> -k]
               /\ \E k \in (s + 1)..N : sites[k] = PointSite(ep.point)
    <3>1. CASE ep = x
      <4>1. s \in 1..s /\ ep.point = sites[s].p1
        BY <1>1, <3>1
      <4>2. \E k \in (s + 1)..N : sites[k] = PointSite(sites[s].p1)
        BY <1>4 DEF SitesInv
      <4> QED BY <1>4, <3>1, <4>1, <4>2
    <3>2. CASE ep \in endPoints
      <4>1. 1..(s - 1) \subseteq 1..s
        BY <1>1
      <4> QED BY <1>1, <3>2, <4>1
    <3> QED BY <2>1, <3>1, <3>2
  <2>4. {ep.node : ep \in endPoints'} = Waiting(beach')
    <3>1. {ep.node : ep \in endPoints'} = {ep.node : ep \in endPoints} \cup {-s}
      <4>1. x.node = -s
        OBVIOUS
      <4> HIDE DEF x
      <4> QED BY <2>1, <4>1
    <3> QED BY <1>1, <1>4, <3>1
  <2> QED BY <1>1, <1>4, <2>2, <2>3, <2>4 DEF EndPointsInv
<1>5. CASE ~ IsSegment(sites[s])
  <2>1. endPoints' = endPoints
    BY <1>2, <1>5
  <2>2. 1..(s - 1) \subseteq 1..s
    BY <1>1
  <2>3. ASSUME NEW ep \in endPoints
        PROVE  /\ \E k \in 1..s : /\ IsSegment(sites[k])
                                  /\ ep = [point |-> sites[k].p1, node |-> -k]
               /\ \E k \in (s + 1)..N : sites[k] = PointSite(ep.point)
    BY <1>1, <2>2
  <2>4. {ep.node : ep \in endPoints'} = Waiting(beach')
    BY <1>1, <1>5, <2>1
  <2>5. IsFiniteSet(endPoints') /\ Cardinality(endPoints') = Cardinality(endPoints) + 0
    <3>1. IsFiniteSet(endPoints') /\ Cardinality(endPoints') = Cardinality(endPoints)
      BY <1>1, <2>1, Zenon
    <3>2. Cardinality(endPoints) = Cardinality(endPoints) + 0
      BY <1>1
    <3> QED BY <3>1, <3>2, Zenon
  <2> QED BY <1>1, <1>5, <2>1, <2>3, <2>4, <2>5 DEF EndPointsInv
<1> QED BY <1>4, <1>5

LEMMA InsertArcKeeps == SweepInv /\ InsertArc => GraphNext /\ SweepInv'
<1> SUFFICES ASSUME SweepInv, InsertArc PROVE GraphNext /\ SweepInv'
  OBVIOUS
<1>1. /\ SitesInv /\ EndPointsInv /\ CountInv /\ N \in Nat /\ cursor \in Nat /\ 1..N \subseteq Site
      /\ cursor \in 1..N /\ cursor \in 1..(N + 1) /\ last \in 1..(N + 1) /\ cursor < last
      /\ right \in 1..(Len(beach) + 1) /\ cursor > 1 /\ Len(cells) = cursor - 1
      /\ \A j \in cursor..(last - 1) : j # cursor => IsSegment(sites[j])
      /\ IsPoint(sites[cursor]) => \A ep \in endPoints : ep.point # sites[cursor].p0
      /\ pc = "arcs"
  BY DEF SweepInv, PhaseInv, InsertArc, SitesInv
<1>2. /\ UNCHANGED <<sites, reserved, last>> /\ cursor' = cursor + 1
      /\ IF cursor + 1 = last THEN pc' = "events" /\ right' = 0 ELSE UNCHANGED <<pc, right>>
      /\ endPoints' = endPoints \cup NewEndPoints(cursor)
  BY DEF InsertArc
<1>3. PICK s \in 1..Len(cells) : AddSite(s, cursor)
  BY InsertArcSteps
<1>4. /\ BeachInv'
      /\ Waiting(beach') = Waiting(beach)
                               \cup (IF IsSegment(sites[cursor]) THEN {-cursor} ELSE {})
      /\ Len(beach') = Len(beach) + IF IsSegment(sites[cursor]) THEN 3 ELSE 2
  BY InsertArcSteps
<1>5. /\ s \in Site /\ cursor \in Site /\ InsertSiteEdge(s, cursor) /\ GraphInv
      /\ Len(beach) \in Nat /\ cells # <<>>
  <2>1. cells # <<>>
    <3>1. Len(<<>>) = 0
      OBVIOUS
    <3> QED BY <1>1, <3>1
  <2> QED BY <1>1, <1>3, <2>1, BeachFacts DEF AddSite, SweepInv
<1>6. GraphNext /\ GraphInv' /\ SitesInv' /\ N' = N
  BY <1>1, <1>2, <1>3, <1>5, SiteStep, SitesStay
<1>7. /\ numEdges' = numEdges + 2 /\ numVertices' = numVertices /\ Len(cells') = cursor
      /\ numEdges \in Nat /\ numVertices \in Nat /\ cells' # <<>>
  <2>1. Len(cells') = cursor
    BY <1>1, <1>5, SiteEffect
  <2>2. Len(<<>>) = 0
    OBVIOUS
  <2> QED BY <1>1, <1>5, <2>1, <2>2, SiteEffect, EdgeFacts
<1>8. \A ep \in endPoints : \E k \in (cursor + 1)..N : sites[k] = PointSite(ep.point)
  <2> SUFFICES ASSUME NEW ep \in endPoints
               PROVE  \E k \in (cursor + 1)..N : sites[k] = PointSite(ep.point)
    OBVIOUS
  <2>1. PICK k \in cursor..N : sites[k] = PointSite(ep.point)
    BY <1>1 DEF EndPointsInv
  <2>2. sites[k].p0 = ep.point /\ IsPoint(sites[k])
    BY <2>1 DEF PointSite, IsPoint, IsSegment
  <2>3. k # cursor
    BY <1>1, <2>2
  <2> QED BY <1>1, <2>1, <2>3
<1>9. /\ EndPointsInv' /\ Cardinality(endPoints) \in Nat
      /\ Cardinality(endPoints') = Cardinality(endPoints)
                                        + IF IsSegment(sites[cursor]) THEN 1 ELSE 0
  <2>1. Len(cells) \in 0..(cursor - 1) /\ sites' = sites
    BY <1>1, <1>2
  <2> QED BY <1>1, <1>2, <1>4, <1>7, <1>8, <2>1, EndPointQueued
<1>10. CountInv'
  <2>1. /\ numEdges = 2 * (Len(cells) - 1) + 2 * numVertices
        /\ Len(beach) - Cardinality(endPoints) + numVertices <= 2 * (Len(cells) - 1)
    BY <1>1, <1>5 DEF CountInv
  <2>2. /\ numEdges' = 2 * (Len(cells') - 1) + 2 * numVertices'
        /\ Len(beach') - Cardinality(endPoints') + numVertices' <= 2 * (Len(cells') - 1)
    <3>1. Len(beach') - Cardinality(endPoints') = Len(beach) - Cardinality(endPoints) + 2
      <4>1. CASE IsSegment(sites[cursor])
        BY <1>4, <1>5, <1>9, <4>1
      <4>2. CASE ~ IsSegment(sites[cursor])
        BY <1>4, <1>5, <1>9, <4>2
      <4> QED BY <4>1, <4>2
    <3>2. Len(beach') \in Nat /\ Cardinality(endPoints') \in Nat
      BY <1>4, <1>5, <1>9
    <3>3. Len(cells') = Len(cells) + 1 /\ Len(cells) \in Nat
      BY <1>1, <1>7
    <3>4. numEdges' = 2 * (Len(cells') - 1) + 2 * numVertices'
      BY <1>7, <2>1, <3>3
    <3>5. Len(beach) \in Nat /\ Cardinality(endPoints) \in Nat /\ numVertices \in Nat
          /\ numVertices' = numVertices
      BY <1>5, <1>7, <1>9
    <3>6. Len(beach') - Cardinality(endPoints') + numVertices' <= 2 * (Len(cells') - 1)
      BY <2>1, <3>1, <3>3, <3>5
    <3> QED BY <3>4, <3>6
  <2> QED BY <1>7, <2>2 DEF CountInv
<1>11. PhaseInv'
  <2>1. Len(beach') \in Nat /\ Len(beach') > Len(beach) /\ beach' # <<>>
    <3>1. Len(<<>>) = 0
      OBVIOUS
    <3> QED BY <1>4, <1>5, <3>1
  <2>2. CASE cursor + 1 = last
    <3>1. pc' = "events" /\ right' = 0 /\ cursor' \in 1..(N + 1) /\ last' \in 1..(N + 1)
          /\ right' \in 0..(Len(beach') + 1) /\ Len(cells') <= N /\ cursor' > 1
          /\ Len(cells') = cursor' - 1
      BY <1>1, <1>2, <1>7, <2>1, <2>2
    <3> QED BY <1>6, <2>1, <3>1 DEF PhaseInv, Phases
  <2>3. CASE cursor + 1 # last
    <3>1. /\ pc' = "arcs" /\ right' = right /\ cursor' \in 1..(N + 1) /\ last' = last
          /\ right' \in 0..(Len(beach') + 1) /\ right' # 0 /\ Len(cells') <= N /\ cursor' > 1
          /\ Len(cells') = cursor' - 1 /\ cursor' < last' /\ cursor' \in 1..N
          /\ last' \in 1..(N + 1) /\ sites' = sites
      BY <1>1, <1>2, <1>5, <1>7, <2>1, <2>3
    <3>2. \A j \in cursor'..(last' - 1) : IsSegment(sites'[j])
      BY <1>1, <1>2, <2>3
    <3>3. IsSegment(sites'[cursor'])
      BY <1>1, <3>1, <3>2
    <3> QED BY <1>6, <2>1, <3>1, <3>2, <3>3 DEF PhaseInv, Phases, IsPoint
  <2> QED BY <2>2, <2>3
<1> QED BY <1>4, <1>6, <1>9, <1>10, <1>11 DEF SweepInv

-----------------------------------------------------------------------------
(* init_beach_line. *)
LEMMA InitFacts ==
    ASSUME SweepInv, pc = "init"
    PROVE  /\ SitesInv /\ GraphInv /\ EndPointsInv /\ CountInv /\ N \in Nat \ {0}
           /\ 1..N \subseteq Site /\ endPoints = {} /\ circles = {} /\ right = 0
           /\ Len(beach) \in Nat /\ beach \in Seq(Nodes)
           /\ \/ cursor = 1 /\ cells = <<>> /\ beach = <<>> /\ numEdges = 0 /\ numVertices = 0
              \/ /\ cursor \in 2..N /\ cursor < Skip /\ Len(cells) = cursor /\ cells # <<>>
                 /\ Len(beach) > 0 /\ beach[Len(beach)].r.site = cursor
<1>1. /\ SitesInv /\ GraphInv /\ EndPointsInv /\ CountInv /\ N \in Nat \ {0}
      /\ 1..N \subseteq Site /\ endPoints = {} /\ circles = {} /\ right = 0
      /\ \/ cursor = 1 /\ cells = <<>>
         \/ /\ cursor \in 2..N /\ cursor < Skip /\ Len(cells) = cursor
            /\ beach # <<>> /\ beach[Len(beach)].r.site = cursor
  BY DEF SweepInv, PhaseInv, SitesInv
<1>2. cells = <<>> => beach = <<>> /\ numEdges = 0 /\ numVertices = 0
  BY <1>1 DEF CountInv
<1>3. /\ beach # <<>> => Len(beach) > 0
      /\ Len(cells) # 0 => cells # <<>>
      /\ Len(beach) \in Nat /\ beach \in Seq(Nodes)
  <2>1. Len(<<>>) = 0
    OBVIOUS
  <2> QED BY <2>1, BeachFacts
<1>4. \A k \in 2..N : k # 0
  BY <1>1
<1> QED BY <1>1, <1>2, <1>3, <1>4

LEMMA InitSingleSiteKeeps == SweepInv /\ InitSingleSite => GraphNext /\ SweepInv'
<1> SUFFICES ASSUME SweepInv, InitSingleSite PROVE GraphNext /\ SweepInv'
  OBVIOUS
<1>1. /\ pc = "init" /\ N = 1 /\ ProcessSingleSite(1) /\ pc' = "events" /\ cursor' = 2 /\ last' = 2
      /\ UNCHANGED <<sites, reserved, right, beach, endPoints, circles>>
  BY DEF InitSingleSite
<1>2. /\ SitesInv /\ GraphInv /\ EndPointsInv /\ 1..N \subseteq Site
      /\ endPoints = {} /\ circles = {} /\ right = 0
      /\ cells = <<>> /\ beach = <<>> /\ numEdges = 0 /\ numVertices = 0
  BY <1>1, InitFacts
<1>3. GraphNext /\ GraphInv' /\ SitesInv' /\ N' = N
  <2>1. 1 \in Site
    BY <1>1, <1>2
  <2>2. GraphNext
    BY <1>1, <1>2, <2>1 DEF GraphNext
  <2> QED BY <1>1, <1>2, <2>2, StepKeepsGraphInv, SitesStay
<1>4. /\ cells' = <<1>> /\ Len(cells') = 1 /\ cells' # <<>> /\ numEdges' = 0 /\ numVertices' = 0
  BY <1>1, <1>2 DEF ProcessSingleSite
<1>5. Len(<<>>) = 0 /\ Waiting(<<>>) = {}
  BY DEF Waiting
<1>6. BeachInv'
  <2>1. Chain(<<>>, Bisectors' \cup Temporaries', Neighbours', {})
    BY <1>5, EmptySeq DEF Chain
  <2> QED BY <1>1, <1>2, <2>1 DEF BeachInv
<1>7. EndPointsInv'
  BY <1>1, <1>2, <1>5 DEF EndPointsInv
<1>8. CountInv'
  <2>1. Cardinality({}) = 0
    BY FS_EmptySet
  <2> QED BY <1>1, <1>2, <1>4, <1>5, <2>1 DEF CountInv
<1>9. PhaseInv'
  BY <1>1, <1>2, <1>3, <1>4, <1>5 DEF PhaseInv, Phases
<1> QED BY <1>3, <1>6, <1>7, <1>8, <1>9 DEF SweepInv

LEMMA InitDefaultKeeps == SweepInv /\ InitDefault => GraphNext /\ SweepInv'
<1> SUFFICES ASSUME SweepInv, InitDefault PROVE GraphNext /\ SweepInv'
  OBVIOUS
<1>1. /\ pc = "init" /\ N > 1 /\ Skip = 1 /\ InsertSiteEdge(1, 2) /\ pc' = "events"
      /\ cursor' = 3 /\ last' = 3 /\ UNCHANGED <<sites, reserved, right, circles>>
      /\ beach' = NewNodes(Arc(1), Arc(1), 2) /\ endPoints' = NewEndPoints(2)
  BY DEF InitDefault
<1>2. /\ SitesInv /\ GraphInv /\ EndPointsInv /\ 1..N \subseteq Site /\ N \in Nat
      /\ endPoints = {} /\ circles = {} /\ right = 0 /\ 1 \in 1..N /\ 2 \in 1..N
      /\ cells = <<>> /\ beach = <<>> /\ numEdges = 0 /\ numVertices = 0
  BY <1>1, InitFacts
<1>3. 1 \in Site /\ 2 \in Site /\ AddSite(1, 2)
  BY <1>1, <1>2 DEF AddSite
<1>4. GraphNext /\ GraphInv' /\ SitesInv' /\ N' = N
  BY <1>1, <1>2, <1>3, SiteStep, SitesStay
<1>5. Len(cells') = 2 /\ cells' # <<>> /\ numEdges' = 2 /\ numVertices' = 0
  <2>1. Len(cells') = 2 /\ numEdges' = 2 /\ numVertices' = 0
    BY <1>1, <1>2, <1>3, SiteEffect
  <2>2. Len(<<>>) = 0
    OBVIOUS
  <2> QED BY <2>1, <2>2
<1> DEFINE fresh == FreshNodes(Arc(1), Arc(1), 2, NoEvent)
<1>6. beach' = fresh
  BY <1>1, NewNodesAreFresh, Zenon
<1>7. FreshFit(fresh, Arc(1), Arc(1), 2, NoEvent)
  <2>1. Arc(1) \in Arcs /\ Arc(1).site = 1
    BY ArcFacts
  <2>2. 1 \in 1..Len(cells') /\ 2 \in 1..Len(cells')
    BY <1>5
  <2> HIDE DEF fresh
  <2>3. fresh = FreshNodes(Arc(1), Arc(1), 2, NoEvent)
    BY DEF fresh
  <2> QED BY <1>1, <1>2, <2>1, <2>2, <2>3, FreshFits
<1> HIDE DEF fresh
<1>8. /\ fresh \in Seq(Nodes) /\ Len(fresh) > 1 /\ Len(fresh) \in Nat
      /\ NewFit(fresh, (Bisectors \cup Temporaries)', Neighbours')
      /\ \A k \in 1..Len(fresh) : fresh[k].event = NoEvent
      /\ fresh[1].edge = 1 /\ fresh[Len(fresh)].edge = 2
      /\ Len(fresh) = IF IsSegment(sites[2]) THEN 3 ELSE 2
      /\ Waiting(fresh) = IF IsSegment(sites[2]) THEN {-2} ELSE {}
  <2>1. \A k \in 1..Len(fresh) : fresh[k].edge = Null => IsSegment(sites[2]) /\ fresh[k].id = -2
    BY <1>2, <1>7 DEF FreshFit, Null
  <2>2. Waiting(fresh) = IF IsSegment(sites[2]) THEN {-2} ELSE {}
    BY <1>2, <1>7, <2>1 DEF Waiting, IsTemporary, FreshFit
  <2>3. /\ fresh[1].edge = 1 /\ fresh[Len(fresh)].edge = 2
    BY <1>2, <1>7 DEF FreshFit
  <2> QED BY <1>7, <2>2, <2>3 DEF FreshFit
<1>9. BeachInv'
  <2> DEFINE good == (Bisectors \cup Temporaries)'
             near == Neighbours'
  <2>1. NewFit(fresh, good, near)
    BY <1>8
  <2> HIDE DEF good, near
  <2>2. {} = UNION {EventsOf(fresh[k]) : k \in 1..Len(fresh)}
    BY <1>8 DEF EventsOf
  <2>3. Chain(fresh, good, near, {})
    <3>1. fresh[1].event = NoEvent /\ fresh[1].edge # Null /\ fresh[Len(fresh)].edge # Null
      BY <1>8 DEF Null
    <3> QED BY <1>8, <2>1, <2>2, <3>1 DEF Chain, NewFit
  <2> QED BY <1>1, <1>2, <1>6, <2>3 DEF BeachInv, good, near
<1>10. /\ EndPointsInv' /\ Cardinality(endPoints) \in Nat
       /\ Cardinality(endPoints') = Cardinality(endPoints) + IF IsSegment(sites[2]) THEN 1 ELSE 0
  <2>1. Waiting(beach) = {} /\ Len(<<>>) = 0
    BY <1>2 DEF Waiting
  <2>2. Waiting(beach') = Waiting(beach) \cup (IF IsSegment(sites[2]) THEN {-2} ELSE {})
    BY <1>6, <1>8, <2>1
  <2>3. /\ Len(cells) \in 0..(2 - 1) /\ cursor' = 2 + 1 /\ endPoints' = endPoints \cup NewEndPoints(2)
        /\ sites' = sites /\ \A ep \in endPoints : FALSE
    BY <1>1, <1>2, <2>1
  <2> QED BY <1>2, <1>5, <2>2, <2>3, EndPointQueued
<1>11. CountInv'
  <2>1. Cardinality(endPoints) = 0
    BY <1>2, FS_EmptySet
  <2>2. Len(beach') - Cardinality(endPoints') = 2
    <3>1. CASE IsSegment(sites[2])
      BY <1>6, <1>8, <1>10, <2>1, <3>1
    <3>2. CASE ~ IsSegment(sites[2])
      BY <1>6, <1>8, <1>10, <2>1, <3>2
    <3> QED BY <3>1, <3>2
  <2> QED BY <1>5, <2>2 DEF CountInv
<1>12. PhaseInv'
  <2>1. Len(beach') \in Nat /\ beach' # <<>>
    <3>1. Len(<<>>) = 0
      OBVIOUS
    <3> QED BY <1>6, <1>8, <3>1
  <2>2. cursor' \in 1..(N + 1) /\ last' \in 1..(N + 1) /\ right' \in 0..(Len(beach') + 1)
    BY <1>1, <1>2, <2>1
  <2> QED BY <1>1, <1>2, <1>4, <1>5, <2>1, <2>2 DEF PhaseInv, Phases
<1> QED BY <1>4, <1>9, <1>10, <1>11, <1>12 DEF SweepInv

LEMMA InitCollinearKeeps == SweepInv /\ InitCollinear => GraphNext /\ SweepInv'
<1> SUFFICES ASSUME SweepInv, InitCollinear PROVE GraphNext /\ SweepInv'
  OBVIOUS
<1> DEFINE node == Bisector(Arc(cursor), Arc(cursor + 1), numEdges + 1)
           good == (Bisectors \cup Temporaries)'
           near == Neighbours'
           n == Len(beach)
<1>1. /\ pc = "init" /\ Skip > 1 /\ InsertSiteEdge(cursor, cursor + 1)
      /\ beach' = Append(beach, node) /\ UNCHANGED <<sites, reserved, right, endPoints, circles>>
      /\ IF cursor + 1 < Skip
         THEN cursor' = cursor + 1 /\ UNCHANGED <<pc, last>>
         ELSE cursor' = Skip + 1 /\ last' = Skip + 1 /\ pc' = "events"
  BY DEF InitCollinear
<1>2. /\ SitesInv /\ GraphInv /\ EndPointsInv /\ CountInv /\ 1..N \subseteq Site /\ N \in Nat
      /\ endPoints = {} /\ circles = {} /\ right = 0 /\ Skip \in 1..N
      /\ n \in Nat /\ beach \in Seq(Nodes)
      /\ \/ cursor = 1 /\ cells = <<>> /\ beach = <<>> /\ numEdges = 0 /\ numVertices = 0
         \/ /\ cursor \in 2..N /\ cursor < Skip /\ Len(cells) = cursor /\ cells # <<>>
            /\ n > 0 /\ beach[n].r.site = cursor
      /\ last \in 1..(N + 1)
  BY <1>1, InitFacts, SkipFound DEF SweepInv, PhaseInv
<1>3. /\ cursor \in Nat /\ cursor \in 1..N /\ cursor + 1 \in 1..N /\ cursor # cursor + 1
      /\ cursor \in Site /\ cursor + 1 \in Site /\ cursor < Skip
      /\ numEdges \in Nat /\ numVertices \in Nat /\ Len(<<>>) = 0
  BY <1>1, <1>2, EdgeFacts
<1>4. AddSite(cursor, cursor + 1)
  <2>1. cells = <<>> => cursor = 1
    BY <1>2
  <2>2. cells # <<>> => cursor \in 1..Len(cells) /\ cursor + 1 = Len(cells) + 1
    BY <1>2
  <2>3. cursor # cursor + 1 /\ InsertSiteEdge(cursor, cursor + 1) /\ (cursor = 1 => cursor + 1 = 2)
    BY <1>1, <1>3
  <2>4. CASE cells = <<>>
    BY <2>1, <2>3, <2>4, Zenon DEF AddSite
  <2>5. CASE cells # <<>>
    BY <2>2, <2>3, <2>5, Zenon DEF AddSite
  <2> QED BY <2>4, <2>5
<1>5. GraphNext /\ GraphInv' /\ SitesInv' /\ N' = N
  BY <1>1, <1>2, <1>3, <1>4, SiteStep, SitesStay
<1>6. /\ Len(cells') = cursor + 1 /\ cells' # <<>>
      /\ numEdges' = numEdges + 2 /\ numVertices' = numVertices
      /\ \A e \in 1..numEdges : twin'[e] \in 1..numEdges
  <2>1. /\ numEdges' = numEdges + 2 /\ numVertices' = numVertices
        /\ \A e \in 1..numEdges : twin'[e] \in 1..numEdges
        /\ Len(cells') = IF cells = <<>> THEN 2 ELSE Len(cells) + 1
    BY <1>1, <1>2, <1>3, SiteEffect
  <2>2. Len(cells') = cursor + 1
    BY <1>2, <2>1
  <2>3. cells' # <<>>
    <3>1. Len(<<>>) = 0 /\ cursor + 1 # 0
      BY <1>3
    <3> QED BY <2>2, <3>1
  <2> QED BY <2>1, <2>2, <2>3
<1>7. /\ node \in Nodes /\ node.id = numEdges + 1 /\ node.edge = numEdges + 1
      /\ node.l.site = cursor /\ node.r.site = cursor + 1 /\ node.event = NoEvent
  <2>1. Arc(cursor) \in Arcs /\ Arc(cursor + 1) \in Arcs
        /\ Arc(cursor).site = cursor /\ Arc(cursor + 1).site = cursor + 1
    BY <1>3, ArcFacts
  <2> QED BY <1>3, <2>1 DEF Bisector, Nodes
<1> HIDE DEF node
<1>8. node \in good
  <2>1. cursor \in 1..Len(cells') /\ cursor + 1 \in 1..Len(cells')
    BY <1>3, <1>6
  <2>2. node \in Bisectors'
    BY <1>1, <1>2, <1>3, <1>7, <2>1, FreshBisectors
  <2> QED BY <2>2
<1>9. /\ \A k \in 1..n : beach[k] \in good
      /\ \A k \in 2..n : <<beach[k - 1], beach[k]>> \in near
      /\ \A k \in 1..n : beach[k].edge \in 0..numEdges /\ beach[k].id <= numEdges /\ beach[k].id \in Int
  <2>1. /\ Bisectors \cup Temporaries \subseteq good
        /\ \A p \in Neighbours : p[1] \in Bisectors \cup Temporaries => p \in near
    BY <1>1, <1>2, <1>3, SiteKeepsNodes
  <2>3. ASSUME NEW m \in Bisectors \cup Temporaries
        PROVE  m.edge \in 0..numEdges /\ m.id <= numEdges /\ m.id \in Int
    <3>1. CASE m \in Bisectors
      BY <1>3, <3>1 DEF Bisectors
    <3>2. CASE m \in Temporaries
      <4>1. m.edge = 0 /\ m.id = - m.l.site /\ m.l.site \in 1..Len(cells) /\ m \in Nodes
        BY <3>2 DEF Temporaries, Null
      <4> QED BY <1>2, <1>3, <4>1, NodeFacts
    <3> QED BY <2>3, <3>1, <3>2
  <2> HIDE DEF good, near
  <2>2. ASSUME NEW k \in 2..n PROVE <<beach[k - 1], beach[k]>> \in near
    <3>1. k \in 1..n /\ k - 1 \in 1..n /\ k > 1
      BY <1>2
    <3>2. <<beach[k - 1], beach[k]>> \in Neighbours /\ beach[k - 1] \in Bisectors \cup Temporaries
      BY <3>1, BeachFacts
    <3> QED BY <2>1, <3>2
  <2> QED BY <2>1, <2>2, <2>3, BeachFacts
<1>10. n > 0 => <<beach[n], node>> \in near
  <2> SUFFICES ASSUME n > 0 PROVE <<beach[n], node>> \in near
    OBVIOUS
  <2>1. n \in 1..n /\ beach[n] \in Nodes /\ beach[n].r.site = node.l.site
    BY <1>2, <1>3, <1>7, BeachFacts
  <2> QED BY <1>7, <2>1, NewNeighbours
<1> HIDE DEF good, near
<1> DEFINE new == <<node>>
           i == n + 1
<1>11. /\ new \in Seq(Nodes) /\ Len(new) = 1 /\ new[1] = node /\ new # <<>>
       /\ \A k \in 1..Len(new) : k = 1
  BY <1>7
<1> HIDE DEF new
<1>12. Spliced(Nodes, beach', beach, i, i, new) /\ Retimed(beach, beach, i)
  <2>1. beach' = beach \o new
    BY <1>1, <1>2, <1>7, AppendIsConcat DEF new
  <2> QED BY <1>2, <1>11, <2>1, EndSplices, SameSplices
<1>13. OldFit(beach, beach, i, i, good, near)
  BY <1>9 DEF OldFit, Kept
<1>14. NewFit(new, good, near)
  <2>1. \A k \in 2..Len(new) : FALSE
    BY <1>11
  <2> QED BY <1>8, <1>11, <2>1 DEF NewFit
<1>15. JointFit(beach, beach, i, i, new, near)
  <2>1. ASSUME NEW k \in 1..n PROVE <<beach[k], node>> \in Apart /\ <<node, beach[k]>> \in Apart
    <3>1. beach[k] \in Nodes /\ beach[k].id # node.id /\ beach[k].edge # node.edge
      BY <1>3, <1>7, <1>9, BeachFacts
    <3> QED BY <1>7, <3>1 DEF Apart
  <2>2. node.edge # Null
    BY <1>3, <1>7 DEF Null
  <2>3. i > 1 => n > 0 /\ i - 1 = n
    BY <1>2
  <2>4. ~ (i <= Len(beach))
    BY <1>2
  <2>5. i > 1 => <<beach[i - 1], new[1]>> \in near
    BY <1>10, <1>11, <2>3
  <2>6. \A k \in Kept(beach, i, i), m \in 1..Len(new) :
            <<beach[k], new[m]>> \in Apart /\ <<new[m], beach[k]>> \in Apart
    BY <1>11, <2>1 DEF Kept
  <2> HIDE DEF i
  <2> QED BY <1>7, <1>11, <2>2, <2>4, <2>5, <2>6 DEF JointFit
<1>16. QueueFits(beach, beach, i, i, new, circles, circles')
  <2>1. \A m \in 1..n : ~ (i <= m /\ m <= i) /\ m # i
    BY <1>2
  <2>2. EventsOf(node) = {}
    BY <1>7 DEF EventsOf
  <2>3. UNION {EventsOf(new[k]) : k \in 1..Len(new)} = {}
    BY <1>11, <2>2
  <2> HIDE DEF i
  <2> QED BY <1>1, <1>2, <2>1, <2>3 DEF QueueFits
<1>17. BeachInv'
  <2>1. Chain(beach, Bisectors \cup Temporaries, Neighbours, circles)
    BY BeachFacts
  <2> HIDE DEF i
  <2>3. Chain(beach', good, near, circles')
    BY <2>1, <1>12, <1>13, <1>14, <1>15, <1>16, ChangeKeepsChain, Zenon
  <2> QED BY <2>3 DEF BeachInv, good, near
<1>18. Len(beach') = n + 1 /\ beach'[n + 1] = node /\ beach' # <<>>
  <2>1. Len(beach') = n + 1 /\ beach'[n + 1] = node
    BY <1>1, <1>2, <1>7, AppendProperties
  <2> QED BY <1>2, <1>3, <2>1
<1>19. EndPointsInv'
  <2>1. Waiting(beach') = StillWaiting(beach, i, i) \cup Waiting(new)
    <3> HIDE DEF i
    <3> QED BY <1>12, WaitingAfter
  <2>2. Waiting(new) = {}
    BY <1>3, <1>7, <1>11 DEF Waiting, IsTemporary, Null
  <2>3. StillWaiting(beach, i, i) = Waiting(beach)
    <3>1. Kept(beach, i, i) = 1..n
      BY <1>2 DEF Kept
    <3> QED BY <3>1 DEF StillWaiting, Waiting, IsTemporary
  <2>4. Waiting(beach) = {}
    BY <1>2 DEF EndPointsInv
  <2> QED BY <1>1, <1>2, <2>1, <2>2, <2>3, <2>4 DEF EndPointsInv
<1>20. CountInv'
  <2>1. Cardinality(endPoints) = 0 /\ endPoints' = endPoints
    BY <1>1, <1>2, FS_EmptySet
  <2>2. cells # <<>> => /\ numEdges = 2 * (cursor - 1) + 2 * numVertices
                        /\ n - 0 + numVertices <= 2 * (cursor - 1)
    BY <1>2, <2>1 DEF CountInv
  <2>3. cells = <<>> => n = 0
    BY <1>2, <1>3
  <2>4. /\ numEdges' = 2 * (cursor + 1 - 1) + 2 * numVertices'
        /\ n + 1 + numVertices' <= 2 * (cursor + 1 - 1)
    <3>1. CASE cells = <<>>
      BY <1>2, <1>6, <2>3, <3>1
    <3>2. CASE cells # <<>>
      BY <1>2, <1>3, <1>6, <2>2, <3>2
    <3> QED BY <3>1, <3>2
  <2>5. Cardinality(endPoints') = 0 /\ Len(beach') = n + 1 /\ n + 1 \in Nat
    BY <1>2, <1>18, <2>1
  <2>6. n + 1 - 0 = n + 1 /\ Len(cells') - 1 = cursor + 1 - 1
    BY <1>2, <1>3, <1>6
  <2> HIDE DEF n
  <2>7. Len(beach') - Cardinality(endPoints') = n + 1 - 0
    <3>1. \A c : c = 0 => Len(beach') - c = n + 1 - 0
      BY <2>5
    <3> QED BY <2>5, <3>1, Zenon
  <2>8. Len(beach') - Cardinality(endPoints') + numVertices' <= 2 * (Len(cells') - 1)
    BY <2>4, <2>6, <2>7
  <2>9. numEdges' = 2 * (Len(cells') - 1) + 2 * numVertices'
    BY <2>4, <2>6
  <2> QED BY <1>6, <2>8, <2>9, Zenon DEF CountInv
<1>21. PhaseInv'
  <2>1. Skip' = Skip /\ right' = 0 /\ endPoints' = {} /\ circles' = {} /\ Len(cells') <= N
        /\ right' \in 0..(Len(beach') + 1) /\ beach'[Len(beach')].r.site = cursor + 1
    <3>1. Skip' = Skip
      BY <1>1, <1>5 DEF Skip, OnFirstVertical
    <3> QED BY <1>1, <1>2, <1>3, <1>6, <1>7, <1>18, <3>1
  <2>2. CASE cursor + 1 < Skip
    <3>1. pc' = "init" /\ cursor' = cursor + 1 /\ cursor' \in 2..N /\ last' = last
          /\ cursor' \in 1..(N + 1)
      BY <1>1, <1>2, <1>3, <2>2
    <3> QED BY <1>2, <1>5, <1>6, <1>18, <2>1, <2>2, <3>1 DEF PhaseInv, Phases
  <2>3. CASE ~ (cursor + 1 < Skip)
    <3>1. Skip = cursor + 1
      BY <1>2, <1>3, <2>3
    <3>2. pc' = "events" /\ cursor' = cursor + 2 /\ last' = cursor + 2 /\ cursor' \in 1..(N + 1)
          /\ cursor' > 1 /\ Len(cells') = cursor' - 1
      <4>1. pc' = "events" /\ cursor' = Skip + 1 /\ last' = Skip + 1
        BY <1>1, <2>3
      <4>2. cursor' = cursor + 2 /\ last' = cursor + 2 /\ N' = N
        BY <1>3, <1>5, <3>1, <4>1
      <4> QED BY <1>2, <1>3, <1>6, <4>1, <4>2
    <3> QED BY <1>5, <1>6, <1>18, <2>1, <3>2 DEF PhaseInv, Phases
  <2> QED BY <2>2, <2>3
<1> QED BY <1>5, <1>17, <1>19, <1>20, <1>21 DEF SweepInv

-----------------------------------------------------------------------------
(* The loop that erases temporary nodes. *)
LEMMA OtherNodesApart ==
    ASSUME SweepInv, NEW k \in 1..Len(beach), NEW m \in 1..Len(beach), k # m
    PROVE  /\ beach[k].id # beach[m].id
           /\ beach[k].edge # Null => beach[k].edge # beach[m].edge
<1>1. <<beach[k], beach[m]>> \in Apart
  BY BeachFacts DEF Chain
<1> QED BY <1>1 DEF Apart

TemporaryErased ==
    \E i \in 1..Len(beach) : /\ beach[i].edge = Null
                            /\ Spliced(Nodes, beach', beach, i, i + 1, <<>>)

LEMMA EraseTemporaryNodeKeeps ==
    ASSUME SweepInv, EraseTemporaryNode
    PROVE  UNCHANGED graphVars /\ SweepInv' /\ TemporaryErased
<1>1. /\ pc \in {"events", "site"} /\ cursor <= N /\ pc' = "site"
      /\ UNCHANGED <<graphVars, sites, reserved, cursor, last, right, circles>>
  BY DEF EraseTemporaryNode
<1>2. PICK ep \in endPoints, i \in DOMAIN beach :
        /\ beach[i].id = ep.node
        /\ beach' = ReplaceBy(beach, i, i + 1, <<>>)
        /\ endPoints' = endPoints \ {ep}
  BY DEF EraseTemporaryNode, Reached
<1> DEFINE good == Bisectors \cup Temporaries
           near == Neighbours
           n == Len(beach)
<1>3. /\ SitesInv /\ GraphInv /\ EndPointsInv /\ CountInv /\ N \in Nat
      /\ cursor \in 1..N /\ cursor > 1 /\ Len(cells) = cursor - 1 /\ cells # <<>>
      /\ last \in 1..(N + 1) /\ right = 0 /\ n \in Nat /\ beach \in Seq(Nodes) /\ i \in 1..n
      /\ numEdges \in Nat /\ numVertices \in Nat
  <2>1. /\ SitesInv /\ GraphInv /\ EndPointsInv /\ CountInv /\ N \in Nat
        /\ cursor \in 1..(N + 1) /\ cursor > 1 /\ Len(cells) = cursor - 1
        /\ last \in 1..(N + 1) /\ right = 0
    BY <1>1 DEF SweepInv, PhaseInv, SitesInv
  <2>2. cells # <<>>
    <3>1. Len(<<>>) = 0
      OBVIOUS
    <3> QED BY <2>1, <3>1
  <2>3. i \in 1..n /\ n \in Nat
    BY BeachFacts, LenProperties
  <2> QED BY <1>1, <2>1, <2>2, <2>3, BeachFacts, EdgeFacts
<1>4. PICK s \in 1..Len(cells) : IsSegment(sites[s]) /\ ep = [point |-> sites[s].p1, node |-> -s]
  BY <1>3 DEF EndPointsInv
<1>5. beach[i].id < 0 /\ ep.node = -s /\ ep.node \in Int
  BY <1>2, <1>3, <1>4
<1>6. beach[i] \in Temporaries /\ beach[i].edge = Null
  <2>1. beach[i] \notin Bisectors
    BY <1>3, <1>5 DEF Bisectors
  <2>2. beach[i] \in Bisectors \cup Temporaries
    BY <1>3, BeachFacts
  <2> QED BY <2>1, <2>2 DEF Temporaries
<1>7. i > 1 /\ i < n /\ i + 1 \in 2..n /\ i - 1 \in 1..n
  <2>1. i # 1 /\ i # n
    BY <1>3, <1>6, BeachFacts
  <2> QED BY <1>3, <2>1
<1>8. /\ beach[i].r.site = beach[i].l.site /\ beach[i].event = NoEvent
      /\ beach[i + 1].event = NoEvent
      /\ beach[i - 1].r.site = beach[i].l.site /\ beach[i].r.site = beach[i + 1].l.site
      /\ beach[i - 1] \in Nodes /\ beach[i + 1] \in Nodes
  <2>1. i + 1 \in 1..n /\ i + 1 > 1 /\ (i + 1) - 1 = i
    BY <1>3, <1>7
  <2>2. beach[i + 1].event = NoEvent
    BY <1>6, <2>1, OnlyBisectorsMeet
  <2> QED BY <1>3, <1>6, <1>7, <2>1, <2>2, BeachFacts DEF Temporaries
<1> DEFINE new == <<>>
           j == i + 1
<1>9. new \in Seq(Nodes) /\ Len(new) = 0 /\ \A k \in 1..Len(new) : FALSE
  OBVIOUS
<1>10. new = <<>>
  OBVIOUS
<1> HIDE DEF new
<1>11. Spliced(Nodes, beach', beach, i, j, new) /\ Retimed(beach, beach, j)
  <2>1. i \in 1..(Len(beach) + 1) /\ j \in i..(Len(beach) + 1)
    BY <1>3
  <2>2. beach' = ReplaceBy(beach, i, j, new)
    BY <1>2, <1>10
  <2> HIDE DEF j
  <2>3. Spliced(Nodes, ReplaceBy(beach, i, j, new), beach, i, j, new)
    BY <1>3, <1>9, <2>1, ReplaceBySplices, Zenon
  <2> QED BY <1>3, <2>2, <2>3, SameSplices
<1>12. OldFit(beach, beach, i, j, good, near)
  <2>1. \A k \in 2..Len(beach) : <<beach[k - 1], beach[k]>> \in near
    BY BeachFacts DEF Chain
  <2> QED BY <2>1, BeachFacts DEF OldFit, Kept
<1>13. NewFit(new, good, near)
  <2>1. \A k \in 2..Len(new) : FALSE
    BY <1>9
  <2> QED BY <1>9, <2>1 DEF NewFit
<1>14. JointFit(beach, beach, i, j, new, near)
  <2>1. <<beach[i - 1], beach[i + 1]>> \in Neighbours
    BY <1>8 DEF Neighbours
  <2> QED BY <1>3, <1>7, <1>9, <1>10, <2>1 DEF JointFit
<1>15. QueueFits(beach, beach, i, j, new, circles, circles)
  <2>1. \A k \in 1..n : i <= k /\ k <= j => EventsOf(beach[k]) = {}
    <3> SUFFICES ASSUME NEW k \in 1..n, i <= k, k <= j PROVE EventsOf(beach[k]) = {}
      OBVIOUS
    <3>1. k = i \/ k = i + 1
      BY <1>3
    <3> QED BY <1>8, <3>1 DEF EventsOf
  <2>2. \A k \in 1..n : k = j => EventsOf(beach[k]) = {}
    <3> SUFFICES ASSUME NEW k \in 1..n, k = j PROVE EventsOf(beach[k]) = {}
      OBVIOUS
    <3> QED BY <1>8 DEF EventsOf
  <2> HIDE DEF j
  <2>3. UNION {EventsOf(beach[k]) : k \in {m \in 1..Len(beach) : i <= m /\ m <= j}} = {}
    BY <2>1
  <2>4. UNION {EventsOf(beach[k]) : k \in {m \in 1..Len(beach) : m = j}} = {}
    BY <2>2
  <2>5. UNION {EventsOf(new[k]) : k \in 1..Len(new)} = {}
    BY <1>9
  <2> QED BY <2>3, <2>4, <2>5 DEF QueueFits
<1>16. BeachInv'
  <2>1. Chain(beach, good, near, circles)
    BY BeachFacts
  <2>2. Bisectors' = Bisectors /\ Temporaries' = Temporaries /\ Neighbours' = Neighbours
    BY <1>1 DEF Bisectors, Temporaries, Neighbours, EventFits, Open, graphVars
  <2> HIDE DEF j, good, near
  <2>3. Chain(beach', good, near, circles)
    BY <2>1, <1>11, <1>12, <1>13, <1>14, <1>15, ChangeKeepsChain, Zenon
  <2> QED BY <1>1, <2>2, <2>3 DEF BeachInv, good, near
<1>17. Len(beach') = n - 1 /\ beach' # <<>> /\ Len(beach') \in Nat
  <2>1. Len(beach') = n - 1
    <3>1. Len(beach') = Len(beach) - (j - i) + Len(new)
      <4> HIDE DEF j
      <4> QED BY <1>11 DEF Spliced
    <3> QED BY <1>3, <1>9, <3>1
  <2>2. Len(<<>>) = 0 /\ n - 1 # 0 /\ n - 1 \in Nat
    BY <1>3, <1>7
  <2> QED BY <2>1, <2>2
<1>18. Waiting(beach') = Waiting(beach) \ {ep.node}
  <2>1. Waiting(beach') = StillWaiting(beach, i, j) \cup Waiting(new)
    <3> HIDE DEF j
    <3> QED BY <1>11, WaitingAfter
  <2>2. Waiting(new) = {}
    BY <1>9 DEF Waiting
  <2>3. \A k \in 1..n : k # i <=> k \in Kept(beach, i, j)
    BY <1>3 DEF Kept
  <2>4. \A k \in 1..n : k # i => beach[k].id # ep.node
    BY <1>2, <1>3, OtherNodesApart
  <2>5. Kept(beach, i, j) \subseteq 1..n
    BY DEF Kept
  <2> HIDE DEF j
  <2>6. ASSUME NEW x
        PROVE  x \in StillWaiting(beach, i, j) <=> x \in Waiting(beach) /\ x # ep.node
    <3>1. x \in Waiting(beach) <=> \E k \in 1..n : beach[k].edge = Null /\ beach[k].id = x
      BY DEF Waiting, IsTemporary
    <3>2. x \in StillWaiting(beach, i, j)
            <=> \E k \in Kept(beach, i, j) : beach[k].edge = Null /\ beach[k].id = x
      BY DEF StillWaiting
    <3> QED BY <1>2, <2>3, <2>4, <2>5, <3>1, <3>2
  <2> QED BY <2>1, <2>2, <2>6
<1>19. /\ EndPointsInv' /\ Cardinality(endPoints) \in Nat
       /\ Cardinality(endPoints') = Cardinality(endPoints) - 1
  <2>1. IsFiniteSet(endPoints) /\ endPoints' = endPoints \ {ep}
    BY <1>2, <1>3 DEF EndPointsInv
  <2>2. /\ IsFiniteSet(endPoints') /\ Cardinality(endPoints) \in Nat
        /\ Cardinality(endPoints') = Cardinality(endPoints) - 1
    <3>1. /\ IsFiniteSet(endPoints \ {ep})
          /\ Cardinality(endPoints \ {ep})
                = IF ep \in endPoints THEN Cardinality(endPoints) - 1 ELSE Cardinality(endPoints)
      BY <2>1, FS_RemoveElement, Zenon
    <3> QED BY <2>1, <3>1, FS_CardinalityType, Zenon
  <2>3. ASSUME NEW e \in endPoints, e # ep PROVE e.node # ep.node
    <3>1. PICK r \in 1..Len(cells) : e = [point |-> sites[r].p1, node |-> -r]
      BY <1>3 DEF EndPointsInv
    <3>2. e.node = -r
      BY <3>1
    <3>3. CASE r = s
      BY <1>4, <2>3, <3>1, <3>3
    <3>4. CASE r # s
      <4>1. -r # -s
        BY <1>3, <3>4
      <4> QED BY <1>5, <3>2, <4>1
    <3> QED BY <3>3, <3>4
  <2>4. {e.node : e \in endPoints'} = Waiting(beach')
    <3>1. {e.node : e \in endPoints} = Waiting(beach)
      BY <1>3 DEF EndPointsInv
    <3> QED BY <1>18, <2>1, <2>3, <3>1
  <2>5. \A e \in endPoints' :
            /\ \E r \in 1..Len(cells) : /\ IsSegment(sites[r])
                                        /\ e = [point |-> sites[r].p1, node |-> -r]
            /\ \E r \in cursor..N : sites[r] = PointSite(e.point)
    BY <1>3, <2>1 DEF EndPointsInv
  <2>6. cells' = cells /\ sites' = sites /\ cursor' = cursor /\ N' = N
    BY <1>1 DEF graphVars, N
  <2> QED BY <2>2, <2>4, <2>5, <2>6 DEF EndPointsInv
<1>20. CountInv'
  <2>1. /\ numEdges = 2 * (Len(cells) - 1) + 2 * numVertices
        /\ n - Cardinality(endPoints) + numVertices <= 2 * (Len(cells) - 1)
    BY <1>3 DEF CountInv
  <2>2. /\ cells' = cells /\ numEdges' = numEdges /\ numVertices' = numVertices
    BY <1>1 DEF graphVars
  <2>3. Len(beach') - Cardinality(endPoints') = n - Cardinality(endPoints)
    BY <1>3, <1>17, <1>19
  <2> QED BY <1>3, <2>1, <2>2, <2>3 DEF CountInv
<1>21. PhaseInv'
  <2>1. cells' = cells /\ cursor' = cursor /\ last' = last /\ right' = 0 /\ N' = N
    BY <1>1, <1>3 DEF graphVars, N
  <2>2. cursor \in 1..(N + 1) /\ Len(cells) <= N /\ 0 \in 0..(Len(beach') + 1)
    BY <1>3, <1>17
  <2> QED BY <1>1, <1>3, <1>17, <2>1, <2>2 DEF PhaseInv, Phases
<1>22. GraphInv' /\ SitesInv'
  <2>1. GraphInv'
    BY <1>1, <1>3, StepKeepsGraphInv
  <2> QED BY <1>1, <1>3, <2>1, SitesStay
<1>23. TemporaryErased
  <2>1. Spliced(Nodes, beach', beach, i, i + 1, <<>>)
    BY <1>10, <1>11
  <2> QED BY <1>3, <1>6, <2>1, Zenon DEF TemporaryErased
<1> QED BY <1>1, <1>16, <1>19, <1>20, <1>21, <1>22, <1>23 DEF SweepInv

-----------------------------------------------------------------------------
(* lower_bound, the end of the sweep, and steps that change nothing. *)
LEMMA NothingMoves ==
    ASSUME SweepInv,
           UNCHANGED <<graphVars, sites, reserved, cursor, beach, endPoints, circles>>
    PROVE  /\ GraphInv' /\ SitesInv' /\ BeachInv' /\ EndPointsInv' /\ CountInv'
           /\ N' = N /\ cells' = cells
<1>1. GraphInv' /\ SitesInv' /\ N' = N
  BY StepKeepsGraphInv, SitesStay DEF SweepInv
<1>2. Bisectors' = Bisectors /\ Temporaries' = Temporaries /\ Neighbours' = Neighbours
  BY DEF Bisectors, Temporaries, Neighbours, EventFits, Open, graphVars
<1>3. BeachInv'
  BY <1>2 DEF BeachInv, SweepInv
<1>4. cells' = cells /\ numEdges' = numEdges /\ numVertices' = numVertices
  BY DEF graphVars
<1>5. EndPointsInv'
  BY <1>1, <1>4 DEF EndPointsInv, SweepInv
<1>6. CountInv'
  BY <1>4 DEF CountInv, SweepInv
<1> QED BY <1>1, <1>3, <1>4, <1>5, <1>6

LEMMA StutterKeeps == SweepInv /\ UNCHANGED vars => SweepInv'
<1> SUFFICES ASSUME SweepInv, UNCHANGED vars PROVE SweepInv'
  OBVIOUS
<1>1. UNCHANGED <<graphVars, sites, reserved, cursor, beach, endPoints, circles>>
      /\ UNCHANGED <<pc, last, right>>
  BY DEF vars, sweepVars
<1>2. PhaseInv'
  <2>1. N' = N /\ cells' = cells /\ Skip' = Skip /\ sites' = sites
    BY <1>1 DEF graphVars, N, Skip, OnFirstVertical
  <2> QED BY <1>1, <2>1 DEF PhaseInv, SweepInv
<1> QED BY <1>1, <1>2, NothingMoves DEF SweepInv

LEMMA LocateArcKeeps == SweepInv /\ LocateArc => UNCHANGED graphVars /\ SweepInv'
<1> SUFFICES ASSUME SweepInv, LocateArc PROVE UNCHANGED graphVars /\ SweepInv'
  OBVIOUS
<1>1. /\ pc \in {"events", "site"} /\ cursor <= N /\ Reached = {}
      /\ last' = EndOfRun /\ right' \in LowerBounds /\ pc' = "arcs"
      /\ UNCHANGED <<graphVars, sites, reserved, cursor, beach, endPoints, circles>>
  BY DEF LocateArc
<1>2. /\ SitesInv /\ EndPointsInv /\ N \in Nat /\ cursor \in 1..N /\ cursor > 1
      /\ Len(cells) = cursor - 1 /\ Len(cells) <= N /\ (N > 1 => beach # <<>>)
      /\ Len(beach) \in Nat /\ cursor \in Nat
  <2>1. /\ SitesInv /\ EndPointsInv /\ N \in Nat /\ cursor \in 1..(N + 1) /\ cursor > 1
        /\ Len(cells) = cursor - 1 /\ Len(cells) <= N /\ (N > 1 => beach # <<>>)
    BY <1>1 DEF SweepInv, PhaseInv, SitesInv
  <2>2. cursor \in 1..N /\ cursor \in Nat
    BY <1>1, <2>1
  <2> QED BY <2>1, <2>2, BeachFacts
<1>3. /\ last' \in (cursor + 1)..(N + 1) /\ last' \in 1..(N + 1) /\ cursor < last'
      /\ \A j \in cursor..(last' - 1) : j # cursor => IsSegment(sites[j])
  <2>1. last' \in (cursor + 1)..(N + 1)
        /\ \A j \in cursor..(last' - 1) : j # cursor => IsSegment(sites[j])
    BY <1>1, <1>2, RunFound
  <2>2. \A x \in (cursor + 1)..(N + 1) : x \in 1..(N + 1) /\ cursor < x
    BY <1>2
  <2> QED BY <2>1, <2>2
<1>4. right' \in 1..(Len(beach') + 1) /\ right' # 0 /\ right' \in 0..(Len(beach') + 1)
  BY <1>1, <1>2 DEF LowerBounds
<1>5. ASSUME IsPoint(sites[cursor]), NEW ep \in endPoints, ep.point = sites[cursor].p0
      PROVE  FALSE
  <2>1. PICK other \in endPoints : PointLess(other.point, ep.point)
    BY <1>1, <1>5 DEF Reached, SiteEvent
  <2>2. PICK k \in cursor..N : sites[k] = PointSite(other.point)
    BY <1>2 DEF EndPointsInv
  <2>3. sites[k].p0 = other.point /\ IsPoint(sites[k])
    BY <2>2 DEF PointSite, IsPoint, IsSegment
  <2>4. k # cursor
    <3>1. PICK m \in cursor..N : sites[m] = PointSite(ep.point)
      BY <1>2, <1>5 DEF EndPointsInv
    <3> SUFFICES ASSUME k = cursor PROVE FALSE
      OBVIOUS
    <3>2. other.point = ep.point /\ PointLess(sites[cursor].p0, sites[cursor].p0)
      BY <1>5, <2>1, <2>3
    <3>3. sites[cursor] \in SiteRecord
      BY <1>2, ElementOfSeq DEF SitesInv, N
    <3> QED BY <3>2, <3>3 DEF PointLess, SiteRecord, Point
  <2>5. cursor < k /\ k \in 1..N
    BY <1>2, <2>4
  <2>6. ~ PointLess(sites[k].p0, sites[cursor].p0)
    BY <1>2, <1>5, <2>3, <2>5 DEF SitesInv
  <2> QED BY <1>5, <2>1, <2>3, <2>6
<1>6. PhaseInv'
  <2>1. N' = N /\ cells' = cells /\ sites' = sites /\ cursor' = cursor
        /\ cursor \in 1..(N + 1) /\ endPoints' = endPoints /\ beach' = beach
    BY <1>1, <1>2 DEF graphVars, N
  <2> QED BY <1>1, <1>2, <1>3, <1>4, <1>5, <2>1 DEF PhaseInv, Phases
<1> QED BY <1>1, <1>6, NothingMoves DEF SweepInv

LEMMA FinishKeeps == SweepInv /\ Finish => UNCHANGED graphVars /\ SweepInv'
<1> SUFFICES ASSUME SweepInv, Finish PROVE UNCHANGED graphVars /\ SweepInv'
  OBVIOUS
<1>1. /\ pc = "events" /\ cursor > N /\ circles = {} /\ pc' = "done" /\ beach' = <<>>
      /\ UNCHANGED <<graphVars, sites, reserved, cursor, last, right, endPoints, circles>>
  BY DEF Finish
<1>2. /\ SitesInv /\ EndPointsInv /\ CountInv /\ N \in Nat \ {0} /\ cursor \in 1..(N + 1)
      /\ Len(cells) = cursor - 1 /\ Len(cells) <= N /\ last \in 1..(N + 1) /\ right = 0
      /\ Len(beach) \in Nat /\ cursor \in Nat /\ numVertices \in Nat /\ GraphInv
  BY <1>1, BeachFacts, EdgeFacts DEF SweepInv, PhaseInv, SitesInv
<1>3. endPoints = {}
  <2>1. \A k \in cursor..N : FALSE
    BY <1>1, <1>2
  <2> QED BY <1>2, <2>1 DEF EndPointsInv
<1>4. Len(<<>>) = 0 /\ Waiting(<<>>) = {} /\ Cardinality({}) = 0
  BY FS_EmptySet DEF Waiting
<1>5. cells # <<>>
  BY <1>1, <1>2, <1>4
<1>6. /\ GraphInv' /\ SitesInv' /\ N' = N /\ cells' = cells /\ numEdges' = numEdges
      /\ numVertices' = numVertices /\ sites' = sites /\ cursor' = cursor
  BY <1>1, <1>2, StepKeepsGraphInv, SitesStay DEF graphVars
<1>7. BeachInv'
  <2>1. Chain(<<>>, Bisectors' \cup Temporaries', Neighbours', {})
    BY <1>4, EmptySeq DEF Chain
  <2> QED BY <1>1, <2>1 DEF BeachInv
<1>8. EndPointsInv'
  BY <1>1, <1>2, <1>3, <1>4 DEF EndPointsInv
<1>9. CountInv'
  <2>1. /\ numEdges = 2 * (Len(cells) - 1) + 2 * numVertices
        /\ Len(beach) - Cardinality(endPoints) + numVertices <= 2 * (Len(cells) - 1)
    BY <1>2, <1>5 DEF CountInv
  <2>2. Cardinality(endPoints) = 0
    BY <1>3, <1>4
  <2>3. Len(beach') - Cardinality(endPoints') + numVertices' <= 2 * (Len(cells') - 1)
    <3>1. numVertices <= 2 * (Len(cells) - 1)
      BY <1>2, <2>1, <2>2
    <3>2. Len(beach') = 0 /\ Cardinality(endPoints') = 0
      BY <1>1, <1>4, <2>2
    <3> QED BY <1>2, <1>6, <3>1, <3>2
  <2> QED BY <1>5, <1>6, <2>1, <2>3 DEF CountInv
<1>10. PhaseInv'
  <2>1. right' = 0 /\ right' \in 0..(Len(beach') + 1)
    BY <1>1, <1>2, <1>4
  <2> QED BY <1>1, <1>2, <1>3, <1>5, <1>6, <2>1 DEF PhaseInv, Phases
<1> QED BY <1>1, <1>6, <1>7, <1>8, <1>9, <1>10 DEF SweepInv

-----------------------------------------------------------------------------
(* process_circle_event at node i: the two nodes it leaves there, and the   *)
(* events they get.                                                         *)
FarArc(lower, gone) ==
    LET touching == /\ ~ OnSegment(lower.l) /\ OnSegment(gone.r)
                    /\ To(At(gone.r)) = At(lower.l).p0
    IN  IF touching THEN Back(gone.r) ELSE gone.r

EventBelow(i) ==
    IF i > 2 THEN Candidate(beach[i - 2].l, beach[i - 1].l, FarArc(beach[i - 1], beach[i]))
             ELSE beach[i - 1].event

EventAbove(i) == Candidate(beach[i - 1].l, FarArc(beach[i - 1], beach[i]), beach[i + 1].r)

JoinedNode(i) ==
    [Merged(beach[i - 1], FarArc(beach[i - 1], beach[i])) EXCEPT !.event = EventBelow(i)]

NodeAbove(i) == [beach[i + 1] EXCEPT !.event = EventAbove(i)]

CircleAt(ev, i) ==
    LET hasBelow == i > 2
        hasAbove == i < Len(beach)
        lower == beach[i - 1]
    IN  /\ beach[i].id = ev.node
        /\ InsertCircleEdge(lower.l.site, FarArc(lower, beach[i]).site, lower.edge, beach[i].edge)
        /\ beach' = IF hasAbove
                    THEN ReplaceBy(beach, i - 1, i + 2, <<JoinedNode(i), NodeAbove(i)>>)
                    ELSE ReplaceBy(beach, i - 1, i + 1, <<JoinedNode(i)>>)
        /\ circles' = ((circles \ {ev})
                        \ ((IF hasBelow THEN EventsOf(lower) ELSE {})
                              \cup (IF hasAbove THEN EventsOf(beach[i + 1]) ELSE {})))
                      \cup ((IF hasBelow THEN EventsOf(JoinedNode(i)) ELSE {})
                              \cup (IF hasAbove THEN EventsOf(NodeAbove(i)) ELSE {}))

LEMMA CircleEventAt ==
    ASSUME CircleEvent
    PROVE  \E ev \in circles : \E i \in DOMAIN beach : CircleAt(ev, i)
<1>1. PICK ev \in circles, i \in DOMAIN beach :
        LET lower == beach[i - 1]
            gone == beach[i]
            hasBelow == i > 2
            hasAbove == i < Len(beach)
            site1 == lower.l
            touching == /\ ~ OnSegment(site1) /\ OnSegment(gone.r)
                        /\ To(At(gone.r)) = At(site1).p0
            site3 == IF touching THEN Back(gone.r) ELSE gone.r
            joined == [Merged(lower, site3) EXCEPT !.event =
                        IF hasBelow THEN Candidate(beach[i - 2].l, site1, site3) ELSE @]
            above == [beach[i + 1] EXCEPT !.event = Candidate(site1, site3, beach[i + 1].r)]
            withdrawn == (IF hasBelow THEN Deactivated(lower) ELSE {})
                            \cup (IF hasAbove THEN Deactivated(beach[i + 1]) ELSE {})
            found == (IF hasBelow THEN Activated(joined) ELSE {})
                        \cup (IF hasAbove THEN Activated(above) ELSE {})
        IN  /\ beach[i].id = ev.node
            /\ InsertCircleEdge(site1.site, site3.site, lower.edge, gone.edge)
            /\ beach' = IF hasAbove THEN ReplaceBy(beach, i - 1, i + 2, <<joined, above>>)
                                    ELSE ReplaceBy(beach, i - 1, i + 1, <<joined>>)
            /\ circles' = (Popped(ev) \ withdrawn) \cup found
  BY DEF CircleEvent
<1> DEFINE lower == beach[i - 1]
           site3 == FarArc(lower, beach[i])
           joined == [Merged(lower, site3) EXCEPT !.event =
                        IF i > 2 THEN Candidate(beach[i - 2].l, lower.l, site3) ELSE @]
<1>2. joined = JoinedNode(i)
  BY DEF JoinedNode, EventBelow, Merged
<1>3. /\ beach[i].id = ev.node
      /\ InsertCircleEdge(lower.l.site, site3.site, lower.edge, beach[i].edge)
      /\ beach' = IF i < Len(beach)
                  THEN ReplaceBy(beach, i - 1, i + 2, <<joined, NodeAbove(i)>>)
                  ELSE ReplaceBy(beach, i - 1, i + 1, <<joined>>)
      /\ circles' = (Popped(ev) \ ((IF i > 2 THEN Deactivated(lower) ELSE {})
                                     \cup (IF i < Len(beach) THEN Deactivated(beach[i + 1]) ELSE {})))
                    \cup ((IF i > 2 THEN Activated(joined) ELSE {})
                            \cup (IF i < Len(beach) THEN Activated(NodeAbove(i)) ELSE {}))
  BY <1>1, Zenon DEF FarArc, NodeAbove, EventAbove
<1>4. CircleAt(ev, i)
  BY <1>2, <1>3, Zenon DEF CircleAt, Popped, Activated, Deactivated
<1> QED BY <1>4

(* The event that is processed is that of its node; the two bisectors that  *)
(* meet can be joined.                                                      *)
LEMMA CircleFacts ==
    ASSUME SweepInv, NEW ev \in circles, NEW i \in DOMAIN beach, beach[i].id = ev.node
    PROVE  /\ i \in 2..Len(beach) /\ EventsOf(beach[i]) = {ev}
           /\ beach[i - 1] \in Bisectors /\ beach[i] \in Bisectors
           /\ beach[i - 1].edge # beach[i].edge /\ twin[beach[i - 1].edge] # beach[i].edge
           /\ beach[i - 1].r.site = beach[i].l.site
<1>1. i \in 1..Len(beach)
  BY BeachFacts, LenProperties
<1>2. PICK k \in 1..Len(beach) : ev \in EventsOf(beach[k])
  BY BeachFacts DEF Chain
<1>3. ev.node = beach[k].id /\ EventsOf(beach[k]) = {ev} /\ beach[k].event # NoEvent
  BY <1>2 DEF EventsOf, Event
<1>4. k = i
  BY <1>1, <1>3, OtherNodesApart
<1>5. i > 1 /\ beach[i].edge # Null /\ beach[i - 1].edge # Null
  BY <1>1, <1>3, <1>4, OnlyBisectorsMeet
<1>6. i \in 2..Len(beach) /\ i - 1 \in 1..Len(beach) /\ i - 1 # i
  BY <1>1, <1>5, BeachFacts
<1>7. twin[beach[i - 1].edge] # beach[i].edge
  <2>1. <<beach[i - 1], beach[i]>> \in Neighbours
    BY <1>1, <1>5, BeachFacts
  <2> QED BY <1>3, <1>4, <2>1 DEF Neighbours, EventFits
<1>8. beach[i - 1].edge # beach[i].edge
  BY <1>1, <1>5, <1>6, OtherNodesApart
<1> QED BY <1>1, <1>3, <1>4, <1>5, <1>6, <1>7, <1>8, BeachFacts

LEMMA FarArcFacts ==
    ASSUME NEW lower, NEW gone \in Nodes
    PROVE  FarArc(lower, gone) \in Arcs /\ FarArc(lower, gone).site = gone.r.site
<1>1. gone.r \in Arcs
  BY NodeFacts
<1>2. Back(gone.r) \in Arcs /\ Back(gone.r).site = gone.r.site
  BY <1>1, ArcFacts
<1> QED BY <1>1, <1>2 DEF FarArc

LEMMA CircleJoins ==
    ASSUME SweepInv, NEW ev \in circles, NEW i \in DOMAIN beach, CircleAt(ev, i)
    PROVE  /\ beach[i - 1].edge \in Edge /\ beach[i].edge \in Edge
           /\ JoinBisectors(beach[i - 1].edge, beach[i].edge)
           /\ GraphNext /\ GraphInv'
           /\ numEdges \in Nat /\ numEdges' = numEdges + 2 /\ cells' = cells
           /\ numVertices \in Nat /\ numVertices' = numVertices + 1
           /\ \A e \in 1..numEdges : twin'[e] \in 1..numEdges
           /\ vertex0'[numEdges + 1] = Null /\ twin'[numEdges + 1] = numEdges + 2
           /\ cell'[numEdges + 1] = beach[i - 1].l.site
           /\ cell'[numEdges + 2] = beach[i].r.site
<1> DEFINE e12 == beach[i - 1].edge
           e23 == beach[i].edge
<1>1. beach[i].id = ev.node
  BY DEF CircleAt
<1>2. /\ beach[i - 1] \in Bisectors /\ beach[i] \in Bisectors /\ GraphInv
      /\ e12 # e23 /\ twin[e12] # e23 /\ beach[i - 1].r.site = beach[i].l.site
  BY <1>1, CircleFacts DEF SweepInv
<1>3. /\ e12 \in Edge /\ e23 \in Edge /\ Open(e12) /\ Open(e23) /\ beach[i] \in Nodes
      /\ cell[e12] = beach[i - 1].l.site /\ cell[twin[e12]] = beach[i - 1].r.site
      /\ cell[e23] = beach[i].l.site /\ cell[twin[e23]] = beach[i].r.site
  BY <1>2 DEF Bisectors, Edge
<1>4. InsertCircleEdge(cell[e12], cell[twin[e23]], e12, e23)
  BY <1>3, FarArcFacts DEF CircleAt
<1>5. JoinBisectors(e12, e23)
  BY <1>2, <1>3, <1>4, Zenon DEF JoinBisectors
<1> HIDE DEF e12, e23
<1>6. GraphNext /\ GraphInv'
  <2>1. GraphNext
    BY <1>3, <1>5 DEF GraphNext
  <2> QED BY <1>2, <2>1, StepKeepsGraphInv
<1>7. PICK n, v, t12, t23 : Joined(e12, e23, t12, t23, n, v)
  BY <1>2, <1>3, <1>5, JoinFacts
<1>8. /\ numEdges \in Nat /\ numEdges' = numEdges + 2 /\ cells' = cells
      /\ numVertices' = numVertices + 1
      /\ \A e \in 1..numEdges : twin'[e] \in 1..numEdges
      /\ vertex0'[numEdges + 1] = 0 /\ twin'[numEdges + 1] = numEdges + 2
      /\ cell'[numEdges + 1] = cell[e12] /\ cell'[numEdges + 2] = cell[twin[e23]]
  BY <1>2, <1>7, EdgeFacts DEF Joined
<1> QED BY <1>2, <1>3, <1>5, <1>6, <1>8, EdgeFacts DEF Null, e12, e23

(* The node that takes the new bisector, and the one above it, are in the   *)
(* beach line's good graces again.                                          *)
LEMMA JoinedNodeFacts ==
    ASSUME SweepInv, NEW ev \in circles, NEW i \in DOMAIN beach, CircleAt(ev, i), UNCHANGED sites
    PROVE  /\ JoinedNode(i) \in Nodes /\ JoinedNode(i) \in Bisectors'
           /\ JoinedNode(i).id = beach[i - 1].id /\ JoinedNode(i).edge = numEdges + 1
           /\ JoinedNode(i).l = beach[i - 1].l /\ JoinedNode(i).r.site = beach[i].r.site
           /\ JoinedNode(i).event = EventBelow(i)
           /\ i = 2 => EventBelow(i) = NoEvent
           /\ i > 2 => <<beach[i - 2], JoinedNode(i)>> \in Neighbours'
<1> DEFINE lower == beach[i - 1]
           gone == beach[i]
           far == FarArc(lower, gone)
           low == EventBelow(i)
           node == JoinedNode(i)
<1>1. /\ i \in 2..Len(beach) /\ Len(beach) \in Nat /\ i - 1 \in 1..Len(beach)
      /\ lower \in Bisectors /\ gone \in Bisectors /\ lower \in Nodes /\ gone \in Nodes
      /\ lower.l \in Arcs /\ lower.id \in Int
  <2>1. i \in 2..Len(beach) /\ lower \in Bisectors /\ gone \in Bisectors
    BY CircleFacts DEF CircleAt
  <2>2. Len(beach) \in Nat
    BY BeachFacts
  <2> QED BY <2>1, <2>2, NodeFacts DEF Bisectors
<1>2. far \in Arcs /\ far.site = gone.r.site
  BY <1>1, FarArcFacts
<1>3. /\ numEdges \in Nat /\ numEdges' = numEdges + 2 /\ cells' = cells
      /\ \A e \in 1..numEdges : twin'[e] \in 1..numEdges
      /\ vertex0'[numEdges + 1] = Null /\ twin'[numEdges + 1] = numEdges + 2
      /\ cell'[numEdges + 1] = lower.l.site /\ cell'[numEdges + 2] = gone.r.site
  BY CircleJoins
<1>4. i = 2 => low = NoEvent
  <2>1. i = 2 => low = beach[1].event
    BY DEF EventBelow
  <2> QED BY <1>1, <2>1, BeachFacts
<1>5. /\ low \in {NoEvent} \cup (Arcs \X Arcs \X Arcs)
      /\ low # NoEvent => i > 2 /\ low = <<beach[i - 2].l, lower.l, far>> /\ beach[i - 2].edge # Null
  <2>1. CASE i = 2
    BY <1>4, <2>1
  <2>2. CASE i > 2
    <3>1. i - 2 \in 1..Len(beach) /\ i - 1 > 1 /\ (i - 1) - 1 = i - 2
      BY <1>1, <2>2
    <3>2. beach[i - 2] \in Nodes /\ beach[i - 2].r.site = lower.l.site
      BY <1>1, <3>1, BeachFacts
    <3>3. beach[i - 2].l \in Arcs
      BY <3>2, NodeFacts
    <3>4. low = Candidate(beach[i - 2].l, lower.l, far)
      BY <2>2 DEF EventBelow
    <3>5. beach[i - 2].edge = Null => low = NoEvent
      <4> SUFFICES ASSUME beach[i - 2].edge = Null PROVE low = NoEvent
        OBVIOUS
      <4>1. beach[i - 2] \in Temporaries
        BY <3>1, BeachFacts
      <4>2. IsSegment(sites[lower.l.site]) /\ beach[i - 2].l.site = lower.l.site
        BY <3>2, <4>1 DEF Temporaries
      <4> QED BY <3>4, <4>2, NoEventOnOneSegment
    <3> HIDE DEF low, far, lower
    <3> QED BY <1>1, <1>2, <2>2, <3>3, <3>4, <3>5, CandidateFacts
  <2> QED BY <1>1, <2>1, <2>2
<1>6. /\ node \in Nodes /\ node.id = lower.id /\ node.edge = numEdges + 1
      /\ node.l = lower.l /\ node.r = far /\ node.event = low
  <2>1. node = [[lower EXCEPT !.r = far, !.edge = numEdges + 1] EXCEPT !.event = low]
    BY DEF JoinedNode, Merged
  <2> HIDE DEF node, far, low, lower
  <2>2. numEdges + 1 \in Nat
    BY <1>3
  <2>3. node \in Nodes
    BY <1>1, <1>2, <1>5, <2>1, <2>2 DEF Nodes
  <2> QED BY <1>1, <2>1, <2>3 DEF Nodes
<1>7. node \in Bisectors'
  <2>1. /\ lower.id \in 1..numEdges /\ lower.l.site \in 1..Len(cells)
        /\ gone.r.site \in 1..Len(cells)
    BY <1>1 DEF Bisectors
  <2> HIDE DEF node, far, low, lower, gone
  <2> QED BY <1>2, <1>3, <1>6, <2>1 DEF Bisectors, Open
<1>8. ASSUME i > 2 PROVE <<beach[i - 2], node>> \in Neighbours'
  <2> DEFINE m == beach[i - 2]
  <2>1. i - 2 \in 1..Len(beach) /\ i - 1 > 1 /\ (i - 1) - 1 = i - 2
    BY <1>1, <1>8
  <2>2. m \in Nodes /\ m.r.site = lower.l.site /\ m \in Bisectors \cup Temporaries
    BY <1>1, <2>1, BeachFacts
  <2>3. m.edge # Null => m.edge \in 1..numEdges
    BY <2>2 DEF Bisectors, Temporaries
  <2>4. low # NoEvent =>
            /\ m.edge # Null /\ low[1] = m.l /\ low[2] = lower.l /\ low[3] = far
    BY <1>5
  <2> HIDE DEF node, far, low, lower, m
  <2>5. low # NoEvent =>
            /\ m.edge # Null /\ node.edge # Null /\ twin'[m.edge] # node.edge
            /\ low[1].site = m.l.site /\ low[2].site = node.l.site /\ low[3].site = node.r.site
    BY <1>3, <1>6, <2>3, <2>4 DEF Null
  <2>6. <<m, node>> \in Neighbours'
    BY <1>6, <2>2, <2>5, NewNeighbours
  <2> QED BY <2>6 DEF m
<1> QED BY <1>2, <1>4, <1>6, <1>7, <1>8

LEMMA NodeAboveFacts ==
    ASSUME SweepInv, NEW ev \in circles, NEW i \in DOMAIN beach, CircleAt(ev, i), UNCHANGED sites,
           i < Len(beach)
    PROVE  /\ NodeAbove(i) \in Nodes /\ NodeAbove(i) \in (Bisectors \cup Temporaries)'
           /\ NodeAbove(i).id = beach[i + 1].id /\ NodeAbove(i).edge = beach[i + 1].edge
           /\ <<JoinedNode(i), NodeAbove(i)>> \in Neighbours'
           /\ \A n : <<beach[i + 1], n>> \in Neighbours' => <<NodeAbove(i), n>> \in Neighbours'
<1> DEFINE lower == beach[i - 1]
           gone == beach[i]
           old == beach[i + 1]
           far == FarArc(lower, gone)
           high == EventAbove(i)
           node == NodeAbove(i)
           joined == JoinedNode(i)
<1>1. /\ i \in 2..Len(beach) /\ Len(beach) \in Nat /\ i - 1 \in 1..Len(beach)
      /\ lower \in Bisectors /\ gone \in Bisectors /\ lower \in Nodes /\ gone \in Nodes
      /\ lower.l \in Arcs /\ i + 1 \in 1..Len(beach) /\ i + 1 > 1 /\ (i + 1) - 1 = i
      /\ i + 1 # i /\ i + 1 # i - 1
  <2>1. i \in 2..Len(beach) /\ lower \in Bisectors /\ gone \in Bisectors
    BY CircleFacts DEF CircleAt
  <2>2. Len(beach) \in Nat
    BY BeachFacts
  <2> QED BY <2>1, <2>2, NodeFacts DEF Bisectors
<1>2. far \in Arcs /\ far.site = gone.r.site
  BY <1>1, FarArcFacts
<1>3. /\ numEdges \in Nat /\ numEdges' = numEdges + 2 /\ cells' = cells
      /\ twin'[numEdges + 1] = numEdges + 2
      /\ lower.edge \in Edge /\ gone.edge \in Edge /\ JoinBisectors(lower.edge, gone.edge)
  BY CircleJoins
<1>4. /\ old \in Nodes /\ old \in Bisectors \cup Temporaries /\ old.l.site = gone.r.site
      /\ old.r \in Arcs
  BY <1>1, BeachFacts, NodeFacts
<1>5. old.edge \notin {lower.edge, gone.edge}
  <2>1. lower.edge # Null /\ gone.edge # Null
    BY <1>3 DEF Edge, Null
  <2>2. i - 1 \in 1..Len(beach) /\ i \in 1..Len(beach) /\ i + 1 \in 1..Len(beach)
    BY <1>1
  <2>3. lower.edge # old.edge
    BY <1>1, <2>1, <2>2, OtherNodesApart
  <2>4. gone.edge # old.edge
    BY <1>1, <2>1, <2>2, OtherNodesApart
  <2> QED BY <2>3, <2>4
<1>6. old \in Bisectors' \cup Temporaries'
  BY <1>3, <1>4, <1>5, JoinKeepsNodes DEF SweepInv
<1>7. /\ high \in {NoEvent} \cup (Arcs \X Arcs \X Arcs)
      /\ high # NoEvent => high = <<lower.l, far, old.r>> /\ old.edge # Null
  <2>1. high = Candidate(lower.l, far, old.r)
    BY DEF EventAbove
  <2>2. old.edge = Null => high = NoEvent
    <3> SUFFICES ASSUME old.edge = Null PROVE high = NoEvent
      OBVIOUS
    <3>1. old \in Temporaries
      BY <1>1, BeachFacts
    <3>2. IsSegment(sites[far.site]) /\ far.site = old.r.site
      BY <1>2, <1>4, <3>1 DEF Temporaries
    <3> QED BY <2>1, <3>2, NoEventOnOneSegment
  <2> HIDE DEF high, far, lower, old
  <2> QED BY <1>1, <1>2, <1>4, <2>1, <2>2, CandidateFacts
<1>8. /\ node \in Nodes /\ node.id = old.id /\ node.edge = old.edge
      /\ node.l = old.l /\ node.r = old.r /\ node.event = high
  <2>1. node = [old EXCEPT !.event = high]
    BY DEF NodeAbove
  <2> HIDE DEF node, high, old
  <2>2. node \in Nodes
    BY <1>4, <1>7, <2>1 DEF Nodes
  <2> QED BY <1>4, <2>1, <2>2 DEF Nodes
<1>9. /\ joined \in Nodes /\ joined.edge = numEdges + 1 /\ joined.l = lower.l
      /\ joined.r.site = gone.r.site
  BY JoinedNodeFacts
<1>10. old.edge \in 0..numEdges
  BY <1>3, <1>4 DEF Bisectors, Temporaries, Null
<1>11. high # NoEvent => high[1] = lower.l /\ high[2] = far /\ high[3] = old.r
  BY <1>7
<1> HIDE DEF node, high, old, far, lower, gone, joined
<1>12. node \in Bisectors' \cup Temporaries'
  <2>1. CASE old \in Bisectors'
    <3>1. node \in Bisectors'
      BY <1>8, <2>1 DEF Bisectors
    <3> QED BY <3>1
  <2>2. CASE old \in Temporaries'
    <3>1. node \in Temporaries'
      BY <1>7, <1>8, <2>2 DEF Temporaries
    <3> QED BY <3>1
  <2> QED BY <1>6, <2>1, <2>2
<1>13. <<joined, node>> \in Neighbours'
  <2>1. high # NoEvent =>
            /\ joined.edge # Null /\ node.edge # Null /\ twin'[joined.edge] # node.edge
            /\ high[1].site = joined.l.site /\ high[2].site = node.l.site
            /\ high[3].site = node.r.site
    BY <1>2, <1>3, <1>4, <1>7, <1>8, <1>9, <1>10, <1>11 DEF Null
  <2> QED BY <1>4, <1>8, <1>9, <2>1, NewNeighbours
<1>14. ASSUME NEW n, <<old, n>> \in Neighbours' PROVE <<node, n>> \in Neighbours'
  BY <1>8, <1>14 DEF Neighbours, EventFits
<1> QED BY <1>8, <1>12, <1>13, <1>14 DEF node, old, joined

LEMMA CircleSteps ==
    ASSUME SweepInv, NEW ev \in circles, NEW i \in DOMAIN beach, CircleAt(ev, i), UNCHANGED sites
    PROVE  /\ BeachInv' /\ Waiting(beach') = Waiting(beach) /\ Len(beach') = Len(beach) - 1
           /\ \E b1 : /\ Retimed(b1, beach, i + 1)
                      /\ Spliced(Nodes, beach', b1, i - 1, i + 1, <<JoinedNode(i)>>)
<1> DEFINE lower == beach[i - 1]
           gone == beach[i]
           joined == JoinedNode(i)
           above == NodeAbove(i)
           new == <<joined>>
           lo == i - 1
           hi == i + 1
           n == Len(beach)
           good == (Bisectors \cup Temporaries)'
           near == Neighbours'
<1>1. /\ i \in 2..n /\ n \in Nat /\ lo \in 1..n /\ i \in Int /\ beach \in Seq(Nodes)
      /\ EventsOf(gone) = {ev} /\ lower.edge # Null /\ gone.edge # Null
      /\ lower.edge \in 1..numEdges /\ gone.edge \in 1..numEdges
  <2>1. i \in 2..n /\ lower \in Bisectors /\ gone \in Bisectors /\ EventsOf(gone) = {ev}
    BY CircleFacts DEF CircleAt
  <2>2. n \in Nat /\ beach \in Seq(Nodes)
    BY BeachFacts
  <2> QED BY <2>1, <2>2 DEF Bisectors, Null
<1>2. /\ joined \in Nodes /\ joined \in good
      /\ joined.id = lower.id /\ joined.edge = numEdges + 1
      /\ joined.event = EventBelow(i)
      /\ i = 2 => joined.event = NoEvent
      /\ i > 2 => <<beach[i - 2], joined>> \in near
  BY JoinedNodeFacts
<1>3. i < n => /\ above \in Nodes /\ above \in good
               /\ above.id = beach[i + 1].id /\ above.edge = beach[i + 1].edge
               /\ <<joined, above>> \in near
               /\ \A m : <<beach[i + 1], m>> \in near => <<above, m>> \in near
  BY NodeAboveFacts
<1>4. /\ numEdges \in Nat /\ lower.edge \in Edge /\ gone.edge \in Edge
      /\ JoinBisectors(lower.edge, gone.edge)
  BY CircleJoins
<1>5. new \in Seq(Nodes) /\ Len(new) = 1 /\ new[1] = joined /\ new # <<>>
      /\ \A k \in 1..Len(new) : k = 1
  BY <1>2
<1> HIDE DEF joined, above, good, near
<1>6. PICK b1 : /\ Retimed(b1, beach, hi) /\ Spliced(Nodes, beach', b1, lo, hi, new)
                /\ i < n => b1[hi] = above
  <2>1. CASE i < n
    <3> DEFINE b1 == [beach EXCEPT ![hi] = above]
    <3>1. beach' = ReplaceBy(beach, i - 1, i + 2, <<joined, above>>)
      BY <2>1 DEF CircleAt, joined, above
    <3>2. <<joined, above>> = new \o <<above>> /\ i + 2 = hi + 1
      <4>1. i + 2 = i + 1 + 1
        BY <1>1
      <4> QED BY <4>1, OneAndMore DEF new
    <3>3. lo \in 1..Len(beach) /\ hi \in lo..Len(beach) /\ hi \in 1..Len(beach)
      BY <1>1, <2>1
    <3>4. above \in Nodes /\ above.id = beach[hi].id /\ above.edge = beach[hi].edge
      BY <1>3, <2>1
    <3>5. beach' = ReplaceBy(beach, lo, hi + 1, new \o <<above>>)
      BY <3>1, <3>2
    <3>6. b1[hi] = above
      BY <1>1, <3>3
    <3> HIDE DEF lo, hi, new
    <3>7. Retimed(b1, beach, hi) /\ Spliced(Nodes, beach', b1, lo, hi, new)
      BY <1>1, <1>5, <3>3, <3>4, <3>5, RetimedSplices
    <3> QED BY <3>6, <3>7
  <2>2. CASE ~ (i < n)
    <3>1. beach' = ReplaceBy(beach, lo, hi, new)
      BY <2>2 DEF CircleAt, joined
    <3>2. lo \in 1..(Len(beach) + 1) /\ hi \in lo..(Len(beach) + 1)
      BY <1>1
    <3> HIDE DEF lo, hi, new
    <3>3. Spliced(Nodes, ReplaceBy(beach, lo, hi, new), beach, lo, hi, new)
      BY <1>1, <1>5, <3>2, ReplaceBySplices, Zenon
    <3> QED BY <1>1, <2>2, <3>1, <3>3, SameSplices
  <2> QED BY <2>1, <2>2
<1> HIDE DEF new
<1>7. ASSUME NEW k \in 1..n, k # lo, k # i
      PROVE  /\ beach[k] \in Nodes /\ beach[k] \in good
             /\ beach[k].edge \in 0..numEdges /\ beach[k].id # lower.id
  <2>1. lo \in 1..n /\ i \in 1..n /\ beach[k] \in Bisectors \cup Temporaries /\ beach[k] \in Nodes
    <3>1. lo \in 1..n /\ i \in 1..n
      BY <1>1
    <3> HIDE DEF lo
    <3> QED BY <3>1, BeachFacts
  <2>2. lower.edge # beach[k].edge /\ lower.id # beach[k].id
    BY <1>1, <1>7, <2>1, OtherNodesApart
  <2>3. gone.edge # beach[k].edge
    BY <1>1, <1>7, <2>1, OtherNodesApart
  <2>4. beach[k] \in Bisectors' \cup Temporaries'
    BY <1>4, <2>1, <2>2, <2>3, JoinKeepsNodes DEF SweepInv
  <2>5. beach[k].edge \in 0..numEdges
    BY <1>4, <2>1 DEF Bisectors, Temporaries, Null
  <2> QED BY <2>1, <2>2, <2>4, <2>5 DEF good
<1>8. ASSUME NEW k \in 2..n PROVE <<beach[k - 1], beach[k]>> \in near
  <2>1. k \in 1..n /\ k - 1 \in 1..n /\ k > 1
    BY <1>1
  <2>2. <<beach[k - 1], beach[k]>> \in Neighbours /\ beach[k - 1] \in Bisectors \cup Temporaries
    BY <2>1, BeachFacts
  <2> QED BY <1>4, <2>2, JoinKeepsNodes DEF SweepInv, near
<1>9. OldFit(beach, b1, lo, hi, good, near)
  <2>1. \A k \in 1..n : k # hi => b1[k] = beach[k]
    BY <1>6 DEF Retimed
  <2>2. ASSUME NEW k \in 1..n, k < lo \/ k >= hi PROVE b1[k] \in good
    <3>1. CASE k = hi
      BY <1>1, <1>3, <1>6, <3>1
    <3>2. CASE k # hi
      <4>1. k # lo /\ k # i
        BY <1>1, <2>2
      <4> QED BY <1>7, <2>1, <3>2, <4>1
    <3> QED BY <3>1, <3>2
  <2>3. ASSUME NEW k \in 2..n, k < lo \/ k > hi PROVE <<b1[k - 1], b1[k]>> \in near
    <3>1. k \in 1..n /\ k - 1 \in 1..n /\ b1[k] = beach[k]
      BY <1>1, <2>1, <2>3
    <3>2. <<beach[k - 1], beach[k]>> \in near
      BY <1>8
    <3>3. CASE k - 1 = hi
      <4>1. i < n /\ b1[k - 1] = above /\ beach[k - 1] = beach[i + 1]
        BY <1>1, <1>6, <3>1, <3>3
      <4> QED BY <1>3, <3>1, <3>2, <4>1
    <3>4. CASE k - 1 # hi
      BY <2>1, <3>1, <3>2, <3>4
    <3> QED BY <3>3, <3>4
  <2> HIDE DEF lo, hi
  <2> QED BY <2>2, <2>3 DEF OldFit, Kept
<1>10. NewFit(new, good, near)
  <2>1. \A k \in 2..Len(new) : FALSE
    BY <1>5
  <2> QED BY <1>2, <1>5, <2>1 DEF NewFit
<1>11. JointFit(beach, b1, lo, hi, new, near)
  <2>1. lo > 1 => <<beach[lo - 1], new[1]>> \in near
    <3>1. lo > 1 => i > 2 /\ lo - 1 = i - 2
      BY <1>1
    <3> QED BY <1>2, <1>5, <3>1
  <2>2. hi <= n => <<new[Len(new)], b1[hi]>> \in near
    <3>1. hi <= n => i < n
      BY <1>1
    <3> QED BY <1>3, <1>5, <1>6, <3>1
  <2>3. new[1].edge # Null /\ new[Len(new)].edge # Null
    BY <1>2, <1>4, <1>5 DEF Null
  <2>4. lo = 1 => new[1].event = NoEvent
    BY <1>1, <1>2, <1>5
  <2>5. ASSUME NEW k \in Kept(beach, lo, hi), NEW m \in 1..Len(new)
        PROVE  <<beach[k], new[m]>> \in Apart /\ <<new[m], beach[k]>> \in Apart
    <3>1. k \in 1..n /\ k # lo /\ k # i
      BY <1>1 DEF Kept
    <3>2. beach[k] \in Nodes /\ beach[k].edge \in 0..numEdges /\ beach[k].id # lower.id
      BY <1>7, <3>1
    <3>3. new[m] = joined
      BY <1>5
    <3>4. joined.edge # beach[k].edge
      BY <1>2, <1>4, <3>2
    <3> QED BY <1>2, <3>2, <3>3, <3>4 DEF Apart
  <2> HIDE DEF lo, hi
  <2> QED BY <1>5, <2>1, <2>2, <2>3, <2>4, <2>5 DEF JointFit
<1>12. QueueFits(beach, b1, lo, hi, new, circles, circles')
  <2> DEFINE W == UNION {EventsOf(beach[k]) : k \in {m \in 1..n : lo <= m /\ m <= hi}}
             X == UNION {EventsOf(b1[k]) : k \in {m \in 1..n : m = hi}}
             Y == UNION {EventsOf(new[k]) : k \in 1..Len(new)}
             A == IF i > 2 THEN EventsOf(lower) ELSE {}
             B == IF i < n THEN EventsOf(beach[i + 1]) ELSE {}
             C == IF i > 2 THEN EventsOf(joined) ELSE {}
             D == IF i < n THEN EventsOf(above) ELSE {}
  <2>1. circles' = ((circles \ {ev}) \ (A \cup B)) \cup (C \cup D)
    BY DEF CircleAt, joined, above
  <2>2. W = A \cup {ev} \cup B
    <3>1. A = EventsOf(lower)
      <4>1. i = 2 => lower.event = NoEvent
        BY <1>1, BeachFacts
      <4>2. i = 2 => EventsOf(lower) = {}
        BY <4>1 DEF EventsOf
      <4> QED BY <1>1, <4>2
    <3>2. ASSUME NEW x PROVE x \in W <=> x \in EventsOf(lower) \/ x \in {ev} \/ x \in B
      <4>1. x \in W <=> \E k \in 1..n : lo <= k /\ k <= hi /\ x \in EventsOf(beach[k])
        OBVIOUS
      <4>2. \A k \in 1..n : lo <= k /\ k <= hi <=> k = lo \/ k = i \/ (i < n /\ k = i + 1)
        BY <1>1
      <4>3. lo \in 1..n /\ i \in 1..n /\ (i < n => i + 1 \in 1..n)
        BY <1>1
      <4> HIDE DEF W, lo, hi
      <4>4. x \in W <=> \/ x \in EventsOf(beach[lo]) \/ x \in EventsOf(beach[i])
                        \/ i < n /\ x \in EventsOf(beach[i + 1])
        BY <4>1, <4>2, <4>3
      <4>5. beach[lo] = lower
        BY DEF lo
      <4> QED BY <1>1, <4>4, <4>5
    <3> HIDE DEF W, A, B, lower
    <3> QED BY <3>1, <3>2
  <2>3. X = D
    <3>1. CASE i < n
      <4>1. {m \in 1..n : m = hi} = {hi}
        BY <1>1, <3>1
      <4> QED BY <1>6, <3>1, <4>1
    <3>2. CASE ~ (i < n)
      <4>1. {m \in 1..n : m = hi} = {}
        BY <1>1, <3>2
      <4> QED BY <3>2, <4>1
    <3> QED BY <3>1, <3>2
  <2>4. Y = C
    <3>1. Y = EventsOf(joined)
      <4>1. 1..Len(new) = {1}
        BY <1>5
      <4> QED BY <1>5, <4>1
    <3>2. i = 2 => EventsOf(joined) = {}
      BY <1>2 DEF EventsOf
    <3> HIDE DEF Y
    <3> QED BY <1>1, <3>1, <3>2
  <2> HIDE DEF W, X, Y, A, B, C, D
  <2>5. circles' = (circles \ W) \cup (X \cup Y)
    BY <2>1, <2>2, <2>3, <2>4
  <2> QED BY <2>5 DEF QueueFits, W, X, Y
<1>13. BeachInv'
  <2>1. Chain(beach, Bisectors \cup Temporaries, Neighbours, circles)
    BY BeachFacts
  <2>2. Retimed(b1, beach, hi) /\ Spliced(Nodes, beach', b1, lo, hi, new)
    BY <1>6
  <2> HIDE DEF lo, hi
  <2>3. Chain(beach', good, near, circles')
    BY <2>1, <2>2, <1>9, <1>10, <1>11, <1>12, ChangeKeepsChain, Zenon
  <2> QED BY <2>3 DEF BeachInv, good, near
<1>14. Waiting(beach') = Waiting(beach)
  <2>1. Waiting(beach') = StillWaiting(beach, lo, hi) \cup Waiting(new)
    <3>1. Retimed(b1, beach, hi) /\ Spliced(Nodes, beach', b1, lo, hi, new)
      BY <1>6
    <3> HIDE DEF lo, hi
    <3> QED BY <3>1, WaitingAfter
  <2>2. Waiting(new) = {}
    BY <1>2, <1>4, <1>5 DEF Waiting, IsTemporary, Null
  <2>3. ASSUME NEW k \in 1..n, beach[k].edge = Null PROVE k \in Kept(beach, lo, hi)
    <3>1. k # lo /\ k # i
      BY <1>1, <2>3
    <3> QED BY <1>1, <3>1 DEF Kept
  <2>4. Kept(beach, lo, hi) \subseteq 1..n
    BY DEF Kept
  <2> HIDE DEF lo, hi
  <2>5. StillWaiting(beach, lo, hi) = Waiting(beach)
    BY <2>3, <2>4 DEF StillWaiting, Waiting, IsTemporary
  <2> QED BY <2>1, <2>2, <2>5
<1>15. Len(beach') = n - 1
  <2>1. Len(beach') = Len(b1) - (hi - lo) + Len(new) /\ Len(b1) = n
    BY <1>6 DEF Spliced, Retimed
  <2> QED BY <1>1, <1>5, <2>1
<1>16. \E b2 : /\ Retimed(b2, beach, i + 1)
              /\ Spliced(Nodes, beach', b2, i - 1, i + 1, <<JoinedNode(i)>>)
  BY <1>6 DEF new, joined
<1> QED BY <1>13, <1>14, <1>15, <1>16

LEMMA CircleEventKeeps == SweepInv /\ CircleEvent => GraphNext /\ SweepInv'
<1> SUFFICES ASSUME SweepInv, CircleEvent PROVE GraphNext /\ SweepInv'
  OBVIOUS
<1>1. pc = "events" /\ UNCHANGED <<sites, reserved, pc, cursor, last, right, endPoints>>
  BY DEF CircleEvent
<1>2. PICK ev \in circles, i \in DOMAIN beach : CircleAt(ev, i)
  BY CircleEventAt
<1>3. BeachInv' /\ Waiting(beach') = Waiting(beach) /\ Len(beach') = Len(beach) - 1
  BY <1>1, <1>2, CircleSteps
<1>4. /\ GraphNext /\ GraphInv' /\ cells' = cells /\ numEdges \in Nat /\ numVertices \in Nat
      /\ numEdges' = numEdges + 2 /\ numVertices' = numVertices + 1
  BY <1>2, CircleJoins
<1>5. /\ SitesInv /\ EndPointsInv /\ CountInv /\ N \in Nat /\ cursor \in 1..(N + 1)
      /\ last \in 1..(N + 1) /\ cursor > 1 /\ Len(cells) = cursor - 1 /\ Len(cells) <= N /\ right = 0
      /\ cells # <<>>
  <2>1. /\ SitesInv /\ EndPointsInv /\ CountInv /\ N \in Nat /\ cursor \in 1..(N + 1)
        /\ last \in 1..(N + 1) /\ cursor > 1 /\ Len(cells) = cursor - 1 /\ Len(cells) <= N /\ right = 0
    BY <1>1 DEF SweepInv, PhaseInv, SitesInv
  <2>2. Len(<<>>) = 0 /\ cursor - 1 # 0
    BY <2>1
  <2> QED BY <2>1, <2>2
<1>6. SitesInv' /\ N' = N
  BY <1>1, <1>5, SitesStay
<1>7. Len(beach) \in Nat /\ Len(beach) > 1
  <2>1. i \in 2..Len(beach) /\ Len(beach) \in Nat
    BY <1>2, CircleFacts, BeachFacts DEF CircleAt
  <2> QED BY <2>1
<1>8. EndPointsInv'
  BY <1>1, <1>3, <1>4, <1>5, <1>6 DEF EndPointsInv
<1>9. CountInv'
  <2>1. /\ numEdges = 2 * (Len(cells) - 1) + 2 * numVertices
        /\ Len(beach) - Cardinality(endPoints) + numVertices <= 2 * (Len(cells) - 1)
        /\ Cardinality(endPoints) \in Nat
    BY <1>5, FS_CardinalityType DEF CountInv, EndPointsInv
  <2>2. Cardinality(endPoints') = Cardinality(endPoints)
    BY <1>1
  <2>3. numEdges' = 2 * (Len(cells') - 1) + 2 * numVertices'
    BY <1>4, <1>5, <2>1
  <2>4. Len(beach') - Cardinality(endPoints') + numVertices' <= 2 * (Len(cells') - 1)
    BY <1>3, <1>4, <1>5, <1>7, <2>1, <2>2
  <2> QED BY <1>4, <1>5, <2>3, <2>4, Zenon DEF CountInv
<1>10. PhaseInv'
  <2>1. Len(beach') \in Nat /\ beach' # <<>>
    <3>0. Len(beach) - 1 # 0
      <4>1. \A x \in Nat : x > 1 => x - 1 # 0
        OBVIOUS
      <4> QED BY <1>7, <4>1, Zenon
    <3>1. Len(<<>>) = 0 /\ Len(beach) - 1 # 0
      BY <3>0
    <3> QED BY <1>3, <1>7, <3>1
  <2>2. 0 \in 0..(Len(beach') + 1)
    BY <2>1
  <2> QED BY <1>1, <1>4, <1>5, <1>6, <2>1, <2>2 DEF PhaseInv, Phases
<1> QED BY <1>3, <1>4, <1>6, <1>8, <1>9, <1>10 DEF SweepInv

-----------------------------------------------------------------------------
(* The theorems. *)
LEMMA InitSweepInv == Init => GraphInit /\ SweepInv
<1> SUFFICES ASSUME Init PROVE GraphInit /\ SweepInv
  OBVIOUS
<1>1. /\ GraphInit /\ pc = "init" /\ cursor = 1 /\ last = 1 /\ right = 0
      /\ beach = <<>> /\ endPoints = {} /\ circles = {}
  BY DEF Init
<1>2. /\ cells = <<>> /\ numEdges = 0 /\ numVertices = 0
  BY <1>1 DEF GraphInit
<1>3. GraphInv /\ SitesInv /\ N \in Nat \ {0}
  BY <1>1, InitGraphInv, InitSites DEF SitesInv
<1>4. Len(<<>>) = 0 /\ Waiting(<<>>) = {} /\ IsFiniteSet({})
  BY FS_EmptySet DEF Waiting
<1>5. BeachInv
  <2>1. Chain(<<>>, Bisectors \cup Temporaries, Neighbours, {})
    BY <1>4, EmptySeq DEF Chain
  <2> QED BY <1>1, <2>1 DEF BeachInv
<1>6. EndPointsInv /\ CountInv
  BY <1>1, <1>2, <1>4 DEF EndPointsInv, CountInv
<1>7. PhaseInv
  <2>1. Len(cells) <= N /\ 1 \in 1..(N + 1) /\ 0 \in 0..(Len(beach) + 1)
    BY <1>1, <1>2, <1>3, <1>4
  <2> QED BY <1>1, <1>2, <2>1 DEF PhaseInv, Phases
<1> QED BY <1>1, <1>3, <1>5, <1>6, <1>7 DEF SweepInv

(* Every step either is one of the graph's or leaves the graph alone. *)
LEMMA StepKeepsSweepInv == SweepInv /\ [Next]_vars => SweepInv' /\ [GraphNext]_graphVars
<1> SUFFICES ASSUME SweepInv, [Next]_vars PROVE SweepInv' /\ [GraphNext]_graphVars
  OBVIOUS
<1>1. CASE InitSingleSite
  BY <1>1, InitSingleSiteKeeps
<1>2. CASE InitDefault
  BY <1>2, InitDefaultKeeps
<1>3. CASE InitCollinear
  BY <1>3, InitCollinearKeeps
<1>4. CASE EraseTemporaryNode
  BY <1>4, EraseTemporaryNodeKeeps
<1>5. CASE LocateArc
  BY <1>5, LocateArcKeeps
<1>6. CASE InsertArc
  BY <1>6, InsertArcKeeps
<1>7. CASE CircleEvent
  BY <1>7, CircleEventKeeps
<1>8. CASE Finish
  BY <1>8, FinishKeeps
<1>9. CASE UNCHANGED vars
  BY <1>9, StutterKeeps DEF vars
<1> QED BY <1>1, <1>2, <1>3, <1>4, <1>5, <1>6, <1>7, <1>8, <1>9 DEF Next, Returned

LEMMA InvariantSweepInv == Spec => []SweepInv
<1>1. Init => SweepInv
  BY InitSweepInv
<1>2. SweepInv /\ [Next]_vars => SweepInv'
  BY StepKeepsSweepInv
<1> QED BY <1>1, <1>2, PTL DEF Spec

(* The sweep uses the graph's two _insert_new_edge operations as their      *)
(* callers must: the half-edges a circle event joins are different, open,   *)
(* no twins of each other and bound one cell, and a new site's bisector is  *)
(* with a site that has its cell already.                                   *)
THEOREM SweepImplementsHalfEdges == Spec => HalfEdgeSpec
<1>1. Init => GraphInit
  BY InitSweepInv
<1>2. SweepInv /\ [Next]_vars => [GraphNext]_graphVars
  BY StepKeepsSweepInv
<1> QED BY <1>1, <1>2, InvariantSweepInv, PTL DEF Spec, HalfEdgeSpec

(* So what the graph promises holds of the graph the sweep builds: cells     *)
(* indexed by site, links that are inverse and stay in their cell, three    *)
(* half-edges around every vertex.                                          *)
THEOREM SweepBuildsWellLinkedGraph == Spec => [](CellsIndexedBySite /\ WellLinked /\ Trivalent)
BY SweepImplementsHalfEdges, GraphWellLinked, VerticesTrivalent, CellsAreIndexedBySite, PTL

(* The state of voronoi_builder keeps its types: every index it dereferences *)
(* is in range.                                                             *)
THEOREM SweepTypeCorrect == Spec => []TypeOK
<1>1. SweepInv => TypeOK
  <2> SUFFICES ASSUME SweepInv PROVE TypeOK
    OBVIOUS
  <2>1. /\ GraphTypeOK /\ pc \in Phases /\ reserved \in Nat
        /\ cursor \in 1..(N + 1) /\ last \in 1..(N + 1) /\ right \in 0..(Len(beach) + 1)
        /\ N \in Nat /\ Len(cells) \in Nat /\ Len(cells) <= N /\ numEdges \in Nat
    BY LenProperties DEF SweepInv, PhaseInv, SitesInv, GraphInv, GraphTypeOK
  <2>2. DOMAIN beach = 1..Len(beach)
    BY BeachFacts, LenProperties
  <2>3. ASSUME NEW k \in 1..Len(beach)
        PROVE  /\ beach[k].l.site \in 1..N /\ beach[k].r.site \in 1..N
               /\ beach[k].edge \in 0..numEdges /\ beach[k].id \in (-N)..numEdges
    <3>1. /\ beach[k].l.site \in 1..Len(cells) /\ beach[k].r.site \in 1..Len(cells)
          /\ beach[k] \in Bisectors \cup Temporaries
      BY BeachFacts
    <3>2. beach[k].edge \in 0..numEdges /\ beach[k].id \in (-N)..numEdges
      <4>1. CASE beach[k] \in Bisectors
        BY <2>1, <4>1 DEF Bisectors
      <4>2. CASE beach[k] \in Temporaries
        <5>1. beach[k].edge = 0 /\ beach[k].id = - beach[k].l.site
          BY <4>2 DEF Temporaries, Null
        <5> QED BY <2>1, <3>1, <5>1
      <4> QED BY <3>1, <4>1, <4>2
    <3> QED BY <2>1, <3>1, <3>2
  <2>4. endPoints \subseteq [point : {sites[s].p1 : s \in 1..N}, node : (-N)..-1]
    <3> SUFFICES ASSUME NEW ep \in endPoints
                 PROVE  ep \in [point : {sites[s].p1 : s \in 1..N}, node : (-N)..-1]
      OBVIOUS
    <3>1. PICK s \in 1..Len(cells) : ep = [point |-> sites[s].p1, node |-> -s]
      BY DEF SweepInv, EndPointsInv
    <3>2. s \in 1..N /\ -s \in (-N)..-1
      BY <2>1
    <3> QED BY <3>1, <3>2
  <2> QED BY <2>1, <2>2, <2>3, <2>4 DEF TypeOK
<1> QED BY <1>1, InvariantSweepInv, PTL

(* The beach line is one chain of arcs; the half-edge of a node bounds the   *)
(* cells of the two arcs it separates, has not been started by any vertex,  *)
(* and is held by no other node.                                            *)
THEOREM NodesHoldTheirBisectors == Spec => []NodesHoldOpenBisectors
<1>1. SweepInv => NodesHoldOpenBisectors
  <2> SUFFICES ASSUME SweepInv PROVE NodesHoldOpenBisectors
    OBVIOUS
  <2>1. DOMAIN beach = 1..Len(beach) /\ Len(beach) \in Nat
    BY BeachFacts, LenProperties
  <2>2. ASSUME NEW k \in 1..(Len(beach) - 1) PROVE beach[k].r.site = beach[k + 1].l.site
    <3>1. k + 1 \in 1..Len(beach) /\ k + 1 > 1 /\ (k + 1) - 1 = k
      BY <2>1
    <3> QED BY <3>1, BeachFacts
  <2>3. ASSUME NEW k \in 1..Len(beach), ~ IsTemporary(beach[k])
        PROVE  /\ Open(beach[k].edge)
               /\ cell[beach[k].edge] = beach[k].l.site
               /\ cell[twin[beach[k].edge]] = beach[k].r.site
               /\ \A m \in 1..Len(beach) : m # k => beach[m].edge # beach[k].edge
    <3>1. beach[k].edge # Null
      BY <2>3 DEF IsTemporary
    <3>2. beach[k] \in Bisectors
      BY <3>1, BeachFacts
    <3>3. \A m \in 1..Len(beach) : m # k => beach[m].edge # beach[k].edge
      BY <3>1, OtherNodesApart
    <3> QED BY <3>2, <3>3 DEF Bisectors
  <2> QED BY <2>1, <2>2, <2>3 DEF NodesHoldOpenBisectors
<1> QED BY <1>1, InvariantSweepInv, PTL

(* No circle event that waits is stale: its node is still in the beach line, *)
(* points back to it, and stands between the arcs it was computed from.     *)
THEOREM NoEventIsStale == Spec => []EventsCurrent
<1>1. SweepInv => EventsCurrent
  <2> SUFFICES ASSUME SweepInv PROVE EventsCurrent
    OBVIOUS
  <2>1. DOMAIN beach = 1..Len(beach) /\ Len(beach) \in Nat
        /\ circles = UNION {EventsOf(beach[k]) : k \in 1..Len(beach)}
    BY BeachFacts, LenProperties DEF Chain
  <2>2. ASSUME NEW ev \in circles
        PROVE  \E k \in 2..Len(beach) :
                 /\ beach[k].id = ev.node /\ beach[k].event = ev.arcs
                 /\ ~ IsTemporary(beach[k - 1]) /\ ~ IsTemporary(beach[k])
                 /\ ev.arcs[1].site = beach[k - 1].l.site
                 /\ ev.arcs[2].site = beach[k].l.site
                 /\ ev.arcs[3].site = beach[k].r.site
    <3>1. PICK k \in 1..Len(beach) : ev \in EventsOf(beach[k])
      BY <2>1
    <3>2. ev.node = beach[k].id /\ ev.arcs = beach[k].event /\ beach[k].event # NoEvent
      BY <3>1 DEF EventsOf, Event
    <3>3. k > 1 /\ beach[k].edge # Null /\ beach[k - 1].edge # Null
      BY <3>2, OnlyBisectorsMeet
    <3>4. k \in 2..Len(beach)
      BY <2>1, <3>3
    <3>5. <<beach[k - 1], beach[k]>> \in Neighbours
      BY <3>3, BeachFacts
    <3>6. EventFits(beach[k - 1], beach[k])
      BY <3>2, <3>5 DEF Neighbours
    <3> QED BY <3>2, <3>3, <3>4, <3>6 DEF EventFits, IsTemporary
  <2>3. \A k \in 1..Len(beach) : EventsOf(beach[k]) \subseteq circles
    BY <2>1
  <2> QED BY <2>1, <2>2, <2>3 DEF EventsCurrent
<1> QED BY <1>1, InvariantSweepInv, PTL

(* A segment has its temporary node exactly while its end point is queued,   *)
(* and every queued end point is a site that is still to be swept: the loop *)
(* that pops end points overlooks none.                                     *)
THEOREM NoEndPointIsOverlooked == Spec => []EndPointsAhead
<1>1. SweepInv => EndPointsAhead
  <2> SUFFICES ASSUME SweepInv PROVE EndPointsAhead
    OBVIOUS
  <2>1. DOMAIN beach = 1..Len(beach)
    BY BeachFacts, LenProperties
  <2>2. {ep.node : ep \in endPoints} = Waiting(beach)
        /\ \A ep \in endPoints : \E s \in cursor..N : sites[s] = PointSite(ep.point)
    BY DEF SweepInv, EndPointsInv
  <2> QED BY <2>1, <2>2 DEF EndPointsAhead, Waiting
<1> QED BY <1>1, InvariantSweepInv, PTL

(* No push_back ever exceeds what _reserve set aside, so that the pointers   *)
(* in cells, vertices and half-edges never dangle.                          *)
THEOREM ReserveSuffices == Spec => []WithinReserve
<1>1. SweepInv => WithinReserve
  <2> SUFFICES ASSUME SweepInv PROVE WithinReserve
    OBVIOUS
  <2>1. /\ Len(cells) <= N /\ N <= reserved /\ N \in Nat \ {0} /\ reserved \in Nat /\ CountInv
        /\ EndPointsInv /\ numVertices \in Nat /\ numEdges \in Nat
        /\ Len(cells) \in Nat /\ Len(beach) \in Nat /\ beach \in Seq(Nodes)
    BY BeachFacts, LenProperties, EdgeFacts
       DEF SweepInv, PhaseInv, SitesInv, GraphInv, GraphTypeOK
  <2>2. Cardinality(endPoints) <= Len(beach) /\ Cardinality(endPoints) \in Nat
    <3> DEFINE T == 1..Len(beach)
               f == [ep \in endPoints |-> CHOOSE k \in T : beach[k].id = ep.node]
    <3>1. ASSUME NEW ep \in endPoints PROVE f[ep] \in T /\ beach[f[ep]].id = ep.node
      <4>1. ep.node \in Waiting(beach)
        BY <2>1 DEF EndPointsInv
      <4>2. \E k \in T : beach[k].id = ep.node
        BY <4>1 DEF Waiting
      <4> QED BY <4>2
    <3>2. ASSUME NEW a \in endPoints, NEW b \in endPoints, f[a] = f[b] PROVE a = b
      <4>1. a.node = b.node
        BY <3>1, <3>2
      <4>2. PICK r \in 1..Len(cells) : a = [point |-> sites[r].p1, node |-> -r]
        BY <2>1 DEF EndPointsInv
      <4>3. PICK s \in 1..Len(cells) : b = [point |-> sites[s].p1, node |-> -s]
        BY <2>1 DEF EndPointsInv
      <4>4. -r = -s
        BY <4>1, <4>2, <4>3
      <4>5. r = s
        BY <2>1, <4>4
      <4> QED BY <4>2, <4>3, <4>5
    <3>3. f \in Injection(endPoints, T)
      <4>1. f \in [endPoints -> T]
        BY <3>1
      <4> HIDE DEF f, T
      <4> QED BY <3>2, <4>1 DEF Injection, IsInjective
    <3>4. IsFiniteSet(T) /\ Cardinality(T) = Len(beach)
      BY <2>1, UpTo
    <3> HIDE DEF f, T
    <3>5. Cardinality(endPoints) <= Cardinality(T) /\ IsFiniteSet(endPoints)
      BY <3>3, <3>4, FS_Injection, Zenon
    <3> QED BY <3>4, <3>5, FS_CardinalityType
  <2>3. numVertices <= 2 * reserved /\ numEdges <= 4 * reserved + 2 * reserved
    <3>1. CASE cells = <<>>
      BY <2>1, <3>1 DEF CountInv
    <3>2. CASE cells # <<>>
      <4>1. /\ numEdges = 2 * (Len(cells) - 1) + 2 * numVertices
            /\ Len(beach) - Cardinality(endPoints) + numVertices <= 2 * (Len(cells) - 1)
        BY <2>1, <3>2 DEF CountInv
      <4>2. numVertices <= 2 * (Len(cells) - 1)
        BY <2>1, <2>2, <4>1
      <4> QED BY <2>1, <4>1, <4>2
    <3> QED BY <3>1, <3>2
  <2> QED BY <2>1, <2>3 DEF WithinReserve, CellsReserved, VerticesReserved, EdgesReserved
<1> QED BY <1>1, InvariantSweepInv, PTL

-----------------------------------------------------------------------------
(* Which half-edges the links nx hold together: a set S that a link neither *)
(* enters nor leaves, and one that holds a half-edge only with all others   *)
(* of its cell.                                                             *)
ClosedUnder(S, L, nx) == \A e \in L : nx[e] # Null => (e \in S <=> nx[e] \in S)
HoldsCells(S, L, cl) == \A e, f \in L : e \in S /\ cl[f] = cl[e] => f \in S

(* The half-edges L of each cell hang together.                             *)
CellsWhole(L, nx, cl) == \A S \in SUBSET L : ClosedUnder(S, L, nx) => HoldsCells(S, L, cl)

(* Links are inverse to each other and stay in their cell. *)
LinksMatch(L, nx, pv, cl) ==
    /\ IsFiniteSet(L) /\ Null \notin L
    /\ \A e \in L :
        /\ nx[e] # Null => nx[e] \in L /\ pv[nx[e]] = e /\ cl[nx[e]] = cl[e]
        /\ pv[e] # Null => pv[e] \in L /\ nx[pv[e]] = e /\ cl[pv[e]] = cl[e]

(* The half-edges that are reached from q. *)
Onward(S, nx) == \A e \in S : nx[e] # Null => nx[e] \in S
Reach(L, nx, q) == {f \in L : \A S \in SUBSET L : q \in S /\ Onward(S, nx) => f \in S}

LEMMA MatchBack ==
    ASSUME NEW L, NEW nx, NEW pv, NEW cl, LinksMatch(L, nx, pv, cl)
    PROVE  LinksMatch(L, pv, nx, cl)
  BY DEF LinksMatch

LEMMA ClosedBack ==
    ASSUME NEW L, NEW nx, NEW pv, NEW cl, LinksMatch(L, nx, pv, cl),
           NEW S, ClosedUnder(S, L, nx)
    PROVE  ClosedUnder(S, L, pv)
  BY DEF LinksMatch, ClosedUnder

(* It is the least such set, and no closed set parts it.                    *)
LEMMA ReachFacts ==
    ASSUME NEW L, NEW nx, NEW pv, NEW cl, LinksMatch(L, nx, pv, cl), NEW q \in L
    PROVE  /\ Reach(L, nx, q) \subseteq L /\ q \in Reach(L, nx, q)
           /\ Onward(Reach(L, nx, q), nx)
           /\ \A T \in SUBSET Reach(L, nx, q) : q \in T /\ Onward(T, nx) => T = Reach(L, nx, q)
           /\ \A f \in Reach(L, nx, q) : f = q \/ pv[f] \in Reach(L, nx, q)
           /\ \A f \in Reach(L, nx, q) : cl[f] = cl[q]
           /\ \A S \in SUBSET L : ClosedUnder(S, L, nx) =>
                    \A f \in Reach(L, nx, q) : f \in S <=> q \in S
<1> DEFINE P == Reach(L, nx, q)
<1>1. P \subseteq L /\ q \in P
  BY DEF Reach
<1>2. Onward(P, nx)
  <2> SUFFICES ASSUME NEW e \in P, nx[e] # Null PROVE nx[e] \in P
    BY DEF Onward
  <2>1. nx[e] \in L
    BY <1>1 DEF LinksMatch
  <2>2. ASSUME NEW S \in SUBSET L, q \in S, Onward(S, nx) PROVE nx[e] \in S
    <3>1. e \in S
      BY <2>2 DEF Reach
    <3> QED BY <2>2, <3>1 DEF Onward
  <2> QED BY <2>1, <2>2 DEF Reach
<1>3. ASSUME NEW T \in SUBSET P, q \in T, Onward(T, nx) PROVE T = P
  <2>1. T \in SUBSET L
    BY <1>1
  <2> QED BY <1>3, <2>1 DEF Reach
<1> HIDE DEF P
<1>4. ASSUME NEW f \in P PROVE f = q \/ pv[f] \in P
  <2> DEFINE T == {g \in P : g = q \/ pv[g] \in P}
  <2>1. q \in T
    BY <1>1
  <2>2. ASSUME NEW g \in T, nx[g] # Null PROVE nx[g] \in T
    <3>1. nx[g] \in P /\ pv[nx[g]] = g
      BY <1>1, <1>2, <2>2 DEF Onward, LinksMatch
    <3> QED BY <3>1
  <2>3. T \in SUBSET P /\ Onward(T, nx)
    BY <2>2 DEF Onward
  <2>4. T = P
    BY <1>3, <2>1, <2>3
  <2> QED BY <2>4
<1>5. ASSUME NEW f \in P PROVE cl[f] = cl[q]
  <2> DEFINE T == {g \in P : cl[g] = cl[q]}
  <2>1. q \in T
    BY <1>1
  <2>2. ASSUME NEW g \in T, nx[g] # Null PROVE nx[g] \in T
    BY <1>1, <1>2, <2>2 DEF Onward, LinksMatch
  <2>3. T \in SUBSET P /\ Onward(T, nx)
    BY <2>2 DEF Onward
  <2>4. T = P
    BY <1>3, <2>1, <2>3
  <2> QED BY <2>4
<1>6. ASSUME NEW S \in SUBSET L, ClosedUnder(S, L, nx), NEW f \in P PROVE f \in S <=> q \in S
  <2> DEFINE T == {g \in P : g \in S <=> q \in S}
  <2>1. q \in T
    BY <1>1
  <2>2. ASSUME NEW g \in T, nx[g] # Null PROVE nx[g] \in T
    BY <1>1, <1>2, <1>6, <2>2 DEF Onward, ClosedUnder
  <2>3. T \in SUBSET P /\ Onward(T, nx)
    BY <2>2 DEF Onward
  <2>4. T = P
    BY <1>3, <2>1, <2>3
  <2> QED BY <2>4
<1> QED BY <1>1, <1>2, <1>3, <1>4, <1>5, <1>6 DEF P

(* A walk that finds no end comes back to its start. *)
LEMMA ReachReturns ==
    ASSUME NEW L, NEW nx, NEW pv, NEW cl, LinksMatch(L, nx, pv, cl), NEW q \in L,
           \A f \in Reach(L, nx, q) : nx[f] # Null
    PROVE  pv[q] \in Reach(L, nx, q)
<1> DEFINE P == Reach(L, nx, q)
<1>1. P \subseteq L /\ q \in P /\ \A f \in P : nx[f] # Null /\ nx[f] \in P /\ pv[nx[f]] = f
  BY ReachFacts DEF Onward, LinksMatch
<1>2. IsFiniteSet(P) /\ IsFiniteSet(P \ {q}) /\ Cardinality(P \ {q}) < Cardinality(P)
  <2>1. IsFiniteSet(P) /\ Cardinality(P) \in Nat
    BY <1>1, FS_Subset, FS_CardinalityType DEF LinksMatch
  <2>2. IsFiniteSet(P \ {q}) /\ Cardinality(P \ {q}) = Cardinality(P) - 1
    BY <1>1, <2>1, FS_RemoveElement
  <2> QED BY <2>1, <2>2
<1> DEFINE step == [f \in P |-> nx[f]]
<1>3. CASE \A f \in P : nx[f] # q
  <2>1. step \in [P -> P \ {q}]
    BY <1>1, <1>3
  <2> HIDE DEF step, P
  <2>2. \E x, y \in P : x # y /\ step[x] = step[y]
    BY <1>2, <2>1, FS_PigeonHole
  <2>3. \A x \in P : step[x] = nx[x]
    BY DEF step
  <2> QED BY <1>1, <2>2, <2>3
<1>4. CASE \E f \in P : nx[f] = q
  BY <1>1, <1>4
<1> QED BY <1>3, <1>4 DEF P

(* What is reached is closed when nothing leads to its start, or when the    *)
(* walk comes back.                                                         *)
LEMMA ReachClosed ==
    ASSUME NEW L, NEW nx, NEW pv, NEW cl, LinksMatch(L, nx, pv, cl), NEW q \in L,
           pv[q] = Null \/ \A f \in Reach(L, nx, q) : nx[f] # Null
    PROVE  ClosedUnder(Reach(L, nx, q), L, nx)
<1> DEFINE P == Reach(L, nx, q)
<1>1. /\ P \subseteq L /\ Onward(P, nx) /\ \A f \in P : f = q \/ pv[f] \in P
  BY ReachFacts
<1>2. pv[q] = Null \/ pv[q] \in P
  BY ReachReturns
<1> HIDE DEF P
<1>3. ASSUME NEW e \in L, nx[e] # Null PROVE e \in P <=> nx[e] \in P
  <2>1. nx[e] \in L /\ pv[nx[e]] = e /\ e # Null
    BY <1>3 DEF LinksMatch
  <2> QED BY <1>1, <1>2, <1>3, <2>1 DEF Onward
<1> QED BY <1>3 DEF ClosedUnder, P

(* Where the half-edges of each cell hang together, at most one of a cell    *)
(* has no predecessor, and one from which no walk ends is on a cycle with   *)
(* all of its cell.                                                         *)
LEMMA OneStart ==
    ASSUME NEW L, NEW nx, NEW pv, NEW cl, LinksMatch(L, nx, pv, cl), CellsWhole(L, nx, cl),
           NEW e \in L, NEW f \in L, cl[e] = cl[f], pv[e] = Null, pv[f] = Null
    PROVE  e = f
<1> DEFINE P == Reach(L, nx, e)
<1>1. P \in SUBSET L /\ e \in P /\ ClosedUnder(P, L, nx) /\ \A g \in P : g = e \/ pv[g] \in P
  BY ReachFacts, ReachClosed
<1> HIDE DEF P
<1>2. f \in P
  BY <1>1 DEF CellsWhole, HoldsCells
<1> QED BY <1>1, <1>2 DEF LinksMatch

LEMMA WholeBack ==
    ASSUME NEW L, NEW nx, NEW pv, NEW cl, LinksMatch(L, nx, pv, cl), CellsWhole(L, nx, cl)
    PROVE  CellsWhole(L, pv, cl)
<1> SUFFICES ASSUME NEW S \in SUBSET L, ClosedUnder(S, L, pv) PROVE HoldsCells(S, L, cl)
  BY DEF CellsWhole
<1>1. ClosedUnder(S, L, nx)
  BY MatchBack, ClosedBack
<1> QED BY <1>1 DEF CellsWhole

LEMMA ReachIsCell ==
    ASSUME NEW L, NEW nx, NEW pv, NEW cl, LinksMatch(L, nx, pv, cl), CellsWhole(L, nx, cl),
           NEW q \in L, pv[q] = Null \/ \A f \in Reach(L, nx, q) : nx[f] # Null
    PROVE  Reach(L, nx, q) = {f \in L : cl[f] = cl[q]}
<1> DEFINE P == Reach(L, nx, q)
<1>1. P \in SUBSET L /\ q \in P /\ ClosedUnder(P, L, nx) /\ \A g \in P : cl[g] = cl[q]
  BY ReachFacts, ReachClosed
<1> HIDE DEF P
<1>2. \A f \in L : cl[f] = cl[q] => f \in P
  BY <1>1 DEF CellsWhole, HoldsCells
<1> QED BY <1>1, <1>2 DEF P

-----------------------------------------------------------------------------
(* While the sweep runs the arcs of the beach line hold the open half-edges  *)
(* of a cell together: gap k lies between nodes k and k + 1, where an arc    *)
(* joins the half-edge of one node with the twin of the other's.  A          *)
(* temporary node parts nothing.                                            *)
SidesAt(node, tw, S, A, k) ==
    IF node.edge = Null THEN k - 1 \in A <=> k \in A
    ELSE (k - 1 \in A <=> node.edge \in S) /\ (k \in A <=> tw[node.edge] \in S)

Sides(b, tw, S, A) == \A k \in 1..Len(b) : SidesAt(b[k], tw, S, A, k)

(* Whoever parts the half-edges of a cell, so that no link joins the parts,  *)
(* also parts two that lie beside one arc.                                  *)
ArcsWhole(b, L, tw, nx, cl) ==
    \A S \in SUBSET L, A \in SUBSET (0..Len(b)) :
        ClosedUnder(S, L, nx) /\ Sides(b, tw, S, A) => HoldsCells(S, L, cl)

(* What a splice leaves of the gaps, and of the half-edges of the nodes.     *)
GapsFollow(A, A2, b, i, j, w) ==
    \A g \in 0..Len(b) : /\ g < i => (g \in A <=> g \in A2)
                         /\ g >= j - 1 => (g \in A <=> g - j + i + w \in A2)

GapsBetween(A, V, b, i, j) ==
    \A g \in 0..Len(b) : i <= g /\ g < j - 1 => (g \in A <=> g \in V)

EdgesFollow(b, tw, tw2, S, S2) ==
    \A k \in 1..Len(b) : b[k].edge # Null =>
        LET e == b[k].edge
        IN  /\ tw2[e] = tw[e]
            /\ e \in S <=> e \in S2
            /\ tw[e] \in S <=> tw[e] \in S2

(* The nodes that a splice keeps, and those it inserts.                      *)
LEMMA SplicedSides ==
    ASSUME NEW b, NEW b1, NEW c, NEW i, NEW j, NEW new,
           Retimed(b1, b, j), Spliced(Nodes, c, b1, i, j, new),
           NEW tw, NEW tw2, NEW S, NEW S2, NEW A, NEW A2, Sides(c, tw2, S2, A2),
           GapsFollow(A, A2, b, i, j, Len(new)), EdgesFollow(b, tw, tw2, S, S2)
    PROVE  \A k \in Kept(b, i, j) : SidesAt(b[k], tw, S, A, k)
<1> DEFINE w == Len(new)
           n == Len(b)
<1>1. /\ n \in Nat /\ w \in Nat /\ i \in Int /\ j \in Int /\ 1 <= i /\ i <= j /\ j <= n + 1
      /\ Len(c) = n - (j - i) + w /\ Len(c) \in Nat
      /\ \A k \in 1..(i - 1) : c[k] = b1[k]
      /\ \A k \in j..n : c[k - j + i + w] = b1[k]
      /\ \A k \in 1..n : b1[k].edge = b[k].edge
  <2>1. Len(b1) = n /\ \A k \in 1..n : b1[k].edge = b[k].edge
    BY DEF Retimed
  <2>2. /\ Len(b1) \in Nat /\ w \in Nat /\ Len(c) \in Nat /\ i \in Int /\ j \in Int
        /\ Len(c) = Len(b1) - (j - i) + w
    BY SplicedPlaces
  <2> QED BY <2>1, <2>2 DEF Spliced
<1> HIDE DEF w, n
<1>2. ASSUME NEW k \in 1..n, NEW m \in 1..Len(c), c[m].edge = b[k].edge,
             k \in A <=> m \in A2, k - 1 \in A <=> m - 1 \in A2
      PROVE  SidesAt(b[k], tw, S, A, k)
  <2>1. SidesAt(c[m], tw2, S2, A2, m)
    BY DEF Sides
  <2>2. b[k].edge # Null => LET e == b[k].edge
                            IN  /\ tw2[e] = tw[e]
                                /\ e \in S <=> e \in S2
                                /\ tw[e] \in S <=> tw[e] \in S2
    BY DEF EdgesFollow, n
  <2> QED BY <1>2, <2>1, <2>2 DEF SidesAt
<1>3. \A g \in 0..n : /\ g < i => (g \in A <=> g \in A2)
                      /\ g >= j - 1 => (g \in A <=> g - j + i + w \in A2)
  BY DEF GapsFollow, n, w
<1>4. ASSUME NEW k \in 1..n, k < i PROVE SidesAt(b[k], tw, S, A, k)
  <2>1. k \in 1..Len(c) /\ k \in 1..(i - 1) /\ k - 1 \in 0..n /\ k \in 0..n /\ k - 1 < i
    BY <1>1, <1>4
  <2>2. c[k].edge = b[k].edge /\ (k \in A <=> k \in A2) /\ (k - 1 \in A <=> k - 1 \in A2)
    BY <1>1, <1>3, <1>4, <2>1
  <2> QED BY <1>2, <2>1, <2>2
<1>5. ASSUME NEW k \in 1..n, k >= j PROVE SidesAt(b[k], tw, S, A, k)
  <2> DEFINE m == k - j + i + w
  <2>1. /\ m \in 1..Len(c) /\ k \in j..n /\ k - 1 \in 0..n /\ k \in 0..n /\ k - 1 >= j - 1
        /\ k >= j - 1 /\ (k - 1) - j + i + w = m - 1
    BY <1>1, <1>5
  <2>2. c[m].edge = b[k].edge
    BY <1>1, <2>1
  <2>3. (k \in A <=> m \in A2) /\ (k - 1 \in A <=> m - 1 \in A2)
    <3>1. k - 1 \in A <=> (k - 1) - j + i + w \in A2
      BY <1>3, <2>1
    <3> QED BY <1>3, <2>1, <3>1
  <2> HIDE DEF m
  <2> QED BY <1>2, <2>1, <2>2, <2>3
<1> QED BY <1>4, <1>5 DEF Kept, n, w

LEMMA SplicedNewSides ==
    ASSUME NEW b, NEW c, NEW i, NEW j, NEW new, Spliced(Nodes, c, b, i, j, new),
           NEW tw, NEW S, NEW A, Sides(c, tw, S, A)
    PROVE  \A k \in 1..Len(new) : SidesAt(new[k], tw, S, A, i - 1 + k)
<1> SUFFICES ASSUME NEW k \in 1..Len(new) PROVE SidesAt(new[k], tw, S, A, i - 1 + k)
  OBVIOUS
<1>1. /\ Len(b) \in Nat /\ Len(new) \in Nat /\ Len(c) = Len(b) - (j - i) + Len(new)
      /\ 1 <= i /\ i <= j /\ j <= Len(b) + 1 /\ i \in Int /\ j \in Int
  BY SplicedPlaces DEF Spliced
<1>2. i - 1 + k \in 1..Len(c) /\ c[i - 1 + k] = new[k]
  BY <1>1 DEF Spliced
<1> QED BY <1>2 DEF Sides

(* A set of gaps that follows another: the gaps below i and those from j - 1 *)
(* on are given, the others are those of V.                                 *)
LEMMA GapsChosen ==
    ASSUME NEW A2, NEW b, NEW i \in Int, NEW j \in Int, NEW w \in Int, i <= j,
           i = j => (i - 1 \in A2 <=> i - 1 + w \in A2), NEW V
    PROVE  \E A \in SUBSET (0..Len(b)) : /\ GapsFollow(A, A2, b, i, j, w)
                                         /\ GapsBetween(A, V, b, i, j)
<1> DEFINE A == {g \in 0..Len(b) : IF g < i THEN g \in A2
                                   ELSE IF g >= j - 1 THEN g - j + i + w \in A2 ELSE g \in V}
<1>1. ASSUME NEW g \in 0..Len(b), g < i, g >= j - 1
      PROVE  g \in A2 <=> g - j + i + w \in A2
  <2>1. i = j /\ g = i - 1 /\ g - j + i + w = i - 1 + w
    BY <1>1
  <2> QED BY <2>1
<1>2. GapsFollow(A, A2, b, i, j, w)
  BY <1>1 DEF GapsFollow
<1>3. GapsBetween(A, V, b, i, j)
  BY DEF GapsBetween
<1>4. A \in SUBSET (0..Len(b))
  OBVIOUS
<1> QED BY <1>2, <1>3, <1>4

-----------------------------------------------------------------------------
(* A new site's bisector: the first half-edge goes into the cell of the arc, *)
(* the second into a new cell.                                              *)
LEMMA SiteClosed ==
    ASSUME GraphInv, NEW s1 \in Site, NEW s2 \in Site, InsertSiteEdge(s1, s2),
           NEW S2, ClosedUnder(S2, Edge', next')
    PROVE  ClosedUnder(S2 \cap Edge, Edge, next)
<1>1. \A e \in Edge : e \in Edge' /\ next'[e] = next[e] /\ (next[e] # Null => next[e] \in Edge)
  BY AddSiteEffect, EdgeFacts DEF GraphInv, Edge, Null
<1> QED BY <1>1 DEF ClosedUnder

LEMMA SiteHolds ==
    ASSUME GraphInv, CellsIndexedBySite, NEW s1 \in Site, NEW s2 \in Site, AddSite(s1, s2),
           NEW S2, HoldsCells(S2 \cap Edge, Edge, cell),
           \A e \in Edge : cell[e] = s1 => (e \in S2 <=> numEdges + 1 \in S2)
    PROVE  HoldsCells(S2, Edge', cell')
<1>1. InsertSiteEdge(s1, s2) /\ s1 # s2
  BY DEF AddSite
<1>2. /\ numEdges \in Nat /\ cell'[numEdges + 1] = s1 /\ cell'[numEdges + 2] = s2
      /\ \A e \in Edge : cell'[e] = cell[e]
      /\ \A e \in Edge' : e \in Edge \/ e = numEdges + 1 \/ e = numEdges + 2
  <2>1. numEdges' = numEdges + 2
    BY <1>1, SiteEffect
  <2> QED BY <1>1, <2>1, SiteEffect DEF Edge
<1>3. \A e \in Edge : cell[e] # s2
  <2> SUFFICES ASSUME NEW e \in Edge PROVE cell[e] # s2
    OBVIOUS
  <2>1. cell[e] \in 1..Len(cells) /\ Len(cells) \in Nat /\ (cells = <<>> => Len(cells) = 0)
    <3>1. cells \in Seq(Site) /\ cell[e] \in DOMAIN cells
      BY DEF CellsIndexedBySite, GraphInv, GraphTypeOK
    <3> QED BY <3>1, LenProperties
  <2>2. cells # <<>>
    BY <2>1
  <2>3. s2 = Len(cells) + 1
    BY <2>2 DEF AddSite
  <2> QED BY <2>1, <2>3
<1> SUFFICES ASSUME NEW e \in Edge', NEW f \in Edge', e \in S2, cell'[f] = cell'[e] PROVE f \in S2
  BY DEF HoldsCells
<1>4. CASE e \in Edge /\ f \in Edge
  BY <1>2, <1>4 DEF HoldsCells
<1>5. CASE e \in Edge /\ f = numEdges + 1
  BY <1>2, <1>5
<1>6. CASE e = numEdges + 1 /\ f \in Edge
  BY <1>2, <1>6
<1>7. CASE e = numEdges + 2 \/ f = numEdges + 2
  BY <1>1, <1>2, <1>3, <1>7
<1> QED BY <1>2, <1>4, <1>5, <1>6, <1>7

-----------------------------------------------------------------------------
(* The beach line holds the cells of the sweep's graph together.            *)
BeachWhole == ArcsWhole(beach, Edge, twin, next, cell)

(* The half-edges of the nodes, before and after a step that keeps twins. *)
LEMMA NodeEdges ==
    ASSUME SweepInv, NEW k \in 1..Len(beach), beach[k].edge # Null
    PROVE  /\ beach[k].edge \in Edge /\ twin[beach[k].edge] \in Edge
           /\ Open(beach[k].edge)
           /\ cell[beach[k].edge] = beach[k].l.site
           /\ cell[twin[beach[k].edge]] = beach[k].r.site
<1>1. beach[k] \in Bisectors
  BY BeachFacts
<1>2. beach[k].edge \in 1..numEdges
  BY <1>1 DEF Bisectors
<1> QED BY <1>1, <1>2, EdgeFacts DEF Bisectors, SweepInv, Edge

LEMMA BeachEdgesFollow ==
    ASSUME SweepInv, NEW S2, \A e \in Edge : twin'[e] = twin[e]
    PROVE  EdgesFollow(beach, twin, twin', S2 \cap Edge, S2)
  BY NodeEdges DEF EdgesFollow

LEMMA InsertArcWhole ==
    ASSUME SweepInv, CellsIndexedBySite, BeachWhole, InsertArc
    PROVE  BeachWhole'
<1>1. PICK b1, new, arc1, arc2, ev :
        /\ Retimed(b1, beach, right) /\ Spliced(Nodes, beach', b1, right, right, new)
        /\ FreshFit(new, arc1, arc2, cursor, ev)
        /\ arc2.site \in 1..Len(cells) /\ AddSite(arc2.site, cursor)
        /\ IF right <= Len(beach) THEN arc2.site = beach[right].l.site
                                  ELSE right = Len(beach) + 1
        /\ right > 1 => arc2.site = beach[right - 1].r.site
  BY InsertArcSteps, Zenon DEF ArcSplit
<1>2. /\ GraphInv /\ arc2.site \in Site /\ cursor \in Site /\ InsertSiteEdge(arc2.site, cursor)
      /\ right \in 1..(Len(beach) + 1) /\ Len(beach) \in Nat /\ Len(beach) > 0
      /\ numEdges \in Nat /\ Null \notin Edge
  <2>1. pc = "arcs"
    BY DEF InsertArc
  <2>2. /\ GraphInv /\ 1..N \subseteq Site /\ cursor \in 1..(N + 1) /\ last \in 1..(N + 1)
        /\ cursor < last /\ right \in 0..(Len(beach) + 1) /\ right # 0 /\ N \in Nat
        /\ cursor > 1 /\ Len(cells) = cursor - 1 /\ (N > 1 => beach # <<>>)
    BY <2>1 DEF SweepInv, PhaseInv, SitesInv
  <2>3. arc2.site \in 1..N /\ cursor \in 1..N
    BY <1>1, <2>2
  <2> QED BY <1>1, <2>2, <2>3, BeachFacts, EdgeFacts DEF AddSite, Edge, Null
<1>3. /\ \A e \in Edge : twin'[e] = twin[e]
      /\ twin'[numEdges + 1] = numEdges + 2 /\ twin'[numEdges + 2] = numEdges + 1
  BY <1>2, SiteEffect DEF Edge
<1> SUFFICES ASSUME NEW S2 \in SUBSET Edge', NEW A2 \in SUBSET (0..Len(beach')),
                    ClosedUnder(S2, Edge', next'), Sides(beach', twin', S2, A2)
             PROVE  HoldsCells(S2, Edge', cell')
  BY DEF BeachWhole, ArcsWhole
<1> DEFINE S == S2 \cap Edge
           w == Len(new)
<1>4. /\ w \in Nat /\ w > 1 /\ new[1].edge = numEdges + 1 /\ new[w].edge = numEdges + 2
      /\ \A k \in 1..w : k # 1 /\ k # w => new[k].edge = Null
      /\ w = 2 \/ w = 3
  <2>1. /\ w \in Nat /\ w > 1 /\ new[1].edge = numEdges + 1 /\ new[w].edge = numEdges + 2
        /\ w = 2 \/ w = 3
    BY <1>1 DEF FreshFit
  <2>2. w = 3 => IsSegment(sites[cursor]) /\ new[2].edge = Null
    <3> SUFFICES ASSUME w = 3 PROVE IsSegment(sites[cursor]) /\ new[2].edge = Null
      OBVIOUS
    <3>1. IsSegment(sites[cursor]) /\ \E k \in 1..w : new[k].edge = Null
      BY <1>1 DEF FreshFit
    <3>2. PICK k \in 1..3 : new[k].edge = Null
      BY <3>1
    <3>3. k # 1 /\ k # 3
      BY <1>2, <2>1, <3>2 DEF Null
    <3> QED BY <3>1, <3>2, <3>3
  <2> QED BY <2>1, <2>2
<1>5. \A k \in 1..w : SidesAt(new[k], twin', S2, A2, right - 1 + k)
  BY <1>1, SplicedNewSides, Zenon
<1> HIDE DEF S, w
<1>6. /\ right - 1 \in A2 <=> numEdges + 1 \in S2
      /\ right - 1 + w \in A2 <=> numEdges + 1 \in S2
  <2>1. 1 \in 1..w /\ w \in 1..w /\ new[1].edge # Null /\ new[w].edge # Null
    BY <1>2, <1>4 DEF Null
  <2>2. SidesAt(new[1], twin', S2, A2, right - 1 + 1) /\ SidesAt(new[w], twin', S2, A2, right - 1 + w)
    BY <1>5, <2>1
  <2>3. (right - 1 + 1) - 1 \in A2 <=> new[1].edge \in S2
    BY <2>1, <2>2 DEF SidesAt
  <2>4. right - 1 + w \in A2 <=> twin'[new[w].edge] \in S2
    BY <2>1, <2>2 DEF SidesAt
  <2>5. (right - 1 + 1) - 1 = right - 1 /\ twin'[new[w].edge] = numEdges + 1
    BY <1>2, <1>3, <1>4
  <2> QED BY <1>4, <2>3, <2>4, <2>5
<1>7. PICK A \in SUBSET (0..Len(beach)) : GapsFollow(A, A2, beach, right, right, w)
  <2>1. right \in Int /\ w \in Int /\ right <= right
    BY <1>2, <1>4
  <2> QED BY <1>6, <2>1, GapsChosen
<1>8. \A k \in 1..Len(beach) : SidesAt(beach[k], twin, S, A, k)
  <2>1. EdgesFollow(beach, twin, twin', S, S2)
    BY <1>3, BeachEdgesFollow DEF S
  <2>2. \A k \in Kept(beach, right, right) : SidesAt(beach[k], twin, S, A, k)
    BY <1>1, <1>7, <2>1, SplicedSides DEF w
  <2>3. Kept(beach, right, right) = 1..Len(beach)
    BY <1>2 DEF Kept
  <2> QED BY <2>2, <2>3
<1>9. HoldsCells(S, Edge, cell)
  <2>1. ClosedUnder(S, Edge, next) /\ S \in SUBSET Edge
    BY <1>2, SiteClosed DEF S
  <2>2. Sides(beach, twin, S, A)
    BY <1>8 DEF Sides
  <2> QED BY <2>1, <2>2 DEF BeachWhole, ArcsWhole
<1>10. PICK h \in Edge : cell[h] = arc2.site /\ (h \in S <=> numEdges + 1 \in S2)
  <2>1. right - 1 \in A <=> numEdges + 1 \in S2
    <3>1. right - 1 \in 0..Len(beach) /\ right - 1 < right
      BY <1>2
    <3> QED BY <1>6, <1>7, <3>1 DEF GapsFollow
  <2>2. CASE right <= Len(beach) /\ beach[right].edge # Null
    <3>1. right \in 1..Len(beach)
      BY <1>2, <2>2
    <3>2. SidesAt(beach[right], twin, S, A, right)
      BY <1>8, <3>1
    <3> QED BY <1>1, <2>1, <2>2, <3>1, <3>2, NodeEdges DEF SidesAt
  <2>3. CASE ~ (right <= Len(beach) /\ beach[right].edge # Null)
    <3>1. right > 1 /\ right - 1 \in 1..Len(beach)
      <4>1. right = 1 => right <= Len(beach) /\ beach[right].edge # Null
        BY <1>2, BeachFacts
      <4> QED BY <1>2, <2>3, <4>1
    <3>2. beach[right - 1].edge # Null
      <4>1. CASE right <= Len(beach)
        <5>1. right \in 1..Len(beach) /\ beach[right].edge = Null
          BY <1>2, <2>3, <4>1
        <5>2. /\ beach[right] \in Temporaries /\ beach[right - 1].r.site = beach[right].l.site
              /\ beach[right].id # beach[right - 1].id
              /\ beach[right - 1].edge = Null => beach[right - 1] \in Temporaries
          <6>1. right # right - 1
            BY <1>2
          <6> QED BY <3>1, <5>1, <6>1, BeachFacts, OtherNodesApart
        <5> QED BY <5>2 DEF Temporaries
      <4>2. CASE ~ (right <= Len(beach))
        <5>1. right - 1 = Len(beach)
          BY <1>2, <4>2
        <5> QED BY <1>2, <5>1, BeachFacts
      <4> QED BY <4>1, <4>2
    <3>3. SidesAt(beach[right - 1], twin, S, A, right - 1)
      BY <1>8, <3>1
    <3>4. twin[beach[right - 1].edge] \in S <=> numEdges + 1 \in S2
      BY <2>1, <3>2, <3>3 DEF SidesAt
    <3> QED BY <1>1, <3>1, <3>2, <3>4, NodeEdges
  <2> QED BY <2>2, <2>3
<1>11. \A e \in Edge : cell[e] = arc2.site => (e \in S2 <=> numEdges + 1 \in S2)
  BY <1>9, <1>10 DEF HoldsCells, S
<1> QED BY <1>1, <1>2, <1>9, <1>11, SiteHolds DEF S

(* The two arcs beside a temporary node are parts of one gap.               *)
LEMMA EraseTemporaryNodeWhole ==
    ASSUME SweepInv, BeachWhole, EraseTemporaryNode
    PROVE  BeachWhole'
<1>1. PICK i \in 1..Len(beach) : beach[i].edge = Null /\ Spliced(Nodes, beach', beach, i, i + 1, <<>>)
  BY EraseTemporaryNodeKeeps DEF TemporaryErased
<1>2. /\ Edge' = Edge /\ twin' = twin /\ next' = next /\ cell' = cell
      /\ Len(beach) \in Nat /\ i \in Int /\ 1 <= i /\ i <= Len(beach)
      /\ Retimed(beach, beach, i + 1)
  BY EraseTemporaryNodeKeeps, BeachFacts, SameSplices DEF graphVars, Edge
<1> SUFFICES ASSUME NEW S \in SUBSET Edge, NEW A2 \in SUBSET (0..Len(beach')),
                    ClosedUnder(S, Edge, next), Sides(beach', twin, S, A2)
             PROVE  HoldsCells(S, Edge, cell)
  BY <1>2 DEF BeachWhole, ArcsWhole
<1>3. PICK A \in SUBSET (0..Len(beach)) : GapsFollow(A, A2, beach, i, i + 1, 0)
  <2>1. i <= i + 1 /\ i + 1 \in Int /\ 0 \in Int /\ i # i + 1
    BY <1>2
  <2>2. i = i + 1 => (i - 1 \in A2 <=> i - 1 + 0 \in A2)
    BY <2>1
  <2> QED BY <1>2, <2>1, <2>2, GapsChosen, Zenon
<1>4. \A k \in Kept(beach, i, i + 1) : SidesAt(beach[k], twin, S, A, k)
  <2>1. EdgesFollow(beach, twin, twin, S, S)
    BY DEF EdgesFollow
  <2>2. Len(<<>>) = 0
    OBVIOUS
  <2> QED BY <1>1, <1>2, <1>3, <2>1, <2>2, SplicedSides
<1>5. SidesAt(beach[i], twin, S, A, i)
  <2>1. i - 1 \in 0..Len(beach) /\ i \in 0..Len(beach) /\ i - 1 < i /\ i >= (i + 1) - 1
        /\ i - (i + 1) + i + 0 = i - 1
    BY <1>2
  <2>2. (i - 1 \in A <=> i - 1 \in A2) /\ (i \in A <=> i - (i + 1) + i + 0 \in A2)
    BY <1>3, <2>1 DEF GapsFollow
  <2> QED BY <1>1, <2>1, <2>2 DEF SidesAt
<1>6. Sides(beach, twin, S, A)
  <2>1. \A k \in 1..Len(beach) : k = i \/ k \in Kept(beach, i, i + 1)
    BY <1>2 DEF Kept
  <2> QED BY <1>4, <1>5, <2>1 DEF Sides
<1> QED BY <1>6 DEF BeachWhole, ArcsWhole

(* Two bisectors meet: their ends in the cell of the vanishing arc are linked *)
(* to each other, those in the outer cells to the new bisector's.           *)
LEMMA CircleEventWhole ==
    ASSUME SweepInv, BeachWhole, CircleEvent
    PROVE  BeachWhole'
<1> DEFINE m == numEdges
<1>1. PICK ev \in circles, i \in DOMAIN beach : CircleAt(ev, i)
  BY CircleEventAt
<1> DEFINE e12 == beach[i - 1].edge
           e23 == beach[i].edge
           t12 == twin[e12]
           t23 == twin[e23]
<1>2. PICK b1 : /\ Retimed(b1, beach, i + 1)
                /\ Spliced(Nodes, beach', b1, i - 1, i + 1, <<JoinedNode(i)>>)
  BY <1>1, CircleSteps DEF CircleEvent
<1>3. /\ i \in 2..Len(beach) /\ Len(beach) \in Nat /\ i \in Int /\ i - 1 \in Int /\ i + 1 \in Int
      /\ e12 # Null /\ e23 # Null
  <2>1. i \in 2..Len(beach) /\ beach[i - 1] \in Bisectors /\ beach[i] \in Bisectors
    BY <1>1, CircleFacts DEF CircleAt
  <2> QED BY <2>1, BeachFacts DEF Bisectors, Null
<1>4. Joined(e12, e23, t12, t23, m, numVertices + 1)
  <2>1. GraphInv /\ e12 \in Edge /\ e23 \in Edge /\ JoinBisectors(e12, e23)
    BY <1>1, CircleJoins DEF SweepInv
  <2> HIDE DEF e12, e23
  <2> QED BY <2>1, JoinFacts
<1>5. JoinedNode(i).edge = m + 1
  <2>1. e12 \in Edge /\ GraphInv
    BY <1>1, CircleJoins DEF SweepInv
  <2> QED BY <1>1, JoinedNodeFacts DEF CircleEvent
<1> HIDE DEF e12, e23, t12, t23, m
<1>6. /\ m \in Nat /\ e12 \in Edge /\ e23 \in Edge /\ t12 \in Edge /\ t23 \in Edge
      /\ t12 # t23 /\ m + 1 # Null /\ m + 2 # Null /\ Edge \subseteq Edge'
      /\ m + 1 \in Edge' /\ m + 2 \in Edge'
      /\ next[t12] = Null /\ next[t23] = Null
      /\ next'[m + 1] = e12 /\ next'[t12] = e23 /\ next'[t23] = m + 2
      /\ cell'[m + 1] = cell[e12] /\ cell'[m + 2] = cell[t23]
      /\ twin'[m + 1] = m + 2
      /\ \A e \in Edge : /\ cell'[e] = cell[e] /\ twin'[e] = twin[e]
                         /\ e # t12 /\ e # t23 => next'[e] = next[e]
      /\ \A e \in Edge' : e \in Edge \/ e = m + 1 \/ e = m + 2
      /\ \A e \in Edge : next[e] # Null => next[e] \in Edge
  <2>1. /\ m = numEdges /\ numEdges' = m + 2 /\ m \in Nat
    BY <1>4 DEF Joined
  <2>2. \A e \in Edge : next[e] # Null => next[e] \in Edge
    BY EdgeFacts DEF SweepInv, Edge, Null
  <2> QED BY <1>4, <2>1, <2>2 DEF Joined, Edge, Null
<1> SUFFICES ASSUME NEW S2 \in SUBSET Edge', NEW A2 \in SUBSET (0..Len(beach')),
                    ClosedUnder(S2, Edge', next'), Sides(beach', twin', S2, A2)
             PROVE  HoldsCells(S2, Edge', cell')
  BY DEF BeachWhole, ArcsWhole
<1> DEFINE S == S2 \cap Edge
<1>7. /\ m + 1 \in S2 <=> e12 \in S2
      /\ t12 \in S2 <=> e23 \in S2
      /\ t23 \in S2 <=> m + 2 \in S2
  BY <1>3, <1>6 DEF ClosedUnder
<1>8. /\ i - 2 \in A2 <=> m + 1 \in S2
      /\ i - 1 \in A2 <=> m + 2 \in S2
  <2> DEFINE new == <<JoinedNode(i)>>
  <2>1. Len(new) = 1 /\ new[1] = JoinedNode(i) /\ 1 \in 1..Len(new)
    OBVIOUS
  <2>2. Spliced(Nodes, beach', b1, i - 1, i + 1, new)
    BY <1>2
  <2> HIDE DEF new
  <2>3. SidesAt(JoinedNode(i), twin', S2, A2, (i - 1) - 1 + 1)
    BY <2>1, <2>2, SplicedNewSides
  <2>4. (i - 1) - 1 + 1 = i - 1 /\ (i - 1) - 1 = i - 2
    BY <1>3
  <2>5. SidesAt(JoinedNode(i), twin', S2, A2, i - 1)
    BY <2>3, <2>4
  <2> QED BY <1>5, <1>6, <2>4, <2>5 DEF SidesAt
<1> DEFINE V == IF t12 \in S2 THEN {i - 1} ELSE {}
<1>9. PICK A \in SUBSET (0..Len(beach)) :
            /\ GapsFollow(A, A2, beach, i - 1, i + 1, 1)
            /\ GapsBetween(A, V, beach, i - 1, i + 1)
  <2> HIDE DEF V
  <2>1. i - 1 <= i + 1 /\ i - 1 # i + 1 /\ 1 \in Int
    BY <1>3
  <2> QED BY <1>3, <2>1, GapsChosen, Zenon
<1>10. /\ i - 2 \in A <=> m + 1 \in S2
       /\ i - 1 \in A <=> t12 \in S2
       /\ i \in A <=> m + 2 \in S2
  <2>1. /\ i - 2 \in 0..Len(beach) /\ i - 1 \in 0..Len(beach) /\ i \in 0..Len(beach)
        /\ i - 2 < i - 1 /\ i - 1 <= i - 1 /\ i - 1 < (i + 1) - 1 /\ i >= (i + 1) - 1
        /\ i - (i + 1) + (i - 1) + 1 = i - 1
    BY <1>3
  <2>2. (i - 2 \in A <=> i - 2 \in A2) /\ (i \in A <=> i - (i + 1) + (i - 1) + 1 \in A2)
    BY <1>9, <2>1 DEF GapsFollow
  <2>3. i - 1 \in A <=> i - 1 \in V
    BY <1>9, <2>1 DEF GapsBetween
  <2> QED BY <1>8, <2>1, <2>2, <2>3
<1> HIDE DEF V, S
<1>11. Sides(beach, twin, S, A)
  <2>1. EdgesFollow(beach, twin, twin', S, S2)
    BY <1>6, BeachEdgesFollow DEF S
  <2>2. Len(<<JoinedNode(i)>>) = 1
    OBVIOUS
  <2>3. \A k \in Kept(beach, i - 1, i + 1) : SidesAt(beach[k], twin, S, A, k)
    BY <1>2, <1>9, <2>1, <2>2, SplicedSides
  <2>4. SidesAt(beach[i], twin, S, A, i)
    BY <1>3, <1>6, <1>7, <1>10 DEF SidesAt, S, e23, t23
  <2>5. SidesAt(beach[i - 1], twin, S, A, i - 1)
    <3>1. (i - 1) - 1 = i - 2
      BY <1>3
    <3>2. ((i - 1) - 1 \in A <=> e12 \in S) /\ (i - 1 \in A <=> t12 \in S)
      BY <1>6, <1>7, <1>10, <3>1 DEF S
    <3> QED BY <1>3, <3>2 DEF SidesAt, e12, t12
  <2>6. \A k \in 1..Len(beach) : k = i \/ k = i - 1 \/ k \in Kept(beach, i - 1, i + 1)
    BY <1>3 DEF Kept
  <2> QED BY <2>3, <2>4, <2>5, <2>6 DEF Sides
<1>12. HoldsCells(S, Edge, cell)
  <2>1. ClosedUnder(S, Edge, next) /\ S \in SUBSET Edge
    BY <1>6 DEF ClosedUnder, S
  <2> QED BY <1>11, <2>1 DEF BeachWhole, ArcsWhole
<1> SUFFICES ASSUME NEW e \in Edge', NEW f \in Edge', e \in S2, cell'[f] = cell'[e] PROVE f \in S2
  BY DEF HoldsCells
<1> DEFINE old(x) == IF x = m + 1 THEN e12 ELSE IF x = m + 2 THEN t23 ELSE x
<1>13. ASSUME NEW x \in Edge'
       PROVE  old(x) \in Edge /\ cell'[x] = cell[old(x)] /\ (x \in S2 <=> old(x) \in S)
  <2>1. m + 1 \notin Edge /\ m + 2 \notin Edge
    BY <1>6 DEF Edge, m
  <2> QED BY <1>6, <1>7, <2>1 DEF S
<1> HIDE DEF old
<1> QED BY <1>12, <1>13 DEF HoldsCells

-----------------------------------------------------------------------------
(* The first bisectors: one, or those of collinear sites one after another. *)
LEMMA InitDefaultWhole ==
    ASSUME SweepInv, CellsIndexedBySite, InitDefault
    PROVE  BeachWhole'
<1>1. GraphInv /\ AddSite(1, 2) /\ 1 \in Site /\ 2 \in Site /\ Edge = {}
  <2>1. pc = "init" /\ N > 1 /\ InsertSiteEdge(1, 2)
    BY DEF InitDefault
  <2>2. SitesInv /\ GraphInv /\ 1..N \subseteq Site /\ N \in Nat /\ cells = <<>> /\ numEdges = 0
    BY <2>1, InitFacts DEF InitDefault, SitesInv, SweepInv, PhaseInv, CountInv
  <2> QED BY <2>1, <2>2 DEF AddSite, Edge
<1>2. \A S : HoldsCells(S, Edge', cell')
  BY <1>1, SiteHolds DEF HoldsCells
<1> QED BY <1>2 DEF BeachWhole, ArcsWhole

LEMMA InitCollinearWhole ==
    ASSUME SweepInv, CellsIndexedBySite, BeachWhole, InitCollinear
    PROVE  BeachWhole'
<1> DEFINE node == Bisector(Arc(cursor), Arc(cursor + 1), numEdges + 1)
           n == Len(beach)
<1>1. /\ GraphInv /\ AddSite(cursor, cursor + 1) /\ cursor \in Site /\ cursor + 1 \in Site
      /\ InsertSiteEdge(cursor, cursor + 1) /\ n \in Nat /\ beach \in Seq(Nodes)
      /\ \/ Edge = {}
         \/ n > 0 /\ beach[n].r.site = cursor
      /\ beach' = Append(beach, node)
  <2>1. pc = "init" /\ InsertSiteEdge(cursor, cursor + 1) /\ Skip > 1 /\ beach' = Append(beach, node)
    BY DEF InitCollinear
  <2>2. /\ SitesInv /\ GraphInv /\ 1..N \subseteq Site /\ Skip \in 1..N /\ N \in Nat
        /\ n \in Nat /\ beach \in Seq(Nodes)
        /\ \/ cursor = 1 /\ cells = <<>> /\ numEdges = 0
           \/ /\ cursor \in 2..N /\ cursor < Skip /\ Len(cells) = cursor /\ cells # <<>>
              /\ n > 0 /\ beach[n].r.site = cursor
    BY <2>1, InitFacts, SkipFound
  <2>3. cursor \in 1..N /\ cursor + 1 \in 1..N /\ cursor # cursor + 1
    BY <2>1, <2>2
  <2>4. AddSite(cursor, cursor + 1)
    <3>1. cells = <<>> => cursor = 1 /\ cursor + 1 = 2
      BY <2>2
    <3>2. cells # <<>> => cursor \in 1..Len(cells) /\ cursor + 1 = Len(cells) + 1
      BY <2>2
    <3> QED BY <2>1, <2>3, <3>1, <3>2, Zenon DEF AddSite
  <2> QED BY <2>1, <2>2, <2>3, <2>4 DEF Edge
<1>2. node.edge = numEdges + 1 /\ numEdges \in Nat
  BY <1>1, EdgeFacts DEF Bisector
<1> HIDE DEF node
<1>3. /\ Len(beach') = n + 1 /\ beach'[n + 1] = node
      /\ \A k \in 1..n : beach'[k] = beach[k]
  BY <1>1, AppendProperties
<1>4. \A e \in Edge : twin'[e] = twin[e]
  BY <1>1, SiteEffect DEF Edge
<1> SUFFICES ASSUME NEW S2 \in SUBSET Edge', NEW A2 \in SUBSET (0..Len(beach')),
                    ClosedUnder(S2, Edge', next'), Sides(beach', twin', S2, A2)
             PROVE  HoldsCells(S2, Edge', cell')
  BY DEF BeachWhole, ArcsWhole
<1> DEFINE S == S2 \cap Edge
           A == A2 \cap (0..n)
<1>5. n \in A2 <=> numEdges + 1 \in S2
  <2>1. n + 1 \in 1..Len(beach') /\ (n + 1) - 1 = n /\ numEdges + 1 # Null
    BY <1>1, <1>2, <1>3 DEF Null
  <2>2. SidesAt(node, twin', S2, A2, n + 1)
    BY <1>3, <2>1 DEF Sides
  <2>3. (n + 1) - 1 \in A2 <=> node.edge \in S2
    BY <1>2, <2>1, <2>2 DEF SidesAt
  <2> QED BY <1>2, <2>1, <2>3
<1>6. \A k \in 1..n : SidesAt(beach[k], twin, S, A, k)
  <2> SUFFICES ASSUME NEW k \in 1..n PROVE SidesAt(beach[k], twin, S, A, k)
    OBVIOUS
  <2>1. k \in 1..Len(beach') /\ k \in 0..n /\ k - 1 \in 0..n
    BY <1>1, <1>3
  <2>2. SidesAt(beach[k], twin', S2, A2, k)
    BY <1>3, <2>1 DEF Sides
  <2>3. EdgesFollow(beach, twin, twin', S, S2)
    BY <1>4, BeachEdgesFollow
  <2> QED BY <2>1, <2>2, <2>3 DEF SidesAt, EdgesFollow
<1>7. HoldsCells(S, Edge, cell)
  <2>1. ClosedUnder(S, Edge, next)
    BY <1>1, SiteClosed
  <2>2. Sides(beach, twin, S, A) /\ A \in SUBSET (0..Len(beach)) /\ S \in SUBSET Edge
    BY <1>6 DEF Sides
  <2> HIDE DEF S, A
  <2> QED BY <2>1, <2>2 DEF BeachWhole, ArcsWhole
<1>8. \A e \in Edge : cell[e] = cursor => (e \in S2 <=> numEdges + 1 \in S2)
  <2> SUFFICES ASSUME NEW e \in Edge, cell[e] = cursor PROVE e \in S2 <=> numEdges + 1 \in S2
    OBVIOUS
  <2>1. n > 0 /\ beach[n].r.site = cursor /\ n \in 1..n /\ n \in 0..n
    BY <1>1
  <2>2. beach[n].edge # Null
    BY <2>1, BeachFacts
  <2>3. twin[beach[n].edge] \in Edge /\ cell[twin[beach[n].edge]] = cursor
    BY <2>1, <2>2, NodeEdges
  <2>4. n \in A2 <=> twin[beach[n].edge] \in S
    BY <1>6, <2>1, <2>2 DEF SidesAt
  <2> QED BY <1>5, <1>7, <2>3, <2>4 DEF HoldsCells
<1> QED BY <1>1, <1>7, <1>8, SiteHolds

(* When the sweep is over the beach line holds bisectors only, and each of   *)
(* its arcs joins the two ends of a cell.                                   *)
OneEnd == \A e, f \in Edge : cell[e] = cell[f] /\ prev[e] = Null /\ prev[f] = Null => e = f

WholeInv == IF pc = "done" THEN OneEnd => CellsWhole(Edge, next, cell) ELSE BeachWhole

LEMMA GraphLinksMatch ==
    ASSUME GraphInv
    PROVE  LinksMatch(Edge, next, prev, cell)
<1>1. IsFiniteSet(Edge) /\ Null \notin Edge
  BY EdgeFacts, UpTo DEF Edge, Null
<1>2. ASSUME NEW e \in Edge
      PROVE  /\ next[e] # Null => next[e] \in Edge /\ prev[next[e]] = e /\ cell[next[e]] = cell[e]
             /\ prev[e] # Null => prev[e] \in Edge /\ next[prev[e]] = e /\ cell[prev[e]] = cell[e]
  BY EdgeFacts DEF Edge, Null
<1> QED BY <1>1, <1>2 DEF LinksMatch

LEMMA FinishWhole ==
    ASSUME SweepInv, BeachWhole, Finish, OneEnd
    PROVE  CellsWhole(Edge, next, cell)
<1> DEFINE n == Len(beach)
<1>1. /\ n \in Nat /\ \A k \in 1..n : beach[k].edge # Null
  <2>1. /\ pc = "events" /\ cursor > N /\ EndPointsInv /\ N \in Nat /\ cursor \in 1..(N + 1)
    BY DEF Finish, SweepInv, PhaseInv, SitesInv
  <2>2. endPoints = {}
    <3>1. \A k \in cursor..N : FALSE
      BY <2>1
    <3> QED BY <2>1, <3>1 DEF EndPointsInv
  <2>3. Waiting(beach) = {}
    BY <2>1, <2>2 DEF EndPointsInv
  <2> QED BY <2>3, BeachFacts DEF Waiting, IsTemporary
<1>2. LinksMatch(Edge, prev, next, cell) /\ LinksMatch(Edge, next, prev, cell) /\ Null \notin Edge
  BY GraphLinksMatch, MatchBack DEF SweepInv, LinksMatch
<1> SUFFICES ASSUME NEW S \in SUBSET Edge, ClosedUnder(S, Edge, next)
             PROVE  HoldsCells(S, Edge, cell)
  BY DEF CellsWhole
<1>3. ASSUME NEW k \in 1..n, k < n
      PROVE  twin[beach[k].edge] \in S <=> beach[k + 1].edge \in S
  <2> DEFINE q == twin[beach[k].edge]
             p == beach[k + 1].edge
  <2>1. k + 1 \in 1..n /\ k + 1 > 1 /\ (k + 1) - 1 = k
    BY <1>1, <1>3
  <2>2. /\ q \in Edge /\ p \in Edge /\ Open(p) /\ Open(beach[k].edge) /\ beach[k].edge \in Edge
        /\ cell[p] = cell[q]
    BY <1>1, <2>1, NodeEdges, BeachFacts
  <2>3. next[q] = Null /\ prev[p] = Null
    BY <2>2, EdgeFacts DEF SweepInv, Edge, Open, Null
  <2> HIDE DEF q, p
  <2> DEFINE P == Reach(Edge, prev, q)
  <2>4. /\ P \subseteq Edge /\ q \in P /\ \A f \in P : cell[f] = cell[q]
        /\ \A f \in P : f \in S <=> q \in S
    BY <1>2, <2>2, ReachFacts, ClosedBack
  <2>5. \E f \in P : prev[f] = Null
    <3> SUFFICES ASSUME \A f \in P : prev[f] # Null PROVE FALSE
      OBVIOUS
    <3>1. next[q] \in P
      BY <1>2, <2>2, ReachReturns
    <3> QED BY <1>2, <2>3, <2>4, <3>1
  <2>6. p \in P
    BY <2>2, <2>3, <2>4, <2>5 DEF OneEnd
  <2> QED BY <2>4, <2>6 DEF q, p
<1> DEFINE A == {g \in 0..n : \/ \E k \in 1..n : k = g /\ twin[beach[k].edge] \in S
                              \/ \E k \in 1..n : k = g + 1 /\ beach[k].edge \in S}
<1>4. \A k \in 1..n : SidesAt(beach[k], twin, S, A, k)
  <2> SUFFICES ASSUME NEW k \in 1..n PROVE SidesAt(beach[k], twin, S, A, k)
    OBVIOUS
  <2>1. k - 1 \in A <=> beach[k].edge \in S
    <3>1. k - 1 \in 0..n /\ (k - 1) + 1 = k
      BY <1>1
    <3>2. CASE k - 1 \in 1..n
      <4>1. twin[beach[k - 1].edge] \in S <=> beach[(k - 1) + 1].edge \in S
        BY <1>1, <1>3, <3>2
      <4> QED BY <3>1, <4>1
    <3>3. CASE k - 1 \notin 1..n
      BY <3>1, <3>3
    <3> QED BY <3>2, <3>3
  <2>2. k \in A <=> twin[beach[k].edge] \in S
    <3>1. k \in 0..n
      BY <1>1
    <3>2. CASE k + 1 \in 1..n
      <4>1. twin[beach[k].edge] \in S <=> beach[k + 1].edge \in S
        BY <1>1, <1>3, <3>2
      <4> QED BY <3>1, <4>1
    <3>3. CASE k + 1 \notin 1..n
      BY <3>1, <3>3
    <3> QED BY <3>2, <3>3
  <2> HIDE DEF A
  <2> QED BY <1>1, <2>1, <2>2 DEF SidesAt
<1>5. Sides(beach, twin, S, A) /\ A \in SUBSET (0..Len(beach))
  BY <1>4 DEF Sides
<1> HIDE DEF A
<1> QED BY <1>5 DEF BeachWhole, ArcsWhole

-----------------------------------------------------------------------------
(* Every step of the sweep.                                                 *)
LEMMA InitWhole == Init => WholeInv
<1> SUFFICES ASSUME Init PROVE WholeInv
  OBVIOUS
<1>1. pc = "init" /\ Edge = {}
  BY DEF Init, GraphInit, Edge
<1> QED BY <1>1 DEF WholeInv, BeachWhole, ArcsWhole, HoldsCells

LEMMA StepKeepsWhole ==
    ASSUME SweepInv, CellsIndexedBySite, WholeInv, [Next]_vars
    PROVE  WholeInv'
<1>1. ASSUME UNCHANGED <<numEdges, beach, twin, next, prev, cell>>, pc' = "done" <=> pc = "done"
      PROVE  WholeInv'
  BY <1>1 DEF WholeInv, BeachWhole, OneEnd, Edge
<1>2. CASE InitSingleSite
  <2>1. UNCHANGED <<numEdges, beach, twin, next, prev, cell>> /\ pc = "init" /\ pc' = "events"
    BY <1>2 DEF InitSingleSite, ProcessSingleSite
  <2> QED BY <1>1, <2>1
<1>3. CASE InitDefault
  <2>1. pc' # "done"
    BY <1>3 DEF InitDefault
  <2> QED BY <1>3, <2>1, InitDefaultWhole DEF WholeInv
<1>4. CASE InitCollinear
  <2>1. pc # "done" /\ pc' # "done"
    BY <1>4 DEF InitCollinear
  <2> QED BY <1>4, <2>1, InitCollinearWhole DEF WholeInv
<1>5. CASE EraseTemporaryNode
  <2>1. pc # "done" /\ pc' # "done"
    BY <1>5 DEF EraseTemporaryNode
  <2> QED BY <1>5, <2>1, EraseTemporaryNodeWhole DEF WholeInv
<1>6. CASE LocateArc
  <2>1. UNCHANGED <<numEdges, beach, twin, next, prev, cell>> /\ pc # "done" /\ pc' # "done"
    BY <1>6 DEF LocateArc, graphVars
  <2> QED BY <1>1, <2>1
<1>7. CASE InsertArc
  <2>1. pc # "done" /\ pc' # "done"
    BY <1>7 DEF InsertArc
  <2> QED BY <1>7, <2>1, InsertArcWhole DEF WholeInv
<1>8. CASE CircleEvent
  <2>1. pc # "done" /\ pc' # "done"
    BY <1>8 DEF CircleEvent
  <2> QED BY <1>8, <2>1, CircleEventWhole DEF WholeInv
<1>9. CASE Finish
  <2>1. /\ pc # "done" /\ pc' = "done" /\ Edge' = Edge /\ next' = next /\ cell' = cell
        /\ prev' = prev
    BY <1>9 DEF Finish, graphVars, Edge
  <2>2. OneEnd' => OneEnd
    BY <2>1 DEF OneEnd
  <2> QED BY <1>9, <2>1, <2>2, FinishWhole DEF WholeInv
<1>10. CASE UNCHANGED vars
  <2>1. UNCHANGED <<numEdges, beach, twin, next, prev, cell, pc>>
    BY <1>10 DEF vars, graphVars, sweepVars
  <2> QED BY <1>1, <2>1
<1> QED BY <1>2, <1>3, <1>4, <1>5, <1>6, <1>7, <1>8, <1>9, <1>10 DEF Next, Returned

(* When the sweep has left no cell with two ends, the half-edges of each     *)
(* cell hang together: next and prev lead from each of them to all others.  *)
THEOREM SweepLeavesCellsWhole ==
    Spec => [](pc = "done" /\ OneEnd => CellsWhole(Edge, next, cell))
<1>1. Spec => []CellsIndexedBySite
  BY SweepBuildsWellLinkedGraph, PTL
<1>2. Init => WholeInv
  BY InitWhole
<1>3. SweepInv /\ CellsIndexedBySite /\ WholeInv /\ [Next]_vars => WholeInv'
  BY StepKeepsWhole
<1>4. WholeInv => (pc = "done" /\ OneEnd => CellsWhole(Edge, next, cell))
  BY DEF WholeInv
<1> QED BY <1>1, <1>2, <1>3, <1>4, InvariantSweepInv, PTL DEF Spec
=============================================================================
