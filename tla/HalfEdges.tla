----------------------------- MODULE HalfEdges -----------------------------
(***************************************************************************)
(* The half-edge graph that medial_axis<T> fills while the sweep runs: the *)
(* three containers cells_, vertices_ and edges_, the pointers between     *)
(* their elements, and the operations the builder calls on them.           *)
(*                                                                         *)
(* A half-edge is its index in edges_, a vertex its index in vertices_, a  *)
(* cell its index in cells_; 0 is the null pointer.  Feet (the annotation  *)
(* of a half-edge with a point of the polygon's boundary) steer nothing in *)
(* this graph and are not part of it.                                      *)
(*                                                                         *)
(* HalfEdgeSpec is what the container promises to a caller that joins only *)
(* half-edges that are still open and bound the same cell; the operations  *)
(* themselves check neither, as the code does not.                         *)
(***************************************************************************)
EXTENDS Integers, Sequences

CONSTANT Site       \* the sorted indices of the site events

ASSUME SiteAssumption == Site \subseteq Nat \ {0}

VARIABLES
    cells,          \* sequence of the sites whose cells were pushed
    numVertices,    \* vertices_.size()
    numEdges,       \* edges_.size()
    cell,           \* half-edge -> the cell it bounds
    twin,           \* half-edge -> the half-edge of the other side
    vertex0,        \* half-edge -> its start vertex
    next, prev      \* half-edge -> the neighbours around its cell

graphVars == <<cells, numVertices, numEdges, cell, twin, vertex0, next, prev>>

Null == 0
Edge == 1..numEdges

(* edge_type::vertex1, rot_next *)
Vertex1(e) == vertex0[twin[e]]
RotNext(e) == twin[prev[e]]

(* edges_.push_back twice: the columns of the edge table grow by two rows. *)
Push(column, a, b) ==
    [e \in 1..(numEdges + 2) |-> IF e = numEdges + 1 THEN a
                                 ELSE IF e = numEdges + 2 THEN b ELSE column[e]]

(* _reserve: the elements set aside for n site events.  Half-edges, cells    *)
(* and vertices point at each other, so the containers must never grow       *)
(* beyond it.                                                                *)
CellsReservedShort(n) == n - 1     \* mutant: one too few
CellsReserved(n) == n
VerticesReserved(n) == 2 * n
EdgesReserved(n) == 4 * n + 2 * n

GraphInit ==
    /\ cells = <<>>
    /\ numVertices = 0
    /\ numEdges = 0
    /\ cell = <<>> /\ twin = <<>> /\ vertex0 = <<>> /\ next = <<>> /\ prev = <<>>

(* _process_single_site *)
ProcessSingleSite(s) ==
    /\ cells' = Append(cells, s)
    /\ UNCHANGED <<numVertices, numEdges, cell, twin, vertex0, next, prev>>

(* The two cells a first bisector needs, and the cell of the new site alone *)
(* afterwards.                                                              *)
PushCellsOfNewSite(s1, s2) == Append(cells, s2)    \* mutant: no first cell
PushCells(s1, s2) == IF cells = <<>> THEN <<s1, s2>> ELSE Append(cells, s2)

(* _insert_new_edge(site1, site2): the bisector of a new site's arc. *)
InsertSiteEdge(s1, s2) ==
    /\ cells' = PushCells(s1, s2)
    /\ numEdges' = numEdges + 2
    /\ cell' = Push(cell, s1, s2)
    /\ twin' = Push(twin, numEdges + 2, numEdges + 1)
    /\ vertex0' = Push(vertex0, Null, Null)
    /\ next' = Push(next, Null, Null)
    /\ prev' = Push(prev, Null, Null)
    /\ UNCHANGED numVertices

(* _insert_new_edge(site1, site3, circle, edge12, edge23): the two old      *)
(* half-edges start at the new vertex, and so does the second of the two    *)
(* new ones.  The assignments are in the order of the code.                 *)
StartAtNewVertexTwice(e12, e23) ==       \* mutant: the new half-edge is forgotten
    [Push(vertex0, Null, Null) EXCEPT ![e12] = numVertices + 1,
                                      ![e23] = numVertices + 1]
StartAtNewVertex(e12, e23) ==
    [Push(vertex0, Null, numVertices + 1) EXCEPT ![e12] = numVertices + 1,
                                                 ![e23] = numVertices + 1]

LinkNextCrossed(e12, e23) ==             \* mutant: two targets swapped
    [Push(next, Null, Null) EXCEPT ![numEdges + 1] = e12,
                                   ![twin[e12]] = numEdges + 2,
                                   ![twin[e23]] = e23]
LinkNext(e12, e23) ==
    [Push(next, Null, Null) EXCEPT ![numEdges + 1] = e12,
                                   ![twin[e12]] = e23,
                                   ![twin[e23]] = numEdges + 2]

LinkPrev(e12, e23) ==
    [Push(prev, Null, Null) EXCEPT ![e12] = numEdges + 1,
                                   ![e23] = twin[e12],
                                   ![numEdges + 2] = twin[e23]]

InsertCircleEdge(s1, s3, e12, e23) ==
    /\ numVertices' = numVertices + 1
    /\ numEdges' = numEdges + 2
    /\ cell' = Push(cell, s1, s3)
    /\ twin' = Push(twin, numEdges + 2, numEdges + 1)
    /\ vertex0' = StartAtNewVertex(e12, e23)
    /\ next' = LinkNext(e12, e23)
    /\ prev' = LinkPrev(e12, e23)
    /\ UNCHANGED cells

-----------------------------------------------------------------------------
(* What a caller must respect, and what it then gets. *)

Open(e) == vertex0[e] = Null

(* A new site gets the next cell. *)
AddSite(s1, s2) ==
    /\ s1 # s2
    /\ IF cells = <<>> THEN s1 = 1 /\ s2 = 2
       ELSE s1 \in 1..Len(cells) /\ s2 = Len(cells) + 1
    /\ InsertSiteEdge(s1, s2)

(* Two open half-edges that run into each other across one cell meet. *)
JoinBisectors(e12, e23) ==
    /\ e12 # e23 /\ twin[e12] # e23
    /\ Open(e12) /\ Open(e23)
    /\ cell[twin[e12]] = cell[e23]
    /\ InsertCircleEdge(cell[e12], cell[twin[e23]], e12, e23)

GraphNext ==
    \/ cells = <<>> /\ 1 \in Site /\ ProcessSingleSite(1)
    \/ \E s1, s2 \in Site : AddSite(s1, s2)
    \/ \E e12, e23 \in Edge : JoinBisectors(e12, e23)

HalfEdgeSpec == GraphInit /\ [][GraphNext]_graphVars

-----------------------------------------------------------------------------
(* Properties of the graph. *)

GraphTypeOK ==
    /\ cells \in Seq(Site)
    /\ numVertices \in Nat /\ numEdges \in Nat
    /\ cell \in [Edge -> Site]
    /\ twin \in [Edge -> Edge]
    /\ vertex0 \in [Edge -> 0..numVertices]
    /\ next \in [Edge -> 0..numEdges] /\ prev \in [Edge -> 0..numEdges]

(* Twins are two different half-edges and each is the other's twin; a       *)
(* half-edge starts at a vertex exactly when it has a predecessor around    *)
(* its cell; a link leads to a half-edge of the same cell that starts where *)
(* this one ends, and back.  This is what rot_next, the walks of _build and *)
(* the export to Perl rely on when they follow pointers without a test.     *)
TwinsPaired ==
    \A e \in Edge : twin[e] # e /\ twin[twin[e]] = e

LinksFollowVertices ==
    \A e \in Edge : /\ prev[e] = Null <=> vertex0[e] = Null
                    /\ next[e] = Null <=> Vertex1(e) = Null

LinksInverse ==
    \A e \in Edge : /\ next[e] # Null => prev[next[e]] = e
                    /\ prev[e] # Null => next[prev[e]] = e

LinksStayInCell ==
    \A e \in Edge : next[e] # Null => /\ cell[next[e]] = cell[e]
                                      /\ vertex0[next[e]] = Vertex1(e)

WellLinked == TwinsPaired /\ LinksFollowVertices /\ LinksInverse /\ LinksStayInCell

(* cells_[i] is the cell of site i: a half-edge is given a pointer to the    *)
(* element at its site's sorted index, and one push_back per site event must *)
(* have put the right cell there.                                            *)
CellsIndexedBySite ==
    /\ \A i \in DOMAIN cells : cells[i] = i
    /\ \A e \in Edge : cell[e] \in DOMAIN cells

(* Every vertex is the start of exactly three half-edges, and rot_next      *)
(* visits all three: the do-while loops over rot_next() end and miss none.  *)
Trivalent ==
    \A e \in Edge : ~ Open(e) =>
        LET f == RotNext(e)
            g == RotNext(f)
        IN  /\ e # f /\ f # g /\ g # e
            /\ RotNext(g) = e
            /\ {h \in Edge : vertex0[h] = vertex0[e]} = {e, f, g}

(* A half-edge's start vertex and links are set once: the comment in the    *)
(* circle-event _insert_new_edge that "the old edges never have vertex0 set *)
(* before", and the reason no earlier link is ever overwritten.             *)
LinksPermanent ==
    [][\A e \in Edge : /\ ~ Open(e) => vertex0'[e] = vertex0[e] /\ prev'[e] = prev[e]
                       /\ next[e] # Null => next'[e] = next[e]
                       /\ cell'[e] = cell[e] /\ twin'[e] = twin[e]]_graphVars
=============================================================================
