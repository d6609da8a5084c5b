-------------------------- MODULE MedialAxisBuild --------------------------
(***************************************************************************)
(* The first half of medial_axis<T>::_build, which turns what the sweep    *)
(* left in the containers into the complete Voronoi diagram: degenerate    *)
(* half-edges and vertices are removed and the survivors moved down in     *)
(* their vectors, then the cells that reach to infinity are closed.        *)
(*                                                                         *)
(* The slots of a vector are the indices of HalfEdges.  While half-edges   *)
(* are removed the slots from slot to it - 1 hold leftovers; the others    *)
(* are Live.  Whether two vertices are equal within 128 ulps is left open, *)
(* except that the half-edges found degenerate never close a cycle: it     *)
(* would enclose a cell without extent.                                    *)
(*                                                                         *)
(* before, origin, gone and place record where each half-edge and vertex   *)
(* comes from.  The program has no such data, and no guard reads them.     *)
(***************************************************************************)
EXTENDS HalfEdges

VARIABLES
    stage,          \* the part of _build that runs: see Stages
    it, slot,       \* the iterators it and last_edge, last_vertex of a loop
    cellEdge,       \* cell -> its incident_edge
    vertexEdge,     \* vertex -> its incident_edge
    before,         \* the half-edges as _build found them
    origin,         \* slot -> the half-edge of before it holds
    gone,           \* the half-edges of before that were removed
    place           \* vertex slot -> the vertex whose coordinates it holds

recordVars == <<before, origin, gone, place>>
buildVars == <<stage, it, slot, cellEdge, vertexEdge, recordVars>>

Stages == {"sweep", "edges", "incident", "vertices", "infinite", "diagram"}

Live == IF stage = "edges" THEN (1..(slot - 1)) \cup (it..numEdges) ELSE Edge

RotPrev(e) == next[twin[e]]
Turn == [e \in Edge |-> IF prev[e] = Null THEN Null ELSE RotNext(e)]

(* The half-edges a walk meets that starts at e and follows step until a    *)
(* null pointer, or until it has been everywhere it gets.                   *)
Met(step, e) ==
    LET onward == [f \in 0..numEdges |-> IF f = Null THEN Null ELSE step[f]]
        walk[n \in 0..numEdges] == IF n = 0 THEN e ELSE onward[walk[n - 1]]
    IN  {walk[n] : n \in 0..numEdges} \ {Null}

LastOf(S) == IF S = {} THEN Null ELSE CHOOSE x \in S : \A y \in S : y <= x

-----------------------------------------------------------------------------
BuildInit ==
    /\ stage = "sweep"
    /\ it = 1 /\ slot = 1
    /\ cellEdge = <<>> /\ vertexEdge = <<>>
    /\ before = <<>> /\ origin = <<>> /\ gone = {} /\ place = <<>>

(* In a Voronoi diagram no cell is its own neighbour and, if there is a      *)
(* vertex, none reaches to infinity twice: the sweep, which may take circle  *)
(* events in impossible orders, can produce graphs that are no diagrams.     *)
IsDiagram ==
    /\ \A e \in Edge : cell[e] # cell[twin[e]]
    /\ numVertices # 0 => \A e, f \in Edge :
            cell[e] = cell[f] /\ prev[e] = Null /\ prev[f] = Null => e = f

StartBuild ==
    /\ stage = "sweep" /\ IsDiagram
    /\ stage' = "edges"
    /\ before' = [cell |-> cell, vertex0 |-> vertex0, twin |-> twin, next |-> next]
    /\ origin' = [e \in Edge |-> e]
    /\ place' = [v \in 1..numVertices |-> v]
    /\ UNCHANGED <<graphVars, it, slot, cellEdge, vertexEdge, gone>>

-----------------------------------------------------------------------------
(* Remove degenerate edges. *)

(* No other half-edge joins the two ends. *)
ClosesNoCycle(e) ==
    \A f \in Live \ {e, twin[e]} : {vertex0[f], Vertex1(f)} # {vertex0[e], Vertex1(e)}

(* remove_edge: its second vertex is replaced by its first, and its four     *)
(* neighbours are linked past it.                                            *)
MoveStarOfVertex0(e) == vertex0      \* mutant: the half-edges stay at the second vertex
MoveStar(e) ==
    [f \in Edge |-> IF f \in Met(Turn, twin[e]) \ {twin[e]} THEN vertex0[e] ELSE vertex0[f]]

BridgePrev(e) == [prev EXCEPT ![RotPrev(twin[e])] = twin[RotNext(e)],
                              ![RotPrev(e)] = twin[RotNext(twin[e])]]
BridgeNextOneSide(e) == [next EXCEPT ![twin[RotNext(e)]] = RotPrev(twin[e])]     \* mutant
BridgeNext(e) == [next EXCEPT ![twin[RotNext(e)]] = RotPrev(twin[e]),
                              ![twin[RotNext(twin[e])]] = RotPrev(e)]

RemoveEdge ==
    /\ stage = "edges" /\ it <= numEdges
    /\ vertex0[it] # Null /\ Vertex1(it) # Null
    /\ ClosesNoCycle(it)
    /\ vertex0' = MoveStar(it)
    /\ next' = BridgeNext(it)
    /\ prev' = BridgePrev(it)
    /\ gone' = gone \cup {origin[it], origin[it + 1]}
    /\ it' = it + 2
    /\ UNCHANGED <<cells, numVertices, numEdges, cell, twin>>
    /\ UNCHANGED <<stage, slot, cellEdge, vertexEdge, before, origin, place>>

(* A column of the edge table after the pair at it was copied to slot. *)
Copied(column) == [column EXCEPT ![slot] = column[it], ![slot + 1] = column[it + 1]]

(* The neighbours of a moved pair point to its new place.  The code tests    *)
(* prev of one half-edge of the pair before it follows next of the other.    *)
RelinkPrevFirst == [Copied(prev) EXCEPT ![next[it]] = slot]     \* mutant: not the twin's
RelinkNext ==
    [e \in Edge |-> IF e = prev[it] THEN slot
                    ELSE IF e = prev[it + 1] THEN slot + 1 ELSE Copied(next)[e]]
RelinkPrev ==
    [e \in Edge |-> IF prev[it + 1] # Null /\ e = next[it] THEN slot
                    ELSE IF prev[it] # Null /\ e = next[it + 1] THEN slot + 1
                    ELSE Copied(prev)[e]]

KeepEdge ==
    /\ stage = "edges" /\ it <= numEdges
    /\ IF it = slot THEN UNCHANGED <<cell, twin, vertex0, next, prev, origin>>
       ELSE /\ cell' = Copied(cell)
            /\ vertex0' = Copied(vertex0)
            /\ twin' = [twin EXCEPT ![slot] = slot + 1, ![slot + 1] = slot]
            /\ next' = RelinkNext
            /\ prev' = RelinkPrev
            /\ origin' = Copied(origin)
    /\ it' = it + 2 /\ slot' = slot + 2
    /\ UNCHANGED <<cells, numVertices, numEdges>>
    /\ UNCHANGED <<stage, cellEdge, vertexEdge, before, gone, place>>

(* edges_.erase(last_edge, edges_.end()) *)
EraseEdges ==
    LET kept(column) == [e \in 1..(slot - 1) |-> column[e]]
    IN  /\ stage = "edges" /\ it > numEdges
        /\ numEdges' = slot - 1
        /\ cell' = kept(cell) /\ twin' = kept(twin) /\ vertex0' = kept(vertex0)
        /\ next' = kept(next) /\ prev' = kept(prev) /\ origin' = kept(origin)
        /\ stage' = "incident"
        /\ UNCHANGED <<cells, numVertices, it, slot, cellEdge, vertexEdge>>
        /\ UNCHANGED <<before, gone, place>>

-----------------------------------------------------------------------------
(* Set up incident edge pointers; remove degenerate vertices. *)

SetIncidentEdges ==
    /\ stage = "incident"
    /\ cellEdge' = [c \in DOMAIN cells |-> LastOf({e \in Edge : cell[e] = c})]
    /\ vertexEdge' = [v \in 1..numVertices |-> LastOf({e \in Edge : vertex0[e] = v})]
    /\ stage' = "vertices" /\ it' = 1 /\ slot' = 1
    /\ UNCHANGED <<graphVars, recordVars>>

SkipVertexForever ==                 \* mutant: the iterator stands still
    /\ stage = "vertices" /\ it <= numVertices
    /\ vertexEdge[it] = Null
    /\ UNCHANGED <<graphVars, buildVars>>

SkipVertex ==
    /\ stage = "vertices" /\ it <= numVertices
    /\ vertexEdge[it] = Null
    /\ it' = it + 1
    /\ UNCHANGED <<graphVars, stage, slot, cellEdge, vertexEdge, recordVars>>

(* The half-edges that rot_next finds around a moved vertex follow it. *)
FollowFirst(v) == [vertex0 EXCEPT ![vertexEdge[v]] = slot]      \* mutant
Follow(v) ==
    [e \in Edge |-> IF e \in Met(Turn, vertexEdge[v]) THEN slot ELSE vertex0[e]]

KeepVertex ==
    /\ stage = "vertices" /\ it <= numVertices
    /\ vertexEdge[it] # Null
    /\ IF it = slot THEN UNCHANGED <<vertex0, vertexEdge, place>>
       ELSE /\ vertexEdge' = [vertexEdge EXCEPT ![slot] = vertexEdge[it]]
            /\ place' = [place EXCEPT ![slot] = place[it]]
            /\ vertex0' = Follow(it)
    /\ it' = it + 1 /\ slot' = slot + 1
    /\ UNCHANGED <<cells, numVertices, numEdges, cell, twin, next, prev>>
    /\ UNCHANGED <<stage, cellEdge, before, origin, gone>>

(* vertices_.erase(last_vertex, vertices_.end()) *)
EraseVertices ==
    /\ stage = "vertices" /\ it > numVertices
    /\ numVertices' = slot - 1
    /\ vertexEdge' = [v \in 1..(slot - 1) |-> vertexEdge[v]]
    /\ place' = [v \in 1..(slot - 1) |-> place[v]]
    /\ stage' = "infinite" /\ it' = 1 /\ slot' = 1
    /\ UNCHANGED <<cells, numEdges, cell, twin, vertex0, next, prev>>
    /\ UNCHANGED <<cellEdge, before, origin, gone>>

-----------------------------------------------------------------------------
(* Set up next/prev pointers for infinite edges. *)

(* Without vertices all half-edges are lines: the first and the last are    *)
(* linked to themselves, the others pairwise.                               *)
LinkLines ==
    LET partner == [e \in Edge |-> IF e = 1 \/ e = numEdges THEN e
                                   ELSE IF e % 2 = 0 THEN e + 1 ELSE e - 1]
    IN  /\ stage = "infinite" /\ numVertices = 0
        /\ next' = partner /\ prev' = partner
        /\ stage' = "diagram"
        /\ UNCHANGED <<cells, numVertices, numEdges, cell, twin, vertex0>>
        /\ UNCHANGED <<it, slot, cellEdge, vertexEdge, recordVars>>

(* One iteration of the loop over the cells: the two rays of a cell that     *)
(* reaches to infinity are linked.  A cell without half-edges is passed over.*)
Ends(step, e) == {f \in Met(step, e) : step[f] = Null}
LeftEndsAtIncident(c) ==             \* mutant: no walk back from the incident edge
    IF cellEdge[c] = Null \/ Ends(prev, cellEdge[c]) = {} THEN {} ELSE {cellEdge[c]}
LeftEnds(c) == IF cellEdge[c] = Null THEN {} ELSE Ends(prev, cellEdge[c])

LinkCell ==
    /\ stage = "infinite" /\ numVertices # 0 /\ it <= Len(cells)
    /\ IF LeftEnds(it) = {} THEN UNCHANGED <<next, prev>>
       ELSE \E left \in LeftEnds(it), right \in Ends(next, cellEdge[it]) :
                /\ prev' = [prev EXCEPT ![left] = right]
                /\ next' = [next EXCEPT ![right] = left]
    /\ it' = it + 1
    /\ UNCHANGED <<cells, numVertices, numEdges, cell, twin, vertex0>>
    /\ UNCHANGED <<stage, slot, cellEdge, vertexEdge, recordVars>>

AllCellsLinked ==
    /\ stage = "infinite" /\ numVertices # 0 /\ it > Len(cells)
    /\ stage' = "diagram"
    /\ UNCHANGED <<graphVars, it, slot, cellEdge, vertexEdge, recordVars>>

BuildNext ==
    \/ StartBuild
    \/ RemoveEdge \/ KeepEdge \/ EraseEdges
    \/ SetIncidentEdges
    \/ SkipVertex \/ KeepVertex \/ EraseVertices
    \/ LinkLines \/ LinkCell \/ AllCellsLinked

-----------------------------------------------------------------------------
(* Properties. *)

(* Between two steps of the compaction, and after it, the pointers of the   *)
(* half-edges in use lead to half-edges in use, never to a removed one or   *)
(* to the place a moved one has left; they are inverse to each other, stay  *)
(* in their cell and meet at the vertex.  Lines have no vertices to meet at.*)
LiveLinks ==
    stage # "sweep" => \A e \in Live :
        /\ twin[e] \in Live \ {e} /\ twin[twin[e]] = e
        /\ next[e] # Null => /\ next[e] \in Live /\ prev[next[e]] = e
                             /\ cell[next[e]] = cell[e]
                             /\ vertex0[next[e]] = Vertex1(e)
        /\ prev[e] # Null => prev[e] \in Live /\ next[prev[e]] = e

(* The half-edges in use that start in one vertex are those that rot_next    *)
(* meets, from any of them: remove_edge and the removal of vertices, which   *)
(* rely on it, move the whole star of a vertex, and their loops end.         *)
StarsComplete ==
    stage # "sweep" => \A e \in Live : vertex0[e] # Null =>
        Met(Turn, e) = {f \in Live : vertex0[f] = vertex0[e]}

(* The next survivor of the boundary the sweep left, after half-edge o. *)
BoundaryAfter(o) ==
    LET after[n \in 0..LastOf(gone)] ==
            IF n = 0 THEN before.next[o]
            ELSE LET f == after[n - 1] IN IF f \in gone THEN before.next[f] ELSE f
    IN  after[LastOf(gone)]

(* Nothing is lost and nothing else is removed: the half-edges in use are    *)
(* those the sweep left that were not found degenerate, each once, each with *)
(* the cell and the twin it had, and the order around each cell is the order *)
(* the sweep left.                                                           *)
BoundariesKept ==
    stage # "sweep" =>
        /\ {origin[e] : e \in Live} = (DOMAIN before.next) \ gone
        /\ \A e, f \in Live : origin[e] = origin[f] => e = f
        /\ \A e \in Live :
            LET o == origin[e]
            IN  /\ cell[e] = before.cell[o]
                /\ origin[twin[e]] = before.twin[o]
                /\ IF BoundaryAfter(o) # Null
                   THEN next[e] # Null /\ origin[next[e]] = BoundaryAfter(o)
                   ELSE stage \notin {"infinite", "diagram"} => next[e] = Null

(* The vertices that removed half-edges have merged with v. *)
MergedWith(v) ==
    LET ends(S) == {before.vertex0[before.twin[g]] : g \in {h \in gone : before.vertex0[h] \in S}}
        merged[n \in 0..LastOf(gone)] ==
            IF n = 0 THEN {v} ELSE LET S == merged[n - 1] IN S \cup ends(S)
    IN  merged[LastOf(gone)]

(* A half-edge still starts where it started when the sweep ended, or at a   *)
(* vertex equal to that one within the tolerance; when vertices have been    *)
(* removed every one that is left starts a half-edge, and no half-edge       *)
(* starts at one that was removed.                                           *)
VerticesKept ==
    /\ stage # "sweep" => \A e \in Live :
        IF before.vertex0[origin[e]] = Null THEN vertex0[e] = Null
        ELSE place[vertex0[e]] \in MergedWith(before.vertex0[origin[e]])
    /\ stage \in {"infinite", "diagram"} =>
        \A v \in 1..numVertices : vertex0[vertexEdge[v]] = v

(* When the diagram is complete the half-edges of each cell form one cycle,  *)
(* in both directions, and the incident edge of the cell is one of them: the *)
(* loops of the later passes over next() see the whole boundary and end.     *)
CellsClosed ==
    stage = "diagram" =>
        /\ \A e \in Edge : /\ next[e] # Null /\ prev[e] # Null
                            /\ Met(next, e) = {f \in Edge : cell[f] = cell[e]}
                            /\ Met(prev, e) = Met(next, e)
        /\ \A c \in DOMAIN cells : IF cellEdge[c] = Null THEN \A e \in Edge : cell[e] # c
                                   ELSE cell[cellEdge[c]] = c
=============================================================================
