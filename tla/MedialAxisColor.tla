-------------------------- MODULE MedialAxisColor --------------------------
(***************************************************************************)
(* The second part of medial_axis<T>::_build: which half-edges of the      *)
(* complete Voronoi diagram lie inside the polygon.  Colour 0 is inside,   *)
(* colour 1 outside or in a hole.  Half-edges that reach to infinity are   *)
(* outside; a first pass guesses which others are in holes; the remaining  *)
(* passes turn wrong guesses back, one of them by the recursive            *)
(* mark_interior, whose call stack is the variable stack.                  *)
(*                                                                         *)
(* A diagram is a record of the pointers of the containers, numbered as in *)
(* HalfEdges, and of the flags of half-edges and cells that the code reads *)
(* here.  Its field inside is not in the program: it says where the        *)
(* half-edges really lie.                                                  *)
(***************************************************************************)
EXTENDS Integers, Sequences

CONSTANT Diagrams   \* complete diagrams as the first part of _build leaves them

VARIABLES
    graph,          \* the diagram
    color,          \* half-edge -> its colour
    cellColor,      \* cell -> its colour
    vertexColor,    \* vertex -> its colour
    pass,           \* the loop that runs: see Passes
    it,             \* its iterator
    stack           \* the do-while loops that have been entered, innermost first

colorVars == <<graph, color, cellColor, vertexColor, pass, it, stack>>

Passes == <<"exterior", "holes", "cells", "between", "beyond", "secondary", "coloured">>

Null == 0
EdgesOf(g) == DOMAIN g.next
Edge == EdgesOf(graph)
Cell == DOMAIN graph.cellEdge
Vertex == DOMAIN graph.vertexEdge

(* Half-edges are pushed and moved in pairs. *)
Twin(e) == IF e % 2 = 1 THEN e + 1 ELSE e - 1
Next(e) == graph.next[e]
Prev(e) == graph.prev[e]
RotNext(e) == Twin(Prev(e))
RotPrev(e) == Next(Twin(e))
Vertex0(e) == graph.vertex0[e]
Vertex1(e) == Vertex0(Twin(e))
Finite(e) == Vertex0(e) # Null /\ Vertex1(e) # Null
Primary(e) == e \in graph.primary

(* What the first part of _build guarantees (see MedialAxisBuild): pointers  *)
(* lead into the containers, half-edges come in pairs that are primary       *)
(* together, links are inverse to each other and stay in their cell, every   *)
(* cell has a half-edge, every vertex starts one.                            *)
PointersInRange(g) ==
    /\ g.next \in Seq(EdgesOf(g)) \ {<<>>} /\ Len(g.next) % 2 = 0
    /\ g.prev \in [EdgesOf(g) -> EdgesOf(g)]
    /\ g.cellEdge \in Seq(EdgesOf(g)) /\ g.cell \in [EdgesOf(g) -> DOMAIN g.cellEdge]
    /\ g.vertexEdge \in Seq(EdgesOf(g))
    /\ g.vertex0 \in [EdgesOf(g) -> {Null} \cup DOMAIN g.vertexEdge]
    /\ g.primary \cup g.curved \cup g.feet \cup g.inside \subseteq EdgesOf(g)

LinksConsistent(g) ==
    /\ \A e \in EdgesOf(g) : /\ g.prev[g.next[e]] = e /\ g.next[g.prev[e]] = e
                             /\ g.cell[g.next[e]] = g.cell[e]
                             /\ g.vertex0[g.next[e]] = g.vertex0[Twin(e)]
    /\ \A c \in DOMAIN g.cellEdge : g.cell[g.cellEdge[c]] = c
    /\ \A v \in DOMAIN g.vertexEdge : g.vertex0[g.vertexEdge[v]] = v
    /\ \A e \in g.primary : Twin(e) \in g.primary

DiagramAssumption == \A g \in Diagrams : PointersInRange(g) /\ LinksConsistent(g)
ASSUME DiagramAssumption

-----------------------------------------------------------------------------
Init ==
    /\ graph \in Diagrams
    /\ color = [e \in EdgesOf(graph) |-> 0]
    /\ cellColor = [c \in DOMAIN graph.cellEdge |-> 0]
    /\ vertexColor = [v \in DOMAIN graph.vertexEdge |-> 0]
    /\ pass = "exterior" /\ it = 1
    /\ stack = <<>>

Painted(edges, c) == [e \in Edge |-> IF e \in edges THEN c ELSE color[e]]
WithTwins(edges) == edges \cup {Twin(e) : e \in edges}
Both(e) == {e, Twin(e)}

PassAfter(p) == Passes[1 + CHOOSE k \in DOMAIN Passes : Passes[k] = p]

(* ++it, and on to the next loop at the end. *)
Advance(end) ==
    IF it < end THEN it' = it + 1 /\ UNCHANGED pass
    ELSE it' = 1 /\ pass' = PassAfter(pass)

-----------------------------------------------------------------------------
(* mark_exterior recurs from a primary half-edge to all half-edges around   *)
(* its end.  A call that finds colour 1 has nothing left to do, so what is  *)
(* marked does not depend on the order of the calls: it is the star of      *)
(* every vertex that primary half-edges reach.                              *)

Reached(e) ==
    LET start == IF Vertex1(e) # Null THEN Vertex1(e) ELSE Vertex0(e)
        onward(v) == {v} \cup {Vertex1(f) : f \in {g \in graph.primary : Finite(g) /\ Vertex0(g) = v}}
        reached[n \in 0..Len(graph.vertexEdge)] ==
            IF n = 0 THEN {start} ELSE UNION {onward(v) : v \in reached[n - 1]}
    IN  IF start = Null \/ ~ Primary(e) THEN {} ELSE reached[Len(graph.vertexEdge)]

StarsOf(vertices) == UNION {{f \in Edge : Vertex0(f) = v} : v \in vertices}

MarkedAlone(e, vertices) == Both(e)          \* mutant: no recursion
Marked(e, vertices) == Both(e) \cup WithTwins(StarsOf(vertices))

Exterior ==
    /\ pass = "exterior"
    /\ IF ~ Finite(it) /\ color[it] # 1
       THEN \E vertices \in {Reached(it)} : \E marked \in {Marked(it, vertices)} :
                /\ color' = Painted(marked, 1)
                /\ cellColor' = [c \in Cell |-> IF \E e \in marked : graph.cell[e] = c
                                                THEN 1 ELSE cellColor[c]]
                /\ vertexColor' = [v \in Vertex |-> IF v \in vertices
                                                    THEN 1 ELSE vertexColor[v]]
       ELSE UNCHANGED <<color, cellColor, vertexColor>>
    /\ Advance(Len(graph.next))
    /\ UNCHANGED <<graph, stack>>

(* Half-edges that touch no outer cell are taken to be in holes.  Only the   *)
(* half-edge itself is coloured; its twin has its own turn.                  *)
SeemsInHole(e) ==
    \A f \in {e, Twin(e), Twin(Next(e)), Twin(Prev(e))} : cellColor[graph.cell[f]] # 1

Holes ==
    /\ pass = "holes"
    /\ color' = IF SeemsInHole(it) THEN Painted({it}, 1) ELSE color
    /\ Advance(Len(graph.next))
    /\ UNCHANGED <<graph, cellColor, vertexColor, stack>>

-----------------------------------------------------------------------------
(* mark_interior(e, backward) and the loop over the cells that calls it.    *)

(* The half-edges that turn inside: around a curved one also the non-primary *)
(* half-edges of the point's cell.                                           *)
TurnedInsideNone(e) == {}           \* mutant: the colour is not set
TurnedInside(e) ==
    LET home == IF graph.cell[e] \in graph.points THEN e ELSE Twin(e)
        beside == {f \in Edge : graph.cell[f] = graph.cell[home] /\ ~ Primary(f)}
    IN  Both(e) \cup (IF e \in graph.curved THEN WithTwins(beside) ELSE {})

(* A do-while loop: over the boundary of a cell (next) or the star of a      *)
(* vertex (rot_next), and the first test of its body that is still to do.    *)
CellLoop(c) == [at |-> graph.cellEdge[c], start |-> graph.cellEdge[c],
                star |-> FALSE, test |-> 1]
StarLoop(v) == [at |-> graph.vertexEdge[v], start |-> graph.vertexEdge[v],
                star |-> TRUE, test |-> 1]

(* The calls of mark_interior in the body of a loop, in the order of the     *)
(* code: where two primary half-edges of a cell follow each other and have   *)
(* different colours, the outer one turns.                                   *)
CallsAt(loop) ==
    LET e == loop.at
        call(k, f, back) == [test |-> k, edge |-> f, backward |-> back]
        ahead == Primary(e) /\ Primary(Next(e))
        behind == loop.star /\ Primary(e) /\ Primary(Prev(e))
        all == {c \in {call(1, Next(e), FALSE), call(2, e, TRUE)} : ahead}
                 \cup {c \in {call(3, Prev(e), TRUE), call(4, e, FALSE)} : behind}
        other(k) == IF k \in {1, 2} THEN Next(e) ELSE Prev(e)
    IN  {c \in all : /\ c.test >= loop.test
                     /\ IF c.edge = e THEN color[e] # 0 /\ color[other(c.test)] = 0
                                      ELSE color[e] = 0 /\ color[c.edge] # 0}

EnterCell ==
    /\ pass = "cells" /\ stack = <<>>
    /\ stack' = <<CellLoop(it)>>
    /\ UNCHANGED <<graph, color, cellColor, vertexColor, pass, it>>

MarkInterior ==
    /\ stack # <<>>
    /\ \E c \in CallsAt(Head(stack)) :
        LET v == IF c.backward THEN Vertex0(c.edge) ELSE Vertex1(c.edge)
            caller == [Head(stack) EXCEPT !.test = c.test + 1]
        IN  /\ \A d \in CallsAt(Head(stack)) : c.test <= d.test
            /\ color' = Painted(TurnedInside(c.edge), 0)
            /\ vertexColor' = [w \in Vertex |-> IF w = v THEN 0 ELSE vertexColor[w]]
            /\ stack' = (IF v = Null THEN <<>> ELSE <<StarLoop(v)>>)
                            \o <<caller>> \o Tail(stack)
    /\ UNCHANGED <<graph, cellColor, pass, it>>

LoopForever ==                       \* mutant: the return to the start is missed
    LET loop == Head(stack)
        e == IF loop.star THEN RotNext(loop.at) ELSE Next(loop.at)
    IN  /\ stack # <<>> /\ CallsAt(loop) = {}
        /\ stack' = <<[loop EXCEPT !.at = e, !.test = 1]>> \o Tail(stack)
        /\ UNCHANGED <<graph, color, cellColor, vertexColor, pass, it>>

LoopOn ==
    LET loop == Head(stack)
        e == IF loop.star THEN RotNext(loop.at) ELSE Next(loop.at)
    IN  /\ stack # <<>> /\ CallsAt(loop) = {}
        /\ IF e # loop.start
           THEN /\ stack' = <<[loop EXCEPT !.at = e, !.test = 1]>> \o Tail(stack)
                /\ UNCHANGED <<it, pass>>
           ELSE /\ stack' = Tail(stack)
                /\ IF loop.star THEN UNCHANGED <<it, pass>> ELSE Advance(Len(graph.cellEdge))
        /\ UNCHANGED <<graph, color, cellColor, vertexColor>>

-----------------------------------------------------------------------------
(* Three loops over the half-edges that turn what is still wrong. *)

Inside(e) == color[e] = 0

BetweenInside(e) == IF Inside(Next(e)) /\ Inside(Prev(e)) THEN Both(e) ELSE {}

BeyondSecondary(e) ==
    LET hop == Next(e)
        beyond == Next(Twin(hop))
    IN  IF /\ Primary(e) /\ Inside(e) /\ ~ Primary(hop)
           /\ Primary(beyond) /\ color[beyond] = 1
        THEN Both(beyond) \cup Both(hop) ELSE {}

SecondaryBetweenInside(e) ==
    IF /\ ~ Primary(e)
       /\ \A f \in {RotNext(e), RotPrev(e)} : Primary(f) /\ Inside(f)
    THEN Both(e) ELSE {}

TurnOutside(p, edges) ==             \* mutant: the other colour
    /\ pass = p
    /\ color' = Painted(edges, 1)
    /\ Advance(Len(graph.next))
    /\ UNCHANGED <<graph, cellColor, vertexColor, stack>>

Turn(p, edges) ==
    /\ pass = p
    /\ color' = Painted(edges, 0)
    /\ Advance(Len(graph.next))
    /\ UNCHANGED <<graph, cellColor, vertexColor, stack>>

Between == Turn("between", BetweenInside(it))
Beyond == Turn("beyond", BeyondSecondary(it))
Secondary == Turn("secondary", SecondaryBetweenInside(it))

Coloured == pass = "coloured" /\ UNCHANGED colorVars

ColorNext ==
    \/ Exterior \/ Holes
    \/ EnterCell \/ MarkInterior \/ LoopOn
    \/ Between \/ Beyond \/ Secondary
    \/ Coloured

Spec == Init /\ [][ColorNext]_colorVars

FairSpec == Spec /\ WF_colorVars(ColorNext)

-----------------------------------------------------------------------------
(* Properties. *)

(* "Now all edges within the polygon have color() == 0 and all edges outside *)
(* of the polygon or inside holes in the polygon have color() == 1."         *)
ColoursMatchPolygon ==
    pass = "coloured" => {e \in Edge : color[e] = 0} = graph.inside

(* After the guess about holes a half-edge only ever turns inside: this is   *)
(* why mark_interior, which has no other test, does not recur for ever.      *)
OnlyTurnsInside ==
    [][pass \notin {"exterior", "holes"} =>
        \A e \in Edge : color'[e] <= color[e]]_colorVars

(* Every active call of mark_interior has turned a pair of half-edges of its *)
(* own, so the recursion is no deeper than there are pairs.                  *)
RecursionBounded ==
    Len(stack) <= 1 + Len(graph.next) \div 2

(* All loops, and mark_interior, come to their end. *)
ColouringEnds == <>(pass = "coloured")
=============================================================================
