-------------------------- MODULE MedialAxisLink --------------------------
(***************************************************************************)
(* The last part of medial_axis<T>::_build: next and prev are rewritten to *)
(* follow the primary half-edges inside the polygon, and half-edges that   *)
(* have no foot yet get one.                                               *)
(*                                                                         *)
(* Two walks over next do this.  Both mark what they have visited with     *)
(* colour 2, and the loops that follow them turn colour 2 back to 0.  Of a *)
(* foot only its presence is modelled, of a vertex whether it is there: a  *)
(* pointer the code follows without a test may be null, and then stage is  *)
(* "crashed".                                                              *)
(***************************************************************************)
EXTENDS MedialAxisColor, FiniteSetsExt

VARIABLES
    next, prev,     \* the links of the half-edges, rewritten here
    feet,           \* the half-edges whose foot is set
    stage,          \* the part of the code that runs: see Stages
    start, edge,    \* start_edge and edge of a walk
    within          \* history: the half-edges of colour 0 before the walks

markVars == <<graph, cellColor, vertexColor, pass, it, stack>>
linkVars == <<next, prev, feet, stage, start, edge, within>>
colorLinkVars == <<colorVars, linkVars>>

Stages == {"color", "relink", "feet", "placeholders", "linked", "crashed"}

LinkInit ==
    /\ Init
    /\ next = graph.next /\ prev = graph.prev
    /\ feet = graph.feet
    /\ stage = "color" /\ start = Null /\ edge = Null
    /\ within = {}

-----------------------------------------------------------------------------
(* Where walks begin and end. *)

InPointCell(e) == graph.cell[e] \in graph.points
Curved(e) == e \in graph.curved
Visited(e) == [color EXCEPT ![e] = 2]

(* Primary half-edges that no walk has marked, and the first of them in the  *)
(* order of the container.                                                   *)
Unvisited(colors) == {e \in graph.primary : colors[e] = 0}
First(edges) == IF edges = {} THEN Null ELSE Min(edges)

RestoredAll(colors) == [e \in Edge |-> 0]     \* mutant: every colour is reset
Restored(colors) == [e \in Edge |-> IF colors[e] = 2 THEN 0 ELSE colors[e]]

(* Without a half-edge to begin at there is nothing to walk. *)
Begin(s, e, colors) ==
    /\ start' = e /\ edge' = e /\ color' = colors
    /\ stage' = IF e # Null THEN s ELSE "placeholders"

(* The first walk begins in a cell of the first segment of the input.        *)
StartRelink ==
    LET first == First({e \in Unvisited(color) : graph.cell[e] \in graph.first})
    IN  /\ pass = "coloured" /\ stage = "color"
        /\ within' = {e \in Edge : color[e] = 0}
        /\ IF first # Null THEN Begin("relink", first, color)
                           ELSE Begin("feet", First(Unvisited(color)), color)
        /\ UNCHANGED <<markVars, next, prev, feet>>

GoToOnce(e, colors, after) ==        \* mutant: no further walks
    IF e # start /\ colors[e] # 2
    THEN edge' = e /\ color' = colors /\ UNCHANGED <<start, stage>>
    ELSE Begin(after, First(Unvisited(Restored(colors))), Restored(colors))

(* The walk has come to half-edge e and goes on, unless e is its start or    *)
(* has been visited: then another walk begins at an unvisited half-edge, or  *)
(* there is none, the colours are restored and the next stage begins.        *)
GoTo(e, colors, after) ==
    IF e # start /\ colors[e] # 2
    THEN edge' = e /\ color' = colors /\ UNCHANGED <<start, stage>>
    ELSE IF Unvisited(colors) # {} THEN Begin(stage, First(Unvisited(colors)), colors)
    ELSE Begin(after, First(Unvisited(Restored(colors))), Restored(colors))

Crash ==
    /\ stage' = "crashed"
    /\ UNCHANGED <<color, next, prev, feet, start, edge>>

-----------------------------------------------------------------------------
(* "Walk the edge references and modify to represent medial axis": in each   *)
(* action e is the half-edge the walk has reached and n the one after it.    *)

IsInside(e) == Visited(edge)[e] \in {0, 2}

FollowPrimary ==
    LET e == edge  n == next[edge]
    IN  /\ stage = "relink" /\ IsInside(n) /\ Primary(n)
        /\ GoTo(n, Visited(e), "feet")
        /\ UNCHANGED <<markVars, next, prev, feet, within>>

(* The end of a secondary half-edge is on the polygon.  It is the foot of    *)
(* the half-edge beyond, and mirrored the foot of the twin of e: in a line,  *)
(* or for a curved twin in the vertex before it or in the line beyond.       *)
HasFootToMirror(e, n) == Finite(e) /\ Vertex1(n) # Null

MirrorFails(e, n, beyond) ==
    /\ HasFootToMirror(e, n) /\ Curved(Twin(e))
    /\ IF Primary(prev[Twin(e)]) THEN ~ Curved(beyond) /\ ~ Finite(beyond)
                                 ELSE Vertex0(prev[Twin(e)]) = Null

MirroredFeet(e, n, beyond) ==
    LET unreflected == Curved(Twin(e)) /\ Primary(prev[Twin(e)]) /\ Curved(beyond)
    IN  IF ~ HasFootToMirror(e, n) THEN {}
        ELSE {beyond} \cup (IF unreflected THEN {} ELSE {Twin(e)})

(* A secondary half-edge is cut out and linked to its twin. *)
SkipSecondaryOneWay ==               \* mutant: prev of what is cut out stays
    LET e == edge  n == next[edge]  beyond == next[Twin(next[edge])]
    IN  /\ stage = "relink" /\ IsInside(n) /\ ~ Primary(n)
        /\ feet' = feet \cup MirroredFeet(e, n, beyond)
        /\ next' = [next EXCEPT ![Twin(n)] = n, ![e] = beyond]
        /\ prev' = [prev EXCEPT ![beyond] = e]
        /\ GoTo(beyond, Visited(e), "feet")
        /\ UNCHANGED <<markVars, within>>

SkipSecondary ==
    LET e == edge  n == next[edge]  beyond == next[Twin(next[edge])]
    IN  /\ stage = "relink" /\ IsInside(n) /\ ~ Primary(n)
        /\ IF MirrorFails(e, n, beyond) THEN Crash
           ELSE /\ feet' = feet \cup MirroredFeet(e, n, beyond)
                /\ next' = [next EXCEPT ![Twin(n)] = n, ![e] = beyond]
                /\ prev' = [prev EXCEPT ![n] = Twin(n), ![beyond] = e]
                /\ GoTo(beyond, Visited(e), "feet")
        /\ UNCHANGED <<markVars, within>>

(* "corner - end touches polygon, so turn around": what lies ahead is linked *)
(* past e and its twin.                                                      *)
TurnAround ==
    LET e == edge  n == next[edge]  behind == prev[Twin(edge)]
    IN  /\ stage = "relink" /\ ~ IsInside(n)
        /\ prev' = [prev EXCEPT ![n] = behind, ![Twin(e)] = e]
        /\ next' = [next EXCEPT ![behind] = n, ![e] = Twin(e)]
        /\ GoTo(Twin(e), Visited(e), "feet")
        /\ UNCHANGED <<markVars, feet, within>>

-----------------------------------------------------------------------------
(* "add some missing feet": a half-edge takes its foot from the next one; if *)
(* the previous one now could do the same, the walk backs up two half-edges  *)
(* and clears their colours.                                                 *)

TakesFootOnceMarked(e) ==            \* mutant: after the mark
    e \notin feet /\ next[e] \in feet /\ color[e] = 2 /\ Primary(e)
TakesFoot(e) == e \notin feet /\ next[e] \in feet /\ color[e] = 0 /\ Primary(e)

FootFails(e) == ~ InPointCell(e) /\ Null \in {Vertex0(e), Vertex0(next[e])}

BacksUp(p) ==
    /\ p \notin feet /\ Primary(p) /\ color[p] \in {0, 2}
    /\ ~ Curved(p) \/ InPointCell(p)

(* The half-edge from which the walk goes on. *)
BackTo(e) == IF TakesFoot(e) /\ BacksUp(prev[e]) THEN prev[prev[e]] ELSE e

FindFeet ==
    /\ stage = "feet"
    /\ IF TakesFoot(edge) /\ FootFails(edge) THEN Crash
       ELSE \E last \in {BackTo(edge)} :
         /\ feet' = IF TakesFoot(edge) THEN feet \cup {edge} ELSE feet
         /\ GoTo(next[last],
                 [color EXCEPT ![prev[edge]] = IF last = edge THEN @ ELSE 0, ![last] = 2],
                 "placeholders")
    /\ UNCHANGED <<markVars, next, prev, within>>

(* "put in placeholders for missing feet ... so we can still get some kind   *)
(* of output without a segfault": the report before reads both vertices.     *)
FootlessAnywhere == graph.primary \ feet    \* mutant: the colour is not tested
Footless == {e \in graph.primary : color[e] = 0 /\ e \notin feet}

PutPlaceholders ==
    /\ stage = "placeholders"
    /\ IF \E e \in Footless : ~ Finite(e) THEN Crash
       ELSE /\ feet' = feet \cup Footless /\ stage' = "linked"
            /\ UNCHANGED <<color, next, prev, start, edge>>
    /\ UNCHANGED <<markVars, within>>

-----------------------------------------------------------------------------
Colouring == pass # "coloured" /\ ColorNext /\ UNCHANGED linkVars

LinkStep ==
    \/ StartRelink
    \/ FollowPrimary \/ SkipSecondary \/ TurnAround
    \/ FindFeet \/ PutPlaceholders

LinkNext == Colouring \/ LinkStep

LinkSpec == LinkInit /\ [][LinkNext]_colorLinkVars

-----------------------------------------------------------------------------
(* Properties. *)

(* What the proofs need of where the half-edges inside lie: a half-edge lies *)
(* on the same side as its twin and ends at two vertices; the axis goes on   *)
(* at once, or beyond one secondary half-edge, or it ends where nothing else *)
(* inside begins; some of it bounds a first cell.                            *)
Regular(g) ==
    LET axis == g.inside \cap g.primary
        Goes(e, n) == n \in axis \/ (n \in g.inside /\ g.next[Twin(n)] \in axis)
        Ends(e, n) == /\ n \notin g.inside
                      /\ \A f \in g.inside : g.vertex0[f] = g.vertex0[Twin(e)] => f = Twin(e)
    IN  /\ \A e \in g.inside : Twin(e) \in g.inside /\ g.vertex0[e] # Null
        /\ \A e \in axis : Goes(e, g.next[e]) \/ Ends(e, g.next[e])
        /\ axis # {} => \E e \in axis : g.cell[e] \in g.first

(* However often the walks rewrite links, next and prev stay inverse to each *)
(* other: next remains a permutation of the half-edges, so that whoever      *)
(* follows it comes back to where he began.                                  *)
LinksStayInverse == \A e \in Edge : prev[next[e]] = e /\ next[prev[e]] = e

(* The medial axis: primary half-edges inside the polygon.  After one of     *)
(* them comes the first of them around its end.                              *)
Axis == within \cap graph.primary

(* rot_prev k times from the half-edge after e in the complete diagram.      *)
Turns(e) ==
    LET turned[k \in 0..Len(graph.next)] ==
            IF k = 0 THEN Next(e) ELSE RotPrev(turned[k - 1])
    IN  turned

Around(e) == Turns(e)[Min({k \in 0..Len(graph.next) : Turns(e)[k] \in Axis})]

LinksFollowAxis ==
    stage \in {"feet", "placeholders", "linked"} => \A e \in Axis : next[e] = Around(e)

(* "Restore color() == 0 for internal edges": colour 2 has been a mark, and  *)
(* no half-edge has changed sides.                                           *)
InsideKept == stage = "linked" => {e \in Edge : color[e] = 0} = within

(* The search finds every missing foot, so that the feet put at (0, 0)       *)
(* "in some rediculous location" are never needed.                           *)
AllFeetFound == stage = "placeholders" => Footless = {}
=============================================================================
