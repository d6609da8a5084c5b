------------------------ MODULE Voronoi2PerlProofs ------------------------
(***************************************************************************)
(* Proofs about MedialAxisColor, MedialAxisLink and Voronoi2Perl, of which *)
(* each extends the one before it.                                         *)
(*                                                                         *)
(* For any complete diagrams: once the holes have been guessed half-edges  *)
(* only turn inside, the recursion of mark_interior is no deeper than      *)
(* there are pairs of half-edges, and next and prev stay inverse to each   *)
(* other.  For regular diagrams whose colours are right when the walks     *)
(* begin: the links follow the medial axis, the marks of the walks are     *)
(* taken back without a trace, the arrays of the export are the medial     *)
(* axis, each half-edge and each vertex once, and their references are     *)
(* mutual.                                                                 *)
(***************************************************************************)
EXTENDS Voronoi2Perl, NaturalsLemmas, SequenceTheorems

-----------------------------------------------------------------------------
(* The colours.                                                             *)

(* What the pointers of a diagram are, in the arithmetic of the provers.     *)
LEMMA DiagramFacts ==
    ASSUME NEW g \in Diagrams
    PROVE  /\ Len(g.next) \in Nat \ {0} /\ Len(g.next) % 2 = 0
           /\ EdgesOf(g) = 1..Len(g.next)
           /\ g.next \in [EdgesOf(g) -> EdgesOf(g)]
           /\ g.prev \in [EdgesOf(g) -> EdgesOf(g)]
           /\ Len(g.cellEdge) \in Nat \ {0} /\ DOMAIN g.cellEdge = 1..Len(g.cellEdge)
           /\ g.cellEdge \in [DOMAIN g.cellEdge -> EdgesOf(g)]
           /\ g.vertexEdge \in [DOMAIN g.vertexEdge -> EdgesOf(g)]
           /\ g.vertex0 \in [EdgesOf(g) -> {Null} \cup DOMAIN g.vertexEdge]
           /\ Null \notin DOMAIN g.vertexEdge
<1>1. PointersInRange(g)
  BY DiagramAssumption DEF DiagramAssumption
<1>2. g.next \in Seq(EdgesOf(g)) /\ g.next # <<>>
  BY <1>1 DEF PointersInRange
<1>3. EdgesOf(g) = 1..Len(g.next) /\ Len(g.next) \in Nat \ {0}
  BY <1>2, EmptySeq, LenProperties DEF EdgesOf
<1>4. g.next \in [EdgesOf(g) -> EdgesOf(g)]
  BY <1>2, <1>3, LenProperties
<1>5. /\ DOMAIN g.cellEdge = 1..Len(g.cellEdge) /\ Len(g.cellEdge) \in Nat
      /\ g.cellEdge \in [DOMAIN g.cellEdge -> EdgesOf(g)]
  BY <1>1, LenProperties DEF PointersInRange
<1>6. Len(g.cellEdge) # 0
  <2>1. g.cell \in [EdgesOf(g) -> DOMAIN g.cellEdge] /\ 1 \in EdgesOf(g)
    BY <1>1, <1>3 DEF PointersInRange
  <2>2. g.cell[1] \in DOMAIN g.cellEdge
    BY <2>1
  <2>3. g.cell[1] \in 1..Len(g.cellEdge)
    BY <2>2, <1>5
  <2> QED BY <2>3, <1>5
<1>7. /\ DOMAIN g.vertexEdge = 1..Len(g.vertexEdge) /\ Len(g.vertexEdge) \in Nat
      /\ g.vertexEdge \in [DOMAIN g.vertexEdge -> EdgesOf(g)]
  BY <1>1, LenProperties DEF PointersInRange
<1>8. /\ g.prev \in [EdgesOf(g) -> EdgesOf(g)] /\ Len(g.next) % 2 = 0
      /\ g.vertex0 \in [EdgesOf(g) -> {Null} \cup DOMAIN g.vertexEdge]
  BY <1>1 DEF PointersInRange
<1>9. Null \notin DOMAIN g.vertexEdge
  BY <1>7 DEF Null
<1>10. Len(g.cellEdge) \in Nat \ {0}
  BY <1>5, <1>6
<1> QED BY <1>3, <1>4, <1>5, <1>7, <1>8, <1>9, <1>10

(* Twins pair off the half-edges. *)
LEMMA Pairing ==
    ASSUME NEW n \in Nat, n % 2 = 0, NEW e \in 1..n
    PROVE  Twin(e) \in 1..n /\ Twin(e) # e /\ Twin(Twin(e)) = e
<1>1. CASE e % 2 = 1
  <2>1. e + 1 \in 1..n /\ (e + 1) % 2 = 0
    BY <1>1
  <2> QED BY <1>1, <2>1 DEF Twin
<1>2. CASE e % 2 = 0
  <2>1. e - 1 \in 1..n /\ (e - 1) % 2 = 1
    BY <1>2
  <2> QED BY <1>2, <2>1 DEF Twin
<1> QED BY <1>1, <1>2

LEMMA PairNumbers ==
    ASSUME NEW n \in Nat, n % 2 = 0
    PROVE  /\ n \div 2 \in Nat
           /\ \A k \in 1..(n \div 2) : 2 * k - 1 \in 1..n /\ 2 * k \in 1..n
           /\ \A e \in 1..n : \E k \in 1..(n \div 2) :
                {2 * k - 1, 2 * k} = {e, Twin(e)}
<1>1. n \div 2 \in Nat /\ n = 2 * (n \div 2)
  OBVIOUS
<1>2. \A k \in 1..(n \div 2) : 2 * k - 1 \in 1..n /\ 2 * k \in 1..n
  BY <1>1
<1>3. ASSUME NEW e \in 1..n, e % 2 = 1
      PROVE  \E k \in 1..(n \div 2) : 2 * k - 1 = e /\ 2 * k = Twin(e)
  <2>1. PICK k \in Int : 2 * k = e + 1
    <3>1. (e + 1) \div 2 \in Int /\ 2 * ((e + 1) \div 2) = e + 1
      BY <1>3
    <3> QED BY <3>1
  <2>2. k \in 1..(n \div 2)
    BY <1>1, <2>1
  <2> QED BY <1>3, <2>1, <2>2 DEF Twin
<1>4. ASSUME NEW e \in 1..n, e % 2 = 0
      PROVE  \E k \in 1..(n \div 2) : 2 * k - 1 = Twin(e) /\ 2 * k = e
  <2>1. PICK k \in Int : 2 * k = e
    <3>1. e \div 2 \in Int /\ 2 * (e \div 2) = e
      BY <1>4
    <3> QED BY <3>1
  <2>2. k \in 1..(n \div 2)
    BY <1>1, <2>1
  <2> QED BY <1>4, <2>1, <2>2 DEF Twin
<1>5. \A e \in 1..n : e % 2 \in {0, 1}
  OBVIOUS
<1> QED BY <1>1, <1>2, <1>3, <1>4, <1>5

LEMMA TwinFacts ==
    ASSUME NEW g \in Diagrams, NEW e \in EdgesOf(g)
    PROVE  Twin(e) \in EdgesOf(g) /\ Twin(e) # e /\ Twin(Twin(e)) = e
<1>1. Len(g.next) \in Nat /\ Len(g.next) % 2 = 0 /\ EdgesOf(g) = 1..Len(g.next)
  BY DiagramFacts
<1> QED BY <1>1, Pairing

-----------------------------------------------------------------------------
(* Types, and the shape of the call stack: one loop over a cell, and above   *)
(* it the loops over stars.                                                  *)

EdgePasses == {"exterior", "holes", "between", "beyond", "secondary"}
Loop == [at : Edge, start : Edge, star : BOOLEAN, test : Nat]

PassTypeOK ==
    /\ pass \in EdgePasses \cup {"cells", "coloured"}
    /\ it \in Nat
    /\ pass \in EdgePasses => it \in Edge
    /\ pass = "cells" => it \in DOMAIN graph.cellEdge

ColorTypeOK ==
    /\ graph \in Diagrams
    /\ color \in [Edge -> {0, 1}]
    /\ PassTypeOK
    /\ stack \in Seq(Loop)

StackShape ==
    /\ stack # <<>> => pass = "cells"
    /\ \A k \in 1..Len(stack) : stack[k].star <=> k < Len(stack)

LEMMA PassAfterFacts ==
    /\ PassAfter("exterior") = "holes" /\ PassAfter("holes") = "cells"
    /\ PassAfter("cells") = "between" /\ PassAfter("between") = "beyond"
    /\ PassAfter("beyond") = "secondary" /\ PassAfter("secondary") = "coloured"
<1>1. DOMAIN Passes = 1..7
  BY DEF Passes
<1>2. /\ Passes[1] = "exterior" /\ Passes[2] = "holes" /\ Passes[3] = "cells"
      /\ Passes[4] = "between" /\ Passes[5] = "beyond" /\ Passes[6] = "secondary"
      /\ Passes[7] = "coloured"
  BY DEF Passes
<1>3. ASSUME NEW n \in 1..7
      PROVE  (CHOOSE k \in DOMAIN Passes : Passes[k] = Passes[n]) = n
  <2>1. \A k \in 1..7 : Passes[k] = Passes[n] => k = n
    BY <1>2
  <2> DEFINE c == CHOOSE k \in DOMAIN Passes : Passes[k] = Passes[n]
  <2>2. c \in 1..7 /\ Passes[c] = Passes[n]
    BY <1>1
  <2> QED BY <2>1, <2>2
<1>4. ASSUME NEW n \in 1..6 PROVE PassAfter(Passes[n]) = Passes[1 + n]
  <2>1. (CHOOSE k \in DOMAIN Passes : Passes[k] = Passes[n]) = n
    BY <1>3
  <2> QED BY <2>1 DEF PassAfter
<1>5. /\ PassAfter(Passes[1]) = Passes[2] /\ PassAfter(Passes[2]) = Passes[3]
      /\ PassAfter(Passes[3]) = Passes[4] /\ PassAfter(Passes[4]) = Passes[5]
      /\ PassAfter(Passes[5]) = Passes[6] /\ PassAfter(Passes[6]) = Passes[7]
  BY <1>4
<1> QED BY <1>2, <1>5

LEMMA GraphFacts ==
    ASSUME graph \in Diagrams
    PROVE  /\ Len(graph.next) \in Nat \ {0} /\ Len(graph.next) % 2 = 0
           /\ Edge = 1..Len(graph.next)
           /\ Len(graph.cellEdge) \in Nat \ {0}
           /\ DOMAIN graph.cellEdge = 1..Len(graph.cellEdge)
           /\ \A c \in DOMAIN graph.cellEdge : graph.cellEdge[c] \in Edge
           /\ \A e \in Edge :
                /\ Next(e) \in Edge /\ Prev(e) \in Edge /\ Twin(e) \in Edge
                /\ Twin(e) # e /\ Twin(Twin(e)) = e
                /\ Vertex0(e) # Null => graph.vertexEdge[Vertex0(e)] \in Edge
  BY DiagramFacts, TwinFacts DEF Edge, Next, Prev, Vertex0

(* Every loop of _build begins at the first element of its container.        *)
LEMMA EdgePassGoesOn ==
    ASSUME graph \in Diagrams, PassTypeOK, pass \in EdgePasses,
           Advance(Len(graph.next)), UNCHANGED graph
    PROVE  PassTypeOK' /\ pass' \notin {"exterior"} \ {pass}
<1>1. CASE it < Len(graph.next)
  BY <1>1, GraphFacts DEF Advance, PassTypeOK, EdgePasses, Edge
<1>2. CASE ~ (it < Len(graph.next))
  <2>1. it' = 1 /\ pass' = PassAfter(pass)
    BY <1>2 DEF Advance
  <2>2. pass' \in {"holes", "cells", "beyond", "secondary", "coloured"}
    BY <2>1, PassAfterFacts DEF EdgePasses
  <2>3. 1 \in Edge' /\ 1 \in DOMAIN graph'.cellEdge
    BY GraphFacts DEF Edge
  <2> QED BY <2>1, <2>2, <2>3 DEF PassTypeOK, EdgePasses
<1> QED BY <1>1, <1>2

LEMMA CellPassGoesOn ==
    ASSUME graph \in Diagrams, PassTypeOK, pass = "cells",
           Advance(Len(graph.cellEdge)), UNCHANGED graph
    PROVE  PassTypeOK' /\ pass' \in {"cells", "between"}
<1>1. CASE it < Len(graph.cellEdge)
  BY <1>1, GraphFacts DEF Advance, PassTypeOK, EdgePasses, Edge
<1>2. CASE ~ (it < Len(graph.cellEdge))
  <2>1. it' = 1 /\ pass' = "between"
    BY <1>2, PassAfterFacts DEF Advance
  <2>2. 1 \in Edge'
    BY GraphFacts DEF Edge
  <2> QED BY <2>1, <2>2 DEF PassTypeOK, EdgePasses
<1> QED BY <1>1, <1>2

LEMMA PaintedTyped ==
    ASSUME NEW edges, NEW c \in {0, 1}, color \in [Edge -> {0, 1}]
    PROVE  Painted(edges, c) \in [Edge -> {0, 1}]
  BY DEF Painted

-----------------------------------------------------------------------------
(* Every call of mark_interior on the stack has turned a pair of half-edges  *)
(* that had been outside.                                                    *)

PairsInside ==
    {k \in 1..(Len(graph.next) \div 2) : color[2 * k - 1] = 0 /\ color[2 * k] = 0}

StackPaidFor == Len(stack) <= 1 + Cardinality(PairsInside)

ColorInv == ColorTypeOK /\ StackShape /\ StackPaidFor

LEMMA PairsFinite ==
    ASSUME graph \in Diagrams
    PROVE  /\ IsFiniteSet(PairsInside)
           /\ Cardinality(PairsInside) \in Nat
           /\ Cardinality(PairsInside) <= Len(graph.next) \div 2
<1> DEFINE h == Len(graph.next) \div 2
<1>1. h \in Nat
  BY GraphFacts, PairNumbers
<1>2. IsFiniteSet(1..h) /\ Cardinality(1..h) = h
  BY <1>1, UpTo
<1>3. PairsInside \in SUBSET (1..h)
  BY DEF PairsInside
<1> QED BY <1>2, <1>3, FS_Subset, FS_CardinalityType

(* Turning half-edges inside keeps the pairs, and a call that turns both     *)
(* halves of a pair adds it.                                                 *)
LEMMA TurningKeepsPairs ==
    ASSUME graph \in Diagrams, color \in [Edge -> {0, 1}],
           NEW edges, color' = Painted(edges, 0), UNCHANGED graph
    PROVE  PairsInside \subseteq PairsInside'
<1>1. \A k \in 1..(Len(graph.next) \div 2) : 2 * k - 1 \in Edge /\ 2 * k \in Edge
  BY GraphFacts, PairNumbers
<1> QED BY <1>1 DEF PairsInside, Painted

LEMMA TurningAddsPair ==
    ASSUME graph \in Diagrams, color \in [Edge -> {0, 1}],
           NEW edges, color' = Painted(edges, 0), UNCHANGED graph,
           NEW e \in Edge, color[e] # 0, Both(e) \subseteq edges
    PROVE  Cardinality(PairsInside') >= Cardinality(PairsInside) + 1
<1>1. PICK k \in 1..(Len(graph.next) \div 2) : {2 * k - 1, 2 * k} = {e, Twin(e)}
  BY GraphFacts, PairNumbers
<1>2. k \notin PairsInside
  BY <1>1 DEF PairsInside
<1>3. k \in PairsInside'
  <2>1. color'[e] = 0 /\ color'[Twin(e)] = 0
    BY GraphFacts DEF Painted, Both
  <2> QED BY <1>1, <2>1 DEF PairsInside
<1>4. PairsInside \cup {k} \subseteq PairsInside'
  BY <1>3, TurningKeepsPairs
<1>5. Cardinality(PairsInside \cup {k}) = Cardinality(PairsInside) + 1
  BY <1>2, PairsFinite, FS_AddElement
<1>6. IsFiniteSet(PairsInside')
  <2>1. PairsInside' \in SUBSET (1..(Len(graph.next) \div 2))
    BY DEF PairsInside
  <2>2. IsFiniteSet(1..(Len(graph.next) \div 2))
    BY GraphFacts, PairNumbers, UpTo
  <2> QED BY <2>1, <2>2, FS_Subset
<1>7. /\ Cardinality(PairsInside \cup {k}) <= Cardinality(PairsInside')
      /\ Cardinality(PairsInside') \in Nat
  BY <1>4, <1>6, FS_Subset, FS_CardinalityType
<1> QED BY <1>5, <1>7, PairsFinite

-----------------------------------------------------------------------------
(* The call stack. *)

LEMMA PushedSeq ==
    ASSUME NEW S, NEW s \in Seq(S), NEW x \in S
    PROVE  /\ <<x>> \o s \in Seq(S) /\ Len(<<x>> \o s) = Len(s) + 1
           /\ (<<x>> \o s)[1] = x
           /\ \A k \in 2..(Len(s) + 1) : (<<x>> \o s)[k] = s[k - 1]
  BY ConcatProperties, LenProperties

LEMMA ReplacedHead ==
    ASSUME NEW S, NEW s \in Seq(S), s # <<>>, NEW x \in S
    PROVE  /\ <<x>> \o Tail(s) \in Seq(S) /\ Len(<<x>> \o Tail(s)) = Len(s)
           /\ (<<x>> \o Tail(s))[1] = x
           /\ \A k \in 2..Len(s) : (<<x>> \o Tail(s))[k] = s[k]
<1>1. /\ Len(s) \in Nat /\ Len(s) >= 1
      /\ Tail(s) \in Seq(S) /\ Len(Tail(s)) = Len(s) - 1
      /\ \A k \in 1..(Len(s) - 1) : Tail(s)[k] = s[k + 1]
  BY HeadTailProperties, LenProperties, EmptySeq
<1>2. \A k \in 2..Len(s) : (<<x>> \o Tail(s))[k] = Tail(s)[k - 1]
  BY <1>1, PushedSeq
<1>3. \A k \in 2..Len(s) : Tail(s)[k - 1] = s[k]
  BY <1>1
<1> QED BY <1>1, <1>2, <1>3, PushedSeq

LEMMA HeadFacts ==
    ASSUME ColorTypeOK, stack # <<>>
    PROVE  /\ Head(stack) = stack[1] /\ Head(stack) \in Loop
           /\ Len(stack) \in Nat /\ Len(stack) >= 1
  BY HeadTailProperties, LenProperties, EmptySeq DEF ColorTypeOK

LEMMA LoopTyped ==
    ASSUME graph \in Diagrams
    PROVE  /\ \A e \in Edge : Vertex0(e) # Null => StarLoop(Vertex0(e)) \in Loop
           /\ \A c \in DOMAIN graph.cellEdge : CellLoop(c) \in Loop
           /\ \A v : StarLoop(v).star /\ ~ CellLoop(v).star
  BY GraphFacts DEF StarLoop, CellLoop, Loop

(* A call of mark_interior is made for a half-edge that is outside. *)
LEMMA CallFacts ==
    ASSUME graph \in Diagrams, NEW loop \in Loop, NEW c \in CallsAt(loop)
    PROVE  c.edge \in Edge /\ color[c.edge] # 0 /\ c.test \in Nat
<1>1. loop.at \in Edge /\ Next(loop.at) \in Edge /\ Prev(loop.at) \in Edge
  BY GraphFacts DEF Loop
<1>2. c.edge \in Edge /\ c.test \in Nat
  BY <1>1 DEF CallsAt
<1>3. color[c.edge] # 0
  BY DEF CallsAt
<1> QED BY <1>2, <1>3

-----------------------------------------------------------------------------
(* ColorInv is inductive. *)

(* Outside of the loop over the cells there is no stack to speak of. *)
LEMMA EmptyStackKeepsInv ==
    ASSUME ColorInv, stack = <<>>, UNCHANGED <<graph, stack>>,
           color' \in [Edge -> {0, 1}], PassTypeOK'
    PROVE  ColorInv'
<1>1. graph' \in Diagrams /\ Edge' = Edge /\ stack' = <<>>
  BY DEF ColorInv, ColorTypeOK, Edge, EdgesOf
<1>2. ColorTypeOK'
  BY <1>1, EmptySeq DEF ColorTypeOK
<1>3. StackShape'
  BY <1>1, EmptySeq DEF StackShape
<1>4. Cardinality(PairsInside') \in Nat
  <2>1. Len(graph.next) \div 2 \in Nat
    BY GraphFacts, PairNumbers DEF ColorInv, ColorTypeOK
  <2>2. PairsInside' \in SUBSET (1..(Len(graph.next) \div 2))
    BY DEF PairsInside
  <2> QED BY <2>1, <2>2, CountSubset
<1>5. StackPaidFor'
  BY <1>1, <1>4, EmptySeq DEF StackPaidFor
<1> QED BY <1>2, <1>3, <1>5 DEF ColorInv

LEMMA InitColorInv == Init => ColorInv
<1> SUFFICES ASSUME Init PROVE ColorInv
  OBVIOUS
<1>1. graph \in Diagrams /\ color \in [Edge -> {0, 1}] /\ stack = <<>>
  BY DEF Init, Edge
<1>2. PassTypeOK
  BY <1>1, GraphFacts DEF Init, PassTypeOK, EdgePasses
<1>3. ColorTypeOK /\ StackShape
  BY <1>1, <1>2, EmptySeq DEF ColorTypeOK, StackShape
<1>4. StackPaidFor
  BY <1>1, EmptySeq, PairsFinite DEF StackPaidFor
<1> QED BY <1>3, <1>4 DEF ColorInv

LEMMA EdgePassKeepsInv ==
    ASSUME ColorInv, pass \in EdgePasses, NEW edges, NEW c \in {0, 1},
           color' = Painted(edges, c) \/ UNCHANGED color,
           Advance(Len(graph.next)), UNCHANGED <<graph, stack>>
    PROVE  ColorInv'
<1>1. graph \in Diagrams /\ PassTypeOK /\ color \in [Edge -> {0, 1}] /\ stack = <<>>
  BY DEF ColorInv, ColorTypeOK, StackShape, EdgePasses
<1>2. color' \in [Edge -> {0, 1}]
  BY <1>1, PaintedTyped
<1> QED BY <1>1, <1>2, EdgePassGoesOn, EmptyStackKeepsInv

LEMMA ExteriorKeepsInv == ColorInv /\ Exterior => ColorInv'
<1> SUFFICES ASSUME ColorInv, Exterior PROVE ColorInv'
  OBVIOUS
<1>1. \E edges : color' = Painted(edges, 1) \/ UNCHANGED color
  BY DEF Exterior
<1>2. pass \in EdgePasses /\ Advance(Len(graph.next)) /\ UNCHANGED <<graph, stack>>
  BY DEF Exterior, EdgePasses
<1> QED BY <1>1, <1>2, EdgePassKeepsInv

LEMMA HolesKeepsInv == ColorInv /\ Holes => ColorInv'
<1> SUFFICES ASSUME ColorInv, Holes PROVE ColorInv'
  OBVIOUS
<1>1. color' = Painted({it}, 1) \/ UNCHANGED color
  BY DEF Holes
<1>2. pass \in EdgePasses /\ Advance(Len(graph.next)) /\ UNCHANGED <<graph, stack>>
  BY DEF Holes, EdgePasses
<1> QED BY <1>1, <1>2, EdgePassKeepsInv

LEMMA TurnKeepsInv ==
    ASSUME ColorInv, NEW p \in EdgePasses, NEW edges, Turn(p, edges)
    PROVE  ColorInv'
<1>1. pass \in EdgePasses /\ Advance(Len(graph.next)) /\ UNCHANGED <<graph, stack>>
  BY DEF Turn
<1>2. color' = Painted(edges, 0)
  BY DEF Turn
<1> QED BY <1>1, <1>2, EdgePassKeepsInv

LEMMA EnterCellKeepsInv == ColorInv /\ EnterCell => ColorInv'
<1> SUFFICES ASSUME ColorInv, EnterCell PROVE ColorInv'
  OBVIOUS
<1>1. /\ UNCHANGED <<graph, color, pass, it>> /\ pass = "cells"
      /\ stack' = <<CellLoop(it)>>
  BY DEF EnterCell
<1>2. graph \in Diagrams /\ Edge' = Edge /\ Loop' = Loop /\ PassTypeOK' /\ CellLoop(it) \in Loop
  BY <1>1, LoopTyped DEF ColorInv, ColorTypeOK, PassTypeOK, Edge, Loop
<1>3. stack' \in Seq(Loop) /\ Len(stack') = 1 /\ stack'[1] = CellLoop(it)
  BY <1>1, <1>2
<1>4. ColorTypeOK'
  BY <1>1, <1>2, <1>3 DEF ColorInv, ColorTypeOK
<1>5. StackShape'
  BY <1>1, <1>3, LoopTyped, <1>2 DEF StackShape
<1>6. StackPaidFor'
  <2>1. PairsInside' = PairsInside
    BY <1>1 DEF PairsInside
  <2> QED BY <2>1, <1>2, <1>3, PairsFinite DEF StackPaidFor
<1> QED BY <1>4, <1>5, <1>6 DEF ColorInv

(* A call pushes the star of the vertex it is made for, if there is one.     *)
LEMMA CalledStack ==
    ASSUME ColorInv, stack # <<>>, NEW caller \in Loop,
           caller.star = Head(stack).star, NEW v, v # Null => StarLoop(v) \in Loop,
           stack' = (IF v = Null THEN <<>> ELSE <<StarLoop(v)>>) \o <<caller>> \o Tail(stack),
           UNCHANGED <<graph, pass>>
    PROVE  stack' \in Seq(Loop) /\ StackShape' /\ Len(stack') <= Len(stack) + 1
<1> DEFINE below == <<caller>> \o Tail(stack)
<1>1. stack \in Seq(Loop) /\ pass = "cells" /\ graph \in Diagrams
  BY DEF ColorInv, ColorTypeOK, StackShape
<1>2. /\ below \in Seq(Loop) /\ Len(below) = Len(stack) /\ below[1] = caller
      /\ \A k \in 2..Len(stack) : below[k] = stack[k]
  BY <1>1, ReplacedHead
<1>3. /\ Len(stack) \in Nat /\ Len(stack) >= 1 /\ Head(stack) = stack[1]
      /\ \A k \in 1..Len(stack) : stack[k].star <=> k < Len(stack)
  BY HeadFacts DEF ColorInv, StackShape
<1>4. \A k \in 1..Len(below) : below[k].star <=> k < Len(below)
  <2> SUFFICES ASSUME NEW k \in 1..Len(below) PROVE below[k].star <=> k < Len(below)
    OBVIOUS
  <2>1. CASE k = 1
    BY <2>1, <1>2, <1>3
  <2>2. CASE k # 1
    <3>1. k \in 2..Len(stack) /\ below[k] = stack[k]
      BY <2>2, <1>2, <1>3
    <3> QED BY <3>1, <1>2, <1>3
  <2> QED BY <2>1, <2>2
<1> HIDE DEF below
<1>5. CASE v = Null
  <2>1. stack' = below
    <3>1. <<>> \o <<caller>> = <<caller>>
      BY ConcatEmptySeq
    <3> QED BY <1>5, <3>1 DEF below
  <2> QED BY <2>1, <1>1, <1>2, <1>3, <1>4 DEF StackShape
<1>6. CASE v # Null
  <2>1. stack' = <<StarLoop(v)>> \o below
    <3>1. /\ <<StarLoop(v)>> \in Seq(Loop) /\ <<caller>> \in Seq(Loop)
          /\ Tail(stack) \in Seq(Loop)
      BY <1>1, <1>6, HeadTailProperties
    <3> QED BY <1>6, <3>1, ConcatAssociative DEF below
  <2>2. /\ stack' \in Seq(Loop) /\ Len(stack') = Len(stack) + 1
        /\ stack'[1] = StarLoop(v)
        /\ \A k \in 2..(Len(stack) + 1) : stack'[k] = below[k - 1]
    <3>1. StarLoop(v) \in Loop /\ below \in Seq(Loop)
      BY <1>2, <1>6
    <3> DEFINE top == StarLoop(v)
    <3> HIDE DEF top
    <3>2. /\ <<top>> \o below \in Seq(Loop) /\ Len(<<top>> \o below) = Len(below) + 1
          /\ (<<top>> \o below)[1] = top
          /\ \A k \in 2..(Len(below) + 1) : (<<top>> \o below)[k] = below[k - 1]
      BY <3>1, PushedSeq, Zenon DEF top
    <3> QED BY <2>1, <1>2, <3>2 DEF top
  <2>3. ASSUME NEW k \in 1..Len(stack') PROVE stack'[k].star <=> k < Len(stack')
    <3>1. CASE k = 1
      BY <3>1, <2>2, <1>1, <1>3, LoopTyped
    <3>2. CASE k # 1
      <4>1. k - 1 \in 1..Len(below) /\ stack'[k] = below[k - 1]
        BY <3>2, <2>2, <1>2, <1>3
      <4> QED BY <4>1, <1>4, <2>2, <1>2, <1>3
    <3> QED BY <3>1, <3>2
  <2> QED BY <2>2, <2>3, <1>1, <1>3 DEF StackShape
<1> QED BY <1>5, <1>6

LEMMA MarkInteriorKeepsInv == ColorInv /\ MarkInterior => ColorInv'
<1> SUFFICES ASSUME ColorInv, MarkInterior PROVE ColorInv'
  OBVIOUS
<1>1. stack # <<>> /\ UNCHANGED <<graph, cellColor, pass, it>>
  BY DEF MarkInterior
<1>2. PICK c \in CallsAt(Head(stack)) :
        LET v == IF c.backward THEN Vertex0(c.edge) ELSE Vertex1(c.edge)
            caller == [Head(stack) EXCEPT !.test = c.test + 1]
        IN  /\ color' = Painted(TurnedInside(c.edge), 0)
            /\ stack' = (IF v = Null THEN <<>> ELSE <<StarLoop(v)>>)
                            \o <<caller>> \o Tail(stack)
  BY DEF MarkInterior
<1>3. /\ graph \in Diagrams /\ color \in [Edge -> {0, 1}] /\ pass = "cells"
      /\ Head(stack) \in Loop /\ Len(stack) \in Nat
  BY <1>1, HeadFacts DEF ColorInv, ColorTypeOK, StackShape
<1>4. c.edge \in Edge /\ color[c.edge] # 0 /\ c.test \in Nat
  BY <1>3, CallFacts
<1> DEFINE v == IF c.backward THEN Vertex0(c.edge) ELSE Vertex1(c.edge)
           caller == [Head(stack) EXCEPT !.test = c.test + 1]
<1>5. caller \in Loop /\ caller.star = Head(stack).star
  BY <1>3, <1>4 DEF Loop
<1>6. v # Null => StarLoop(v) \in Loop
  BY <1>3, <1>4, GraphFacts, LoopTyped DEF Vertex1
<1>7. stack' = (IF v = Null THEN <<>> ELSE <<StarLoop(v)>>) \o <<caller>> \o Tail(stack)
  BY <1>2
<1>8. color' = Painted(TurnedInside(c.edge), 0) /\ Both(c.edge) \subseteq TurnedInside(c.edge)
  BY <1>2 DEF TurnedInside
<1> HIDE DEF v, caller
<1>9. stack' \in Seq(Loop) /\ StackShape' /\ Len(stack') <= Len(stack) + 1
  BY <1>1, <1>5, <1>6, <1>7, CalledStack
<1>10. ColorTypeOK'
  <2>1. Edge' = Edge /\ Loop' = Loop /\ PassTypeOK'
    BY <1>1 DEF Edge, EdgesOf, Loop, PassTypeOK, ColorInv, ColorTypeOK
  <2>2. color' \in [Edge -> {0, 1}]
    BY <1>3, <1>8, PaintedTyped
  <2> QED BY <1>1, <1>3, <1>9, <2>1, <2>2 DEF ColorTypeOK
<1>11. StackPaidFor'
  <2>1. Cardinality(PairsInside') >= Cardinality(PairsInside) + 1
    BY <1>1, <1>3, <1>4, <1>8, TurningAddsPair
  <2>2. Cardinality(PairsInside') \in Nat
    <3>1. Len(graph.next) \div 2 \in Nat
      BY <1>3, GraphFacts, PairNumbers
    <3>2. PairsInside' \in SUBSET (1..(Len(graph.next) \div 2))
      BY <1>1 DEF PairsInside
    <3> QED BY <3>1, <3>2, CountSubset
  <2>3. Len(stack') \in Nat
    BY <1>9, LenProperties
  <2> QED BY <1>3, <1>9, <2>1, <2>2, <2>3, PairsFinite DEF StackPaidFor, ColorInv
<1> QED BY <1>9, <1>10, <1>11 DEF ColorInv

LEMMA LoopOnKeepsInv == ColorInv /\ LoopOn => ColorInv'
<1> SUFFICES ASSUME ColorInv, LoopOn PROVE ColorInv'
  OBVIOUS
<1> DEFINE loop == Head(stack)
           e == IF loop.star THEN RotNext(loop.at) ELSE Next(loop.at)
           on == [loop EXCEPT !.at = e, !.test = 1]
<1>1. /\ stack # <<>> /\ UNCHANGED <<graph, color>>
      /\ graph \in Diagrams /\ color \in [Edge -> {0, 1}]
      /\ stack \in Seq(Loop) /\ pass = "cells" /\ PassTypeOK
  BY DEF LoopOn, ColorInv, ColorTypeOK, StackShape
<1>2. /\ loop \in Loop /\ loop = stack[1] /\ Len(stack) \in Nat /\ Len(stack) >= 1
      /\ \A k \in 1..Len(stack) : stack[k].star <=> k < Len(stack)
      /\ Len(stack) <= 1 + Cardinality(PairsInside)
  BY <1>1, HeadFacts DEF ColorInv, StackShape, StackPaidFor
<1>3. Edge' = Edge /\ Loop' = Loop /\ PairsInside' = PairsInside
  BY <1>1 DEF Edge, EdgesOf, Loop, PairsInside
<1>4. Cardinality(PairsInside) \in Nat
  BY <1>1, PairsFinite
<1>5. CASE e # loop.start
  <2>1. stack' = <<on>> \o Tail(stack) /\ UNCHANGED <<it, pass>>
    BY <1>5 DEF LoopOn
  <2>2. on \in Loop /\ on.star = loop.star
    <3>1. e \in Edge
      BY <1>1, <1>2, GraphFacts DEF Loop, RotNext
    <3> QED BY <1>2, <3>1 DEF Loop
  <2> HIDE DEF on
  <2>3. /\ stack' \in Seq(Loop) /\ Len(stack') = Len(stack) /\ stack'[1] = on
        /\ \A k \in 2..Len(stack) : stack'[k] = stack[k]
    BY <1>1, <2>1, <2>2, ReplacedHead
  <2>4. ASSUME NEW k \in 1..Len(stack') PROVE stack'[k].star <=> k < Len(stack')
    <3>1. CASE k = 1
      BY <3>1, <2>2, <2>3, <1>2
    <3>2. CASE k # 1
      BY <3>2, <2>3, <1>2
    <3> QED BY <3>1, <3>2
  <2>5. PassTypeOK'
    BY <1>1, <2>1, <1>3 DEF PassTypeOK
  <2>6. ColorTypeOK'
    BY <1>1, <1>3, <2>3, <2>5 DEF ColorTypeOK
  <2> QED BY <1>1, <1>2, <1>3, <2>1, <2>3, <2>4, <2>6 DEF ColorInv, StackShape, StackPaidFor
<1>6. CASE e = loop.start
  <2>1. /\ stack' = Tail(stack)
        /\ IF loop.star THEN UNCHANGED <<it, pass>> ELSE Advance(Len(graph.cellEdge))
    BY <1>6 DEF LoopOn
  <2>2. /\ stack' \in Seq(Loop) /\ Len(stack') = Len(stack) - 1
        /\ \A k \in 1..(Len(stack) - 1) : stack'[k] = stack[k + 1]
    BY <1>1, <1>2, <2>1, HeadTailProperties
  <2>3. PassTypeOK' /\ (stack' # <<>> => pass' = "cells")
    <3>1. CASE loop.star
      BY <3>1, <1>1, <1>3, <2>1 DEF PassTypeOK
    <3>2. CASE ~ loop.star
      <4>1. Len(stack) = 1
        <5>1. ~ stack[1].star /\ 1 \in 1..Len(stack)
          BY <3>2, <1>2
        <5>2. ~ (1 < Len(stack))
          BY <5>1, <1>2
        <5> QED BY <5>2, <1>2
      <4>2. stack' = <<>>
        BY <4>1, <2>2, EmptySeq
      <4> QED BY <3>2, <4>2, <2>1, <1>1, CellPassGoesOn
    <3> QED BY <3>1, <3>2
  <2>4. ASSUME NEW k \in 1..Len(stack') PROVE stack'[k].star <=> k < Len(stack')
    <3>1. k + 1 \in 1..Len(stack) /\ stack'[k] = stack[k + 1]
      BY <1>2, <2>2
    <3> QED BY <3>1, <1>2, <2>2
  <2>5. ColorTypeOK'
    BY <1>1, <1>3, <2>2, <2>3 DEF ColorTypeOK
  <2> QED BY <1>1, <1>2, <1>3, <1>4, <2>2, <2>3, <2>4, <2>5
          DEF ColorInv, StackShape, StackPaidFor
<1> QED BY <1>5, <1>6

LEMMA NextKeepsColorInv == ColorInv /\ [ColorNext]_colorVars => ColorInv'
<1> SUFFICES ASSUME ColorInv, [ColorNext]_colorVars PROVE ColorInv'
  OBVIOUS
<1>1. CASE Exterior
  BY <1>1, ExteriorKeepsInv
<1>2. CASE Holes
  BY <1>2, HolesKeepsInv
<1>3. CASE EnterCell
  BY <1>3, EnterCellKeepsInv
<1>4. CASE MarkInterior
  BY <1>4, MarkInteriorKeepsInv
<1>5. CASE LoopOn
  BY <1>5, LoopOnKeepsInv
<1>6. CASE Between \/ Beyond \/ Secondary
  BY <1>6, TurnKeepsInv DEF Between, Beyond, Secondary, EdgePasses
<1>7. CASE UNCHANGED colorVars
  BY <1>7 DEF colorVars, ColorInv, ColorTypeOK, PassTypeOK, StackShape, StackPaidFor,
              PairsInside, Edge, EdgesOf, Loop
<1> QED BY <1>1, <1>2, <1>3, <1>4, <1>5, <1>6, <1>7 DEF ColorNext, Coloured

LEMMA ColorInvariant == Spec => []ColorInv
  BY InitColorInv, NextKeepsColorInv, PTL DEF Spec

-----------------------------------------------------------------------------
(* For every diagram: mark_interior recurs no deeper than there are pairs of *)
(* half-edges, whatever the colours it starts from.                          *)
THEOREM MarkInteriorBounded == Spec => []RecursionBounded
<1>1. ColorInv => RecursionBounded
  <2> SUFFICES ASSUME ColorInv PROVE RecursionBounded
    OBVIOUS
  <2>1. Len(stack) \in Nat
    BY LenProperties DEF ColorInv, ColorTypeOK
  <2>2. Len(graph.next) \div 2 \in Nat
    BY GraphFacts, PairNumbers DEF ColorInv, ColorTypeOK
  <2>3. /\ Cardinality(PairsInside) \in Nat
        /\ Cardinality(PairsInside) <= Len(graph.next) \div 2
    BY PairsFinite DEF ColorInv, ColorTypeOK
  <2>4. Len(stack) <= 1 + Cardinality(PairsInside)
    BY DEF ColorInv, StackPaidFor
  <2> HIDE DEF ColorInv
  <2>5. \A a, b, c \in Nat : a <= 1 + b /\ b <= c => a <= 1 + c
    OBVIOUS
  <2> QED BY <2>1, <2>2, <2>3, <2>4, <2>5 DEF RecursionBounded
<1> QED BY <1>1, ColorInvariant, PTL

(* For every diagram: after the guess about holes no step of _build turns a  *)
(* half-edge outside again.                                                  *)
THEOREM NothingTurnsOutside == Spec => OnlyTurnsInside
<1>1. ColorInv /\ [ColorNext]_colorVars
        => (pass \notin {"exterior", "holes"} => \A e \in Edge : color'[e] <= color[e])
  <2> SUFFICES ASSUME ColorInv, [ColorNext]_colorVars, pass \notin {"exterior", "holes"}
               PROVE  \A e \in Edge : color'[e] <= color[e]
    OBVIOUS
  <2>1. UNCHANGED color \/ \E edges : color' = Painted(edges, 0)
    BY DEF ColorNext, Exterior, Holes, EnterCell, MarkInterior, LoopOn, Between, Beyond,
           Secondary, Turn, Coloured, colorVars
  <2>2. color \in [Edge -> {0, 1}]
    BY DEF ColorInv, ColorTypeOK
  <2> QED BY <2>1, <2>2 DEF Painted
<1>2. ColorInv /\ [ColorNext]_colorVars
        => [pass \notin {"exterior", "holes"} =>
              \A e \in Edge : color'[e] <= color[e]]_colorVars
  BY <1>1
<1> QED BY <1>2, ColorInvariant, PTL DEF Spec, OnlyTurnsInside

-----------------------------------------------------------------------------
(* The walks.                                                               *)

Color == 0..2
Walking == {"relink", "feet"}

LinkTypeOK ==
    /\ graph \in Diagrams
    /\ color \in [Edge -> Color]
    /\ next \in [Edge -> Edge] /\ prev \in [Edge -> Edge]
    /\ stage \in Stages
    /\ stage \in Walking => start \in Edge /\ edge \in Edge
    /\ stage = "color" => ColorInv
    /\ stage # "color" => pass = "coloured"

(* A link leads to a half-edge that begins where this one ends. *)
LinksMeet == \A e \in Edge : Vertex0(next[e]) = Vertex0(Twin(e))

LinkInv == LinkTypeOK /\ LinksStayInverse /\ LinksMeet

-----------------------------------------------------------------------------
(* Where walks begin and end. *)

LEMMA MinFacts ==
    ASSUME NEW S \in SUBSET Nat, S # {}
    PROVE  Min(S) \in S /\ \A k \in S : Min(S) <= k
<1>1. \E m \in S : \A k \in S : m <= k
  BY LeastNatural
<1> QED BY <1>1 DEF Min

LEMMA FirstFacts ==
    ASSUME graph \in Diagrams, NEW edges \in SUBSET Edge
    PROVE  /\ edges = {} => First(edges) = Null
           /\ edges # {} => First(edges) \in edges /\ First(edges) # Null
<1>1. edges \in SUBSET Nat /\ Null \notin edges
  BY GraphFacts DEF Null
<1> QED BY <1>1, MinFacts DEF First

LEMMA UnvisitedFacts ==
    ASSUME graph \in Diagrams, NEW colors
    PROVE  Unvisited(colors) \in SUBSET Edge /\ graph.primary \in SUBSET Edge
  BY DiagramAssumption DEF DiagramAssumption, PointersInRange, Unvisited, Edge

LEMMA RestoredFacts ==
    ASSUME NEW colors \in [Edge -> Color]
    PROVE  /\ Restored(colors) \in [Edge -> {0, 1}]
           /\ \A e \in Edge : Restored(colors)[e] = IF colors[e] = 1 THEN 1 ELSE 0
  BY DEF Restored, Color

(* The four ways on from a half-edge. *)
LEMMA GoToFacts ==
    ASSUME graph \in Diagrams, NEW e, NEW colors, NEW after, GoTo(e, colors, after)
    PROVE  \/ /\ colors[e] # 2 /\ stage' = stage /\ edge' = e /\ start' = start
              /\ color' = colors
           \/ /\ edge' \in Unvisited(colors) /\ stage' = stage /\ start' = edge'
              /\ color' = colors
           \/ /\ Unvisited(colors) = {} /\ color' = Restored(colors)
              /\ edge' \in Unvisited(Restored(colors)) /\ stage' = after /\ start' = edge'
           \/ /\ Unvisited(colors) = {} /\ color' = Restored(colors)
              /\ Unvisited(Restored(colors)) = {} /\ stage' = "placeholders"
<1> DEFINE u == Unvisited(colors)
           w == Unvisited(Restored(colors))
<1>1. /\ u \in SUBSET Edge /\ w \in SUBSET Edge
      /\ u # {} => First(u) \in u /\ First(u) # Null
      /\ w # {} => First(w) \in w /\ First(w) # Null
      /\ w = {} => First(w) = Null
  BY UnvisitedFacts, FirstFacts
<1>2. CASE e # start /\ colors[e] # 2
  BY <1>2 DEF GoTo
<1>3. CASE ~ (e # start /\ colors[e] # 2) /\ u # {}
  BY <1>1, <1>3 DEF GoTo, Begin
<1>4. CASE ~ (e # start /\ colors[e] # 2) /\ u = {}
  <2>1. Begin(after, First(w), Restored(colors))
    BY <1>4 DEF GoTo
  <2>2. CASE w = {}
    BY <1>1, <1>4, <2>1, <2>2 DEF Begin
  <2>3. CASE w # {}
    BY <1>1, <1>4, <2>1, <2>3 DEF Begin
  <2> QED BY <2>2, <2>3
<1> QED BY <1>2, <1>3, <1>4

-----------------------------------------------------------------------------
(* The two ways of rewriting links exchange what two half-edges lead to.     *)

LinksOK ==
    /\ next \in [Edge -> Edge] /\ prev \in [Edge -> Edge]
    /\ LinksStayInverse /\ LinksMeet

LEMMA LinkFacts ==
    ASSUME graph \in Diagrams, LinksOK
    PROVE  \A e \in Edge : /\ next[e] \in Edge /\ prev[e] \in Edge
                           /\ prev[next[e]] = e /\ next[prev[e]] = e
                           /\ Vertex0(next[e]) = Vertex0(Twin(e))
                           /\ Twin(e) \in Edge /\ Twin(e) # e /\ Twin(Twin(e)) = e
  BY GraphFacts DEF LinksOK, LinksStayInverse, LinksMeet

LEMMA SkippedLinks ==
    ASSUME graph \in Diagrams, LinksOK, NEW e \in Edge, UNCHANGED graph,
           next' = [next EXCEPT ![Twin(next[e])] = next[e], ![e] = next[Twin(next[e])]],
           prev' = [prev EXCEPT ![next[e]] = Twin(next[e]), ![next[Twin(next[e])]] = e]
    PROVE  LinksOK'
<1> DEFINE n == next[e]
           t == Twin(next[e])
           b == next[Twin(next[e])]
<1>1. /\ n \in Edge /\ t \in Edge /\ b \in Edge
      /\ next \in [Edge -> Edge] /\ prev \in [Edge -> Edge] /\ Edge' = Edge
      /\ t # n /\ Twin(t) = n /\ prev[n] = e /\ prev[b] = t /\ (b = n <=> t = e)
  BY LinkFacts DEF LinksOK, Edge, EdgesOf
<1>2. /\ next' \in [Edge -> Edge]
      /\ \A f \in Edge : next'[f] = IF f = e THEN b ELSE IF f = t THEN n ELSE next[f]
  BY <1>1
<1>3. /\ prev' \in [Edge -> Edge]
      /\ \A f \in Edge : prev'[f] = IF f = b THEN e ELSE IF f = n THEN t ELSE prev[f]
  BY <1>1
<1>4. Vertex0(b) = Vertex0(n) /\ Vertex0(n) = Vertex0(Twin(e))
  BY <1>1, LinkFacts
<1>5. \A f \in Edge : Vertex0(f)' = Vertex0(f)
  BY DEF Vertex0
<1> HIDE DEF n, t, b
<1>6. ASSUME NEW f \in Edge PROVE prev'[next'[f]] = f /\ next'[prev'[f]] = f
  BY <1>1, <1>2, <1>3, LinkFacts DEF n, t, b
<1>7. ASSUME NEW f \in Edge PROVE graph'.vertex0[next'[f]] = graph'.vertex0[Twin(f)]
  <2>1. Vertex0(next'[f]) = Vertex0(Twin(f))
    BY <1>1, <1>2, <1>4, LinkFacts
  <2> QED BY <2>1 DEF Vertex0
<1>8. LinksStayInverse'
  BY <1>1, <1>6 DEF LinksStayInverse
<1>9. LinksMeet'
  BY <1>1, <1>7 DEF LinksMeet, Vertex0
<1> QED BY <1>1, <1>2, <1>3, <1>8, <1>9 DEF LinksOK

LEMMA TurnedLinks ==
    ASSUME graph \in Diagrams, LinksOK, NEW e \in Edge, UNCHANGED graph,
           prev' = [prev EXCEPT ![next[e]] = prev[Twin(e)], ![Twin(e)] = e],
           next' = [next EXCEPT ![prev[Twin(e)]] = next[e], ![e] = Twin(e)]
    PROVE  LinksOK'
<1> DEFINE n == next[e]
           t == Twin(e)
           b == prev[Twin(e)]
<1>1. /\ n \in Edge /\ t \in Edge /\ b \in Edge
      /\ next \in [Edge -> Edge] /\ prev \in [Edge -> Edge] /\ Edge' = Edge
      /\ t # e /\ prev[n] = e /\ next[b] = t /\ (b = e <=> t = n)
  BY LinkFacts DEF LinksOK, Edge, EdgesOf
<1>2. /\ next' \in [Edge -> Edge]
      /\ \A f \in Edge : next'[f] = IF f = e THEN t ELSE IF f = b THEN n ELSE next[f]
  BY <1>1
<1>3. /\ prev' \in [Edge -> Edge]
      /\ \A f \in Edge : prev'[f] = IF f = t THEN e ELSE IF f = n THEN b ELSE prev[f]
  BY <1>1
<1>4. Vertex0(n) = Vertex0(t) /\ Vertex0(Twin(b)) = Vertex0(t)
  BY <1>1, LinkFacts
<1> HIDE DEF n, t, b
<1>5. ASSUME NEW f \in Edge PROVE prev'[next'[f]] = f /\ next'[prev'[f]] = f
  BY <1>1, <1>2, <1>3, LinkFacts DEF n, t, b
<1>6. ASSUME NEW f \in Edge PROVE graph'.vertex0[next'[f]] = graph'.vertex0[Twin(f)]
  <2>1. Vertex0(next'[f]) = Vertex0(Twin(f))
    BY <1>1, <1>2, <1>4, LinkFacts DEF t
  <2> QED BY <2>1 DEF Vertex0
<1>7. LinksStayInverse'
  BY <1>1, <1>5 DEF LinksStayInverse
<1>8. LinksMeet'
  BY <1>1, <1>6 DEF LinksMeet, Vertex0
<1> QED BY <1>1, <1>2, <1>3, <1>7, <1>8 DEF LinksOK
-----------------------------------------------------------------------------
(* LinkInv is inductive. *)

LEMMA GoToTyped ==
    ASSUME graph \in Diagrams, NEW e \in Edge, NEW colors \in [Edge -> Color],
           NEW after \in {"feet", "placeholders"}, stage \in Walking, start \in Edge,
           GoTo(e, colors, after), UNCHANGED graph
    PROVE  /\ color' \in [Edge -> Color] /\ stage' \in Walking \cup {"placeholders"}
           /\ stage' \in Walking => start' \in Edge /\ edge' \in Edge
<1>1. Restored(colors) \in [Edge -> Color]
  BY RestoredFacts DEF Color
<1>2. \A c : Unvisited(c) \in SUBSET Edge
  BY UnvisitedFacts
<1> QED BY <1>1, <1>2, GoToFacts DEF Walking

LEMMA InitLinkInv == LinkInit => LinkInv
<1> SUFFICES ASSUME LinkInit PROVE LinkInv
  OBVIOUS
<1>1. Init /\ graph \in Diagrams /\ next = graph.next /\ prev = graph.prev /\ stage = "color"
  BY DEF LinkInit, Init
<1>2. ColorInv
  BY <1>1, InitColorInv
<1>3. color \in [Edge -> Color]
  BY <1>2 DEF ColorInv, ColorTypeOK, Color
<1>4. next \in [Edge -> Edge] /\ prev \in [Edge -> Edge]
  BY <1>1, DiagramFacts DEF Edge
<1>5. LinkTypeOK
  BY <1>1, <1>2, <1>3, <1>4 DEF LinkTypeOK, Stages, Walking
<1>6. LinksConsistent(graph)
  BY <1>1, DiagramAssumption DEF DiagramAssumption
<1>7. LinksStayInverse /\ LinksMeet
  BY <1>1, <1>6 DEF LinksStayInverse, LinksMeet, LinksConsistent, Vertex0, Edge
<1> QED BY <1>5, <1>7 DEF LinkInv

(* What a step leaves alone when it does not touch the links.                *)
LEMMA SameLinks ==
    ASSUME LinkInv, UNCHANGED <<graph, next, prev>>
    PROVE  LinksStayInverse' /\ LinksMeet' /\ Edge' = Edge
  BY DEF LinkInv, LinksStayInverse, LinksMeet, Vertex0, Edge, EdgesOf

LEMMA ColouringKeepsInv == LinkInv /\ Colouring => LinkInv'
<1> SUFFICES ASSUME LinkInv, Colouring PROVE LinkInv'
  OBVIOUS
<1>1. /\ pass # "coloured" /\ ColorNext /\ UNCHANGED <<next, prev, stage, start, edge>>
      /\ stage = "color" /\ ColorInv
  BY DEF Colouring, linkVars, LinkInv, LinkTypeOK
<1>2. ColorInv' /\ UNCHANGED graph
  <2>1. UNCHANGED graph
    BY <1>1 DEF ColorNext, Exterior, Holes, EnterCell, MarkInterior, LoopOn, Between,
                Beyond, Secondary, Turn, Coloured, colorVars
  <2> QED BY <1>1, <2>1, NextKeepsColorInv
<1>3. color' \in [Edge' -> Color] /\ graph' \in Diagrams
  BY <1>2 DEF ColorInv, ColorTypeOK, Color
<1>4. LinksStayInverse' /\ LinksMeet' /\ Edge' = Edge
  BY <1>1, <1>2, SameLinks
<1>5. LinkTypeOK'
  BY <1>1, <1>2, <1>3, <1>4 DEF LinkInv, LinkTypeOK, Walking
<1> QED BY <1>4, <1>5 DEF LinkInv

(* After the colouring the diagram and the pass stay as they are.            *)
LEMMA WalkFacts ==
    ASSUME LinkInv, stage \in Walking
    PROVE  /\ graph \in Diagrams /\ pass = "coloured" /\ LinksOK
           /\ color \in [Edge -> Color] /\ edge \in Edge /\ start \in Edge
           /\ Twin(edge) \in Edge /\ next[edge] \in Edge /\ Twin(next[edge]) \in Edge
           /\ next[Twin(next[edge])] \in Edge /\ prev[edge] \in Edge
           /\ prev[Twin(edge)] \in Edge
           /\ Visited(edge) \in [Edge -> Color]
<1>1. /\ graph \in Diagrams /\ pass = "coloured" /\ LinksOK
      /\ color \in [Edge -> Color] /\ edge \in Edge /\ start \in Edge
  BY DEF LinkInv, LinkTypeOK, LinksOK, Walking
<1>2. Visited(edge) \in [Edge -> Color]
  BY <1>1 DEF Visited, Color
<1> QED BY <1>1, <1>2, LinkFacts

LEMMA WalkKeepsInv ==
    ASSUME LinkInv, stage \in Walking, LinksOK', UNCHANGED markVars,
           \/ /\ color' \in [Edge -> Color] /\ stage' \in Walking \cup {"placeholders"}
              /\ stage' \in Walking => start' \in Edge /\ edge' \in Edge
           \/ UNCHANGED color /\ stage' = "crashed"
    PROVE  LinkInv'
<1>1. graph \in Diagrams /\ pass = "coloured" /\ color \in [Edge -> Color]
  BY WalkFacts
<1>2. UNCHANGED <<graph, pass>> /\ Edge' = Edge
  BY DEF markVars, Edge, EdgesOf
<1>3. stage' \in Stages /\ stage' # "color"
  BY DEF Stages, Walking
<1>4. color' \in [Edge' -> Color] /\ (stage' \in Walking => start' \in Edge' /\ edge' \in Edge')
  BY <1>1, <1>2 DEF Walking
<1>5. LinkTypeOK'
  BY <1>1, <1>2, <1>3, <1>4 DEF LinkTypeOK, LinksOK
<1> QED BY <1>5 DEF LinkInv, LinksOK

LEMMA StartRelinkKeepsInv == LinkInv /\ StartRelink => LinkInv'
<1> SUFFICES ASSUME LinkInv, StartRelink PROVE LinkInv'
  OBVIOUS
<1> DEFINE ours == {e \in Unvisited(color) : graph.cell[e] \in graph.first}
<1>1. /\ graph \in Diagrams /\ color \in [Edge -> Color] /\ pass = "coloured"
      /\ UNCHANGED <<graph, pass, next, prev>>
  BY DEF LinkInv, LinkTypeOK, StartRelink, markVars
<1>2. ours \in SUBSET Edge /\ Unvisited(color) \in SUBSET Edge
  BY <1>1, UnvisitedFacts
<1>3. /\ First(ours) # Null => First(ours) \in Edge
      /\ First(Unvisited(color)) # Null => First(Unvisited(color)) \in Edge
  BY <1>1, <1>2, FirstFacts
<1>4. \/ First(ours) # Null /\ Begin("relink", First(ours), color)
      \/ Begin("feet", First(Unvisited(color)), color)
  BY DEF StartRelink
<1>5. color' = color /\ stage' \in {"relink", "feet", "placeholders"}
  BY <1>4 DEF Begin
<1>6. stage' \in Walking => start' \in Edge /\ edge' \in Edge
  BY <1>3, <1>4 DEF Begin, Walking
<1>7. LinksStayInverse' /\ LinksMeet' /\ Edge' = Edge
  BY <1>1, SameLinks
<1>8. LinkTypeOK'
  BY <1>1, <1>5, <1>6, <1>7 DEF LinkInv, LinkTypeOK, Stages
<1> QED BY <1>7, <1>8 DEF LinkInv

LEMMA FollowPrimaryKeepsInv == LinkInv /\ FollowPrimary => LinkInv'
<1> SUFFICES ASSUME LinkInv, FollowPrimary PROVE LinkInv'
  OBVIOUS
<1>1. /\ stage \in Walking /\ UNCHANGED markVars /\ UNCHANGED <<graph, next, prev>>
      /\ GoTo(next[edge], Visited(edge), "feet")
  BY DEF FollowPrimary, markVars, Walking
<1>2. LinksOK'
  BY <1>1, SameLinks DEF LinkInv, LinkTypeOK, LinksOK
<1>3. /\ color' \in [Edge -> Color] /\ stage' \in Walking \cup {"placeholders"}
      /\ stage' \in Walking => start' \in Edge /\ edge' \in Edge
  BY <1>1, WalkFacts, GoToTyped
<1> QED BY <1>1, <1>2, <1>3, WalkKeepsInv

LEMMA SkipSecondaryKeepsInv == LinkInv /\ SkipSecondary => LinkInv'
<1> SUFFICES ASSUME LinkInv, SkipSecondary PROVE LinkInv'
  OBVIOUS
<1>1. stage \in Walking /\ UNCHANGED markVars /\ UNCHANGED graph
  BY DEF SkipSecondary, markVars, Walking
<1>2. CASE Crash
  <2>1. LinksOK'
    BY <1>1, <1>2, SameLinks DEF LinkInv, LinkTypeOK, LinksOK, Crash
  <2> QED BY <1>1, <1>2, <2>1, WalkKeepsInv DEF Crash
<1>3. CASE ~ Crash
  <2> DEFINE n == next[edge]  beyond == next[Twin(next[edge])]
  <2>1. /\ next' = [next EXCEPT ![Twin(n)] = n, ![edge] = beyond]
        /\ prev' = [prev EXCEPT ![n] = Twin(n), ![beyond] = edge]
        /\ GoTo(beyond, Visited(edge), "feet")
    BY <1>3 DEF SkipSecondary
  <2>2. LinksOK'
    BY <1>1, <2>1, WalkFacts, SkippedLinks
  <2>3. /\ color' \in [Edge -> Color] /\ stage' \in Walking \cup {"placeholders"}
        /\ stage' \in Walking => start' \in Edge /\ edge' \in Edge
    BY <1>1, <2>1, WalkFacts, GoToTyped
  <2> QED BY <1>1, <2>2, <2>3, WalkKeepsInv
<1> QED BY <1>2, <1>3

LEMMA TurnAroundKeepsInv == LinkInv /\ TurnAround => LinkInv'
<1> SUFFICES ASSUME LinkInv, TurnAround PROVE LinkInv'
  OBVIOUS
<1>1. /\ stage \in Walking /\ UNCHANGED markVars /\ UNCHANGED graph
      /\ prev' = [prev EXCEPT ![next[edge]] = prev[Twin(edge)], ![Twin(edge)] = edge]
      /\ next' = [next EXCEPT ![prev[Twin(edge)]] = next[edge], ![edge] = Twin(edge)]
      /\ GoTo(Twin(edge), Visited(edge), "feet")
  BY DEF TurnAround, markVars, Walking
<1>2. LinksOK'
  BY <1>1, WalkFacts, TurnedLinks
<1>3. /\ color' \in [Edge -> Color] /\ stage' \in Walking \cup {"placeholders"}
      /\ stage' \in Walking => start' \in Edge /\ edge' \in Edge
  BY <1>1, WalkFacts, GoToTyped
<1> QED BY <1>1, <1>2, <1>3, WalkKeepsInv

LEMMA FindFeetKeepsInv == LinkInv /\ FindFeet => LinkInv'
<1> SUFFICES ASSUME LinkInv, FindFeet PROVE LinkInv'
  OBVIOUS
<1>1. stage \in Walking /\ UNCHANGED markVars /\ UNCHANGED <<graph, next, prev>>
  BY DEF FindFeet, markVars, Walking, Crash
<1>2. LinksOK'
  BY <1>1, SameLinks DEF LinkInv, LinkTypeOK, LinksOK
<1>3. CASE Crash
  BY <1>1, <1>2, <1>3, WalkKeepsInv DEF Crash
<1>4. CASE ~ Crash
  <2> DEFINE last == BackTo(edge)
             colors == [color EXCEPT ![prev[edge]] = IF last = edge THEN @ ELSE 0, ![last] = 2]
  <2>1. GoTo(next[last], colors, "placeholders")
    BY <1>4 DEF FindFeet
  <2>2. last \in Edge /\ next[last] \in Edge
    BY <1>1, WalkFacts, LinkFacts DEF BackTo
  <2>3. colors \in [Edge -> Color]
    <3>1. color \in [Edge -> Color] /\ prev[edge] \in Edge /\ 0 \in Color /\ 2 \in Color
      BY <1>1, WalkFacts DEF Color
    <3> HIDE DEF last
    <3> QED BY <2>2, <3>1
  <2>4. /\ color' \in [Edge -> Color] /\ stage' \in Walking \cup {"placeholders"}
        /\ stage' \in Walking => start' \in Edge /\ edge' \in Edge
    <3> HIDE DEF last, colors
    <3> QED BY <1>1, <2>1, <2>2, <2>3, WalkFacts, GoToTyped
  <2> QED BY <1>1, <1>2, <2>4, WalkKeepsInv
<1> QED BY <1>3, <1>4

LEMMA PutPlaceholdersKeepsInv == LinkInv /\ PutPlaceholders => LinkInv'
<1> SUFFICES ASSUME LinkInv, PutPlaceholders PROVE LinkInv'
  OBVIOUS
<1>1. /\ UNCHANGED <<graph, pass, color, next, prev>> /\ stage' \in {"linked", "crashed"}
      /\ stage = "placeholders"
  BY DEF PutPlaceholders, Crash, markVars
<1>2. LinksStayInverse' /\ LinksMeet' /\ Edge' = Edge
  BY <1>1, SameLinks
<1>3. LinkTypeOK'
  BY <1>1, <1>2 DEF LinkInv, LinkTypeOK, Stages, Walking
<1> QED BY <1>2, <1>3 DEF LinkInv

LEMMA NextKeepsLinkInv == LinkInv /\ [LinkNext]_colorLinkVars => LinkInv'
<1> SUFFICES ASSUME LinkInv, [LinkNext]_colorLinkVars PROVE LinkInv'
  OBVIOUS
<1>1. CASE Colouring
  BY <1>1, ColouringKeepsInv
<1>2. CASE LinkStep
  BY <1>2, StartRelinkKeepsInv, FollowPrimaryKeepsInv, SkipSecondaryKeepsInv,
     TurnAroundKeepsInv, FindFeetKeepsInv, PutPlaceholdersKeepsInv DEF LinkStep
<1>3. CASE UNCHANGED colorLinkVars
  BY <1>3 DEF colorLinkVars, colorVars, linkVars, LinkInv, LinkTypeOK, LinksStayInverse,
              LinksMeet, ColorInv, ColorTypeOK, PassTypeOK, StackShape, StackPaidFor,
              PairsInside, Edge, EdgesOf, Loop, Vertex0
<1> QED BY <1>1, <1>2, <1>3 DEF LinkNext

LEMMA LinkInvariant == LinkSpec => []LinkInv
  BY InitLinkInv, NextKeepsLinkInv, PTL DEF LinkSpec

(* For every diagram, with or without the colours it should have: the links  *)
(* are rewritten in pairs, so that next stays a permutation of the           *)
(* half-edges and prev its inverse, in each of the walks of _build.          *)
THEOREM LinksAreInverse == LinkSpec => []LinksStayInverse
<1>1. LinkInv => LinksStayInverse
  BY DEF LinkInv
<1> QED BY <1>1, LinkInvariant, PTL
-----------------------------------------------------------------------------
(* Around the end of a half-edge.                                            *)

(* rot_prev turns from the half-edge after e, a step at a time.              *)
LEMMA TurnsFacts ==
    ASSUME graph \in Diagrams, NEW e \in Edge
    PROVE  /\ Turns(e) \in [0..Len(graph.next) -> Edge]
           /\ Turns(e)[0] = Next(e)
           /\ \A k \in 1..Len(graph.next) : Turns(e)[k] = RotPrev(Turns(e)[k - 1])
<1> DEFINE n == Len(graph.next)
           f == [d \in Edge |-> RotPrev(d)]
           Step(t) == [k \in 0..n |-> IF k = 0 THEN Next(e) ELSE RotPrev(t[k - 1])]
<1>1. n \in Nat /\ Next(e) \in Edge /\ f \in [Edge -> Edge]
  BY GraphFacts DEF RotPrev
<1>2. PICK t \in [0..n -> Edge] : t[0] = Next(e) /\ \A k \in 1..n : t[k] = f[t[k - 1]]
  <2> HIDE DEF n, f
  <2>1. PICK t : AreIterates(t, Edge, Next(e), f, n)
    BY <1>1, Iterates
  <2> QED BY <2>1 DEF AreIterates
<1>3. t = Step(t)
  <2>1. ASSUME NEW k \in 0..n PROVE t[k] = IF k = 0 THEN Next(e) ELSE RotPrev(t[k - 1])
    <3>1. CASE k = 0
      BY <1>2, <3>1
    <3>2. CASE k # 0
      <4>1. k \in 1..n /\ k - 1 \in 0..n
        BY <1>1, <3>2
      <4> QED BY <1>2, <3>2, <4>1
    <3> QED BY <3>1, <3>2
  <2> HIDE DEF n
  <2> QED BY <1>2, <2>1
<1> DEFINE u == Turns(e)
<1>4. u = Step(u)
  <2>1. u = CHOOSE turned : turned = Step(turned)
    BY DEF Turns
  <2> HIDE DEF u, Step
  <2> QED BY <1>3, <2>1
<1>5. /\ u[0] = Next(e)
      /\ \A k \in 1..n : u[k] = RotPrev(u[k - 1])
      /\ u = [k \in 0..n |-> u[k]]
  <2>1. \A k \in 0..n : Step(u)[k] = IF k = 0 THEN Next(e) ELSE RotPrev(u[k - 1])
    OBVIOUS
  <2>2. Step(u) = [k \in 0..n |-> Step(u)[k]]
    OBVIOUS
  <2> HIDE DEF u, Step
  <2>3. 0 \in 0..n /\ \A k \in 1..n : k \in 0..n /\ k # 0
    BY <1>1
  <2> QED BY <1>4, <2>1, <2>2, <2>3
<1>6. \A k \in 0..n : u[k] \in Edge
  <2> HIDE DEF u, n
  <2> DEFINE D == {k \in 0..n : u[k] \notin Edge}
  <2> SUFFICES ASSUME D # {} PROVE FALSE
    OBVIOUS
  <2>1. D \in SUBSET Nat
    BY <1>1
  <2>2. PICK m \in D : \A k \in D : m <= k
    <3> HIDE DEF D
    <3> QED BY <2>1, LeastNatural
  <2>3. m # 0
    BY <1>1, <1>5, <2>2
  <2>4. m \in 1..n /\ m - 1 \in 0..n
    BY <1>1, <2>1, <2>2, <2>3
  <2>5. u[m - 1] \in Edge
    BY <2>1, <2>2, <2>4
  <2>6. RotPrev(u[m - 1]) \in Edge
    BY <2>5, GraphFacts DEF RotPrev
  <2> QED BY <1>5, <2>2, <2>4, <2>6
<1> HIDE DEF u
<1>7. u \in [0..n -> Edge]
  BY <1>5, <1>6
<1> QED BY <1>5, <1>7 DEF u

(* The links of a diagram, which are those before the walks.                 *)
LEMMA NextFacts ==
    ASSUME graph \in Diagrams
    PROVE  \A e \in Edge : /\ Prev(Next(e)) = e /\ Next(Prev(e)) = e
                           /\ Vertex0(Next(e)) = Vertex0(Twin(e))
  BY DiagramAssumption DEF DiagramAssumption, LinksConsistent, Edge, Next, Prev, Vertex0

(* All turns begin where e ends, and one of them is the twin of e.           *)
LEMMA TurnsAround ==
    ASSUME graph \in Diagrams, NEW e \in Edge
    PROVE  /\ \A k \in 0..Len(graph.next) : Vertex0(Turns(e)[k]) = Vertex0(Twin(e))
           /\ \E k \in 0..Len(graph.next) : Turns(e)[k] = Twin(e)
<1> DEFINE n == Len(graph.next)
           t == Turns(e)
           f == [d \in Edge |-> RotPrev(d)]
<1>1. /\ n \in Nat /\ Edge = 1..n /\ f \in [Edge -> Edge] /\ Next(e) \in Edge
      /\ t \in [0..n -> Edge] /\ t[0] = Next(e)
      /\ \A k \in 1..n : t[k] = f[t[k - 1]]
  <2>1. n \in Nat /\ Edge = 1..n /\ f \in [Edge -> Edge] /\ Next(e) \in Edge
    BY GraphFacts DEF RotPrev
  <2>2. /\ t \in [0..n -> Edge] /\ t[0] = Next(e)
        /\ \A k \in 1..n : t[k] = RotPrev(t[k - 1])
    BY TurnsFacts
  <2> HIDE DEF n, t
  <2>3. \A k \in 1..n : k - 1 \in 0..n
    BY <2>1
  <2> QED BY <2>1, <2>2, <2>3
<1>2. \A x, y \in Edge : f[x] = f[y] => x = y
  <2> SUFFICES ASSUME NEW x \in Edge, NEW y \in Edge, RotPrev(x) = RotPrev(y) PROVE x = y
    OBVIOUS
  <2>1. Prev(RotPrev(x)) = Twin(x) /\ Prev(RotPrev(y)) = Twin(y)
    BY GraphFacts, NextFacts DEF RotPrev
  <2> QED BY <2>1, GraphFacts
<1>3. \A x \in Edge : Vertex0(f[x]) = Vertex0(x)
  BY GraphFacts, NextFacts DEF RotPrev
<1>4. \A x \in Edge : f[x] = Next(e) => x = Twin(e)
  <2> SUFFICES ASSUME NEW x \in Edge, RotPrev(x) = Next(e) PROVE x = Twin(e)
    OBVIOUS
  <2>1. Prev(RotPrev(x)) = Twin(x) /\ Prev(Next(e)) = e
    BY GraphFacts, NextFacts DEF RotPrev
  <2> QED BY <2>1, GraphFacts
<1>5. Vertex0(Next(e)) = Vertex0(Twin(e))
  BY NextFacts
<1> HIDE DEF n, t, f
<1>6. ASSUME NEW k \in 0..n PROVE Vertex0(t[k]) = Vertex0(Twin(e))
  <2> DEFINE D == {j \in 0..n : Vertex0(t[j]) # Vertex0(Twin(e))}
  <2> SUFFICES ASSUME D # {} PROVE FALSE
    OBVIOUS
  <2>1. D \in SUBSET Nat
    BY <1>1
  <2>2. PICK m \in D : \A j \in D : m <= j
    <3> HIDE DEF D
    <3> QED BY <2>1, LeastNatural
  <2>3. m # 0
    BY <1>1, <1>5, <2>2
  <2>4. m \in 1..n /\ m - 1 \in 0..n
    BY <1>1, <2>1, <2>2, <2>3
  <2>5. t[m - 1] \in Edge /\ m - 1 \notin D
    <3>1. ~ (m <= m - 1)
      BY <1>1, <2>4
    <3> HIDE DEF D
    <3> QED BY <1>1, <2>2, <2>4, <3>1
  <2>6. Vertex0(t[m - 1]) = Vertex0(Twin(e))
    BY <2>4, <2>5
  <2> QED BY <1>1, <1>3, <2>2, <2>4, <2>5, <2>6
<1>7. PICK k \in 0..n : f[t[k]] = Next(e)
  <2>1. f \in Injection(Edge, Edge)
    BY <1>1, <1>2 DEF Injection, IsInjective
  <2>2. AreIterates(t, Edge, Next(e), f, n)
    BY <1>1 DEF AreIterates
  <2>3. n \in Nat /\ Edge = 1..n /\ Next(e) \in Edge
    BY <1>1
  <2> QED BY <2>1, <2>2, <2>3, IteratesReturn
<1>8. k \in 0..n /\ t[k] = Twin(e)
  BY <1>1, <1>4, <1>7
<1> QED BY <1>6, <1>8 DEF n, t

LEMMA SameAround ==
    ASSUME UNCHANGED <<graph, within>>
    PROVE  Axis' = Axis /\ \A e : Around(e)' = Around(e)
  BY DEF Axis, Around, Turns, Next, RotPrev

(* Where the first half-edge of the axis is after e.                         *)
LEMMA AroundFacts ==
    ASSUME graph \in Diagrams, NEW e \in Edge
    PROVE  /\ Next(e) \in Axis => Around(e) = Next(e)
           /\ Next(e) \notin Axis /\ RotPrev(Next(e)) \in Axis => Around(e) = RotPrev(Next(e))
           /\ /\ Twin(e) \in Axis
              /\ \A d \in Axis \cap Edge : Vertex0(d) = Vertex0(Twin(e)) => d = Twin(e)
              => Around(e) = Twin(e)
<1> DEFINE n == Len(graph.next)
           t == Turns(e)
           D == {k \in 0..n : t[k] \in Axis}
<1>1. /\ n \in Nat \ {0} /\ t \in [0..n -> Edge] /\ t[0] = Next(e)
      /\ t[1] = RotPrev(Next(e))
  <2>1. /\ n \in Nat \ {0} /\ t \in [0..n -> Edge] /\ t[0] = Next(e)
        /\ \A k \in 1..n : t[k] = RotPrev(t[k - 1])
    BY GraphFacts, TurnsFacts
  <2> HIDE DEF n, t
  <2>2. 1 \in 1..n /\ 1 - 1 = 0
    BY <2>1
  <2>3. t[1] = RotPrev(t[1 - 1])
    BY <2>1, <2>2
  <2> QED BY <2>1, <2>2, <2>3
<1>2. Around(e) = t[Min(D)]
  BY DEF Around
<1>3. /\ \A k \in 0..n : Vertex0(t[k]) = Vertex0(Twin(e))
      /\ \E k \in 0..n : t[k] = Twin(e)
  BY TurnsAround
<1> HIDE DEF n, t
<1>4. D \in SUBSET Nat
  BY <1>1
<1>5. D # {} => Min(D) \in D /\ \A k \in D : Min(D) <= k
  <2> HIDE DEF D
  <2> QED BY <1>4, MinFacts
<1>6. ASSUME Next(e) \in Axis PROVE Around(e) = Next(e)
  <2>1. 0 \in D
    BY <1>1, <1>6
  <2>2. Min(D) = 0
    BY <1>4, <1>5, <2>1
  <2> QED BY <1>1, <1>2, <1>6, <2>2
<1>7. ASSUME Next(e) \notin Axis, RotPrev(Next(e)) \in Axis
      PROVE  Around(e) = RotPrev(Next(e))
  <2>1. 1 \in D /\ 0 \notin D
    BY <1>1, <1>7
  <2>2. Min(D) = 1
    BY <1>4, <1>5, <2>1
  <2> QED BY <1>1, <1>2, <1>7, <2>2
<1>8. ASSUME Twin(e) \in Axis,
             \A d \in Axis \cap Edge : Vertex0(d) = Vertex0(Twin(e)) => d = Twin(e)
      PROVE  Around(e) = Twin(e)
  <2>1. D # {}
    BY <1>3, <1>8
  <2>2. Min(D) \in 0..n /\ t[Min(D)] \in Axis
    BY <1>5, <2>1
  <2> QED BY <1>1, <1>2, <1>3, <1>8, <2>2
<1> QED BY <1>6, <1>7, <1>8
-----------------------------------------------------------------------------
(* The walks on regular diagrams whose colours are right when they begin.    *)

AllRegular == \A g \in Diagrams : Regular(g)
ColoursRight == stage = "color" => ColoursMatchPolygon

Follows(e) == next[e] = Around(e) /\ next[e] \in Axis

(* While the links are rewritten a marked half-edge has its new link, and    *)
(* the others of the axis the old one; of a half-edge inside that is not on  *)
(* the axis the link may lead to its twin.                                   *)
RelinkInv ==
    /\ edge \in Axis /\ color[edge] = 0
    /\ \A e \in Axis : IF color[e] = 2 THEN Follows(e) ELSE next[e] = graph.next[e]
    /\ \A e \in within \ graph.primary : next[e] \in {graph.next[e], Twin(e)}

WalkInv ==
    /\ stage = "color" => next = graph.next
    /\ stage \notin {"color", "crashed"} =>
         within = graph.inside /\ \A e \in Edge : color[e] # 1 <=> e \in within
    /\ stage = "relink" => RelinkInv
    /\ stage = "feet" => edge \in Axis
    /\ stage \in {"feet", "placeholders", "linked"} => \A e \in Axis : Follows(e)
    /\ stage \in {"placeholders", "linked"} => color \in [Edge -> {0, 1}]

(* What the assumptions say of a diagram, once within is what they call      *)
(* inside.                                                                   *)
LEMMA AxisFacts ==
    ASSUME AllRegular, graph \in Diagrams, within = graph.inside
    PROVE  /\ within \in SUBSET Edge /\ Axis \in SUBSET within
           /\ \A e \in within : Twin(e) \in within
           /\ \A e \in Edge : e \in graph.primary <=> Twin(e) \in graph.primary
           /\ \A e \in Axis : Twin(e) \in Axis
           /\ Axis # {} => \E e \in Axis : graph.cell[e] \in graph.first
<1>1. PointersInRange(graph) /\ LinksConsistent(graph) /\ Regular(graph)
  BY DiagramAssumption DEF AllRegular, DiagramAssumption
<1>2. within \in SUBSET Edge /\ Axis \in SUBSET within
  BY <1>1 DEF PointersInRange, Edge, Axis
<1>3. \A e \in within : Twin(e) \in within
  BY <1>1 DEF Regular
<1>4. \A e \in Edge : e \in graph.primary <=> Twin(e) \in graph.primary
  BY <1>1, GraphFacts DEF LinksConsistent
<1>5. \A e \in Axis : Twin(e) \in Axis
  BY <1>2, <1>3, <1>4 DEF Axis
<1>6. Axis # {} => \E e \in Axis : graph.cell[e] \in graph.first
  BY <1>1 DEF Regular, Axis
<1> QED BY <1>2, <1>3, <1>4, <1>5, <1>6

LEMMA AxisGoesOn ==
    ASSUME AllRegular, graph \in Diagrams, within = graph.inside,
           NEW e \in Axis, NEW n, n = graph.next[e]
    PROVE  \/ n \in Axis
           \/ n \in within \ graph.primary /\ graph.next[Twin(n)] \in Axis
           \/ /\ n \notin within
              /\ \A f \in within : Vertex0(f) = Vertex0(Twin(e)) => f = Twin(e)
<1>1. Regular(graph)
  BY DEF AllRegular
<1> QED BY <1>1 DEF Regular, Axis, Vertex0

(* A walk has linked edge to e, which comes first around its end, and goes   *)
(* on there.                                                                 *)
LEMMA RelinkStep ==
    ASSUME AllRegular, LinkInv, WalkInv, stage = "relink", UNCHANGED <<graph, within>>,
           NEW e \in Axis, e = Around(edge), next'[edge] = e,
           \A f \in Axis \ {edge} : next'[f] = next[f],
           \A f \in within \ graph.primary : next'[f] \in {graph.next[f], Twin(f)},
           GoTo(e, Visited(edge), "feet")
    PROVE  WalkInv'
<1> DEFINE c == Visited(edge)
<1>1. /\ graph \in Diagrams /\ color \in [Edge -> Color] /\ within = graph.inside
      /\ \A f \in Edge : color[f] # 1 <=> f \in within
      /\ edge \in Axis /\ color[edge] = 0
      /\ \A f \in Axis : IF color[f] = 2 THEN Follows(f) ELSE next[f] = graph.next[f]
  BY DEF LinkInv, LinkTypeOK, WalkInv, RelinkInv
<1>2. within \in SUBSET Edge /\ Axis \in SUBSET within
  BY <1>1, AxisFacts
<1>3. /\ c \in [Edge -> Color] /\ \A f \in Edge : c[f] = IF f = edge THEN 2 ELSE color[f]
      /\ \A f \in Edge : c[f] # 1 <=> f \in within
  BY <1>1, <1>2 DEF Visited, Color
<1>4. Axis' = Axis /\ Edge' = Edge /\ \A f : Around(f)' = Around(f)
  BY SameAround DEF Edge, EdgesOf
<1> HIDE DEF c
<1>5. \A f \in Axis : IF c[f] = 2 THEN next'[f] = Around(f) /\ next'[f] \in Axis
                                 ELSE next'[f] = graph.next[f]
  <2> TAKE f \in Axis
  <2>1. CASE f = edge
    BY <1>1, <1>2, <1>3, <2>1
  <2>2. CASE f # edge
    BY <1>1, <1>2, <1>3, <2>2 DEF Follows
  <2> QED BY <2>1, <2>2
<1>6. \A f \in Axis : c[f] # 2 => c[f] = 0 /\ f \in Unvisited(c)
  BY <1>2, <1>3 DEF Color, Axis, Unvisited
<1>7. \A f \in Unvisited(c) : f \in Axis /\ c[f] = 0
  BY <1>1, <1>3, UnvisitedFacts DEF Unvisited, Axis
<1>8. CASE color' = c /\ stage' = stage /\ edge' \in Axis /\ c[edge'] = 0
  <2>1. RelinkInv'
    <3>1. \A f \in Axis' : IF color'[f] = 2 THEN Follows(f)' ELSE next'[f] = graph'.next[f]
      BY <1>4, <1>5, <1>8 DEF Follows
    <3>2. \A f \in (within \ graph.primary)' : next'[f] \in {graph'.next[f], Twin(f)}
      OBVIOUS
    <3>3. edge' \in Axis' /\ color'[edge'] = 0
      BY <1>4, <1>8
    <3> QED BY <3>1, <3>2, <3>3 DEF RelinkInv
  <2>2. within' = graph'.inside /\ \A f \in Edge' : color'[f] # 1 <=> f \in within'
    BY <1>1, <1>3, <1>4, <1>8
  <2> QED BY <1>8, <2>1, <2>2 DEF WalkInv
<1>9. CASE Unvisited(c) = {} /\ color' = Restored(c) /\ stage' \in {"feet", "placeholders"}
           /\ (stage' = "feet" => edge' \in Unvisited(Restored(c)))
  <2>1. \A f \in Axis : next'[f] = Around(f) /\ next'[f] \in Axis
    BY <1>5, <1>6, <1>9
  <2>2. \A f \in Axis' : Follows(f)'
    BY <1>4, <2>1 DEF Follows
  <2>3. color' \in [Edge -> {0, 1}] /\ \A f \in Edge : color'[f] = IF c[f] = 1 THEN 1 ELSE 0
    BY <1>3, <1>9, RestoredFacts
  <2>4. \A f \in Edge' : color'[f] # 1 <=> f \in within'
    BY <1>3, <1>4, <2>3
  <2>5. stage' = "feet" => edge' \in Axis'
    BY <1>1, <1>4, <1>9, <2>3, <2>4, UnvisitedFacts DEF Unvisited, Axis
  <2> QED BY <1>1, <1>4, <1>9, <2>2, <2>3, <2>4, <2>5 DEF WalkInv
<1>10. c[e] # 2 => c[e] = 0
  BY <1>6
<1> QED BY <1>1, <1>7, <1>8, <1>9, <1>10, GoToFacts DEF c

LEMMA FollowPrimaryKeepsWalk ==
    ASSUME AllRegular, LinkInv, WalkInv, FollowPrimary
    PROVE  WalkInv'
<1> DEFINE n == next[edge]
<1>1. /\ stage = "relink" /\ IsInside(n) /\ Primary(n) /\ GoTo(n, Visited(edge), "feet")
      /\ UNCHANGED <<graph, next, within>>
  BY DEF FollowPrimary, markVars
<1>2. /\ graph \in Diagrams /\ color \in [Edge -> Color] /\ within = graph.inside
      /\ \A f \in Edge : color[f] # 1 <=> f \in within
      /\ RelinkInv /\ n \in Edge
  BY <1>1, WalkFacts DEF WalkInv, Walking
<1>3. edge \in Axis /\ edge \in Edge /\ edge \in within /\ n = Next(edge)
  BY <1>2, AxisFacts DEF RelinkInv, Next
<1>4. n \in Axis
  <2>1. n \in within
    BY <1>1, <1>2, <1>3 DEF IsInside, Visited
  <2> QED BY <1>1, <2>1 DEF Axis, Primary
<1>5. n = Around(edge)
  BY <1>2, <1>3, <1>4, AroundFacts
<1> QED BY <1>1, <1>2, <1>4, <1>5, RelinkStep DEF RelinkInv

LEMMA SkipSecondaryKeepsWalk ==
    ASSUME AllRegular, LinkInv, WalkInv, SkipSecondary
    PROVE  WalkInv'
<1> DEFINE n == next[edge]  beyond == next[Twin(next[edge])]
<1>1. CASE Crash
  BY <1>1 DEF Crash, WalkInv
<1>2. CASE ~ Crash
  <2>1. /\ stage = "relink" /\ IsInside(n) /\ ~ Primary(n)
        /\ next' = [next EXCEPT ![Twin(n)] = n, ![edge] = beyond]
        /\ GoTo(beyond, Visited(edge), "feet")
        /\ UNCHANGED <<graph, within>>
    BY <1>2 DEF SkipSecondary, markVars
  <2>2. /\ graph \in Diagrams /\ color \in [Edge -> Color] /\ within = graph.inside
        /\ \A f \in Edge : color[f] # 1 <=> f \in within
        /\ RelinkInv /\ LinksOK
        /\ n \in Edge /\ Twin(n) \in Edge /\ beyond \in Edge
    BY <2>1, WalkFacts DEF WalkInv, Walking
  <2>3. edge \in Axis /\ edge \in Edge /\ edge \in within /\ n = Next(edge)
    BY <2>2, AxisFacts DEF RelinkInv, Next
  <2>4. n \in within \ graph.primary /\ n \notin Axis
    BY <2>1, <2>2, <2>3 DEF IsInside, Visited, Axis, Primary
  <2>5. Twin(n) \in within \ graph.primary /\ Twin(Twin(n)) = n
    BY <2>2, <2>4, AxisFacts, GraphFacts
  <2>6. edge # Twin(n) /\ \A f \in Axis : f # Twin(n)
    BY <2>3, <2>5 DEF Axis
  <2>7. beyond = graph.next[Twin(n)]
    <3>1. beyond \in {graph.next[Twin(n)], n}
      BY <2>2, <2>5 DEF RelinkInv
    <3>2. prev[beyond] = Twin(n) /\ prev[n] = edge
      BY <2>2, <2>3, LinkFacts
    <3> QED BY <2>6, <3>1, <3>2
  <2>8. beyond \in Axis /\ beyond = RotPrev(Next(edge))
    BY <2>2, <2>3, <2>4, <2>7, AxisGoesOn DEF Next, RotPrev
  <2>9. beyond = Around(edge)
    BY <2>2, <2>3, <2>4, <2>8, AroundFacts
  <2>10. next \in [Edge -> Edge]
    BY <2>2 DEF LinksOK
  <2>11. \A f \in Edge : next'[f] = IF f = edge THEN beyond
                                     ELSE IF f = Twin(n) THEN n ELSE next[f]
    <3> HIDE DEF n, beyond
    <3> QED BY <2>1, <2>2, <2>3, <2>10
  <2>12. \A f \in Axis \ {edge} : next'[f] = next[f]
    BY <2>2, <2>6, <2>11, AxisFacts
  <2>13. \A f \in within \ graph.primary : next'[f] \in {graph.next[f], Twin(f)}
    <3>1. \A f \in within \ graph.primary : f \in Edge /\ f # edge
      BY <2>2, <2>3, AxisFacts DEF Axis
    <3> QED BY <2>2, <2>5, <2>11, <3>1 DEF RelinkInv
  <2> HIDE DEF n, beyond
  <2> QED BY <2>1, <2>3, <2>8, <2>9, <2>11, <2>12, <2>13, RelinkStep
<1> QED BY <1>1, <1>2

LEMMA TurnAroundKeepsWalk ==
    ASSUME AllRegular, LinkInv, WalkInv, TurnAround
    PROVE  WalkInv'
<1> DEFINE n == next[edge]  t == Twin(edge)  behind == prev[Twin(edge)]
<1>1. /\ stage = "relink" /\ ~ IsInside(n)
      /\ next' = [next EXCEPT ![behind] = n, ![edge] = t]
      /\ GoTo(t, Visited(edge), "feet")
      /\ UNCHANGED <<graph, within>>
  BY DEF TurnAround, markVars
<1>2. /\ graph \in Diagrams /\ color \in [Edge -> Color] /\ within = graph.inside
      /\ \A f \in Edge : color[f] # 1 <=> f \in within
      /\ RelinkInv /\ LinksOK
      /\ n \in Edge /\ t \in Edge /\ behind \in Edge
  BY <1>1, WalkFacts DEF WalkInv, Walking
<1>3. edge \in Axis /\ edge \in Edge /\ edge \in within /\ n = Next(edge)
  BY <1>2, AxisFacts DEF RelinkInv, Next
<1>4. n \notin within /\ t \in Axis /\ t \in within
  <2>1. n \notin within
    BY <1>1, <1>2, <1>3 DEF IsInside, Visited, Color
  <2> QED BY <1>2, <1>3, <2>1, AxisFacts
<1>5. \A f \in within : Vertex0(f) = Vertex0(t) => f = t
  BY <1>2, <1>3, <1>4, AxisFacts, AxisGoesOn DEF Next
<1>6. behind \notin within
  <2> SUFFICES ASSUME behind \in within PROVE FALSE
    OBVIOUS
  <2>1. Vertex0(t) = Vertex0(Twin(behind)) /\ next[behind] = t
    BY <1>2, LinkFacts
  <2>2. Twin(behind) = t
    BY <1>2, <1>5, <2>1, AxisFacts
  <2>3. behind = edge
    BY <1>2, <1>3, <2>2, GraphFacts
  <2> QED BY <1>4, <2>1, <2>3
<1>7. t = Around(edge)
  BY <1>2, <1>3, <1>4, <1>5, AxisFacts, AroundFacts
<1>8. next \in [Edge -> Edge]
  BY <1>2 DEF LinksOK
<1>9. \A f \in Edge : next'[f] = IF f = edge THEN t ELSE IF f = behind THEN n ELSE next[f]
  <2> HIDE DEF n, t, behind
  <2> QED BY <1>1, <1>2, <1>3, <1>8
<1>10. \A f \in within : f \in Edge /\ f # behind
  BY <1>2, <1>6, AxisFacts
<1>11. \A f \in Axis \ {edge} : next'[f] = next[f]
  BY <1>2, <1>9, <1>10, AxisFacts
<1>12. \A f \in within \ graph.primary : next'[f] \in {graph.next[f], Twin(f)}
  BY <1>2, <1>3, <1>9, <1>10 DEF RelinkInv, Axis
<1> HIDE DEF n, t, behind
<1> QED BY <1>1, <1>3, <1>4, <1>7, <1>9, <1>11, <1>12, RelinkStep

(* Links that follow the axis run through all of it, so prev does too.       *)
LEMMA PrevOnAxis ==
    ASSUME graph \in Diagrams, LinksOK, Axis \in SUBSET Edge, \A e \in Axis : next[e] \in Axis
    PROVE  \A e \in Axis : prev[e] \in Axis
<1> DEFINE f == [e \in Axis |-> next[e]]
<1>1. IsFiniteSet(Axis)
  BY GraphFacts, CountSubset
<1>2. f \in [Axis -> Axis] /\ \A x, y \in Axis : f[x] = f[y] => x = y
  <2>1. \A x \in Axis : prev[f[x]] = x
    BY LinkFacts
  <2> QED BY <2>1
<1>3. \A y \in Axis : \E x \in Axis : f[x] = y
  <2> HIDE DEF f
  <2> QED BY <1>1, <1>2, InjectiveIsOnto
<1> QED BY <1>3, LinkFacts

LEMMA FindFeetKeepsWalk ==
    ASSUME AllRegular, LinkInv, WalkInv, FindFeet
    PROVE  WalkInv'
<1> DEFINE last == BackTo(edge)
           c == [color EXCEPT ![prev[edge]] = IF last = edge THEN @ ELSE 0, ![last] = 2]
<1>1. CASE Crash
  BY <1>1 DEF Crash, WalkInv
<1>2. CASE ~ Crash
  <2>1. /\ stage = "feet" /\ GoTo(next[last], c, "placeholders")
        /\ UNCHANGED <<graph, next, within>>
    BY <1>2 DEF FindFeet, markVars
  <2>2. /\ graph \in Diagrams /\ color \in [Edge -> Color] /\ within = graph.inside
        /\ \A f \in Edge : color[f] # 1 <=> f \in within
        /\ LinksOK /\ edge \in Axis /\ \A e \in Axis : Follows(e)
    BY <2>1, WalkFacts DEF WalkInv, Walking
  <2>3. Axis \in SUBSET Edge /\ Axis \in SUBSET within
    BY <2>2, AxisFacts
  <2>4. \A e \in Axis : next[e] \in Axis /\ prev[e] \in Axis
    BY <2>2, <2>3, PrevOnAxis DEF Follows
  <2>5. last \in Axis /\ prev[edge] \in Axis /\ next[last] \in Axis
    BY <2>2, <2>4 DEF BackTo
  <2>6. c \in [Edge -> Color] /\ \A f \in Edge : c[f] # 1 <=> f \in within
    <3> DEFINE x == IF last = edge THEN color[prev[edge]] ELSE 0
               d == [color EXCEPT ![prev[edge]] = x]
    <3>1. /\ prev[edge] \in Edge /\ last \in Edge
          /\ x \in Color /\ x # 1 /\ 2 \in Color /\ 2 # 1
      BY <2>2, <2>3, <2>5 DEF Color
    <3> HIDE DEF x, last
    <3>2. d \in [Edge -> Color] /\ \A f \in Edge : d[f] # 1 <=> f \in within
      BY <2>2, <2>3, <2>5, <3>1
    <3>3. c = [d EXCEPT ![last] = 2]
      BY DEF x
    <3> HIDE DEF d, c
    <3> QED BY <2>3, <2>5, <3>1, <3>2, <3>3
  <2>7. Axis' = Axis /\ Edge' = Edge /\ \A f : Around(f)' = Around(f)
    BY <2>1, SameAround DEF Edge, EdgesOf
  <2>8. \A f \in Axis' : Follows(f)'
    BY <2>1, <2>2, <2>7 DEF Follows
  <2>9. \A f \in Unvisited(c) : f \in Axis
    BY <2>2, <2>6, UnvisitedFacts DEF Unvisited, Axis
  <2> HIDE DEF c
  <2>10. CASE color' = c /\ stage' = stage /\ edge' \in Axis
    BY <2>1, <2>2, <2>6, <2>7, <2>8, <2>10 DEF WalkInv
  <2>11. CASE color' = Restored(c) /\ stage' = "placeholders"
    <3>1. color' \in [Edge -> {0, 1}] /\ \A f \in Edge : color'[f] = IF c[f] = 1 THEN 1 ELSE 0
      BY <2>6, <2>11, RestoredFacts
    <3>2. \A f \in Edge' : color'[f] # 1 <=> f \in within'
      BY <2>1, <2>6, <2>7, <3>1
    <3> QED BY <2>1, <2>2, <2>7, <2>8, <2>11, <3>1, <3>2 DEF WalkInv
  <2> QED BY <2>1, <2>2, <2>5, <2>9, <2>10, <2>11, GoToFacts
<1> QED BY <1>1, <1>2

LEMMA StartRelinkKeepsWalk ==
    ASSUME AllRegular, LinkInv, WalkInv, ColoursRight, StartRelink
    PROVE  WalkInv'
<1> DEFINE u == Unvisited(color)
           ours == {e \in Unvisited(color) : graph.cell[e] \in graph.first}
<1>1. /\ stage = "color" /\ pass = "coloured" /\ next = graph.next
      /\ UNCHANGED <<graph, next>> /\ within' = {e \in Edge : color[e] = 0}
      /\ graph \in Diagrams /\ color \in [Edge -> {0, 1}]
  BY DEF StartRelink, markVars, WalkInv, LinkInv, LinkTypeOK, ColorInv, ColorTypeOK
<1>2. within' = graph.inside /\ graph' \in Diagrams /\ within' = graph'.inside /\ Edge' = Edge
  BY <1>1 DEF ColoursRight, ColoursMatchPolygon, Edge, EdgesOf
<1>3. u = Axis' /\ \A f \in Edge : color[f] # 1 <=> f \in within'
  BY <1>1, UnvisitedFacts DEF Unvisited, Axis
<1>4. Axis' \in SUBSET Edge /\ (Axis' # {} => ours # {})
  <2>1. /\ PointersInRange(graph) /\ Regular(graph)
    BY <1>1, DiagramAssumption DEF AllRegular, DiagramAssumption
  <2>2. Axis' = graph.inside \cap graph.primary
    BY <1>1, <1>2 DEF Axis
  <2>3. Axis' # {} => \E e \in Axis' : graph.cell[e] \in graph.first
    BY <2>1, <2>2 DEF Regular
  <2> QED BY <1>3, <2>1, <2>2, <2>3 DEF PointersInRange, Edge
<1>5. /\ ours \in SUBSET u
      /\ ours # {} => First(ours) \in ours /\ First(ours) # Null
      /\ ours = {} => First(ours) = Null
      /\ u = {} => First(u) = Null
  BY <1>1, UnvisitedFacts, FirstFacts
<1>6. CASE ours # {}
  <2>1. Begin("relink", First(ours), color)
    BY <1>5, <1>6 DEF StartRelink
  <2>2. stage' = "relink" /\ color' = color /\ edge' \in Axis'
    BY <1>3, <1>5, <1>6, <2>1 DEF Begin
  <2>3. color'[edge'] = 0
    BY <1>3, <2>2 DEF Unvisited
  <2>4. RelinkInv'
    <3>1. \A f \in Axis' : color'[f] # 2
      BY <1>1, <1>4, <2>2
    <3> QED BY <1>1, <2>2, <2>3, <3>1 DEF RelinkInv
  <2> QED BY <1>2, <1>3, <2>2, <2>4 DEF WalkInv
<1>7. CASE ours = {}
  <2>1. Axis' = {} /\ u = {}
    BY <1>3, <1>4, <1>7
  <2>2. Begin("feet", First(u), color) /\ First(u) = Null
    BY <1>5, <1>7, <2>1 DEF StartRelink
  <2>3. stage' = "placeholders" /\ color' = color
    BY <2>2 DEF Begin
  <2> QED BY <1>1, <1>2, <1>3, <2>1, <2>3 DEF WalkInv
<1> QED BY <1>6, <1>7

LEMMA NextKeepsWalkInv ==
    ASSUME AllRegular, LinkInv, WalkInv, ColoursRight, [LinkNext]_colorLinkVars
    PROVE  WalkInv'
<1>1. CASE Colouring
  <2>1. UNCHANGED graph
    BY <1>1 DEF Colouring, ColorNext, Exterior, Holes, EnterCell, MarkInterior, LoopOn,
                Between, Beyond, Secondary, Turn, Coloured, colorVars
  <2>2. stage = "color" /\ stage' = "color" /\ UNCHANGED next
    BY <1>1 DEF Colouring, linkVars, LinkInv, LinkTypeOK
  <2> QED BY <2>1, <2>2 DEF WalkInv
<1>2. CASE StartRelink
  BY <1>2, StartRelinkKeepsWalk
<1>3. CASE FollowPrimary \/ SkipSecondary \/ TurnAround
  BY <1>3, FollowPrimaryKeepsWalk, SkipSecondaryKeepsWalk, TurnAroundKeepsWalk
<1>4. CASE FindFeet
  BY <1>4, FindFeetKeepsWalk
<1>5. CASE PutPlaceholders
  <2>1. CASE Crash
    BY <2>1 DEF Crash, WalkInv
  <2>2. CASE ~ Crash
    <3>1. /\ stage = "placeholders" /\ stage' = "linked"
          /\ UNCHANGED <<graph, color, next, within>>
      BY <1>5, <2>2 DEF PutPlaceholders, markVars
    <3>2. Axis' = Axis /\ Edge' = Edge /\ \A f : Around(f)' = Around(f)
      BY <3>1, SameAround DEF Edge, EdgesOf
    <3> QED BY <3>1, <3>2 DEF WalkInv, Follows
  <2> QED BY <2>1, <2>2
<1>6. CASE UNCHANGED colorLinkVars
  <2>1. UNCHANGED <<graph, color, next, stage, start, edge, within>>
    BY <1>6 DEF colorLinkVars, colorVars, linkVars
  <2>2. Axis' = Axis /\ Edge' = Edge /\ \A f : Around(f)' = Around(f)
    BY <2>1, SameAround DEF Edge, EdgesOf
  <2>3. RelinkInv => RelinkInv'
    BY <2>1, <2>2 DEF RelinkInv, Follows
  <2> QED BY <2>1, <2>2, <2>3 DEF WalkInv, Follows
<1> QED BY <1>1, <1>2, <1>3, <1>4, <1>5, <1>6 DEF LinkNext, LinkStep

LEMMA InitWalkInv == LinkInit => WalkInv
  BY DEF LinkInit, WalkInv

LEMMA WalkInvariant ==
    ASSUME AllRegular
    PROVE  LinkSpec /\ []ColoursRight => [](LinkInv /\ WalkInv)
<1>1. LinkInv /\ WalkInv /\ ColoursRight /\ [LinkNext]_colorLinkVars => WalkInv'
  BY NextKeepsWalkInv
<1> QED BY <1>1, InitWalkInv, LinkInvariant, PTL DEF LinkSpec

(* For all regular diagrams: if the colours are right when the first walk    *)
(* begins, then after the walks next leads from each half-edge of the axis   *)
(* to the first half-edge of the axis around its end.                        *)
THEOREM LinksFollowTheAxis ==
    ASSUME AllRegular
    PROVE  LinkSpec /\ []ColoursRight => []LinksFollowAxis
<1>1. WalkInv => LinksFollowAxis
  BY DEF WalkInv, LinksFollowAxis, Follows
<1> QED BY <1>1, WalkInvariant, PTL

(* Under the same assumptions: no walk leaves a mark behind, and none has    *)
(* changed which half-edges are inside.                                      *)
THEOREM InsideIsKept ==
    ASSUME AllRegular
    PROVE  LinkSpec /\ []ColoursRight => []InsideKept
<1>1. LinkInv /\ WalkInv => InsideKept
  <2> SUFFICES ASSUME LinkInv, WalkInv, stage = "linked"
               PROVE  {e \in Edge : color[e] = 0} = within
    BY DEF InsideKept
  <2>1. /\ color \in [Edge -> {0, 1}] /\ within = graph.inside /\ graph \in Diagrams
        /\ \A e \in Edge : color[e] # 1 <=> e \in within
    BY DEF WalkInv, LinkInv, LinkTypeOK
  <2>2. within \in SUBSET Edge
    BY <2>1, DiagramAssumption DEF DiagramAssumption, PointersInRange, Edge
  <2> QED BY <2>1, <2>2
<1> QED BY <1>1, WalkInvariant, PTL

-----------------------------------------------------------------------------
(* The export, which implements LinkSpec, so that its theorems hold of it.  *)

-----------------------------------------------------------------------------
(* Export reads the diagram that linking leaves.                             *)

LEMMA ExportStepLinks == [ExportNext]_allVars => [LinkNext]_colorLinkVars
  BY DEF ExportNext, Building, Axis2Perl, Returned, allVars

LEMMA ExportLinks == ExportSpec => LinkSpec
<1>1. ExportInit => LinkInit
  BY DEF ExportInit
<1> QED BY <1>1, ExportStepLinks, PTL DEF ExportSpec, LinkSpec

LEMMA GraphStays ==
    ASSUME [LinkNext]_colorLinkVars
    PROVE  UNCHANGED graph /\ Edge' = Edge
<1>1. CASE Colouring
  BY <1>1 DEF Colouring, ColorNext, Exterior, Holes, EnterCell, MarkInterior, LoopOn,
              Between, Beyond, Secondary, Turn, Coloured, colorVars, Edge, EdgesOf
<1>2. CASE LinkStep
  BY <1>2 DEF LinkStep, StartRelink, FollowPrimary, SkipSecondary, TurnAround, FindFeet,
              PutPlaceholders, markVars, Edge, EdgesOf
<1>3. CASE UNCHANGED colorLinkVars
  BY <1>3 DEF colorLinkVars, colorVars, Edge, EdgesOf
<1> QED BY <1>1, <1>2, <1>3 DEF LinkNext

(* Once everything is linked no step of _build is left.                      *)
LEMMA LinkedIsLast ==
    ASSUME LinkInv, stage = "linked"
    PROVE  ~ LinkNext
  BY DEF LinkInv, LinkTypeOK, LinkNext, LinkStep, Colouring, StartRelink, FollowPrimary,
         SkipSecondary, TurnAround, FindFeet, PutPlaceholders

-----------------------------------------------------------------------------
(* What has been emitted, and what the tables say of it.                     *)

Entries == [vertex : {Vertex0(e) : e \in Edge}, edge : Edge]

ExportTypeOK ==
    /\ out \in Outs
    /\ out # "waiting" => stage = "linked"
    /\ out = "walk" => at \in Edge
    /\ edges_out \in Seq(Edge) /\ vertices_out \in Seq(Entries)
    /\ out = "waiting" => edges_out = <<>> /\ vertices_out = <<>>

(* Every half-edge and every vertex is emitted once; a vertex with the first *)
(* half-edge that starts there.                                              *)
EmittedOnce ==
    /\ Emitted \in SUBSET Internal
    /\ \A i, j \in 1..Len(edges_out) : edges_out[i] = edges_out[j] => i = j
    /\ EmittedVertices = {Vertex0(e) : e \in Emitted} \ {Null}
    /\ \A k \in 1..Len(vertices_out) :
         /\ vertices_out[k].edge \in Emitted
         /\ Vertex0(vertices_out[k].edge) = vertices_out[k].vertex
    /\ \A i, j \in 1..Len(vertices_out) : vertices_out[i].vertex = vertices_out[j].vertex => i = j

IfEmitted(e) == IF e \in Emitted THEN e ELSE Null

TablesMatch ==
    /\ thisToTwin = [e \in Edge |-> IfEmitted(Twin(e))]
    /\ thisToNext = [e \in Edge |-> IfEmitted(next[e])]
    /\ thisToPrev = [e \in Edge |-> IfEmitted(prev[e])]

ReferencesMatch ==
    out = "exported" => \A e \in Emitted :
        refs[e] = [twin |-> thisToTwin[e], next |-> thisToNext[e], prev |-> thisToPrev[e]]

ExportInv == ExportTypeOK /\ EmittedOnce /\ TablesMatch /\ ReferencesMatch

LEMMA EmittedFacts ==
    ASSUME ExportTypeOK
    PROVE  /\ Len(edges_out) \in Nat /\ DOMAIN edges_out = 1..Len(edges_out)
           /\ Len(vertices_out) \in Nat /\ DOMAIN vertices_out = 1..Len(vertices_out)
           /\ Emitted \in SUBSET Edge
           /\ edges_out = <<>> => Emitted = {}
           /\ vertices_out = <<>> => EmittedVertices = {}
<1>1. /\ Len(edges_out) \in Nat /\ DOMAIN edges_out = 1..Len(edges_out)
      /\ edges_out \in [1..Len(edges_out) -> Edge]
      /\ Len(vertices_out) \in Nat /\ DOMAIN vertices_out = 1..Len(vertices_out)
  BY LenProperties DEF ExportTypeOK
<1>2. Emitted \in SUBSET Edge
  BY <1>1 DEF Emitted
<1>3. edges_out = <<>> => Emitted = {}
  BY <1>1, EmptySeq DEF Emitted
<1>4. vertices_out = <<>> => EmittedVertices = {}
  BY <1>1, EmptySeq DEF EmittedVertices
<1> QED BY <1>1, <1>2, <1>3, <1>4

(* Before the export there is nothing to match.                              *)
LEMMA NothingYet ==
    ASSUME ExportTypeOK, out = "waiting", next \in [Edge -> Edge], prev \in [Edge -> Edge]
    PROVE  EmittedOnce /\ ReferencesMatch
           /\ (TablesMatch <=> /\ thisToTwin = [e \in Edge |-> Null]
                               /\ thisToNext = [e \in Edge |-> Null]
                               /\ thisToPrev = [e \in Edge |-> Null])
<1>1. /\ Emitted = {} /\ EmittedVertices = {}
      /\ 1..Len(edges_out) = {} /\ 1..Len(vertices_out) = {}
  BY EmittedFacts, EmptySeq DEF ExportTypeOK
<1>2. EmittedOnce
  BY <1>1 DEF EmittedOnce
<1>3. \A e : IfEmitted(e) = Null
  BY <1>1 DEF IfEmitted
<1> QED BY <1>2, <1>3 DEF TablesMatch, ReferencesMatch

LEMMA InitExportInv == ExportInit => ExportInv
<1> SUFFICES ASSUME ExportInit PROVE ExportInv
  OBVIOUS
<1>1. LinkInit /\ LinkInv
  BY InitLinkInv DEF ExportInit
<1>2. ExportTypeOK /\ out = "waiting"
  BY EmptySeq DEF ExportInit, ExportTypeOK, Outs
<1>3. next \in [Edge -> Edge] /\ prev \in [Edge -> Edge]
  BY <1>1 DEF LinkInv, LinkTypeOK
<1>4. TablesMatch
  BY <1>2, <1>3, NothingYet DEF ExportInit
<1> QED BY <1>2, <1>3, <1>4, NothingYet DEF ExportInv

LEMMA BuildingKeepsInv ==
    ASSUME LinkInv, LinkInv', ExportInv, Building
    PROVE  ExportInv'
<1>1. out = "waiting" /\ UNCHANGED exportVars /\ UNCHANGED graph /\ Edge' = Edge
  BY LinkedIsLast, GraphStays DEF Building, ExportInv, ExportTypeOK
<1>2. Entries' = Entries
  BY <1>1 DEF Entries, Vertex0
<1>3. ExportTypeOK' /\ out' = "waiting"
  BY <1>1, <1>2 DEF ExportInv, ExportTypeOK, exportVars
<1>4. next \in [Edge -> Edge] /\ prev \in [Edge -> Edge]
      /\ next' \in [Edge' -> Edge'] /\ prev' \in [Edge' -> Edge']
  BY DEF LinkInv, LinkTypeOK
<1>5. /\ thisToTwin = [e \in Edge |-> Null] /\ thisToNext = [e \in Edge |-> Null]
      /\ thisToPrev = [e \in Edge |-> Null]
  BY <1>1, <1>4, NothingYet DEF ExportInv
<1>6. /\ Emitted' = {} /\ EmittedVertices' = {}
      /\ 1..Len(edges_out') = {} /\ 1..Len(vertices_out') = {}
  <2>1. /\ Emitted = {} /\ EmittedVertices = {}
        /\ 1..Len(edges_out) = {} /\ 1..Len(vertices_out) = {}
    BY <1>1, EmittedFacts, EmptySeq DEF ExportInv, ExportTypeOK
  <2> QED BY <1>1, <2>1 DEF Emitted, EmittedVertices, exportVars
<1>7. EmittedOnce' /\ ReferencesMatch'
  BY <1>3, <1>6 DEF EmittedOnce, ReferencesMatch
<1>8. TablesMatch'
  BY <1>1, <1>5, <1>6 DEF TablesMatch, IfEmitted, exportVars, tableVars
<1> QED BY <1>3, <1>7, <1>8 DEF ExportInv

(* Emitting adds one half-edge, and the vertex where it starts if that is    *)
(* new.                                                                      *)
LEMMA EmitFacts ==
    ASSUME graph \in Diagrams, LinksOK, ExportInv, NEW e \in Edge, New(e), Emit(e),
           UNCHANGED colorLinkVars
    PROVE  /\ edges_out' \in Seq(Edge) /\ vertices_out' \in Seq(Entries)
           /\ Emitted' = Emitted \cup {e}
           /\ EmittedOnce' /\ TablesMatch'
<1>1. /\ edges_out \in Seq(Edge) /\ vertices_out \in Seq(Entries)
      /\ edges_out' = Append(edges_out, e) /\ vertices_out' = VertexOut(e) /\ Enter(e)
      /\ e \in Internal /\ e \notin Emitted
  BY DEF ExportInv, ExportTypeOK, Emit, New
<1>2. /\ Edge' = Edge /\ Internal' = Internal /\ \A f : Vertex0(f)' = Vertex0(f)
      /\ UNCHANGED <<graph, next, prev>>
  BY DEF colorLinkVars, colorVars, linkVars, Edge, EdgesOf, Internal, Vertex0
<1> DEFINE n == Len(edges_out)  m == Len(vertices_out)
<1>3. /\ n \in Nat /\ edges_out' \in Seq(Edge) /\ Len(edges_out') = n + 1
      /\ DOMAIN edges_out = 1..n /\ DOMAIN edges_out' = 1..(n + 1)
      /\ \A k \in 1..n : edges_out'[k] = edges_out[k]
      /\ edges_out'[n + 1] = e
  BY <1>1, AppendProperties, LenProperties
<1>4. Emitted' = Emitted \cup {e}
  <2>1. Emitted' = {edges_out'[k] : k \in 1..(n + 1)} /\ Emitted = {edges_out[k] : k \in 1..n}
    BY <1>3 DEF Emitted
  <2>2. 1..(n + 1) = (1..n) \cup {n + 1}
    BY <1>3
  <2> HIDE DEF n
  <2> QED BY <1>3, <2>1, <2>2
<1>5. \A i, j \in 1..Len(edges_out') : edges_out'[i] = edges_out'[j] => i = j
  <2>1. \A k \in 1..n : edges_out[k] # e
    BY <1>1, <1>3 DEF Emitted
  <2>2. \A i, j \in 1..n : edges_out[i] = edges_out[j] => i = j
    BY DEF ExportInv, EmittedOnce
  <2>3. \A i \in 1..(n + 1) : i \in 1..n \/ i = n + 1
    BY <1>3
  <2> HIDE DEF n
  <2> QED BY <1>3, <2>1, <2>2, <2>3
<1>6. ASSUME Vertex0(e) \in EmittedVertices \cup {Null}
      PROVE  vertices_out' \in Seq(Entries) /\ EmittedOnce'
  <2>1. vertices_out' = vertices_out
    BY <1>1, <1>6 DEF VertexOut
  <2>2. EmittedVertices' = EmittedVertices
    BY <2>1 DEF EmittedVertices
  <2>3. EmittedVertices' = {Vertex0(f) : f \in Emitted'} \ {Null}
    BY <1>4, <1>6, <2>2 DEF ExportInv, EmittedOnce
  <2>4. EmittedOnce'
    BY <1>1, <1>2, <1>4, <1>5, <2>1, <2>3 DEF ExportInv, EmittedOnce
  <2> QED BY <1>1, <2>1, <2>4
<1>7. ASSUME Vertex0(e) \notin EmittedVertices \cup {Null}
      PROVE  vertices_out' \in Seq(Entries) /\ EmittedOnce'
  <2> DEFINE new == [vertex |-> Vertex0(e), edge |-> e]
  <2>1. vertices_out' = Append(vertices_out, new) /\ new \in Entries
    BY <1>1, <1>7 DEF VertexOut, Entries
  <2>2. /\ m \in Nat /\ vertices_out' \in Seq(Entries) /\ Len(vertices_out') = m + 1
        /\ DOMAIN vertices_out = 1..m /\ DOMAIN vertices_out' = 1..(m + 1)
        /\ \A k \in 1..m : vertices_out'[k] = vertices_out[k]
        /\ vertices_out'[m + 1] = new
    BY <1>1, <2>1, AppendProperties, LenProperties
  <2>3. \A i \in 1..(m + 1) : i \in 1..m \/ i = m + 1
    BY <2>2
  <2> HIDE DEF m
  <2>4. EmittedVertices' = EmittedVertices \cup {Vertex0(e)}
    <3>1. /\ EmittedVertices' = {vertices_out'[k].vertex : k \in 1..(m + 1)}
          /\ EmittedVertices = {vertices_out[k].vertex : k \in 1..m}
      BY <2>2 DEF EmittedVertices
    <3>2. 1..(m + 1) = (1..m) \cup {m + 1}
      BY <2>2
    <3> QED BY <2>2, <3>1, <3>2
  <2>5. EmittedVertices' = {Vertex0(f) : f \in Emitted'} \ {Null}
    BY <1>4, <1>7, <2>4 DEF ExportInv, EmittedOnce
  <2>6. \A k \in 1..(m + 1) : /\ vertices_out'[k].edge \in Emitted'
                              /\ Vertex0(vertices_out'[k].edge) = vertices_out'[k].vertex
    BY <1>4, <2>2, <2>3 DEF ExportInv, EmittedOnce, m
  <2>7. \A i, j \in 1..(m + 1) :
          vertices_out'[i].vertex = vertices_out'[j].vertex => i = j
    <3>1. \A k \in 1..m : vertices_out[k].vertex # Vertex0(e)
      BY <1>7, <2>2 DEF EmittedVertices
    <3>2. \A i, j \in 1..m : vertices_out[i].vertex = vertices_out[j].vertex => i = j
      BY DEF ExportInv, EmittedOnce, m
    <3> QED BY <2>2, <2>3, <3>1, <3>2
  <2>8. Emitted' \in SUBSET Internal'
    BY <1>1, <1>2, <1>4 DEF ExportInv, EmittedOnce
  <2>9. EmittedOnce'
    BY <1>2, <1>5, <2>2, <2>5, <2>6, <2>7, <2>8 DEF EmittedOnce
  <2> QED BY <2>2, <2>9
<1>8. TablesMatch'
  <2>1. /\ thisToTwin = [f \in Edge |-> IfEmitted(Twin(f))]
        /\ thisToNext = [f \in Edge |-> IfEmitted(next[f])]
        /\ thisToPrev = [f \in Edge |-> IfEmitted(prev[f])]
        /\ thisToTwin' = [thisToTwin EXCEPT ![Twin(e)] = e]
        /\ thisToNext' = [thisToNext EXCEPT ![prev[e]] = e]
        /\ thisToPrev' = [thisToPrev EXCEPT ![next[e]] = e]
    BY <1>1 DEF ExportInv, TablesMatch, Enter
  <2>2. \A f : IfEmitted(f)' = IF f = e THEN e ELSE IfEmitted(f)
    BY <1>4 DEF IfEmitted
  <2>3. \A f \in Edge : /\ Twin(f) = e <=> f = Twin(e)
                        /\ next[f] = e <=> f = prev[e]
                        /\ prev[f] = e <=> f = next[e]
    BY LinkFacts
  <2>4. /\ thisToTwin' = [f \in Edge |-> IF Twin(f) = e THEN e ELSE IfEmitted(Twin(f))]
        /\ thisToNext' = [f \in Edge |-> IF next[f] = e THEN e ELSE IfEmitted(next[f])]
        /\ thisToPrev' = [f \in Edge |-> IF prev[f] = e THEN e ELSE IfEmitted(prev[f])]
    BY <2>1, <2>3
  <2>5. /\ thisToTwin' = [f \in Edge |-> IfEmitted(Twin(f))']
        /\ thisToNext' = [f \in Edge |-> IfEmitted(next[f])']
        /\ thisToPrev' = [f \in Edge |-> IfEmitted(prev[f])']
    BY <1>2, <2>2, <2>4
  <2> QED BY <1>2, <2>5 DEF TablesMatch
<1> QED BY <1>3, <1>4, <1>6, <1>7, <1>8

-----------------------------------------------------------------------------
(* ExportInv is inductive. *)

(* During the export the diagram stays as it is.                             *)
LEMMA ExportFacts ==
    ASSUME LinkInv, UNCHANGED colorLinkVars
    PROVE  /\ graph \in Diagrams /\ LinksOK /\ Internal \in SUBSET Edge
           /\ Edge' = Edge /\ Entries' = Entries /\ Internal' = Internal
           /\ \A e : Vertex0(e)' = Vertex0(e)
           /\ UNCHANGED <<graph, next, prev, stage, color>>
<1>1. graph \in Diagrams /\ LinksOK
  BY DEF LinkInv, LinkTypeOK, LinksOK
<1>2. Internal \in SUBSET Edge
  BY <1>1, UnvisitedFacts DEF Internal
<1>3. UNCHANGED <<graph, next, prev, stage, color>>
  BY DEF colorLinkVars, colorVars, linkVars
<1> QED BY <1>1, <1>2, <1>3 DEF Edge, EdgesOf, Entries, Internal, Vertex0

LEMMA SameExport ==
    ASSUME LinkInv, ExportInv, UNCHANGED colorLinkVars,
           UNCHANGED <<edges_out, vertices_out, tableVars>>
    PROVE  /\ Emitted' = Emitted /\ EmittedOnce' /\ TablesMatch'
           /\ edges_out' \in Seq(Edge) /\ vertices_out' \in Seq(Entries)
<1>1. Emitted' = Emitted /\ EmittedVertices' = EmittedVertices
  BY DEF Emitted, EmittedVertices
<1>2. EmittedOnce'
  BY <1>1, ExportFacts DEF ExportInv, EmittedOnce
<1>3. TablesMatch'
  BY <1>1, ExportFacts DEF ExportInv, TablesMatch, tableVars, IfEmitted
<1> QED BY <1>1, <1>2, <1>3 DEF ExportInv, ExportTypeOK

LEMMA BeginFacts ==
    ASSUME graph \in Diagrams, NEW edges \in SUBSET Edge, BeginAt(First(edges))
    PROVE  /\ out' \in {"walk", "references"} /\ (out' = "walk" => at' \in Edge)
           /\ out' = "references" => edges = {}
  BY FirstFacts DEF BeginAt

LEMMA StartExportKeepsInv ==
    ASSUME LinkInv, ExportInv, StartExport, UNCHANGED colorLinkVars
    PROVE  ExportInv'
<1>1. /\ stage = "linked" /\ BeginAt(FirstOfInput)
      /\ UNCHANGED <<edges_out, vertices_out, tableVars>>
  BY DEF StartExport
<1>2. out' \in {"walk", "references"} /\ (out' = "walk" => at' \in Edge)
  <2>1. {e \in Internal : graph.cell[e] \in graph.first} \in SUBSET Edge
    BY ExportFacts
  <2> QED BY <1>1, <2>1, ExportFacts, BeginFacts DEF FirstOfInput
<1>3. ExportTypeOK'
  BY <1>1, <1>2, SameExport, ExportFacts DEF ExportTypeOK, Outs
<1> QED BY <1>1, <1>2, <1>3, SameExport DEF ExportInv, ReferencesMatch

LEMMA WalkOnKeepsInv ==
    ASSUME LinkInv, ExportInv, WalkOn, UNCHANGED colorLinkVars
    PROVE  /\ ExportInv'
           /\ out' = "references" => Internal \in SUBSET Emitted'
<1>1. out = "walk" /\ at \in Edge /\ stage = "linked" /\ graph \in Diagrams /\ LinksOK
  BY ExportFacts DEF WalkOn, ExportInv, ExportTypeOK
<1>2. CASE DirectionFails(at)
  <2>1. out' = "crashed" /\ UNCHANGED <<edges_out, vertices_out, tableVars>>
    BY <1>2 DEF WalkOn
  <2>2. ExportTypeOK'
    BY <1>1, <2>1, SameExport, ExportFacts DEF ExportTypeOK, Outs
  <2> QED BY <2>1, <2>2, SameExport DEF ExportInv, ReferencesMatch
<1>3. CASE ~ DirectionFails(at)
  <2> DEFINE left == Unprocessed(Emitted \cup (Internal \cap {at}))
  <2>1. /\ Emit(at)
        /\ \/ at' = next[at] /\ UNCHANGED out
           \/ BeginAt(First(left))
    BY <1>3 DEF WalkOn
  <2>2. left \in SUBSET Edge
    BY ExportFacts DEF Unprocessed
  <2>3. /\ out' \in {"walk", "references"} /\ (out' = "walk" => at' \in Edge)
        /\ (out' = "references" => left = {})
    BY <1>1, <2>1, <2>2, BeginFacts, LinkFacts
  <2>4. /\ edges_out' \in Seq(Edge) /\ vertices_out' \in Seq(Entries)
        /\ Emitted \cup (Internal \cap {at}) \in SUBSET Emitted'
        /\ EmittedOnce' /\ TablesMatch'
    <3>1. CASE New(at)
      BY <1>1, <2>1, <3>1, EmitFacts
    <3>2. CASE ~ New(at)
      <4>1. UNCHANGED <<edges_out, vertices_out, tableVars>>
        BY <2>1, <3>2 DEF Emit
      <4> QED BY <3>2, <4>1, SameExport DEF New
    <3> QED BY <3>1, <3>2
  <2>5. ExportTypeOK'
    BY <1>1, <2>3, <2>4, ExportFacts DEF ExportTypeOK, Outs
  <2>6. out' = "references" => Internal \in SUBSET Emitted'
    BY <2>3, <2>4 DEF Unprocessed
  <2> QED BY <2>3, <2>4, <2>5, <2>6 DEF ExportInv, ReferencesMatch
<1> QED BY <1>2, <1>3

LEMMA SetReferencesKeepsInv ==
    ASSUME LinkInv, ExportInv, SetReferences, UNCHANGED colorLinkVars
    PROVE  ExportInv'
<1>1. /\ out = "references" /\ out' \in {"crashed", "exported"}
      /\ UNCHANGED <<edges_out, vertices_out, tableVars>>
      /\ \A e \in Internal : refs'[e] =
            [twin |-> thisToTwin[e], next |-> thisToNext[e], prev |-> thisToPrev[e]]
  BY ExportFacts DEF SetReferences
<1>2. Emitted' = Emitted /\ Emitted \in SUBSET Internal /\ UNCHANGED tableVars
  BY <1>1, SameExport DEF ExportInv, EmittedOnce
<1>3. ExportTypeOK'
  BY <1>1, SameExport, ExportFacts DEF ExportInv, ExportTypeOK, Outs
<1>4. ReferencesMatch'
  BY <1>1, <1>2 DEF ReferencesMatch, tableVars
<1> QED BY <1>1, <1>3, <1>4, SameExport DEF ExportInv

LEMMA NextKeepsExportInv ==
    ASSUME LinkInv, LinkInv', ExportInv, [ExportNext]_allVars
    PROVE  ExportInv'
<1>1. CASE Building
  BY <1>1, BuildingKeepsInv
<1>2. CASE Axis2Perl
  BY <1>2, StartExportKeepsInv, WalkOnKeepsInv, SetReferencesKeepsInv DEF Axis2Perl
<1>3. CASE UNCHANGED allVars
  <2>1. UNCHANGED colorLinkVars /\ UNCHANGED exportVars
    BY <1>3 DEF allVars
  <2>2. UNCHANGED <<out, at, edges_out, vertices_out, tableVars, refs>>
    BY <2>1 DEF exportVars, tableVars
  <2>3. ExportTypeOK'
    BY <2>1, <2>2, SameExport, ExportFacts DEF ExportInv, ExportTypeOK
  <2>4. ReferencesMatch'
    BY <2>1, <2>2, SameExport DEF ExportInv, ReferencesMatch, tableVars
  <2> QED BY <2>1, <2>2, <2>3, <2>4, SameExport DEF ExportInv
<1> QED BY <1>1, <1>2, <1>3 DEF ExportNext, Returned

LEMMA ExportInvariant == ExportSpec => [](LinkInv /\ ExportInv)
<1>1. LinkInv /\ ExportInv /\ LinkInv' /\ [ExportNext]_allVars => ExportInv'
  BY NextKeepsExportInv
<1> QED BY <1>1, InitExportInv, ExportLinks, LinkInvariant, PTL DEF ExportSpec

-----------------------------------------------------------------------------
(* On regular diagrams whose colours are right, the walks reach all of the   *)
(* medial axis.                                                              *)

AllEmitted == out \in {"references", "exported"} => Emitted = Axis

LEMMA InternalIsAxis ==
    ASSUME AllRegular, LinkInv, WalkInv, stage = "linked"
    PROVE  /\ Internal = Axis /\ graph \in Diagrams /\ within = graph.inside
           /\ Axis \in SUBSET Edge /\ \A e \in Axis : Vertex0(e) # Null /\ Twin(e) \in Axis
           /\ \A e \in Axis : next[e] \in Axis /\ prev[e] \in Axis
<1>1. /\ graph \in Diagrams /\ within = graph.inside /\ LinksOK
      /\ color \in [Edge -> {0, 1}] /\ \A e \in Edge : color[e] # 1 <=> e \in within
      /\ \A e \in Axis : next[e] \in Axis
  BY DEF WalkInv, LinkInv, LinkTypeOK, LinksOK, Follows
<1>2. /\ Axis \in SUBSET Edge /\ \A e \in Axis : Twin(e) \in Axis
      /\ graph.primary \in SUBSET Edge
  BY <1>1, AxisFacts, UnvisitedFacts
<1>3. \A e \in Edge : color[e] % 2 = 0 <=> e \in within
  <2>1. 0 % 2 = 0 /\ 1 % 2 = 1
    OBVIOUS
  <2> QED BY <1>1, <2>1
<1>4. Internal = Axis
  BY <1>2, <1>3 DEF Internal, Axis
<1>5. \A e \in Axis : Vertex0(e) # Null
  BY <1>1 DEF AllRegular, Regular, Axis, Vertex0
<1>6. \A e \in Axis : prev[e] \in Axis
  BY <1>1, <1>2, PrevOnAxis
<1> QED BY <1>1, <1>2, <1>4, <1>5, <1>6

LEMMA NextKeepsAllEmitted ==
    ASSUME AllRegular, LinkInv, WalkInv, ExportInv, ExportInv', AllEmitted,
           [ExportNext]_allVars
    PROVE  AllEmitted'
<1>1. CASE Building
  <2>1. out' = "waiting"
    BY <1>1, LinkedIsLast DEF Building, exportVars, ExportInv, ExportTypeOK
  <2> QED BY <2>1 DEF AllEmitted
<1>2. CASE Axis2Perl
  <2>1. UNCHANGED colorLinkVars /\ Axis' = Axis /\ Internal' = Internal
    BY <1>2, ExportFacts DEF Axis2Perl, Axis, colorLinkVars, colorVars, linkVars
  <2>2. CASE StartExport
    <3>1. /\ stage = "linked" /\ BeginAt(FirstOfInput) /\ out = "waiting"
          /\ UNCHANGED <<edges_out, vertices_out, tableVars>>
      BY <2>2 DEF StartExport
    <3>2. Emitted' = {}
      BY <2>1, <3>1, SameExport, EmittedFacts DEF ExportInv, ExportTypeOK
    <3>3. Internal = Axis /\ graph \in Diagrams /\ within = graph.inside /\ Axis \in SUBSET Edge
      BY <3>1, InternalIsAxis
    <3>4. out' = "references" => {e \in Internal : graph.cell[e] \in graph.first} = {}
      <4>1. {e \in Internal : graph.cell[e] \in graph.first} \in SUBSET Edge
        BY <3>3
      <4> QED BY <3>1, <3>3, <4>1, BeginFacts DEF FirstOfInput
    <3>5. out' = "references" => Axis = {}
      BY <3>3, <3>4, AxisFacts
    <3>6. out' # "exported"
      BY <3>1 DEF BeginAt
    <3> QED BY <2>1, <3>2, <3>5, <3>6 DEF AllEmitted
  <2>3. CASE WalkOn
    <3>1. out = "walk" /\ stage = "linked"
      BY <2>3 DEF WalkOn, ExportInv, ExportTypeOK
    <3>2. out' = "references" => Internal \in SUBSET Emitted'
      BY <2>1, <2>3, WalkOnKeepsInv
    <3>3. Emitted' \in SUBSET Internal /\ Internal = Axis
      BY <2>1, <3>1, InternalIsAxis DEF ExportInv, EmittedOnce
    <3>4. out' # "exported"
      BY <2>3, <3>1 DEF WalkOn, BeginAt
    <3> QED BY <2>1, <3>2, <3>3, <3>4 DEF AllEmitted
  <2>4. CASE SetReferences
    <3>1. out = "references" /\ Emitted' = Emitted
      BY <2>1, <2>4, SameExport DEF SetReferences
    <3> QED BY <2>1, <3>1 DEF AllEmitted
  <2> QED BY <1>2, <2>2, <2>3, <2>4 DEF Axis2Perl
<1>3. CASE UNCHANGED allVars
  BY <1>3 DEF allVars, exportVars, colorLinkVars, colorVars, linkVars, AllEmitted, Emitted, Axis
<1> QED BY <1>1, <1>2, <1>3 DEF ExportNext, Returned

LEMMA AxisExported ==
    ASSUME AllRegular
    PROVE  ExportSpec /\ []ColoursRight => [](LinkInv /\ WalkInv /\ ExportInv /\ AllEmitted)
<1>1. LinkInv /\ WalkInv /\ ExportInv /\ ExportInv' /\ AllEmitted /\ [ExportNext]_allVars
        => AllEmitted'
  BY NextKeepsAllEmitted
<1>2. ExportInit => AllEmitted
  BY DEF ExportInit, AllEmitted
<1> QED BY <1>1, <1>2, ExportInvariant, ExportLinks, WalkInvariant, PTL DEF ExportSpec

(* For all regular diagrams, if the colours are right when the first walk    *)
(* begins: the exported half-edges are the primary ones inside the polygon,  *)
(* each of them once.                                                        *)
THEOREM ExportIsComplete ==
    ASSUME AllRegular
    PROVE  ExportSpec /\ []ColoursRight => []ExportComplete
<1>1. ExportInv /\ AllEmitted => ExportComplete
  <2> SUFFICES ASSUME ExportInv, AllEmitted, out \in {"references", "exported"}
               PROVE  Emitted = within \cap graph.primary /\ Len(edges_out) = Cardinality(Emitted)
    BY DEF ExportComplete
  <2>1. Emitted = within \cap graph.primary
    BY DEF AllEmitted, Axis
  <2>2. Len(edges_out) \in Nat /\ DOMAIN edges_out = 1..Len(edges_out)
    BY EmittedFacts DEF ExportInv
  <2>3. Cardinality({edges_out[k] : k \in 1..Len(edges_out)}) = Len(edges_out)
    BY <2>2, CountDistinct DEF ExportInv, EmittedOnce
  <2> QED BY <2>1, <2>2, <2>3 DEF Emitted
<1> QED BY <1>1, AxisExported, PTL

(* Under the same assumptions: every reference of an exported half-edge      *)
(* leads to an exported half-edge, and the references are inverse to each    *)
(* other.                                                                    *)
THEOREM ReferencesAreMutual ==
    ASSUME AllRegular
    PROVE  ExportSpec /\ []ColoursRight => []ReferencesMutual
<1>1. LinkInv /\ WalkInv /\ ExportInv /\ AllEmitted => ReferencesMutual
  <2> SUFFICES ASSUME LinkInv, WalkInv, ExportInv, AllEmitted, out = "exported"
               PROVE  \A e \in Emitted :
                        /\ {refs[e].twin, refs[e].next, refs[e].prev} \subseteq Emitted
                        /\ refs[refs[e].twin].twin = e /\ Vertex0(refs[e].next) = Vertex1(e)
                        /\ refs[refs[e].next].prev = e /\ refs[refs[e].prev].next = e
    BY DEF ReferencesMutual
  <2>1. Emitted = Axis /\ stage = "linked" /\ graph \in Diagrams /\ LinksOK
    BY DEF AllEmitted, ExportInv, ExportTypeOK, LinkInv, LinkTypeOK, LinksOK
  <2>2. /\ Axis \in SUBSET Edge
        /\ \A e \in Axis : Twin(e) \in Axis /\ next[e] \in Axis /\ prev[e] \in Axis
    BY <2>1, InternalIsAxis
  <2>3. \A e \in Axis : /\ refs[e].twin = Twin(e) /\ refs[e].next = next[e]
                        /\ refs[e].prev = prev[e]
    <3> TAKE e \in Axis
    <3>1. refs[e] = [twin |-> thisToTwin[e], next |-> thisToNext[e], prev |-> thisToPrev[e]]
      BY <2>1 DEF ExportInv, ReferencesMatch
    <3>2. thisToTwin[e] = Twin(e) /\ thisToNext[e] = next[e] /\ thisToPrev[e] = prev[e]
      BY <2>1, <2>2 DEF ExportInv, TablesMatch, IfEmitted
    <3> QED BY <3>1, <3>2
  <2> QED BY <2>1, <2>2, <2>3, LinkFacts DEF Vertex1
<1> QED BY <1>1, AxisExported, PTL

(* Under the same assumptions: each end of an exported half-edge has one     *)
(* array, which refers to an exported half-edge that starts there.           *)
THEOREM VerticesAreOnce ==
    ASSUME AllRegular
    PROVE  ExportSpec /\ []ColoursRight => []VerticesOnce
<1>1. LinkInv /\ WalkInv /\ ExportInv /\ AllEmitted => VerticesOnce
  <2> SUFFICES ASSUME LinkInv, WalkInv, ExportInv, AllEmitted, out = "exported"
               PROVE  /\ EmittedVertices = {Vertex0(e) : e \in Emitted} \cup {Vertex1(e) : e \in Emitted}
                      /\ Len(vertices_out) = Cardinality(EmittedVertices)
                      /\ \A k \in DOMAIN vertices_out :
                           /\ vertices_out[k].edge \in Emitted
                           /\ Vertex0(vertices_out[k].edge) = vertices_out[k].vertex
    BY DEF VerticesOnce
  <2>1. Emitted = Axis /\ stage = "linked"
    BY DEF AllEmitted, ExportInv, ExportTypeOK
  <2>2. \A e \in Emitted : Twin(e) \in Emitted /\ Vertex0(e) # Null
    BY <2>1, InternalIsAxis
  <2>3. EmittedVertices = {Vertex0(e) : e \in Emitted} \ {Null}
    BY DEF ExportInv, EmittedOnce
  <2>4. EmittedVertices = {Vertex0(e) : e \in Emitted} \cup {Vertex1(e) : e \in Emitted}
    BY <2>2, <2>3 DEF Vertex1
  <2> DEFINE m == Len(vertices_out)
             f == [k \in 1..m |-> vertices_out[k].vertex]
  <2>5. m \in Nat /\ DOMAIN vertices_out = 1..m
    BY EmittedFacts DEF ExportInv
  <2>6. Cardinality({f[k] : k \in 1..m}) = m
    <3>1. DOMAIN f = 1..m /\ \A i, j \in 1..m : f[i] = f[j] => i = j
      BY DEF ExportInv, EmittedOnce
    <3> HIDE DEF f, m
    <3> QED BY <2>5, <3>1, CountDistinct
  <2>7. EmittedVertices = {f[k] : k \in 1..m}
    BY <2>5 DEF EmittedVertices
  <2> QED BY <2>4, <2>5, <2>6, <2>7 DEF ExportInv, EmittedOnce
<1> QED BY <1>1, AxisExported, PTL
=============================================================================
