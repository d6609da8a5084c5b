--------------------------- MODULE Voronoi2Perl ---------------------------
(***************************************************************************)
(* medial_axis2perl: the medial axis as Perl arrays.  A walk over next     *)
(* emits each primary half-edge inside the polygon once and enters it in   *)
(* three lookup tables, under the half-edges that will refer to it; a      *)
(* second pass reads the references out of the tables.  The array of a     *)
(* half-edge is identified with the half-edge.                             *)
(***************************************************************************)
EXTENDS MedialAxisLink

VARIABLES
    out,            \* the part of the code that runs: see Outs
    first, at,      \* start_edge and it
    edges_out,      \* the half-edges emitted, in order: they are PROCESSED
    vertices_out,   \* the vertices emitted, each with the half-edge it refers to
    thisToTwin, thisToNext, thisToPrev, \* half-edge -> emitted half-edge or null
    refs            \* half-edge -> the references of its array

exportVars == <<out, first, at, edges_out, vertices_out,
                thisToTwin, thisToNext, thisToPrev, refs>>
tableVars == <<thisToTwin, thisToNext, thisToPrev>>
allVars == <<colorLinkVars, exportVars>>

Outs == {"waiting", "walk", "references", "exported", "crashed"}
NoRefs == [twin |-> Null, next |-> Null, prev |-> Null]

ExportInit ==
    /\ LinkInit
    /\ out = "waiting" /\ first = Null /\ at = Null
    /\ edges_out = <<>> /\ vertices_out = <<>>
    /\ thisToTwin = [e \in Edge |-> Null]
    /\ thisToNext = thisToTwin /\ thisToPrev = thisToTwin
    /\ refs = [e \in Edge |-> NoRefs]

-----------------------------------------------------------------------------
Emitted == {edges_out[k] : k \in DOMAIN edges_out}
EmittedVertices == {vertices_out[k].vertex : k \in DOMAIN vertices_out}

(* Primary and not of EXTERNAL_COLOR. *)
Internal == {e \in graph.primary : color[e] % 2 = 0}

FirstOfInput == First({e \in Internal : graph.cell[e] \in graph.first})

(* A walk begins, or the second pass when there is nowhere to begin.         *)
BeginAt(e) ==
    /\ first' = e /\ at' = e
    /\ out' = IF e = Null THEN "references" ELSE "walk"

StartExport ==
    /\ stage = "linked" /\ out = "waiting"
    /\ BeginAt(FirstOfInput)
    /\ UNCHANGED <<edges_out, vertices_out, tableVars, refs>>

(* theta and phi are computed from feet and vertices that are not tested.    *)
DirectionFails(e) ==
    /\ e \in Internal /\ Finite(e)
    /\ \/ Curved(e) /\ next[Twin(e)] \notin feet
       \/ e \notin feet
       \/ prev[e] = Twin(e) /\ (next[e] \notin feet \/ Vertex0(next[e]) = Null)

(* A vertex is emitted with the first half-edge that starts there.           *)
VertexOutAlways(e) ==                \* mutant: PROCESSED is not tested
    IF Vertex0(e) = Null THEN vertices_out
    ELSE Append(vertices_out, [vertex |-> Vertex0(e), edge |-> e])
VertexOut(e) ==
    IF Vertex0(e) \in EmittedVertices \cup {Null} THEN vertices_out
    ELSE Append(vertices_out, [vertex |-> Vertex0(e), edge |-> e])

EnterCrossed(e) ==                   \* mutant: prev and next change places
    /\ thisToTwin' = [thisToTwin EXCEPT ![Twin(e)] = e]
    /\ thisToNext' = [thisToNext EXCEPT ![next[e]] = e]
    /\ thisToPrev' = [thisToPrev EXCEPT ![prev[e]] = e]

(* e is the next one of its prev. *)
Enter(e) ==
    /\ thisToTwin' = [thisToTwin EXCEPT ![Twin(e)] = e]
    /\ thisToNext' = [thisToNext EXCEPT ![prev[e]] = e]
    /\ thisToPrev' = [thisToPrev EXCEPT ![next[e]] = e]

New(e) == e \in Internal /\ e \notin Emitted

Emit(e) ==
    IF New(e)
    THEN /\ edges_out' = Append(edges_out, e)
         /\ vertices_out' = VertexOut(e)
         /\ Enter(e)
    ELSE UNCHANGED <<edges_out, vertices_out, tableVars>>

UnprocessedNone(emitted) == {}       \* mutant: only the first walk
UnprocessedAll(emitted) == Internal  \* mutant: PROCESSED is not tested
Unprocessed(emitted) == Internal \ emitted

(* One iteration of the walk; back at its start another walk begins at a     *)
(* half-edge that has not been processed.                                    *)
WalkOn ==
    /\ out = "walk"
    /\ IF DirectionFails(at)
       THEN out' = "crashed" /\ UNCHANGED <<first, at, edges_out, vertices_out, tableVars>>
       ELSE /\ Emit(at)
            /\ IF next[at] # first
               THEN at' = next[at] /\ UNCHANGED <<first, out>>
               ELSE BeginAt(First(Unprocessed(Emitted \cup (Internal \cap {at}))))
    /\ UNCHANGED refs

(* "fill in all the edge-to-edge references from the lookup tables"          *)
SetReferences ==
    /\ out = "references"
    /\ refs' = [e \in Edge |->
                   IF e \notin Internal THEN NoRefs
                   ELSE [twin |-> thisToTwin[e], next |-> thisToNext[e], prev |-> thisToPrev[e]]]
    /\ out' = IF \E e \in Internal \ Emitted : refs'[e] # NoRefs THEN "crashed" ELSE "exported"
    /\ UNCHANGED <<first, at, edges_out, vertices_out, tableVars>>

-----------------------------------------------------------------------------
Axis2Perl == (StartExport \/ WalkOn \/ SetReferences) /\ UNCHANGED colorLinkVars

Building == LinkNext /\ UNCHANGED exportVars

(* The call returns to Perl, or the process is gone. *)
Ended == out \in {"exported", "crashed"} \/ stage = "crashed"
Returned == Ended /\ UNCHANGED allVars

ExportNext == Building \/ Axis2Perl \/ Returned

ExportSpec == ExportInit /\ [][ExportNext]_allVars

ExportFairSpec == ExportSpec /\ WF_allVars(ExportNext)

-----------------------------------------------------------------------------
(* Properties. *)

(* No vertex or foot that relinking or export follow without a test is       *)
(* missing: the search for feet and the placeholders are there "so we can    *)
(* still get some kind of output without a segfault".                        *)
NoNullDereference == stage # "crashed" /\ out # "crashed"

(* "the edges we want - primary edges within the polygon", each of them once *)
(* and nothing else, once the walks are done.                                *)
ExportComplete ==
    out \in {"references", "exported"} => /\ Emitted = within \cap graph.primary
                                          /\ Len(edges_out) = Cardinality(Emitted)

(* "all edges have a twin, next, prev reference", "all twins refer to each   *)
(* other", "all next->prev and prev->next references are valid": although    *)
(* the tables are filled while the walk is under way.  The next one starts   *)
(* where the half-edge ends.                                                 *)
ReferencesMutual ==
    out = "exported" =>
        \A e \in Emitted :
            /\ {refs[e].twin, refs[e].next, refs[e].prev} \subseteq Emitted
            /\ refs[refs[e].twin].twin = e /\ Vertex0(refs[e].next) = Vertex1(e)
            /\ refs[refs[e].next].prev = e /\ refs[refs[e].prev].next = e

(* "Process each vertex just once": every end of an emitted half-edge has    *)
(* one array, and that refers to a half-edge which starts there.             *)
VerticesOnce ==
    out = "exported" =>
        /\ EmittedVertices = {Vertex0(e) : e \in Emitted} \cup {Vertex1(e) : e \in Emitted}
        /\ Len(vertices_out) = Cardinality(EmittedVertices)
        /\ \A k \in DOMAIN vertices_out :
               /\ vertices_out[k].edge \in Emitted
               /\ Vertex0(vertices_out[k].edge) = vertices_out[k].vertex

(* The walks return to where they began and everything is exported.          *)
ExportEnds == <>Ended
=============================================================================
