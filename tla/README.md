# Boost::Geometry::Utils — a TLA+ model of the medial axis

`Boost::Geometry::Utils` is a Perl module over Boost.Geometry and Boost.Polygon.  Most
of its functions hand Perl arrays to a Boost algorithm and convert the result back.
The part with logic of its own is `polygon_medial_axis`: a polygon becomes line-segment
sites, Boost's sweep line builds a Voronoi diagram of them into the program's own
container `medial_axis<T>`, and that container cuts the diagram down to the medial axis
and exports it to Perl.  This directory models that pipeline, checks it with TLC and
proves what matters about it with TLAPS.

## 1. Inventory

| component | source | state | operations |
|---|---|---|---|
| Site events | `src/src/voronoi2perl.h` (`builder_segments_from_ring`), `voronoi_builder.hpp` (`insert_segment`, `init_sites_queue`), `voronoi_predicates.hpp` | `site_events_` | insert a segment as three sites; sort; drop repeats |
| Sweep line | `src/src/boost/polygon/voronoi_builder.hpp`, `detail/voronoi_predicates.hpp`, `detail/voronoi_structures.hpp` | beach line (ordered map), queue of circle events, queue of segment end points, site iterator | initialise the beach line (three ways), site event, circle event |
| Half-edge graph | `src/src/medial_axis.hpp` 160-614 | `cells_`, `vertices_`, `edges_` and the pointers between them | `_reserve`, `_process_single_site`, two `_insert_new_edge` |
| Feet | `medial_axis.hpp` 448-505, 616-1177 | `foot` of a half-edge | set by the two `_insert_new_edge` |
| `_build`, diagram | `medial_axis.hpp` 1185-1294 | the same containers, compacted | remove degenerate edges and vertices, close infinite cells |
| `_build`, colour | `medial_axis.hpp` 1319-1433 | `color` of edges, cells, vertices | `mark_exterior`, `mark_interior`, fix-up passes |
| `_build`, medial axis | `medial_axis.hpp` 1511-1820 | `next`/`prev` over primary internal edges | relinking walk, search for missing feet |
| Export | `voronoi2perl.h` | lookup tables, `PROCESSED` bit | walks over `next`, second pass |
| Bindings | `src/xsp/Utils.xsp`, `mytype.map` | C++ objects owned by a call or by a Perl handle | one XS function per algorithm, typemaps |
| Converters | `poly2av.h`, `line2av.h`, `mline2av.h`, `point2av.h` | none | Perl array to geometry and back |
| Front end | `src/lib/Boost/Geometry/Utils.pm` | none | WKT and legacy names |

*Interaction.*  One thread, synchronous calls: `polygon_medial_axis` (XS) fills the builder
from the rings, `construct` calls the container's `_reserve`, `_process_single_site`,
`_insert_new_edge` while it sweeps and `_build` at the end, and `medial_axis2perl` walks
the result.  The builder holds `void*` pointers to half-edges in its beach line; the
container holds addresses of elements of its own vectors.

*What is hard.*  There are no threads.  The difficulty is state that is kept in several
places and must agree: the beach line's keys, half-edges and circle events; iterators kept
in two priority queues; addresses of vector elements; links set by one circle event and
relied on by a later one; and an order of events that is decided by floating-point
comparisons within a tolerance, so that near ties may go either way.

*What makes each part correct.*  Sites: a total order, end points before and after their
segments, no dependence on how a ring is written.  Sweep: neighbouring arcs form a chain,
events and end points always refer to live nodes, the half-edge of a node is the open
bisector of its two sites, the loop ends.  Graph: links are inverse to each other, stay in
their cell, are never overwritten, every vertex has three half-edges, vectors never
reallocate.  `_build`: compaction keeps the links, every cell is closed, both
halves of an edge get one colour, that of the polygon, relinking leaves `next` on the medial axis
and `prev` inverse to it, loops end.  Feet: each lies on the site of its half-edge.  Export:
every primary half-edge inside is exported once and its references lead to exported half-edges.
Bindings: an object is touched only while a call or a handle owns it and deleted at most once.
Converters: what is accepted makes a usable object, well-formed arrays come back as they were but for
coordinates after the second (one does not, the multilinestring without lines).

The full list of hazards with their lines is in `PROJECT.json`.

## 2. Modules

| module | models | kind |
|---|---|---|
| `SiteEvents` | rings to segments, the sweep order, the sorted queue of sites | operators |
| `Outline` | a ring drawn point by point, and what its queue of sites must satisfy; extends `SiteEvents` | state machine |
| `ArcPredicates` | the predicates on arcs: can three arcs meet, does a node go below a site | operators |
| `HalfEdges` | the half-edge graph, its operations, and `HalfEdgeSpec`, the abstract specification of what the container promises | state machine |
| `SweepLine` | `construct`: beach line, queues, all handlers; extends `HalfEdges` and `ArcPredicates` | state machine |
| `MedialAxisBuild` | first half of `_build`: remove degenerate half-edges and vertices, close the cells that reach to infinity; extends `HalfEdges` | state machine |
| `MedialAxis` | `construct` followed by `_build` on the same containers; extends `SweepLine` and `MedialAxisBuild` | composition |
| `MedialAxisFeet` | the feet that the two `_insert_new_edge` operations set during the sweep; extends `SweepLine` | state machine |
| `MedialAxisColor` | second part of `_build`: which half-edges lie inside the polygon | state machine |
| `MedialAxisLink` | last part of `_build`: relinking and the search for missing feet; extends `MedialAxisColor` | state machine |
| `Voronoi2Perl` | `medial_axis2perl`, after colouring and relinking of the same half-edges; extends `MedialAxisLink` | state machine, composition |
| `RecordedDiagrams` | diagrams dumped from the compiled program, inputs of `MedialAxisColor` and what extends it | constants |
| `Ownership` | abstract specification of what the XS layer promises about C++ objects | state machine |
| `Bindings` | the XS functions and typemaps as steps on the C++ heap; implements `Ownership` | state machine |
| `SiteEventsProofs` | lemmas about the operators of `SiteEvents`: sorting, the order, events of a polygon | lemmas |
| `OutlineProofs` | theorems about `Outline`; extends `SiteEventsProofs` | proofs |
| `SweepLineProofs` | theorems about `HalfEdges` and `SweepLine`; extends `SiteEventsProofs` | proofs |
| `MedialAxisProofs` | theorems about `MedialAxis` (what compaction keeps) and `MedialAxisFeet`; extends `SweepLineProofs` | proofs |
| `Voronoi2PerlProofs` | theorems about `MedialAxisColor`, `MedialAxisLink` and `Voronoi2Perl`, in that order | proofs |
| `BindingsProofs` | theorems about `Bindings` | proofs |
| `ConvertersProofs` | theorems about `Converters` | proofs |
| `NaturalsLemmas` | least elements, induction, the pigeonhole principle, counting and iteration of functions, for all the proofs | lemmas |
| `Converters` | the conversions between nested Perl arrays and C++ geometry, both ways | state machine |
| `MCSiteEvents`, `MCSweepLine`, `MCMedialAxis`, `MCMedialAxisFeet`, `MCMedialAxisColor`, `MCVoronoi2Perl`, `MCBindings`, `MCConverters` | instances for TLC | |

**State.**  A half-edge is its index in `edges_`, a vertex its index in `vertices_`, a cell
its index in `cells_`; `Null` is the null pointer, and each pointer field is a function
(`cell`, `twin`, `vertex0`, `next`, `prev`).  The beach line is the sequence of its nodes
from bottom to top, each with its two arcs (site and direction), its half-edge and its
circle event.  A node has an identity (`id`) because the two queues of the code hold
iterators to nodes.  `cursor` is `site_event_iterator_`, `last` and `right` are the local
variables of `process_site_event` that live across its loop.

**Actions.**  In the sweep `InitSingleSite`, `InitDefault`, `InitCollinear` (one loop iteration) are the
three ways of `init_beach_line`; `EraseTemporaryNode` (one iteration of the loop over end
points), `LocateArc` (`lower_bound`) and `InsertArc` (one iteration over the run of segments, its three branches)
are `process_site_event`; `CircleEvent` is `process_circle_event`; `Finish` leaves the loop.

In `MedialAxisBuild` one action is one loop iteration: `RemoveEdge` or `KeepEdge` for a pair
of half-edges (`remove_edge` with its loop around the vertex; the copy down the vector and
the repair of the neighbours' pointers), `EraseEdges`, `SetIncidentEdges`, `SkipVertex` or
`KeepVertex`, `EraseVertices`, then `LinkLines` or one `LinkCell` per cell.  `it` and `slot` are
the two iterators of a loop.  `before`, `origin`, `gone` and `place` are history: they remember
where each half-edge and vertex came from, and no guard reads them.

In `MedialAxisColor` one action is one iteration of a pass over half-edges (`Exterior`, `Holes`,
`Between`, `Beyond`, `Secondary`).  The pass over the cells is finer, because it calls the
recursive `mark_interior` in the middle of a loop whose conditions read the colours the call
changes: `stack` holds the `do`-`while` loops that have been entered, the innermost first, each
with its position and with the next of its tests; `EnterCell` enters the loop of a cell,
`MarkInterior` is one call up to its own loop, `LoopOn` steps or leaves the innermost loop.
`mark_exterior` is recursive too, but a call that finds its half-edge marked does nothing, so
the result does not depend on the order of the calls and is computed in one step.

In `MedialAxisFeet` the actions of the sweep are conjoined with what they do to feet: `SiteFeet`
with the actions that push a pair of half-edges for a site, `CircleFeet` with `CircleEvent`.  A circle event
applies its rules in the order of the code, in groups named after its comments (`IntoCorners`,
`OutOfCorner`, `StraightEdges`, `FillCorners`, `Reflections`, `AroundPoints`, `LastRules`).
`lost` becomes true when a rule follows a null pointer.

In `MedialAxisLink` one action is one iteration of the relinking walk, by its three branches
(`FollowPrimary`, `SkipSecondary` with the mirrored feet, `TurnAround`), or of the search for feet
(`FindFeet`); `Restored` and `GoTo` are the loops and restarts after a walk has closed.  `stage`
"crashed" is a null pointer followed.  `Voronoi2Perl` has one action per iteration of the export
walk (`WalkOn`) and one for the second pass; it runs after the other two modules on their final state.

In `Bindings` a call of an XS function is `Call`, one conversion per parameter (`ConvertArray`,
`TakeHandle`) any of which may `Croak`, `Body` with its `new` and `delete`, and the output typemap.
`CopyHandle` and `DropHandle` are what Perl does with handles between calls.  Every function of
`Utils.xsp` is in `Functions`; `Takes`, `Makes`, `DeletesArguments` and the other operators are its
declaration and CODE section.  An address is not used again after `delete`, so that a dangling
pointer stays visible.  `Ownership` is told by `Owner(o)`, computed from heap, handles and call.

In `Converters` a call is two steps: `FromPerl` (the condition of the typemap, then the loops of the
converter, each of which stops at the first element that fails a test) and `Returned`.  A Perl value is a number, an
array or a missing element, four arrays deep at most; the converters read no further.

In `Outline` a state is a ring and its one step, `Draw`, adds a point: every prefix of a ring is a ring whose queue is
judged.  The program has no such step; what is modelled is how a ring becomes site events (`EventsOf`) and a queue (`QueueOf`).

**What is exact and what is left open.**  Everything the code decides in integers is decided
in the model by the same arithmetic: the order of sites, the orientation tests, the
existence of a circle event, all early answers of `distance_predicate`.  Two results computed with doubles are open: the position of a circle
event (so any waiting circle event may be the next, before or after any site) and the
distance to the arc of a segment, where the model takes either answer of a comparison.  Two comparisons of doubles are modelled by their exact answer: the distances to
the arcs of two points (`PointPoint`; the code compares quotients) and the last of the quick tests between a point and a segment (`PointSegment`;
products, compared within 4 ulps).  The code gives that answer when coordinates are smaller than 2^14 in absolute value, as
all of the runs: no product then has more than 50 bits and distinct quotients differ by more than a rounding.  For larger ones near ties
may go the other way.  The proofs about the sweep use nothing about the answers (`GoesBelow` is cited nowhere), so the theorems do not depend on them.
With such coordinates every run of the program on an input is
a behaviour of the model, and the model has more.  Properties that need the geometric order of circle events are false
in this model and are not stated.

`MedialAxisFeet` keeps where a foot lies as the place on a site nearest to a vertex, not as
coordinates (the code truncates them to integers).  Whether the computed coordinates of a vertex in a
corner equal those of the corner is an open choice (`exact`).  For a polygon for which `Orders` has no
order, circle events come in any order as in the sweep; then it makes sense to ask whether a null
pointer can be followed, but not where feet lie.  For that, `Orders` has the order in which the compiled
program processed the events.

Other decisions: a deactivated circle event leaves `circles` at once, while the code leaves
it in the queue and pops it before it can be handled; `lower_bound` may return any node
that does not go below the new site and whose predecessor may, which covers every shape of
the search tree; arithmetic does not overflow (coordinates are 32-bit and the code computes
in 64 bits); the event log is left out.

In `MedialAxisBuild` any pair of half-edges may be found degenerate (its vertices equal within
128 ulps), except one that would close a cycle of removed half-edges: such a cycle encloses a
cell without extent (`ClosesNoCycle`).  Because the sweep may take circle events in orders that no
polygon produces, it may leave graphs that are not Voronoi diagrams; those in which a cell is its own neighbour or
reaches to infinity twice are not handed to `_build` (`IsDiagram`), and no others are excluded.

`MedialAxisColor` starts from a diagram, the constant `Diagrams`, and assumes of it only that its
pointers are in range, that links are inverse, stay in their cell and meet at the vertex, that cells
and vertices know a half-edge of theirs, and that twins are primary together
(`DiagramAssumption`): what `LiveLinks`, `VerticesKept` and `CellsClosed` say of the end of
`MedialAxisBuild`.  Its inputs are recorded rather than produced by the sweep because the colours
depend on the geometry (which half-edges are curved, which are in the polygon), and because
the polygons that need the later passes have twelve sites and more.  The field `inside` of a
diagram is not in the program; it was computed from the coordinates of the vertices and the
rings, and is what the colours are compared with.

The same diagrams, with the feet they had when `_build` began, are the inputs of `MedialAxisLink` and
`Voronoi2Perl`.  Of a foot only its presence is kept there, of a vertex whether it exists.  Where the proofs need to
know how the half-edges inside lie they assume `Regular`: twins lie on one side; the axis goes on at once, or beyond
one secondary half-edge, or it ends where no other half-edge inside begins or ends.  TLC evaluates it on the diagrams
of `export` (`DiagramsRegular`).  Of all recorded diagrams two are not regular, `Flat` of `export_flat` and `Notch` of
`colour`: in both an axis ends beside other half-edges inside.

`Bindings` leaves to `Converters` which arrays are accepted and to Boost.Geometry when it throws: both
are free choices, and so every croak and every exception can happen.  `Converters` has coordinates that
are small numbers and `UIntMod`, `MaxMemory` in place of 2^32 and the memory of the process: all that
matters is that one less than zero is more than there is memory.

**Inputs.**  Two sides of a polygon that lie on each other from the same start (`Overlap`) have no order
under `event_comparison_predicate`.  Such rings are excluded, by `InputsAssumption` of `SweepLine` and by the guard of
`Draw`; with integer coordinates and at least one site it is all the proofs assume of a polygon, and that all other sites
are strictly ordered is a theorem.  Sides of length zero, sides that touch and sides that cross are included.
`RoundTrip` is about arrays of the documented shape, whose coordinates are numbers: the converters read the coordinates of a point
with `SvNV` and give back a number whatever was there.

## 3. Runs

| run | question | bounds |
|---|---|---|
| `site_order` | is the order of sites total, do end points surround segments, is the queue independent of the writing of the ring | every ring of 1 to 4 points of a 3x3 grid, crossing sides and repeated points included: vertical, horizontal, slanted sides, shared starts and ends, all ties that the special cases of the order are about |
| `sweep` | do beach line, queues and graph agree in every reachable state, does the sweep implement `HalfEdgeSpec`, does it end | nine polygons chosen to reach every branch: a single site, one segment, a vertical one, two segments with a common start or end, an outline through a point twice, triangles, triangles and a quadrilateral with vertical sides (3 to 8 sites) |
| `build` | do pointers, stars, boundaries and vertices survive compaction, are all cells closed, do the loops end | eight polygons, among them lines without vertices (two collinear segments, slanted or vertical), every set of half-edges found degenerate that closes no cycle: whole chains, first and last pairs, all of them |
| `feet` | does a rule follow a null pointer; do feet lie where they should | eight polygons of `sweep` in every order of circle events; three more (a dart, an outline with two reflex corners, a square with a square hole: 9 to 16 sites, up to 22 circle events) in the order of the program |
| `colour` | do the colours agree with the polygon, does the recursion end and stay bounded | five recorded diagrams of 24 to 86 half-edges, two of a polygon without and three with a hole; found by random search so that every pass changes something and `mark_interior` calls itself |
| `colour_hole` | do the colours agree with the polygon around a concave hole (they do not) | one recorded diagram of 64 half-edges |
| `export` | do relinking and export follow null pointers, are links, colours, feet, exported arrays and references right, do the walks end | six recorded diagrams: a square, an L, a square frame, polygons with one and two holes and with reflex corners; among them every branch of the walks, backing up included |
| `export_flat` | the same for a square with a point in the middle of a side (a null pointer is followed) | one recorded diagram |
| `bindings` | does the XS layer implement `Ownership`, who loses objects, which handles dangle when Perl keeps what it gave to `_arrayref` | all 27 functions; nine objects: two polygons, a multipolygon, two linestrings, three multilinestrings (one held, one taken, one made) and a point; two Perl variables; programs that give up the handles they pass to `_arrayref` functions and programs that keep them (`keepsGiven`) |
| `convert` | are well-formed arrays accepted and given back but for further coordinates, are objects usable | 2,983 arrays: every line of up to three of eight kinds of element (missing, scalar, too short, too long, with a missing coordinate), polygons, multilinestrings and multipolygons of such |
| `convert_invalid` | are other arrays refused with the croak of the typemaps (they are not) | three arrays |
| `convert_empty` | do lists without members come back (a multilinestring does not) | two arrays |

`sweep` explores every order of circle events.  Larger polygons add
many more orders that cannot happen geometrically (a square has more than a million
states); the eight-site outline already contains runs of segments, collinear starts,
nodes at both ends of the beach line and circle events whose neighbours are withdrawn.

*Properties of `sweep`.*  `NodesHoldOpenBisectors` contains the comment in `process_site_event` ("the
second site of the first node is the same as the first site of the second node"); it, `EventsCurrent` and `EndPointsAhead` say that the half-edges,
events and iterators kept elsewhere are still those of the beach line.  `WithinReserve` is
the reason why addresses of elements stay valid.  `CellsIndexedBySite`, `WellLinked` and
`Trivalent` are about the graph; `HalfEdgeSpec` contains the comment that the old half-edges of
a circle event "never have vertex0 set before": only open half-edges are joined.

*Invariants of `build`.*  `LiveLinks` says that between two iterations no pointer leads to a
removed half-edge or to the old place of a moved one.  `StarsComplete` is what `remove_edge`
and the removal of vertices rely on when they move the start of "all" half-edges around a
vertex; `BoundariesKept` compares the order around each cell with the one the sweep left, minus
the removed half-edges; `VerticesKept` says that a half-edge starts where it did, up to
vertices that were merged; `CellsClosed` is what the loops over `next()` in all later passes
rely on.

*Properties of `colour`.*  `ColoursMatchPolygon` is the comment at the end of the passes
(`medial_axis.hpp` 1494-1496), although the guess about holes looks at each half
of an edge for itself.  `OnlyTurnsInside` and `RecursionBounded` are why `mark_interior`, which
has no test of its own, ends: every active call has turned a pair of half-edges that nothing
turns back.

*Properties of `feet`.*  `NoRuleFollowsNull` is about the rules that test one pointer and follow
another, `FeetTouchSource` is the comment at `foot` ("where radius from vertex0 touches source segment at a 90
degree angle").  `SegmentsSplitTheirPoint` is no property of the model but the premise of a theorem (section 4): it is false in
branches of the run where a comparison of distances, left open, puts a site into another arc.

*Properties of `export`.*  `LinksStayInverse` makes `next` a permutation at every moment of two walks that rewrite
it while they follow it; `LinksFollowAxis` says where it leads afterwards; `InsideKept` that colour 2, which
both walks use as a mark, has not changed what is inside; `AllFeetFound` that placeholders are never
needed.  `ExportComplete`, `ReferencesMutual` and `VerticesOnce` are what
`t/04_medial_axis_basic.t` asks of one polygon, and `NoNullDereference` what the comments about segmentation faults
hope for.

*Properties of `bindings` and `convert`.*  `OwnershipKept` is the refinement: under the mapping `Owner`
every step is one that `Ownership` allows.  `_polygon_arrayref` deletes the
object of its handle, and the tests pass it temporaries (`t/03_polygon.t`, line 30).  Whether a program does so is `keepsGiven`,
which is chosen at the start and stays: a program that keeps such handles is promised nothing (it is mapped to `Ownership` standing still),
and for it `OnlyPolygonHandlesDangle` bounds the damage.  `OnlyCroaksAndDropsLose` holds of both kinds of program: a croak on a later argument leaks the
earlier ones, a dropped handle leaks its object (there is no `DESTROY`), nothing else does.
`ObjectsWellFormed` is about accepted arrays of any shape, `WellFormedComesBack` about well-formed ones: they are neither refused nor
die, for want of memory included.  `RoundTrip` is the same of all of them but one, the multilinestring without lines.

*Disagreements.*  `colour_hole` shows that the comment does not hold.  In the triangle
(0 0, 9 0, 2 7) with the hole (4 2, 4 1, 5 3, 1 2) an edge leads from the concave corner (4, 2) of the
hole away from it, through the polygon.  The guess about holes colours one of its halves: none of
the four cells it looks at touches the outer contour, while one of those that its twin looks at
does.  No later pass corrects it: its neighbours in its cell are secondary, so the tests of
`mark_interior` on two primary half-edges in a row do not apply; one neighbour lies in the hole,
so the next pass does not apply either; and the pass that looks past a secondary half-edge
looks only forward.  The compiled program ends with the same colours.

`export_flat`: in the square (0 0, 2 0, 4 0, 4 4, 0 4), valid and with one redundant point, the bisector in (2, 0) has
colour 1 inside the polygon too.  Relinking turns around before it, leaves `next` of an inner half-edge on a half-edge
outside, and `medial_axis2perl` reads the coordinates of a foot that is not there.  The compiled program ends with a
segmentation fault.  Three neighbours of this were seen with the models and the compiled program and have no run of their
own: on the same square half-edges outside end with colour 0, because the search for feet
marks them and line 1794 restores every mark to 0; on (3 2, 2 0, 5 0, 4 2, 4 4) relinking itself follows a
null pointer at line 1573; and when the first point of a ring is repeated (0 0, 0 0, 4 0, 4 4, 0 4) the first segment
has no half-edge to begin at, so nothing is relinked and the export is empty.  Where two sides lie on one line
a foot may also be off its site (2 of 60,000 in random polygons).

`convert_invalid`: an array without rings makes `resize(len-1)` wrap around.  Likewise a multipolygon with one invalid member
is copied from a null pointer, and a multilinestring with a bad line silently loses it.  Without a
run: `Utils.pm` documents that `point_covered_by_polygon` takes an array of points, which the typemap refuses (it takes an array
of rings).

`convert_empty`: a result without lines calls `av_extend` with `size-1` of an `unsigned int`, which since Perl 5.20 asks
for 2^32 elements.  `t/01_basic.t` expects `[]` (lines 57 and 79-80) and fails that way on Perl 5.36.  A multipolygon without polygons comes back.

*Fairness.*  `FairSpec` assumes weak fairness of the whole next-state relation: the code is
loops in one thread that always takes a step when it can (`AxisFairSpec` and `FairSpec` of
`MedialAxisColor` and `ExportFairSpec` likewise).  No choice among the steps is
assumed fair.

*Fidelity.*  For the triangles of `MCSweepLine` the graph that the compiled program holds
when it enters `_build` was dumped and compared: it is a reachable final state of the model,
with the same twins, links, vertices and cells.  For 26 polygons, with and without holes, the
final colours of half-edges, cells and vertices in `MedialAxisColor` equal those of the program.
The links, colours and feet after relinking and the exported arrays were compared on the recorded diagrams, crashes
included.  The set of half-edges with a foot after the sweep was compared on 320 random polygons, each in
the order the program took, and is the same; on 80 of them `FeetTouchSource` was checked too.  The calls
that `Converters` and `Bindings` say crash, croak or succeed were made with the built module.

Definitions marked "mutant" are deliberately wrong forms of the definition below them.  No
specification uses them; `PROJECT.json` names for each property the mutant that violates it.

## 4. Proofs

Each theorem holds for every value of the constants that satisfies the named assumptions.  Facts about one component
are proved from the specification of that component alone; where a component uses another, its steps are proved to be
steps of that one, and the theorems about the other carry over.

**Site events** (`OutlineProofs`, from the lemmas of `SiteEventsProofs`; rings of any number of integer points in which no side lies on
another from the same start).

- `SweepOrderIsTotal`: `Spec => []SweepOrderTotal`
- `EndPointsStandAroundSegments`: `Spec => []EndPointsAroundSegments`
- `QueueIsOfTheOutline`: `Spec => []RepresentationIndependent`

`RingInv` says that the ring is a sequence of points without overlapping sides; the content is in the lemmas about the order.
`event_comparison_predicate` answers by six cases on which of the two sites are points, vertical or slanted.  `EventLessIs` gives it one form for
all of them: by abscissa, then `SiteBefore`, which ranks the kinds of sites that share an abscissa and compares two slanted
segments from one start by slope.  From there transitivity is a matter of cases (`BeforeTransitive`), and all that needs
arithmetic is that slopes are transitive: cross-multiplied, with positive denominators (`SteeperThanSteeper`).  Two
different segments from one start with the same slope are exactly the overlaps.  `QueueSorted` says what sorting and dropping repeats do with a
strict order: the queue is the one increasing enumeration of the set of events.  So that a queue does not depend on how its ring is written
needs only that the set of events does not (`EventsClosed`, `EventsReversed`, by `RingEvents`, which gives the events by sides of the ring).

**Half-edge graph** (`SweepLineProofs`; any set `Site` of positive integers, so any number of sites and joins).

- `GraphWellLinked`: `HalfEdgeSpec => [](GraphTypeOK /\ WellLinked)`
- `VerticesTrivalent`: `HalfEdgeSpec => []Trivalent`
- `CellsAreIndexedBySite`: `HalfEdgeSpec => []CellsIndexedBySite`
- `LinksArePermanent`: `HalfEdgeSpec => LinksPermanent`

The inductive invariant is `GraphInv == GraphTypeOK /\ WellLinked`.  `WellLinked` is inductive
only with all its parts: a join writes `prev` of two half-edges and `next` of their twins, and
overwrites nothing because the two are open, `LinksFollowVertices` turns "open" into "no
predecessor, and the twin has no successor", and `LinksInverse` then says that no other
half-edge pointed there.  `Joined` lists what a join finds and what it does, one half-edge
at a time (`JoinedColumns` computes the columns, `JoinFacts` collects them); the three
invariants and the action property follow from it by cases on the six half-edges involved.
`Trivalent` needs `GraphInv` because `rot_next` reads `prev` and `twin`.

**Sweep line** (`SweepLineProofs`; any polygons that satisfy `InputsAssumption`, any order of circle events, either
answer to every comparison of a node with a site).

- `SweepImplementsHalfEdges`: `Spec => HalfEdgeSpec`, the refinement
- `SweepBuildsWellLinkedGraph`: so cells are indexed by site, links well-formed and vertices trivalent in the graph of the sweep
- `SweepTypeCorrect`: `[]TypeOK`
- `NodesHoldTheirBisectors`: `[]NodesHoldOpenBisectors`
- `NoEventIsStale`: `[]EventsCurrent`
- `NoEndPointIsOverlooked`: `[]EndPointsAhead`
- `ReserveSuffices`: `[]WithinReserve`
- `SweepLeavesCellsWhole`: when the sweep is over and at most one half-edge of each cell has no predecessor, the half-edges of every cell hang together

The inductive invariant is `SweepInv`.  Its core is `BeachInv`: the beach line is a chain (`Chain`) of nodes each of which holds
an open bisector of its two arcs or is the temporary node of a segment; neighbours share an arc and their events fit it
(`Neighbours`); no half-edge is held twice and no two nodes hold twins; the queue is exactly the union of the events
of the nodes.  None of this is inductive without the rest, because the handlers check nothing themselves: that a circle event joins
two different open half-edges that are no twins and bound one cell is what the chain says of a node and its predecessor; that a waiting
event may be handled at all is `EventFits`, which every change of the beach line must keep for the nodes beside it.
Every handler replaces a stretch of the beach line (`Spliced`) and withdraws or recomputes the events next to it
(`Retimed`); `ChangeKeepsChain` shows once that such a change keeps the chain if the new stretch fits (`NewFit`), meets its neighbours
(`JointFit`) and the queue is changed to match (`QueueFits`), and there is one lemma per handler that establishes these.
`EndPointsInv` ties the queue of end points to the temporary nodes and to the sites still to come; it needs `SitesInv`, what
sorting does to the sites (`SweepOrderStrict`, `QueueSorted`, `PolygonEventsFit`): the end point of a segment is a site of its own and comes after it.
`CountInv` counts half-edges and nodes of the beach line against sites and vertices: each site but the first adds at most two bisectors, each circle event uses up two
for one, hence at most two vertices per site and the sizes that `_reserve` sets aside.  `PhaseInv` is about the cursors.

That the half-edges of a cell hang together (`CellsWhole`: no link joins a part of them to the rest only if there is no rest) is false
while the sweep runs, since a cell grows from several places of the beach line.  What holds then is `BeachWhole`: whoever parts the half-edges of a cell so that
no link joins the parts also parts two half-edges that lie beside one arc.  A splice can be undone in such a partition (`GapsFollow`, `EdgesFollow`), a join adds
the link that closes the gap of the arc that vanishes, and at the end each arc left joins the half-edges on its two sides, the
two ends of a cell that reaches to infinity.  No planarity is used: the beach line alone holds the cells together.

The proof found one mistake in the model, not in the code: two conjuncts of an action were aligned so that TLA+ read them as part of the disjunct
above.  No run had shown it.

**Compaction** (`MedialAxisProofs`; the same polygons, any order of circle events, any set of half-edges found degenerate that
`ClosesNoCycle` allows, every graph of the sweep that satisfies `IsDiagram`).

- `CompactionKeepsLinks`: `AxisSpec => [](~ (stage = "diagram" /\ numVertices = 0) => LiveLinks)`
- `CompactionMovesWholeStars`: `AxisSpec => []StarsComplete`
- `CompactionKeepsBoundaries`: `AxisSpec => []BoundariesKept`
- `CompactionKeepsVertices`: `AxisSpec => []VerticesKept`
- `DiagramCellsClosed`: `AxisSpec => [](numVertices # 0 => CellsClosed)`

The inductive invariant is `AxisInv`: `SweepInv`, `Trivalent` and `PairsInv` (twins stand side by side) until the sweep hands its graph over,
`BuildInv` and `RecordsInv` from then on.  The core of `BuildInv` is `Linked`, which is stated about any set of half-edges and any columns, so that
there is one lemma for each way `_build` changes them: a pair is taken out (`UnlinkedPair`), moved (`MovedPair`), a vertex renumbered
(`RenamedVertex`), a cell closed (`ClosedCell`).  `LiveLinks` and `StarsComplete` need each other: `remove_edge` moves
the half-edges that `rot_next` meets, and links stay in step with vertices only if these are all that start there; the star stays whole because
the bridge over the removed pair joins two different stars (the pair closes no cycle, `NoneParallel`).  `StarsWhole` says it without counting steps: every
set that `rot_next` does not leave holds the whole star; `MetFacts` translates this to the loop, which is bounded by the number of
half-edges.  While degenerate vertices are removed `VerticesInv` keeps the places between `slot` and `it` free of half-edges, so that a moved star does not
fall together with another.

`RecordsInv` is about the history variables.  That the order around a cell is kept is stated there as a path over removed half-edges
(`Follows`), that a vertex is kept as one through removed half-edges (`SameVertex`); both only become longer as more are removed.
`BoundaryAfterFacts` and `MergedWithFacts` show that the bounded loops with which the two properties are written follow such paths to their
end: by the pigeonhole principle a loop that went on would meet a half-edge twice, and two half-edges never have one successor.

`DiagramCellsClosed` rests on `SweepLeavesCellsWhole` and on `BuildWhole`: bridging a removed pair keeps the live half-edges of a cell in one piece
(`LiveCellsWhole`), so a cell has at most one half-edge without predecessor and one without successor; the half-edge from which `_build`
searches for them is one of the cell (`IncidentIsLast`), hence the walk in either direction meets the end there is, and the link set between the
two makes the cell one cycle (`NoEndsBefore`, `NoEndsLeft`).

The premise `numVertices # 0` of these two theorems leaves out one case: in a diagram without vertices `LinkLines` links the half-edges by their numbers,
and that lines linked so bound the same cell follows from the order in which a sweep of collinear sites inserts them, not from anything
`_build` looks at.  TLC finds `LiveLinks` and `CellsClosed` true there as well (run `build`).

**Feet** (`MedialAxisProofs`; the same polygons, `Orders` that are open or of any content).

- `RulesFollowNoNull`: `FeetSpec /\ []SegmentsSplitTheirPoint => []NoRuleFollowsNull`

The premise says that a segment is inserted into the arc of the point it starts in.  It is geometry that the model leaves open: `lower_bound` compares
distances in floating point, and in an order of circle events that no polygon produces the arc of a point may vanish before the segments that start there are
swept.  `NoRuleFollowsNull` is then false: simulation finds a triangle with a hole for which the rule at line 792 looks at a corner whose bisector has
no second vertex.  In the order the program takes the premise keeps 17627 of the 18187 states of `feet`, the final ones of `Dart`, `Bay`
and `Window` among them (put it into `MCMedialAxisFeet.cfg` as a `CONSTRAINT`).

The invariant is `FeetInv`: a half-edge that no vertex starts yet has a foot only in the cell of a point, and a bisector that ends nowhere bounds such a
cell.  The second part is where the premise is used: an arc that is split brings a bisector between the new site and the site of that arc, and two
segments never meet that way (nor on the first vertical line, `InitSegmentsApart`).  `TwoMeet` is what a circle event
makes of this for its two half-edges, and for them `RulesSafe` holds: a corner's bisector that starts at the new vertex and has the point on neither
side ends at a vertex (`NothingNull`), a curve between two curves has its foot only if it does (`NotReflectedInNull`), and
each of the seven groups of rules gives feet only to half-edges in `MayHaveFoot`, whatever feet the groups before it gave.

**Colouring** (`Voronoi2PerlProofs`; any diagrams that satisfy `DiagramAssumption`).

- `MarkInteriorBounded`: `Spec => []RecursionBounded`
- `NothingTurnsOutside`: `Spec => OnlyTurnsInside`

`ColorInv` adds to the types what the stack looks like (all loops but the outermost walk around a vertex) and that it is paid for: at most
one entry more than there are pairs of half-edges turned inside, of which there are finitely many.

**Relinking** (`Voronoi2PerlProofs`; the same diagrams).

- `LinksAreInverse`: `LinkSpec => []LinksStayInverse`
- `LinksFollowTheAxis`: `[]LinksFollowAxis`, for regular diagrams whose colours are right when the walk begins
- `InsideIsKept`: `[]InsideKept`, likewise

`LinkInv`: the walk swaps links in pairs (`SkippedLinks`, `TurnedLinks`), which keeps two functions inverse, and a link still leads to a half-edge that begins where
the first one ends (`LinksMeet`).  `WalkInv` says of a half-edge of the axis that it has its final link if it is marked and its old one
if not; that the link is the right one needs that the search around a vertex returns, which follows because `rot_prev` is a
permutation of finitely many half-edges (`Iterates`, `IteratesReturn`).  The two premises, `AllRegular` and that
`ColoursMatchPolygon` holds when the walk begins, cannot be theorems: for some polygons the colours are wrong (`colour_hole`).
The runs `export` and `colour` show that states satisfy them.

**Export** (`Voronoi2PerlProofs`).

- `ExportIsComplete`, `ReferencesAreMutual`, `VerticesAreOnce`: `[]ExportComplete`, `[]ReferencesMutual`, `[]VerticesOnce` under the same two premises

The export leaves half-edges and links alone, so its steps are steps of `LinkSpec` or leave it alone (`ExportLinks`).  `ExportInv` makes the lookup tables a
function of what has been emitted; completeness at the end is the condition under which the code leaves its walk.

**Bindings** (`BindingsProofs`; any objects and variables, `BindingsAssumption`).

- `BindingsTypeCorrect`: `Spec => []BindingsTypeOK`
- `OnlyPolygonsDangle`: `Spec => []OnlyPolygonHandlesDangle`
- `OwnershipInvariant`, `BindingsImplementOwnership`, `LossesOnlyByCroaksAndDrops`: `[]OwnershipInv`, the refinement `OwnershipKept` and
  `OnlyCroaksAndDropsLose`; the first is of programs that give up handles, `[](~keepsGiven => OwnershipInv)`

`OwnershipInv`: types; what the registers of a call may hold in each phase (`PhaseOK`);
that every pointer of a call and every handle leads to a live object (`PointersLive`); and that a call which
deletes its arguments, or is about to return one, does not share them with a handle (`CallOwnsItsObjects`).
The last is why no handle dangles: `Body` and the output typemap delete only what the call owns.
There is one lemma per action, which gives the invariant and how each object moves (`Moved`), and the refinement follows from it.
Of all programs what holds is `KeptInv`: only a function that returns the object
of its handle can delete it, and those take polygons and multipolygons.  It also suffices for `OnlyCroaksAndDropsLose` (`LostStep`): what a
call has converted it deletes, returns or borrows from a handle.

**Converters** (`ConvertersProofs`; arrays of any length and numbers, `ConvertersAssumption`: arrays fit into memory, and
one less than zero is more than there is memory).

- `ConvertedObjectsWellFormed`: `Spec => []ObjectsWellFormed`
- `RoundTripIsIdentity`: `Spec => []RoundTrip`

`CallInv` says what `object` and `result` are, in each stage of a call, as functions of the argument; both theorems follow from what those functions do.  A value is at most four arrays deep,
so there is one lemma per level instead of an induction over the nesting: what the test of a loop accepts (`AddRingOk` to `MultiLinestringOk`), what is made of it
(`PolygonMade` and its neighbours), that it is converted back to what it was (`PointBack` to `MultiPolygonBack`), and that no array is extended to
one less than nothing on the way (`WellFormedFits`).  Only `add_line`, which skips bad lines, needs an
induction (`Collected`).  The proof found `RoundTrip` false of points whose coordinates are arrays, which no run had among its inputs; the
property now says, as `t/` and the documentation do, that coordinates are numbers.  `WellFormedComesBack` itself is no theorem: `convert_empty` refutes it.

**Only model-checked.**  Termination (`Terminates`, `BuildEnds`, `ColouringEnds`, `ExportEnds`): liveness is out of the prover's reach.
`LiveLinks` and `CellsClosed` of diagrams without vertices.  Feet: where they lie and whether all are found
(`FeetTouchSource`, `AllFeetFound`, `NoNullDereference`) depends on the geometry of the polygon, and there are polygons
for which the last two are false.  `NoRuleFollowsNull` without its premise: the run has eight small polygons for which it holds in every order of events.
`ColoursMatchPolygon` holds of the recorded diagrams and is false in general (`colour_hole`).

The library's theorems about induction take an operator as a parameter, which the provers at hand cannot instantiate; `NaturalsLemmas`
states induction and the existence of iterates for sets instead, so that they can be cited.

## 5. What is left

Every component with state of its own is modelled, and every invariant that does not depend on the geometry of circle events is proved.  To go further:

1. Diagrams without vertices.  All sites lie on one line then, and `LinkLines` relies on the order in which `InitCollinear` and the site events number the
   half-edges.  A proof needs the geometry of such inputs (no circle event exists) as part of the invariant of the sweep.
2. The premise of `RulesFollowNoNull`.  To prove it the model would need the position of a circle event, at least that the arc of a point does not
   vanish while the sweep line stands at the point, and the outcome of the comparisons that are left open.
3. Colours and feet under a geometric premise on the polygon.  `colour_hole` and `export_flat` show that the code needs one;
   which one is a question about the program first.

## 6. Not modelled

- The formation of circle events (`mp_circle_formation_functor`, `lazy_circle_formation_functor`): floating-point
  numerics with error bounds and no control state; `SweepLine` leaves the results open.
- Boost.Geometry's algorithms and the rest of the vendored Boost headers, which make up nearly all lines of the
  repository: third party, called as a whole.
- WKT formatting and parsing in `Utils.pm`: strings without state.
- Coordinates of feet and of exported vertices, and the directions computed from them.
- The event log of `medial_axis`, SVG text for debugging.
- Two lines of `remove_edge` that hand the foot of a degenerate half-edge to the next one: feet of the sweep
  (`MedialAxisFeet`) and compaction (`MedialAxisBuild`) are not composed.
- Build configuration and `ppport.h`.
