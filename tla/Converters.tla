----------------------------- MODULE Converters ------------------------------
(***************************************************************************)
(* The conversions between nested Perl arrays and Boost.Geometry objects   *)
(* (point2av.h, line2av.h, mline2av.h, poly2av.h) inside the typemaps of   *)
(* mytype.map, as a call that hands an array over, gets an object made of  *)
(* it and gives the object back as arrays: correct_polygon on input that   *)
(* is correct already, or _polygon_arrayref(polygon(...)).                 *)
(*                                                                         *)
(* A Perl value is a number, an array, or the null pointer that av_fetch   *)
(* returns for an element that was never stored.  A point object is a pair *)
(* of numbers, a polygon a sequence of rings with the outer one first.     *)
(***************************************************************************)
EXTENDS Integers, Sequences, SequencesExt, FiniteSetsExt

CONSTANTS
    Inputs,      \* [type, value] pairs that are handed over
    UIntMod,     \* one more than the largest unsigned int
    MaxMemory    \* the most elements the process can allocate at once

Number(x) == [kind |-> "number", number |-> x, at |-> <<>>]
Array(s)  == [kind |-> "array", number |-> 0, at |-> s]   \* 0 for the number that SvNV reads
Missing   == [kind |-> "missing", number |-> 0, at |-> <<>>]

\* Perl values, four levels down: a list of lists of lists of points.  What an element of a
\* point is, if it is no number, is not looked at.  Arrays fit into memory, since they exist.
IsElement(v) == v.kind \in {"array", "missing"} \/ v = Number(v.number)
IsValue(v, IsMember(_)) ==
    \/ v = Missing \/ v = Number(v.number)
    \/ LET n == Len(v.at)
       IN  /\ n \in 0 .. MaxMemory
           /\ v = Array([i \in 1 .. n |-> v.at[i]]) /\ \A i \in 1 .. n : IsMember(v.at[i])
IsValue1(v) == IsValue(v, IsElement)
IsValue2(v) == IsValue(v, IsValue1)
IsValue3(v) == IsValue(v, IsValue2)
IsValue4(v) == IsValue(v, IsValue3)

Types == {"point_xy", "linestring", "multi_linestring", "polygon", "multi_polygon"}

ASSUME ConvertersAssumption ==
    /\ MaxMemory \in Nat /\ UIntMod \in Nat /\ UIntMod - 1 > MaxMemory
    /\ \A i \in Inputs : i.type \in Types /\ IsValue4(i.value)

VARIABLES
    input,    \* the argument: [type, value]
    out,      \* "call", "object", "result", "croak", "crash" or "exhausted"
    object,   \* the C++ object
    result    \* the Perl value returned

vars == <<input, out, object, result>>
-----------------------------------------------------------------------------
(* From Perl.  The loops over elements stop at the first that does not pass *)
(* their test: "null" when the converter returns NULL there, "crash" when   *)
(* it follows a null pointer.                                               *)

Minus1(n) == (n - 1) % UIntMod

FirstFailure(s, Test(_)) ==
    LET failing == {i \in DOMAIN s : Test(s[i]) # "ok"}
    IN  IF failing = {} THEN "ok" ELSE Test(s[Min(failing)])

IsArray(v) == v.kind = "array"

\* The condition of the input typemaps.
TypemapAccepts(v) == IsArray(v)

\* av_fetch_x and av_fetch_y.
FetchTest(v) ==
    IF \A i \in {1, 2} : i \in DOMAIN v.at /\ v.at[i] # Missing THEN "ok" ELSE "crash"

\* Mutant: the macro for y reads element 0.
FetchPointTwiceX(v) == <<v.at[1].number, v.at[1].number>>
FetchPoint(v) == <<v.at[1].number, v.at[2].number>>

\* The test of an element before its pointer is used, which is read in the test already.
ElementTest(v, accepted, Rest(_)) ==
    IF v = Missing THEN "crash" ELSE IF accepted THEN Rest(v) ELSE "null"

AddRingTest(v) ==
    LET PointTest(p) == ElementTest(p, IsArray(p) /\ Len(p.at) = 2, FetchTest)
    IN  FirstFailure(v.at, PointTest)

PolygonTest(v) ==
    LET RingTest(r) == ElementTest(r, IsArray(r) /\ Len(r.at) >= 2, AddRingTest)
    IN  IF Minus1(Len(v.at)) > MaxMemory THEN "crash" ELSE FirstFailure(v.at, RingTest)

\* The object of a polygon that could not be converted is copied all the same.
MultiPolygonTest(v) ==
    LET Copied(p) == IF PolygonTest(p) = "ok" THEN "ok" ELSE "crash"
        MemberTest(p) == ElementTest(p, IsArray(p) /\ Len(p.at) >= 1, Copied)
    IN  FirstFailure(v.at, MemberTest)

LinePointsTest(v) ==
    LET PointTest(p) == ElementTest(p, IsArray(p) /\ Len(p.at) >= 2, FetchTest)
    IN  FirstFailure(v.at, PointTest)

\* Mutant: no test for a line without points.
LinestringTestAny(v) == LinePointsTest(v)
LinestringTest(v) == IF v.at = <<>> THEN "null" ELSE LinePointsTest(v)

\* add_line returns nothing: a line with a bad point is left out.
MultiLinestringTest(v) ==
    LET Added(l) == IF LinePointsTest(l) = "crash" THEN "crash" ELSE "ok"
        LineTest(l) == ElementTest(l, IsArray(l) /\ Len(l.at) >= 2, Added)
    IN  FirstFailure(v.at, LineTest)

Test(type, v) ==
    CASE type = "polygon" -> PolygonTest(v)
      [] type = "multi_polygon" -> MultiPolygonTest(v)
      [] type = "linestring" -> LinestringTest(v)
      [] type = "multi_linestring" -> MultiLinestringTest(v)
      [] type = "point_xy" -> FetchTest(v)

Each(s, Op(_)) == [i \in DOMAIN s |-> Op(s[i])]

Points(v) == Each(v.at, FetchPoint)

Rings(v) == Each(v.at, Points)

AddedLines(v) ==
    LET lines[k \in 0 .. Len(v.at)] ==
            IF k = 0 THEN <<>>
            ELSE IF LinePointsTest(v.at[k]) = "ok" THEN Append(lines[k - 1], Points(v.at[k]))
            ELSE lines[k - 1]
    IN  lines[Len(v.at)]

Object(type, v) ==
    CASE type = "polygon" -> Rings(v)
      [] type = "multi_polygon" -> Each(v.at, Rings)
      [] type = "linestring" -> Points(v)
      [] type = "multi_linestring" -> AddedLines(v)
      [] type = "point_xy" -> FetchPoint(v)
-----------------------------------------------------------------------------
(* To Perl.                                                                 *)

PointToPerl(p) == Array(<<Number(p[1]), Number(p[2])>>)

PointsToPerl(s) == Array(Each(s, PointToPerl))

\* av_fill makes two slots before the points are stored.
LineToPerl(s) ==
    Array([i \in 1 .. Max({2, Len(s)}) |->
              IF i \in DOMAIN s THEN PointToPerl(s[i]) ELSE Missing])

PolygonToPerl(p) == Array(Each(p, PointsToPerl))

ToPerl(type, o) ==
    CASE type = "polygon" -> PolygonToPerl(o)
      [] type = "multi_polygon" -> Array(Each(o, PolygonToPerl))
      [] type = "linestring" -> PointsToPerl(o)
      [] type = "multi_linestring" -> Array(Each(o, LineToPerl))
      [] type = "point_xy" -> PointToPerl(o)

\* The lengths that av_extend is called with, after the subtraction of one.
Extends(type, o) ==
    CASE type = "polygon" -> {Len(r) : r \in Range(o)}
      [] type = "multi_polygon" -> {Len(r) : r \in UNION {Range(p) : p \in Range(o)}}
      [] type \in {"linestring", "multi_linestring"} -> {Len(o)}
      [] type = "point_xy" -> {}
-----------------------------------------------------------------------------
Init ==
    /\ input \in Inputs
    /\ out = "call"
    /\ object = <<>>
    /\ result = Missing

\* The input typemap: anything but an array croaks before the converter is called.
FromPerl ==
    /\ out = "call"
    /\ IF ~TypemapAccepts(input.value) THEN out' = "croak" /\ UNCHANGED object
       ELSE \E test \in {Test(input.type, input.value)} :
              \/ test = "ok" /\ out' = "object" /\ object' = Object(input.type, input.value)
              \/ test = "null" /\ out' = "croak" /\ UNCHANGED object
              \/ test = "crash" /\ out' = "crash" /\ UNCHANGED object
    /\ UNCHANGED <<input, result>>

\* The output typemap.
Returned ==
    /\ out = "object"
    /\ IF \E n \in Extends(input.type, object) : Minus1(n) > MaxMemory
       THEN out' = "exhausted" /\ UNCHANGED result
       ELSE out' = "result" /\ result' = ToPerl(input.type, object)
    /\ UNCHANGED <<input, object>>

Next == FromPerl \/ Returned

Spec == Init /\ [][Next]_vars
-----------------------------------------------------------------------------
(* Properties.                                                              *)

(* The arrays that the comments and tests describe, a reference for the     *)
(* loops above.  Points of lines may have further coordinates.              *)

IsPoint(v) == IsArray(v) /\ Len(v.at) >= 2 /\ \A i \in 1 .. 2 : v.at[i].kind = "number"

IsList(v, atLeast, Member(_)) ==
    IsArray(v) /\ Len(v.at) >= atLeast /\ \A i \in DOMAIN v.at : Member(v.at[i])

IsRing(v) ==
    LET IsPlanePoint(p) == IsPoint(p) /\ Len(p.at) = 2 IN IsList(v, 2, IsPlanePoint)

IsPolygon(v) == IsList(v, 1, IsRing)

IsLine(v) == IsList(v, 2, IsPoint)

WellFormed(type, v) ==
    CASE type = "polygon" -> IsPolygon(v)
      [] type = "multi_polygon" -> IsList(v, 0, IsPolygon)
      [] type = "linestring" -> IsList(v, 1, IsPoint)
      [] type = "multi_linestring" -> IsList(v, 0, IsLine)
      [] type = "point_xy" -> IsPoint(v)

\* The value without the coordinates after the second.
PlanarPoint(v) == Array(SubSeq(v.at, 1, 2))

PlanarPoints(v) == Array(Each(v.at, PlanarPoint))

PlanarLists(v) == Array(Each(v.at, PlanarPoints))

Planar(type, v) ==
    CASE type = "point_xy" -> PlanarPoint(v)
      [] type = "linestring" -> PlanarPoints(v)
      [] type \in {"polygon", "multi_linestring"} -> PlanarLists(v)
      [] type = "multi_polygon" -> Array(Each(v.at, PlanarLists))

\* Objects have what the algorithms rely on, whatever arrays they were made of: rings and
\* lines of at least two points, at least one ring in a polygon and one point in a line.
ObjectsWellFormed ==
    LET RingsOK(p) == p # <<>> /\ \A r \in Range(p) : Len(r) >= 2
    IN  out \in {"object", "result"} =>
            CASE input.type = "polygon" -> RingsOK(object)
              [] input.type = "multi_polygon" -> \A p \in Range(object) : RingsOK(p)
              [] input.type = "linestring" -> object # <<>>
              [] input.type = "multi_linestring" -> \A l \in Range(object) : Len(l) >= 2
              [] input.type = "point_xy" -> Len(object) = 2

\* An array of the documented shape is never refused, no call dies of it, and what it gives
\* back is the array but for further coordinates.  The tests ask it of the multilinestring
\* without lines too (t/01_basic.t, lines 57 and 79).
WellFormedComesBack ==
    WellFormed(input.type, input.value) =>
        /\ out \notin {"croak", "crash", "exhausted"}
        /\ out = "result" => result = Planar(input.type, input.value)

NoLines == input.type = "multi_linestring" /\ input.value.at = <<>>

\* The same of all arrays but the multilinestring without lines, for which av_extend is
\* called with the largest unsigned int (t/03_polygon.t has round trips of polygons).
RoundTrip == NoLines \/ WellFormedComesBack

\* An array that is not of the documented shape is answered with the croak "is not an array
\* reference or contains invalid data" of the typemaps.
InvalidDataCroaks ==
    (out # "call" /\ ~WellFormed(input.type, input.value)) => out = "croak"
==============================================================================
