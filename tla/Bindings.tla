------------------------------ MODULE Bindings -------------------------------
(***************************************************************************)
(* The XS functions of Utils.xsp with the typemaps of mytype.map, as steps *)
(* on the C++ heap.  A parameter of an array typemap (T_POLYGON_PTR ...)   *)
(* is converted into a new object; one of T_PTROBJ is a pointer taken out  *)
(* of a handle that Perl goes on holding.  A result of an array typemap is *)
(* converted into arrays and its object deleted; one of T_PTROBJ becomes a *)
(* handle.  The classes have no DESTROY.                                   *)
(*                                                                         *)
(* Whether a converter accepts its array is a free choice here (Converters *)
(* says which it accepts); numbers, tolerances and the geometry computed   *)
(* are left out, and so are parameters and results that are not objects.   *)
(***************************************************************************)
EXTENDS Naturals, Sequences

CONSTANTS
    Object,       \* the addresses operator new can return
    TypeOf(_),    \* the type of the object allocated at an address
    Variable,     \* the Perl variables that can hold handles
    NoObject

Types == {"polygon", "multi_polygon", "linestring", "multi_linestring", "point_xy"}

ASSUME BindingsAssumption ==
    /\ NoObject \notin Object
    /\ \A o \in Object : TypeOf(o) \in Types

VARIABLES
    heap,   \* heap[o]: "unborn", "live" or "freed"
    hold,   \* hold[v]: the object of the handle in the Perl variable v
    fn,     \* the XS function in progress, or "none"
    arg,    \* the C++ pointers its parameters have been converted to so far
    ret,    \* RETVAL, when it is a pointer
    at,     \* "perl", "input", "output" or "aborted"
    keepsGiven  \* whether the Perl program still uses a handle after an _arrayref function

vars == <<heap, hold, fn, arg, ret, at, keepsGiven>>

-----------------------------------------------------------------------------
(* The functions, by the shape of their declaration.                        *)

\* RETVAL = the parameter, returned as a handle.
WrapFunctions == {"_polygon", "_multi_polygon", "_multi_linestring"}

\* RETVAL = the object of a handle, returned as arrays.
ArrayrefFunctions == {"_polygon_arrayref", "_multi_polygon_arrayref"}

WktReaders == {"_read_wkt_polygon", "_read_wkt_linestring"}

\* Functions that use handles and have the comment "no delete?".
HandleUsers == {"polygon_linestring_intersection", "_polygon_to_wkt", "_multilinestring_to_wkt"}

CorrectFunctions == {"correct_polygon", "correct_multi_polygon"}

\* Functions that return a number or, polygon_medial_axis, arrays made from no C++ object.
Measures ==
    { "point_within_polygon", "point_within_multi_polygon", "point_covered_by_polygon",
      "point_covered_by_multi_polygon", "linestring_length", "polygon_area",
      "polygon_medial_axis" }

\* Functions that compute a new geometry.
Transforms ==
    { "polygon_multi_linestring_intersection", "multi_polygon_multi_linestring_intersection",
      "multi_linestring_multi_polygon_difference", "linestring_simplify",
      "multi_linestring_simplify", "polygon_centroid", "linestring_centroid",
      "multi_linestring_centroid" }

Functions ==
    UNION { WrapFunctions, ArrayrefFunctions, WktReaders, HandleUsers, CorrectFunctions,
            Measures, Transforms }

\* The types of the parameters that are objects, in the order of their conversion.
Takes(f) ==
    CASE f \in {"_polygon", "_polygon_arrayref", "_polygon_to_wkt", "correct_polygon",
                "polygon_area", "polygon_medial_axis", "polygon_centroid"} -> <<"polygon">>
      [] f \in {"_multi_polygon", "_multi_polygon_arrayref", "correct_multi_polygon"} ->
            <<"multi_polygon">>
      [] f \in {"_multi_linestring", "_multilinestring_to_wkt", "multi_linestring_simplify",
                "multi_linestring_centroid"} -> <<"multi_linestring">>
      [] f \in {"linestring_simplify", "linestring_length", "linestring_centroid"} ->
            <<"linestring">>
      [] f \in {"polygon_linestring_intersection", "polygon_multi_linestring_intersection"} ->
            <<"polygon", "multi_linestring">>
      [] f = "multi_polygon_multi_linestring_intersection" ->
            <<"multi_polygon", "multi_linestring">>
      [] f = "multi_linestring_multi_polygon_difference" ->
            <<"multi_linestring", "multi_polygon">>
      [] f \in {"point_within_polygon", "point_covered_by_polygon"} -> <<"point_xy", "polygon">>
      [] f \in {"point_within_multi_polygon", "point_covered_by_multi_polygon"} ->
            <<"point_xy", "multi_polygon">>
      [] OTHER -> <<>>

\* The type of the object that RETVAL is set to with new, "none" if it is not.
Makes(f) ==
    CASE f = "_read_wkt_polygon" -> "polygon"
      [] f \in {"_read_wkt_linestring", "polygon_linestring_intersection",
                "polygon_multi_linestring_intersection",
                "multi_polygon_multi_linestring_intersection",
                "multi_linestring_multi_polygon_difference", "multi_linestring_simplify"} ->
            "multi_linestring"
      [] f = "linestring_simplify" -> "linestring"
      [] f \in {"polygon_centroid", "linestring_centroid", "multi_linestring_centroid"} ->
            "point_xy"
      [] OTHER -> "none"

TakesHandles(f) == f \in HandleUsers \cup ArrayrefFunctions

\* RETVAL is the first parameter itself.
ReturnsArgument(f) == f \in WrapFunctions \cup ArrayrefFunctions \cup CorrectFunctions

\* Mutants: a delete where the code asks "no delete?"; one forgotten after a centroid.
DeletesHandles(f) == f \in Measures \cup Transforms \cup HandleUsers
DeletesArgumentsOfMeasures(f) ==
    f \in Measures \cup (Transforms \ {"multi_linestring_centroid"})

\* The body ends with a delete of every parameter.
DeletesArguments(f) == f \in Measures \cup Transforms

ReturnsHandle(f) == f \in WrapFunctions \cup WktReaders

\* The bodies in which Boost.Geometry can throw: nothing catches it.
Throws(f) == f \in WktReaders \cup Transforms \cup {"polygon_linestring_intersection"}
-----------------------------------------------------------------------------
Elements(s) == {s[i] : i \in DOMAIN s}

Fresh(type) == {o \in Object : heap[o] = "unborn" /\ TypeOf(o) = type}

\* Mutant: the last parameter is converted first.
NextTypeLast == Takes(fn)[Len(Takes(fn)) - Len(arg)]
NextType == Takes(fn)[Len(arg) + 1]

Converting == at = "input" /\ Len(arg) < Len(Takes(fn))

Converted == at = "input" /\ Len(arg) = Len(Takes(fn))

Return ==
    /\ fn' = "none"
    /\ arg' = <<>>
    /\ ret' = NoObject
    /\ at' = "perl"

Init ==
    /\ heap = [o \in Object |-> "unborn"]
    /\ hold = [v \in Variable |-> NoObject]
    /\ fn = "none"
    /\ arg = <<>>
    /\ ret = NoObject
    /\ at = "perl"
    /\ keepsGiven \in BOOLEAN

Call(f) ==
    /\ at = "perl"
    /\ fn' = f
    /\ at' = "input"
    /\ UNCHANGED <<heap, hold, arg, ret, keepsGiven>>

\* An input typemap of an array type: the converter accepts the array.
ConvertArray ==
    /\ Converting
    /\ ~TakesHandles(fn)
    /\ \E o \in Fresh(NextType) :
        /\ heap' = [heap EXCEPT ![o] = "live"]
        /\ arg' = Append(arg, o)
    /\ UNCHANGED <<hold, fn, ret, at, keepsGiven>>

\* The value is not an array, the converter has deleted its object and returned NULL,
\* or the value is no handle of the class: Perl_croak leaves the function at once.
Croak ==
    /\ Converting
    /\ Return
    /\ UNCHANGED <<heap, hold, keepsGiven>>

\* Perl code that does not keep handles given to an _arrayref function passes temporaries.
Temporary(v) == \A w \in Variable \ {v} : hold[w] # hold[v]

\* The input typemap T_PTROBJ takes the pointer out of the handle.
TakeHandle(v) ==
    LET given == ~keepsGiven /\ fn \in ArrayrefFunctions IN
    /\ Converting
    /\ TakesHandles(fn)
    /\ hold[v] \in Object
    /\ TypeOf(hold[v]) = NextType
    /\ given => Temporary(v)
    /\ arg' = Append(arg, hold[v])
    /\ hold' = IF given THEN [hold EXCEPT ![v] = NoObject] ELSE hold
    /\ UNCHANGED <<heap, fn, ret, at, keepsGiven>>

\* The CODE section of a function.
Freed == IF DeletesArguments(fn) THEN Elements(arg) ELSE {}

HeapWith(new) ==
    [o \in Object |-> IF o \in new THEN "live" ELSE IF o \in Freed THEN "freed" ELSE heap[o]]

Body ==
    /\ Converted
    /\ IF Makes(fn) # "none"
       THEN \E o \in Fresh(Makes(fn)) : heap' = HeapWith({o}) /\ ret' = o
       ELSE /\ heap' = HeapWith({})
            /\ ret' = IF ReturnsArgument(fn) THEN arg[1] ELSE NoObject
    /\ arg' = <<>>
    /\ at' = "output"
    /\ UNCHANGED <<hold, fn, keepsGiven>>

\* A C++ exception goes through the frames of the Perl interpreter and ends the process.
BodyThrows ==
    /\ Converted
    /\ Throws(fn)
    /\ at' = "aborted"
    /\ UNCHANGED <<heap, hold, fn, arg, ret, keepsGiven>>

\* A converter that reads a missing element or allocates too much ends the process.
ConverterDies ==
    /\ Converting
    /\ ~TakesHandles(fn)
    /\ at' = "aborted"
    /\ UNCHANGED <<heap, hold, fn, arg, ret, keepsGiven>>

\* The output typemaps: T_PTROBJ, or conversion into arrays and delete.
OutputHandle(v) ==
    /\ at = "output"
    /\ ReturnsHandle(fn)
    /\ hold' = [hold EXCEPT ![v] = ret]
    /\ Return
    /\ UNCHANGED <<heap, keepsGiven>>

OutputArrays ==
    /\ at = "output"
    /\ ~ReturnsHandle(fn)
    /\ heap' = IF ret = NoObject THEN heap ELSE [heap EXCEPT ![ret] = "freed"]
    /\ Return
    /\ UNCHANGED <<hold, keepsGiven>>

\* What Perl does with handles between calls; the last reference frees no object.
CopyHandle(v, w) ==
    /\ at = "perl"
    /\ hold' = [hold EXCEPT ![w] = hold[v]]
    /\ UNCHANGED <<heap, fn, arg, ret, at, keepsGiven>>

DropHandle(v) ==
    /\ at = "perl"
    /\ hold' = [hold EXCEPT ![v] = NoObject]
    /\ UNCHANGED <<heap, fn, arg, ret, at, keepsGiven>>

Next ==
    \/ \E f \in Functions : Call(f)
    \/ ConvertArray
    \/ Croak
    \/ \E v \in Variable : TakeHandle(v)
    \/ Body
    \/ BodyThrows
    \/ ConverterDies
    \/ \E v \in Variable : OutputHandle(v)
    \/ OutputArrays
    \/ \E v, w \in Variable : CopyHandle(v, w)
    \/ \E v \in Variable : DropHandle(v)

Spec == Init /\ [][Next]_vars
-----------------------------------------------------------------------------
(* Properties.                                                              *)

States == {"unborn", "live", "freed"}

\* Type invariant; the parameters are converted in the order of their declaration, each to
\* an object of its type.
BindingsTypeOK ==
    /\ heap \in [Object -> States]
    /\ hold \in [Variable -> Object \cup {NoObject}]
    /\ fn \in Functions \cup {"none"}
    /\ arg \in Seq(Object)
    /\ Len(arg) <= Len(Takes(fn))
    /\ \A i \in DOMAIN arg : TypeOf(arg[i]) = Takes(fn)[i]
    /\ ret \in Object \cup {NoObject}
    /\ at \in {"perl", "input", "output", "aborted"}
    /\ keepsGiven \in BOOLEAN

InCall == Elements(arg) \cup ({ret} \ {NoObject})

InPerl == Elements(hold) \ {NoObject}

Owner(o) ==
    IF heap[o] = "unborn" THEN "none"
    ELSE IF heap[o] = "freed" THEN "freed"
    ELSE IF o \in InPerl THEN "perl"
    ELSE IF o \in InCall THEN "call"
    ELSE "lost"

\* Nothing is promised to a program that keeps the handles it gave to an _arrayref function.
Promise ==
    INSTANCE Ownership WITH
        owner <- [o \in Object |-> IF keepsGiven THEN "none" ELSE Owner(o)],
        touched <- IF keepsGiven THEN {} ELSE InCall

\* The XS layer keeps the promise of Ownership: every pointer a call touches is to an
\* object that is allocated and not deleted, and no object is deleted twice, provided
\* Perl gives up the handles it passes to the _arrayref functions.
OwnershipKept == Promise!OwnershipSpec

\* An object that nothing reaches any more was lost by a croak on a later argument or by
\* Perl letting go of a handle; no function that runs to its end loses one.
OnlyCroaksAndDropsLose ==
    [][ \A o \in Object :
            (Owner(o) \in {"call", "perl"} /\ Owner(o)' = "lost") =>
                \/ at = "input" /\ at' = "perl"
                \/ \E v \in Variable : hold[v] = o /\ hold'[v] # o ]_vars

\* Whatever Perl does with its handles, one that is dangling had a polygon or a
\* multipolygon: there is no function that deletes the multilinestring of a handle.
OnlyPolygonHandlesDangle ==
    \A o \in InPerl \cup InCall :
        heap[o] # "live" => TypeOf(o) \in {"polygon", "multi_polygon"}
==============================================================================
