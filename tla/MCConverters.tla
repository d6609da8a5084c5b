---------------------------- MODULE MCConverters -----------------------------
EXTENDS Converters

\* Arrays with up to n elements out of a set.
ArraysOf(set, n) == {Array(s) : s \in UNION {[1 .. k -> set] : k \in 0 .. n}}

P == Array(<<Number(1), Number(2)>>)
Q == Array(<<Number(3), Number(4)>>)

\* Elements that are no points and points with too few, too many, missing and non-numeric coordinates.
Elements ==
    { P, Q, Missing, Number(5), Array(<<>>), Array(<<Number(6)>>),
      Array(<<Number(1), Missing>>), Array(<<Number(1), Number(2), Number(3)>>),
      Array(<<Array(<<>>), Number(2)>>) }

Lists == ArraysOf(Elements, 3)

\* One list of every kind, to be a member of longer arrays.
SomeLists ==
    ArraysOf({P, Q, Number(5)}, 2) \cup
        { Missing, Number(5), Array(<<P, Missing>>), Array(<<P, Q, P>>),
          Array(<<Q, Array(<<Number(6)>>)>>), Array(<<P, Array(<<Number(1), Missing>>)>>),
          Array(<<P, Array(<<Number(1), Number(2), Number(3)>>)>>) }

Lists2 == ArraysOf(SomeLists, 2)

SomePolygons ==
    { Missing, Number(5), Array(<<>>), Array(<<Array(<<P, Q>>)>>),
      Array(<<Array(<<P, Q, P>>), Array(<<Q, P>>)>>), Array(<<Array(<<P>>)>>),
      Array(<<Array(<<P, Q>>), Missing>>) }

InputsOf(type, values) == {[type |-> type, value |-> v] : v \in values}

AllInputs ==
    UNION { InputsOf("point_xy", Elements),
            InputsOf("linestring", Lists \cup Elements),
            InputsOf("polygon", {Array(<<l>>) : l \in Lists} \cup Lists2 \cup Elements),
            InputsOf("multi_linestring",
                {Array(<<l>>) : l \in Lists} \cup Lists2),
            InputsOf("multi_polygon", ArraysOf(SomePolygons, 3)) }

\* Arrays to be refused: a multipolygon with a ring of one point, a multilinestring with a
\* point of one coordinate, a polygon without rings.
InvalidInputs ==
    UNION { InputsOf("multi_polygon", {Array(<<Array(<<Array(<<P>>)>>)>>)}),
            InputsOf("multi_linestring",
                {Array(<<Array(<<P, Q>>), Array(<<Q, Array(<<Number(6)>>)>>)>>)}),
            InputsOf("polygon", {Array(<<>>)}) }

\* Lists without members.
EmptyInputs ==
    InputsOf("multi_linestring", {Array(<<>>)}) \cup InputsOf("multi_polygon", {Array(<<>>)})
==============================================================================
