----------------------------- MODULE MCBindings ------------------------------
EXTENDS Bindings, TLC

CONSTANTS p1, p2, m1, l1, l2, s1, s2, s3, xy

\* Two objects of the types that can be parameter and result of one call or held by two
\* variables, and a third multilinestring, so that one can be held, one taken and one made.
MCObject == {p1, p2, m1, l1, l2, s1, s2, s3, xy}

MCTypeOf(o) ==
    CASE o \in {p1, p2} -> "polygon"
      [] o = m1 -> "multi_polygon"
      [] o \in {l1, l2} -> "linestring"
      [] o \in {s1, s2, s3} -> "multi_linestring"
      [] o = xy -> "point_xy"

\* Addresses of one type are interchangeable, and so are the variables.
Interchangeable ==
    Permutations({p1, p2}) \cup Permutations({l1, l2}) \cup Permutations({s1, s2, s3})
        \cup Permutations(Variable)
==============================================================================
