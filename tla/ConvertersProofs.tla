-------------------------- MODULE ConvertersProofs --------------------------
(***************************************************************************)
(* Proofs about Converters, for arrays of any length and any numbers that  *)
(* fit into memory: what the tests of each converter accept, what object   *)
(* is made of it and, for an array of the documented shape, that the       *)
(* object is converted back to that array.  No induction over the nesting  *)
(* is needed: a value is at most four arrays deep, a lemma for each level. *)
(***************************************************************************)
EXTENDS Converters, NaturalsLemmas, SequenceTheorems

-----------------------------------------------------------------------------
(* The loops over elements. *)
LEMMA FirstIsFailing ==
    ASSUME NEW n \in Nat, NEW S \in SUBSET (1..n), S # {}
    PROVE  Min(S) \in S
<1>1. S \in SUBSET Nat
  OBVIOUS
<1>2. \E m \in S : \A k \in S : m <= k
  BY <1>1, LeastNatural
<1> QED BY <1>2 DEF Min

(* A length less one, in unsigned arithmetic.                               *)
LEMMA LessOne ==
    ASSUME NEW n \in 0..MaxMemory
    PROVE  /\ n = 0 => Minus1(n) > MaxMemory
           /\ n # 0 => Minus1(n) <= MaxMemory
<1>1. MaxMemory \in Nat /\ UIntMod \in Nat /\ UIntMod - 1 > MaxMemory
  BY ConvertersAssumption
<1>2. CASE n = 0
  BY <1>1, <1>2 DEF Minus1
<1>3. CASE n # 0
  BY <1>1, <1>3 DEF Minus1
<1> QED BY <1>2, <1>3

(* A loop over the n elements of v ends well if all of them pass. *)
LEMMA AddRingOk ==
    ASSUME NEW v, NEW n \in Nat, DOMAIN v.at = 1..n
    PROVE  AddRingTest(v) = "ok" <=>
             \A i \in 1..n : /\ v.at[i] # Missing /\ IsArray(v.at[i]) /\ Len(v.at[i].at) = 2
                             /\ FetchTest(v.at[i]) = "ok"
<1> DEFINE T(p) == IF p = Missing THEN "crash"
                   ELSE IF IsArray(p) /\ Len(p.at) = 2 THEN FetchTest(p) ELSE "null"
           F == {i \in 1..n : T(v.at[i]) # "ok"}
<1>1. AddRingTest(v) = IF F = {} THEN "ok" ELSE T(v.at[Min(F)])
  BY DEF AddRingTest, FirstFailure, ElementTest
<1>2. F # {} => Min(F) \in F
  BY FirstIsFailing
<1>3. AddRingTest(v) = "ok" <=> F = {}
  BY <1>1, <1>2
<1> QED BY <1>3

LEMMA LinePointsOk ==
    ASSUME NEW v, NEW n \in Nat, DOMAIN v.at = 1..n
    PROVE  LinePointsTest(v) = "ok" <=>
             \A i \in 1..n : /\ v.at[i] # Missing /\ IsArray(v.at[i]) /\ Len(v.at[i].at) >= 2
                             /\ FetchTest(v.at[i]) = "ok"
<1> DEFINE T(p) == IF p = Missing THEN "crash"
                   ELSE IF IsArray(p) /\ Len(p.at) >= 2 THEN FetchTest(p) ELSE "null"
           F == {i \in 1..n : T(v.at[i]) # "ok"}
<1>1. LinePointsTest(v) = IF F = {} THEN "ok" ELSE T(v.at[Min(F)])
  BY DEF LinePointsTest, FirstFailure, ElementTest
<1>2. F # {} => Min(F) \in F
  BY FirstIsFailing
<1>3. LinePointsTest(v) = "ok" <=> F = {}
  BY <1>1, <1>2
<1> QED BY <1>3

LEMMA PolygonOk ==
    ASSUME NEW v, NEW n \in 0..MaxMemory, DOMAIN v.at = 1..n, Len(v.at) = n
    PROVE  PolygonTest(v) = "ok" <=>
             /\ n # 0
             /\ \A i \in 1..n : /\ v.at[i] # Missing /\ IsArray(v.at[i]) /\ Len(v.at[i].at) >= 2
                                /\ AddRingTest(v.at[i]) = "ok"
<1> DEFINE T(r) == IF r = Missing THEN "crash"
                   ELSE IF IsArray(r) /\ Len(r.at) >= 2 THEN AddRingTest(r) ELSE "null"
           F == {i \in 1..n : T(v.at[i]) # "ok"}
<1>1. PolygonTest(v) = IF Minus1(n) > MaxMemory THEN "crash"
                       ELSE IF F = {} THEN "ok" ELSE T(v.at[Min(F)])
  BY DEF PolygonTest, FirstFailure, ElementTest
<1>2. F # {} => Min(F) \in F
  <2>1. n \in Nat /\ F \in SUBSET (1..n)
    BY ConvertersAssumption
  <2> QED BY <2>1, FirstIsFailing
<1>3. Minus1(n) > MaxMemory <=> n = 0
  <2>1. Minus1(n) \in Int /\ MaxMemory \in Int
    BY ConvertersAssumption DEF Minus1
  <2> QED BY <2>1, LessOne
<1>4. PolygonTest(v) = "ok" <=> n # 0 /\ F = {}
  BY <1>1, <1>2, <1>3
<1> QED BY <1>4

LEMMA MultiPolygonOk ==
    ASSUME NEW v, NEW n \in Nat, DOMAIN v.at = 1..n
    PROVE  MultiPolygonTest(v) = "ok" <=>
             \A i \in 1..n : /\ v.at[i] # Missing /\ IsArray(v.at[i]) /\ Len(v.at[i].at) >= 1
                             /\ PolygonTest(v.at[i]) = "ok"
<1> DEFINE T(p) == IF p = Missing THEN "crash"
                   ELSE IF IsArray(p) /\ Len(p.at) >= 1
                        THEN (IF PolygonTest(p) = "ok" THEN "ok" ELSE "crash") ELSE "null"
           F == {i \in 1..n : T(v.at[i]) # "ok"}
<1>1. MultiPolygonTest(v) = IF F = {} THEN "ok" ELSE T(v.at[Min(F)])
  BY DEF MultiPolygonTest, FirstFailure, ElementTest
<1>2. F # {} => Min(F) \in F
  BY FirstIsFailing
<1>3. MultiPolygonTest(v) = "ok" <=> F = {}
  BY <1>1, <1>2
<1> QED BY <1>3

LEMMA MultiLinestringOk ==
    ASSUME NEW v, NEW n \in Nat, DOMAIN v.at = 1..n
    PROVE  MultiLinestringTest(v) = "ok" <=>
             \A i \in 1..n : /\ v.at[i] # Missing /\ IsArray(v.at[i]) /\ Len(v.at[i].at) >= 2
                             /\ LinePointsTest(v.at[i]) # "crash"
<1> DEFINE T(l) == IF l = Missing THEN "crash"
                   ELSE IF IsArray(l) /\ Len(l.at) >= 2
                        THEN (IF LinePointsTest(l) = "crash" THEN "crash" ELSE "ok") ELSE "null"
           F == {i \in 1..n : T(v.at[i]) # "ok"}
<1>1. MultiLinestringTest(v) = IF F = {} THEN "ok" ELSE T(v.at[Min(F)])
  BY DEF MultiLinestringTest, FirstFailure, ElementTest
<1>2. F # {} => Min(F) \in F
  BY FirstIsFailing
<1>3. MultiLinestringTest(v) = "ok" <=> F = {}
  BY <1>1, <1>2
<1> QED BY <1>3

-----------------------------------------------------------------------------
(* Values: an array is a sequence that fits into memory, of values.         *)
Sound0(v) ==
    IsArray(v) => /\ Len(v.at) \in 0..MaxMemory /\ DOMAIN v.at = 1..Len(v.at)
                  /\ v.at = [i \in 1..Len(v.at) |-> v.at[i]]
                  /\ \A i \in DOMAIN v.at :
                        v.at[i].kind = "number" => v.at[i] = Number(v.at[i].number)

MembersSound0(v) == IsArray(v) => \A i \in DOMAIN v.at : Sound0(v.at[i])
Sound1(v) == Sound0(v) /\ MembersSound0(v)
MembersSound1(v) == IsArray(v) => \A i \in DOMAIN v.at : Sound1(v.at[i])
Sound2(v) == Sound0(v) /\ MembersSound1(v)
MembersSound2(v) == IsArray(v) => \A i \in DOMAIN v.at : Sound2(v.at[i])
Sound3(v) == Sound0(v) /\ MembersSound2(v)

ArrayShaped(v) ==
    Len(v.at) \in 0..MaxMemory /\ v = Array([i \in 1..Len(v.at) |-> v.at[i]])

LEMMA Shapes ==
    ASSUME NEW v
    PROVE  /\ IsElement(v) => (v.kind = "number" => v = Number(v.number))
           /\ IsValue1(v) => \/ v = Missing \/ v = Number(v.number)
                             \/ ArrayShaped(v) /\ \A i \in 1..Len(v.at) : IsElement(v.at[i])
           /\ IsValue2(v) => \/ v = Missing \/ v = Number(v.number)
                             \/ ArrayShaped(v) /\ \A i \in 1..Len(v.at) : IsValue1(v.at[i])
           /\ IsValue3(v) => \/ v = Missing \/ v = Number(v.number)
                             \/ ArrayShaped(v) /\ \A i \in 1..Len(v.at) : IsValue2(v.at[i])
           /\ IsValue4(v) => \/ v = Missing \/ v = Number(v.number)
                             \/ ArrayShaped(v) /\ \A i \in 1..Len(v.at) : IsValue3(v.at[i])
<1>1. IsElement(v) => (v.kind = "number" => v = Number(v.number))
  BY DEF IsElement
<1>2. IsValue1(v) => \/ v = Missing \/ v = Number(v.number)
                     \/ ArrayShaped(v) /\ \A i \in 1..Len(v.at) : IsElement(v.at[i])
  BY DEF IsValue1, IsValue, ArrayShaped
<1>3. IsValue2(v) => \/ v = Missing \/ v = Number(v.number)
                     \/ ArrayShaped(v) /\ \A i \in 1..Len(v.at) : IsValue1(v.at[i])
  BY DEF IsValue2, IsValue, ArrayShaped
<1>4. IsValue3(v) => \/ v = Missing \/ v = Number(v.number)
                     \/ ArrayShaped(v) /\ \A i \in 1..Len(v.at) : IsValue2(v.at[i])
  BY DEF IsValue3, IsValue, ArrayShaped
<1>5. IsValue4(v) => \/ v = Missing \/ v = Number(v.number)
                     \/ ArrayShaped(v) /\ \A i \in 1..Len(v.at) : IsValue3(v.at[i])
  BY DEF IsValue4, IsValue, ArrayShaped
<1> QED BY <1>1, <1>2, <1>3, <1>4, <1>5

LEMMA KindFacts ==
    ASSUME NEW v
    PROVE  /\ v = Missing => v.kind = "missing"
           /\ v = Number(v.number) => v.kind = "number"
           /\ ArrayShaped(v) => /\ IsArray(v) /\ Len(v.at) \in 0..MaxMemory
                                /\ DOMAIN v.at = 1..Len(v.at)
                                /\ v.at = [i \in 1..Len(v.at) |-> v.at[i]]
<1>1. v = Missing => v.kind = "missing"
  BY DEF Missing
<1>2. v = Number(v.number) => v.kind = "number"
  <2>1. Number(v.number).kind = "number"
    BY DEF Number
  <2> QED BY <2>1
<1>3. ASSUME ArrayShaped(v)
      PROVE  /\ IsArray(v) /\ Len(v.at) \in 0..MaxMemory /\ DOMAIN v.at = 1..Len(v.at)
             /\ v.at = [i \in 1..Len(v.at) |-> v.at[i]]
  <2> DEFINE a == [i \in 1..Len(v.at) |-> v.at[i]]
  <2>1. v = Array(a) /\ Len(v.at) \in 0..MaxMemory
    BY <1>3 DEF ArrayShaped
  <2>2. Array(a).kind = "array" /\ Array(a).at = a
    <3> HIDE DEF a
    <3> QED BY DEF Array
  <2>3. v.kind = "array" /\ v.at = a
    <3> HIDE DEF a
    <3> QED BY <2>1, <2>2
  <2>4. DOMAIN v.at = 1..Len(v.at)
    BY <2>3
  <2> QED BY <2>1, <2>3, <2>4 DEF IsArray
<1> QED BY <1>1, <1>2, <1>3

LEMMA InputsSound ==
    ASSUME NEW i \in Inputs
    PROVE  i.type \in Types /\ Sound3(i.value)
<1>1. \A v : IsElement(v) \/ IsValue1(v) \/ IsValue2(v) \/ IsValue3(v) =>
                (v.kind = "number" => v = Number(v.number))
  BY Shapes, KindFacts DEF IsArray
<1>2. ASSUME NEW v, IsArray(v),
             IsValue1(v) \/ IsValue2(v) \/ IsValue3(v) \/ IsValue4(v)
      PROVE  Sound0(v)
  <2>1. ArrayShaped(v) /\ \A k \in 1..Len(v.at) : \/ IsElement(v.at[k]) \/ IsValue1(v.at[k])
                                                  \/ IsValue2(v.at[k]) \/ IsValue3(v.at[k])
    BY <1>2, Shapes, KindFacts DEF IsArray
  <2> QED BY <1>1, <2>1, KindFacts DEF Sound0
<1>3. \A v : IsValue1(v) => Sound0(v)
  BY <1>2 DEF Sound0
<1>4. ASSUME NEW v, IsValue2(v) PROVE Sound1(v)
  <2>1. Sound0(v)
    BY <1>2, <1>4 DEF Sound0
  <2>2. IsArray(v) => \A k \in DOMAIN v.at : IsValue1(v.at[k])
    BY <1>4, Shapes, KindFacts DEF IsArray
  <2> QED BY <1>3, <2>1, <2>2 DEF Sound1, MembersSound0
<1>5. ASSUME NEW v, IsValue3(v) PROVE Sound2(v)
  <2>1. Sound0(v)
    BY <1>2, <1>5 DEF Sound0
  <2>2. IsArray(v) => \A k \in DOMAIN v.at : IsValue2(v.at[k])
    BY <1>5, Shapes, KindFacts DEF IsArray
  <2> QED BY <1>4, <2>1, <2>2 DEF Sound2, MembersSound1
<1>6. ASSUME NEW v, IsValue4(v) PROVE Sound3(v)
  <2>1. Sound0(v)
    BY <1>2, <1>6 DEF Sound0
  <2>2. IsArray(v) => \A k \in DOMAIN v.at : IsValue3(v.at[k])
    BY <1>6, Shapes, KindFacts DEF IsArray
  <2> QED BY <1>5, <2>1, <2>2 DEF Sound3, MembersSound2
<1> QED BY <1>6, ConvertersAssumption

LEMMA SoundBelow ==
    ASSUME NEW v
    PROVE  /\ Sound3(v) => Sound2(v)
           /\ Sound2(v) => Sound1(v)
<1>1. \A w : Sound2(w) => Sound1(w)
  BY DEF Sound2, Sound1, MembersSound1, MembersSound0
<1> QED BY <1>1 DEF Sound3, Sound2, MembersSound2, MembersSound1

-----------------------------------------------------------------------------
(* What the documented arrays are converted to, and that it is converted     *)
(* back to them.                                                            *)
LEMMA PointBack ==
    ASSUME NEW v, Sound0(v), IsPoint(v)
    PROVE  v # Missing /\ FetchTest(v) = "ok" /\ PointToPerl(FetchPoint(v)) = PlanarPoint(v)
<1>1. /\ IsArray(v) /\ Len(v.at) >= 2 /\ Len(v.at) \in Nat /\ DOMAIN v.at = 1..Len(v.at)
      /\ v.at = [i \in 1..Len(v.at) |-> v.at[i]]
      /\ v.at[1] = Number(v.at[1].number) /\ v.at[2] = Number(v.at[2].number)
      /\ v.at[1].kind = "number" /\ v.at[2].kind = "number"
  BY ConvertersAssumption DEF IsPoint, Sound0
<1>2. v # Missing /\ FetchTest(v) = "ok"
  BY <1>1 DEF FetchTest, IsArray, Missing
<1>3. SubSeq(v.at, 1, 2) = <<v.at[1], v.at[2]>>
  <2> DEFINE S == {v.at[i] : i \in 1..Len(v.at)}
  <2>1. v.at \in Seq(S)
    BY <1>1
  <2>2. v.at[1] \in S /\ v.at[2] \in S
    BY <1>1
  <2> HIDE DEF S
  <2> DEFINE q == SubSeq(v.at, 1, 2)
  <2>3. \A i \in 1..2 : v.at[i] \in S
    BY <2>2
  <2>4. /\ q \in Seq(S) /\ Len(q) = IF 1 <= 2 THEN 2 - 1 + 1 ELSE 0
        /\ \A i \in 1..2 - 1 + 1 : q[i] = v.at[1 + i - 1]
    BY <2>3, SubSeqProperties
  <2>6. q \in Seq(S) /\ Len(q) = 2 /\ q[1] = v.at[1] /\ q[2] = v.at[2]
    <3> HIDE DEF q
    <3> QED BY <2>4
  <2> HIDE DEF q
  <2>7. q = <<v.at[1], v.at[2]>>
    BY <2>2, <2>6
  <2> QED BY <2>7 DEF q
<1> QED BY <1>1, <1>2, <1>3 DEF PointToPerl, FetchPoint, PlanarPoint

LEMMA LineBack ==
    ASSUME NEW v, Sound1(v), IsArray(v), \A i \in DOMAIN v.at : IsPoint(v.at[i])
    PROVE  /\ LinePointsTest(v) = "ok" /\ PointsToPerl(Points(v)) = PlanarPoints(v)
           /\ Len(v.at) >= 2 => LineToPerl(Points(v)) = PlanarPoints(v)
           /\ (\A i \in DOMAIN v.at : Len(v.at[i].at) = 2) => AddRingTest(v) = "ok"
<1> DEFINE n == Len(v.at)
<1>1. /\ n \in Nat /\ DOMAIN v.at = 1..n
      /\ \A i \in 1..n : Sound0(v.at[i]) /\ IsPoint(v.at[i])
  <2>1. Sound0(v) /\ \A i \in DOMAIN v.at : Sound0(v.at[i])
    BY DEF Sound1, MembersSound0
  <2>2. n \in 0..MaxMemory /\ DOMAIN v.at = 1..n
    BY <2>1 DEF Sound0
  <2>3. n \in Nat
    BY <2>2, ConvertersAssumption
  <2> QED BY <2>1, <2>2, <2>3
<1>2. \A i \in 1..n : /\ v.at[i] # Missing /\ IsArray(v.at[i]) /\ Len(v.at[i].at) >= 2
                      /\ FetchTest(v.at[i]) = "ok"
                      /\ PointToPerl(FetchPoint(v.at[i])) = PlanarPoint(v.at[i])
  BY <1>1, PointBack DEF IsPoint
<1> HIDE DEF n
<1>3. LinePointsTest(v) = "ok"
  BY <1>1, <1>2, LinePointsOk
<1>4. (\A i \in DOMAIN v.at : Len(v.at[i].at) = 2) => AddRingTest(v) = "ok"
  BY <1>1, <1>2, AddRingOk
<1>5. Points(v) = [i \in 1..n |-> FetchPoint(v.at[i])]
  BY <1>1 DEF Points, Each
<1>6. PlanarPoints(v) = Array([i \in 1..n |-> PlanarPoint(v.at[i])])
  BY <1>1 DEF PlanarPoints, Each
<1>7. PointsToPerl(Points(v)) = Array([i \in 1..n |-> PointToPerl(FetchPoint(v.at[i]))])
  BY <1>5 DEF PointsToPerl, Each
<1>8. [i \in 1..n |-> PointToPerl(FetchPoint(v.at[i]))] = [i \in 1..n |-> PlanarPoint(v.at[i])]
  BY <1>2
<1>9. PointsToPerl(Points(v)) = PlanarPoints(v)
  BY <1>6, <1>7, <1>8
<1>10. ASSUME n >= 2 PROVE LineToPerl(Points(v)) = PlanarPoints(v)
  <2>1. Len(Points(v)) = n /\ DOMAIN Points(v) = 1..n
    BY <1>1, <1>5
  <2>2. Max({2, n}) = n
    BY <1>1, <1>10 DEF Max
  <2>3. LineToPerl(Points(v)) = Array([i \in 1..n |-> PointToPerl(Points(v)[i])])
    BY <2>1, <2>2 DEF LineToPerl
  <2>4. [i \in 1..n |-> PointToPerl(Points(v)[i])] = [i \in 1..n |-> PointToPerl(FetchPoint(v.at[i]))]
    BY <1>5
  <2> QED BY <1>6, <1>8, <2>3, <2>4
<1> QED BY <1>3, <1>4, <1>9, <1>10 DEF n

LEMMA PolygonBack ==
    ASSUME NEW v, Sound2(v), IsPolygon(v)
    PROVE  PolygonTest(v) = "ok" /\ PolygonToPerl(Rings(v)) = PlanarLists(v)
<1> DEFINE n == Len(v.at)
<1>1. /\ IsArray(v) /\ n >= 1 /\ \A i \in DOMAIN v.at : IsRing(v.at[i])
  BY DEF IsPolygon, IsList
<1>2. /\ n \in 0..MaxMemory /\ n # 0 /\ DOMAIN v.at = 1..n /\ \A i \in 1..n : Sound1(v.at[i])
  BY <1>1, ConvertersAssumption DEF Sound2, Sound0, MembersSound1
<1>3. ASSUME NEW r, IsRing(r)
      PROVE  /\ IsArray(r) /\ Len(r.at) >= 2
             /\ \A i \in DOMAIN r.at : IsPoint(r.at[i]) /\ Len(r.at[i].at) = 2
  BY <1>3 DEF IsRing, IsList
<1>4. \A i \in 1..n : /\ v.at[i] # Missing /\ IsArray(v.at[i]) /\ Len(v.at[i].at) >= 2
                      /\ AddRingTest(v.at[i]) = "ok"
                      /\ PointsToPerl(Points(v.at[i])) = PlanarPoints(v.at[i])
  <2> SUFFICES ASSUME NEW i \in 1..n
               PROVE  /\ v.at[i] # Missing /\ IsArray(v.at[i]) /\ Len(v.at[i].at) >= 2
                      /\ AddRingTest(v.at[i]) = "ok"
                      /\ PointsToPerl(Points(v.at[i])) = PlanarPoints(v.at[i])
    OBVIOUS
  <2>1. PICK r : r = v.at[i]
    OBVIOUS
  <2>2. /\ IsArray(r) /\ Len(r.at) >= 2 /\ Sound1(r)
        /\ \A k \in DOMAIN r.at : IsPoint(r.at[k]) /\ Len(r.at[k].at) = 2
    BY <1>1, <1>2, <1>3, <2>1
  <2>3. AddRingTest(r) = "ok" /\ PointsToPerl(Points(r)) = PlanarPoints(r)
    BY <2>2, LineBack
  <2>4. r # Missing
    BY <2>2 DEF IsArray, Missing
  <2> QED BY <2>1, <2>2, <2>3, <2>4
<1> HIDE DEF n
<1>5. PolygonTest(v) = "ok"
  <2>1. Len(v.at) = n
    BY DEF n
  <2> QED BY <1>2, <1>4, <2>1, PolygonOk
<1>6. Rings(v) = [i \in 1..n |-> Points(v.at[i])]
  BY <1>2 DEF Rings, Each
<1>7. PlanarLists(v) = Array([i \in 1..n |-> PlanarPoints(v.at[i])])
  BY <1>2 DEF PlanarLists, Each
<1>8. PolygonToPerl(Rings(v)) = Array([i \in 1..n |-> PointsToPerl(Points(v.at[i]))])
  BY <1>6 DEF PolygonToPerl, Each
<1>9. [i \in 1..n |-> PointsToPerl(Points(v.at[i]))] = [i \in 1..n |-> PlanarPoints(v.at[i])]
  BY <1>4
<1> QED BY <1>5, <1>7, <1>8, <1>9

LEMMA MultiPolygonBack ==
    ASSUME NEW v, Sound3(v), IsList(v, 0, IsPolygon)
    PROVE  /\ MultiPolygonTest(v) = "ok"
           /\ Array(Each(Each(v.at, Rings), PolygonToPerl)) = Array(Each(v.at, PlanarLists))
<1> DEFINE n == Len(v.at)
<1>1. IsArray(v) /\ \A i \in DOMAIN v.at : IsPolygon(v.at[i])
  BY DEF IsList
<1>2. /\ n \in Nat /\ DOMAIN v.at = 1..n /\ \A i \in 1..n : Sound2(v.at[i])
  BY <1>1, ConvertersAssumption DEF Sound3, Sound0, MembersSound2
<1>3. \A i \in 1..n : /\ v.at[i] # Missing /\ IsArray(v.at[i]) /\ Len(v.at[i].at) >= 1
                      /\ PolygonTest(v.at[i]) = "ok"
                      /\ PolygonToPerl(Rings(v.at[i])) = PlanarLists(v.at[i])
  <2>1. \A p : IsPolygon(p) => p # Missing /\ IsArray(p) /\ Len(p.at) >= 1
    BY DEF IsPolygon, IsList, IsArray, Missing
  <2> QED BY <1>1, <1>2, <2>1, PolygonBack
<1> HIDE DEF n
<1>4. MultiPolygonTest(v) = "ok"
  BY <1>2, <1>3, MultiPolygonOk
<1>5. Each(Each(v.at, Rings), PolygonToPerl) = [i \in 1..n |-> PolygonToPerl(Rings(v.at[i]))]
  BY <1>2 DEF Each
<1>6. Each(v.at, PlanarLists) = [i \in 1..n |-> PlanarLists(v.at[i])]
  BY <1>2 DEF Each
<1>7. [i \in 1..n |-> PolygonToPerl(Rings(v.at[i]))] = [i \in 1..n |-> PlanarLists(v.at[i])]
  BY <1>3
<1> QED BY <1>4, <1>5, <1>6, <1>7

(* The recursive definition of AddedLines has a solution.                   *)
AddedUpTo(v, t, n) ==
    t = [k \in 0..n |->
            IF k = 0 THEN <<>>
            ELSE IF LinePointsTest(v.at[k]) = "ok" THEN Append(t[k - 1], Points(v.at[k]))
            ELSE t[k - 1]]

LEMMA AddedLinesIs ==
    ASSUME NEW v, Len(v.at) \in Nat
    PROVE  \E t : AddedUpTo(v, t, Len(v.at)) /\ AddedLines(v) = t[Len(v.at)]
<1> DEFINE Step(l, k) == IF LinePointsTest(v.at[k]) = "ok" THEN Append(l, Points(v.at[k])) ELSE l
           F(t, m) == [k \in 0..m |-> IF k = 0 THEN <<>> ELSE Step(t[k - 1], k)]
           D == {m \in Nat : \E t : t = F(t, m)}
<1> HIDE DEF Step
<1>1. 0 \in D
  <2> DEFINE t == [k \in 0..0 |-> <<>>]
  <2>1. t = F(t, 0)
    OBVIOUS
  <2> QED BY <2>1
<1>2. ASSUME NEW m \in Nat, m \in D PROVE m + 1 \in D
  <2>1. PICK t : t = F(t, m)
    BY <1>2
  <2> DEFINE u == [k \in 0..m + 1 |-> IF k <= m THEN t[k] ELSE Step(t[m], k)]
  <2>2. \A k \in 0..m + 1 : u[k] = IF k = 0 THEN <<>> ELSE Step(u[k - 1], k)
    <3> SUFFICES ASSUME NEW k \in 0..m + 1 PROVE u[k] = IF k = 0 THEN <<>> ELSE Step(u[k - 1], k)
      OBVIOUS
    <3>1. CASE k = 0
      <4>1. t[0] = <<>>
        BY <2>1
      <4> QED BY <3>1, <4>1
    <3>2. CASE k \in 1..m
      <4>1. t[k] = Step(t[k - 1], k)
        BY <2>1, <3>2
      <4>2. u[k] = t[k] /\ u[k - 1] = t[k - 1]
        BY <3>2
      <4> QED BY <3>2, <4>1, <4>2
    <3>3. CASE k = m + 1
      <4>1. u[k] = Step(t[m], k) /\ u[k - 1] = t[k - 1] /\ k - 1 = m /\ k # 0
        BY <3>3
      <4> QED BY <4>1
    <3> QED BY <3>1, <3>2, <3>3
  <2>3. u = F(u, m + 1)
    <3>1. u = [k \in 0..m + 1 |-> u[k]]
      OBVIOUS
    <3> HIDE DEF u
    <3> QED BY <2>2, <3>1
  <2> HIDE DEF u
  <2> QED BY <2>3
<1> DEFINE n == Len(v.at)
           t == CHOOSE t : t = F(t, n)
<1>3. \E u : u = F(u, n)
  <2> HIDE DEF D
  <2>1. n \in D
    BY <1>1, <1>2, Induction
  <2> QED BY <2>1 DEF D
<1>4. t = F(t, n)
  BY <1>3
<1>5. AddedLines(v) = t[n]
  BY DEF AddedLines, Step
<1>6. AddedUpTo(v, t, n)
  BY <1>4 DEF AddedUpTo, Step
<1> QED BY <1>5, <1>6

(* A loop that appends some of the elements of p.                           *)
Collects(t, p, Ok, n, S) ==
    /\ t[0] = <<>> /\ \A i \in Ok : p[i] \in S
    /\ \A k \in Nat : k + 1 <= n =>
          t[k + 1] = IF k + 1 \in Ok THEN Append(t[k], p[k + 1]) ELSE t[k]

LEMMA Collected ==
    ASSUME NEW S, NEW n \in Nat, NEW Ok, NEW p, NEW t, Collects(t, p, Ok, n, S)
    PROVE  /\ t[n] \in Seq(S)
           /\ 1..n \subseteq Ok => t[n] = [i \in 1..n |-> p[i]]
<1> USE DEF Collects
<1> DEFINE D == {k \in Nat : k <= n => t[k] \in Seq(S)}
           E == {k \in Nat : k <= n => /\ Len(t[k]) = k
                                       /\ \A i \in 1..k : t[k][i] = p[i]}
<1>1. 0 \in D
  <2>1. t[0] \in Seq(S)
    BY EmptySeq
  <2> QED BY <2>1
<1>2. ASSUME NEW k \in Nat, k \in D PROVE k + 1 \in D
  <2> SUFFICES ASSUME k + 1 <= n PROVE t[k + 1] \in Seq(S)
    OBVIOUS
  <2>1. t[k] \in Seq(S)
    BY <1>2
  <2>2. t[k + 1] = IF k + 1 \in Ok THEN Append(t[k], p[k + 1]) ELSE t[k]
    OBVIOUS
  <2>3. \A e \in S : Append(t[k], e) \in Seq(S)
    BY <2>1, AppendProperties
  <2> QED BY <2>1, <2>2, <2>3
<1>3. Nat \subseteq D
  <2> HIDE DEF D
  <2> QED BY <1>1, <1>2, Induction
<1>4. ASSUME 1..n \subseteq Ok PROVE t[n] = [i \in 1..n |-> p[i]]
  <2>1. 0 \in E
    OBVIOUS
  <2>2. ASSUME NEW k \in Nat, k \in E PROVE k + 1 \in E
    <3> SUFFICES ASSUME k + 1 <= n
                 PROVE  Len(t[k + 1]) = k + 1 /\ \A i \in 1..k + 1 : t[k + 1][i] = p[i]
      OBVIOUS
    <3>1. k + 1 \in Ok /\ k <= n
      BY <1>4
    <3>2. t[k + 1] = Append(t[k], p[k + 1]) /\ p[k + 1] \in S
      BY <3>1
    <3>3. t[k] \in Seq(S) /\ Len(t[k]) = k /\ \A i \in 1..k : t[k][i] = p[i]
      BY <1>3, <2>2, <3>1
    <3> QED BY <3>2, <3>3
  <2>3. n \in E
    <3> HIDE DEF E
    <3> QED BY <2>1, <2>2, Induction
  <2>4. t[n] \in Seq(S) /\ Len(t[n]) = n /\ \A i \in 1..n : t[n][i] = p[i]
    BY <1>3, <2>3
  <2>5. t[n] = [i \in 1..n |-> t[n][i]]
    BY <2>4
  <2> QED BY <2>4, <2>5
<1> QED BY <1>3, <1>4

(* What was added are the points of lines without a bad point, and all of   *)
(* them in their order if no line has one.                                  *)
LEMMA AddedLinesAre ==
    ASSUME NEW v, Len(v.at) \in Nat
    PROVE  /\ AddedLines(v) \in
                 Seq({Points(v.at[i]) :
                         i \in {j \in 1..Len(v.at) : LinePointsTest(v.at[j]) = "ok"}})
           /\ (\A i \in 1..Len(v.at) : LinePointsTest(v.at[i]) = "ok") =>
                 AddedLines(v) = [i \in 1..Len(v.at) |-> Points(v.at[i])]
<1> DEFINE n == Len(v.at)
           Ok == {j \in 1..n : LinePointsTest(v.at[j]) = "ok"}
           S == {Points(v.at[i]) : i \in Ok}
           p == [i \in 1..n |-> Points(v.at[i])]
<1>1. PICK t : AddedUpTo(v, t, n) /\ AddedLines(v) = t[n]
  BY AddedLinesIs
<1>2. /\ t[0] = <<>>
      /\ \A k \in Nat : k + 1 <= n =>
            t[k + 1] = IF k + 1 \in Ok THEN Append(t[k], p[k + 1]) ELSE t[k]
  <2>1. \A k \in 0..n : t[k] = IF k = 0 THEN <<>>
            ELSE IF LinePointsTest(v.at[k]) = "ok" THEN Append(t[k - 1], Points(v.at[k]))
            ELSE t[k - 1]
    BY <1>1 DEF AddedUpTo
  <2> QED BY <2>1
<1>3. \A i \in Ok : p[i] \in S
  OBVIOUS
<1>4. t[n] \in Seq(S) /\ (1..n \subseteq Ok => t[n] = [i \in 1..n |-> p[i]])
  <2>1. n \in Nat
    OBVIOUS
  <2> HIDE DEF n, S, Ok, p
  <2>2. Collects(t, p, Ok, n, S)
    BY <1>2, <1>3 DEF Collects
  <2> QED BY <2>1, <2>2, Collected
<1>5. (\A i \in 1..n : LinePointsTest(v.at[i]) = "ok") => 1..n \subseteq Ok
  OBVIOUS
<1>6. [i \in 1..n |-> p[i]] = p
  OBVIOUS
<1> QED BY <1>1, <1>4, <1>5, <1>6

LEMMA MultiLinestringBack ==
    ASSUME NEW v, Sound2(v), IsList(v, 0, IsLine)
    PROVE  /\ MultiLinestringTest(v) = "ok"
           /\ Array(Each(AddedLines(v), LineToPerl)) = PlanarLists(v)
<1> DEFINE n == Len(v.at)
<1>1. IsArray(v) /\ \A i \in DOMAIN v.at : IsLine(v.at[i])
  BY DEF IsList
<1>2. n \in Nat /\ DOMAIN v.at = 1..n /\ \A i \in 1..n : Sound1(v.at[i])
  <2>1. Sound0(v) /\ \A i \in DOMAIN v.at : Sound1(v.at[i])
    BY <1>1 DEF Sound2, MembersSound1
  <2>2. n \in 0..MaxMemory /\ DOMAIN v.at = 1..n
    BY <1>1, <2>1 DEF Sound0
  <2>3. n \in Nat
    BY <2>2, ConvertersAssumption
  <2> QED BY <2>1, <2>2, <2>3
<1>3. ASSUME NEW l, Sound1(l), IsLine(l)
      PROVE  /\ l # Missing /\ IsArray(l) /\ Len(l.at) >= 2 /\ LinePointsTest(l) = "ok"
             /\ LineToPerl(Points(l)) = PlanarPoints(l)
  <2>1. IsArray(l) /\ Len(l.at) >= 2 /\ \A i \in DOMAIN l.at : IsPoint(l.at[i])
    BY <1>3 DEF IsLine, IsList
  <2>2. l # Missing
    BY <2>1 DEF IsArray, Missing
  <2> QED BY <1>3, <2>1, <2>2, LineBack
<1>4. \A i \in 1..n : /\ v.at[i] # Missing /\ IsArray(v.at[i]) /\ Len(v.at[i].at) >= 2
                      /\ LinePointsTest(v.at[i]) = "ok"
                      /\ LineToPerl(Points(v.at[i])) = PlanarPoints(v.at[i])
  BY <1>1, <1>2, <1>3
<1>5. AddedLines(v) = [i \in 1..n |-> Points(v.at[i])]
  BY <1>2, <1>4, AddedLinesAre
<1> HIDE DEF n
<1>6. MultiLinestringTest(v) = "ok"
  <2>1. \A i \in 1..n : LinePointsTest(v.at[i]) # "crash"
    BY <1>4
  <2> QED BY <1>2, <1>4, <2>1, MultiLinestringOk
<1>7. Each(AddedLines(v), LineToPerl) = [i \in 1..n |-> LineToPerl(Points(v.at[i]))]
  BY <1>5 DEF Each
<1>8. PlanarLists(v) = Array([i \in 1..n |-> PlanarPoints(v.at[i])])
  BY <1>2 DEF PlanarLists, Each
<1>9. [i \in 1..n |-> LineToPerl(Points(v.at[i]))] = [i \in 1..n |-> PlanarPoints(v.at[i])]
  BY <1>4
<1> QED BY <1>6, <1>7, <1>8, <1>9

-----------------------------------------------------------------------------
(* Whatever passes the tests makes an object that the algorithms can use.   *)
RingsLong(p) == p # <<>> /\ \A r \in Range(p) : Len(r) >= 2

LEMMA PointsLength ==
    ASSUME NEW v, Sound0(v), IsArray(v)
    PROVE  Len(Points(v)) = Len(v.at) /\ Len(v.at) \in Nat
<1>1. Len(v.at) \in Nat /\ DOMAIN v.at = 1..Len(v.at)
  BY ConvertersAssumption DEF Sound0
<1> QED BY <1>1 DEF Points, Each

LEMMA PolygonMade ==
    ASSUME NEW v, Sound2(v), IsArray(v), PolygonTest(v) = "ok"
    PROVE  RingsLong(Rings(v))
<1> DEFINE n == Len(v.at)
<1>1. Sound0(v) /\ \A i \in DOMAIN v.at : Sound1(v.at[i])
  BY DEF Sound2, MembersSound1
<1>2. n \in 0..MaxMemory /\ DOMAIN v.at = 1..n
  BY <1>1 DEF Sound0
<1>3. n # 0 /\ \A i \in 1..n : IsArray(v.at[i]) /\ Len(v.at[i].at) >= 2
  BY <1>2, PolygonOk
<1>4. Rings(v) = [i \in 1..n |-> Points(v.at[i])]
  BY <1>2 DEF Rings, Each
<1>5. \A i \in 1..n : Len(Points(v.at[i])) >= 2
  BY <1>1, <1>2, <1>3, PointsLength DEF Sound1
<1>6. n \in Nat
  BY <1>2, ConvertersAssumption
<1> HIDE DEF n
<1>7. Rings(v) # <<>>
  <2>1. Len(Rings(v)) = n /\ n # 0
    BY <1>3, <1>4, <1>6
  <2> QED BY <2>1
<1>8. \A r \in Range(Rings(v)) : Len(r) >= 2
  BY <1>4, <1>5 DEF Range
<1> QED BY <1>7, <1>8 DEF RingsLong

LEMMA MultiPolygonMade ==
    ASSUME NEW v, Sound3(v), IsArray(v), MultiPolygonTest(v) = "ok"
    PROVE  \A p \in Range(Each(v.at, Rings)) : RingsLong(p)
<1> DEFINE n == Len(v.at)
<1>1. Sound0(v) /\ \A i \in DOMAIN v.at : Sound2(v.at[i])
  BY DEF Sound3, MembersSound2
<1>2. n \in Nat /\ DOMAIN v.at = 1..n
  BY <1>1, ConvertersAssumption DEF Sound0
<1>3. \A i \in 1..n : IsArray(v.at[i]) /\ PolygonTest(v.at[i]) = "ok"
  BY <1>2, MultiPolygonOk
<1>4. \A i \in 1..n : RingsLong(Rings(v.at[i]))
  BY <1>1, <1>2, <1>3, PolygonMade
<1>5. Each(v.at, Rings) = [i \in 1..n |-> Rings(v.at[i])]
  BY <1>2 DEF Each
<1> HIDE DEF n
<1> QED BY <1>4, <1>5 DEF Range

LEMMA MultiLinestringMade ==
    ASSUME NEW v, Sound2(v), IsArray(v), MultiLinestringTest(v) = "ok"
    PROVE  \A l \in Range(AddedLines(v)) : Len(l) >= 2
<1> DEFINE n == Len(v.at)
           S == {Points(v.at[i]) : i \in {j \in 1..n : LinePointsTest(v.at[j]) = "ok"}}
<1>1. Sound0(v) /\ \A i \in DOMAIN v.at : Sound1(v.at[i])
  BY DEF Sound2, MembersSound1
<1>2. n \in 0..MaxMemory /\ DOMAIN v.at = 1..n
  BY <1>1 DEF Sound0
<1>3. n \in Nat
  BY <1>2, ConvertersAssumption
<1>4. \A i \in 1..n : IsArray(v.at[i]) /\ Len(v.at[i].at) >= 2
  BY <1>2, <1>3, MultiLinestringOk
<1>5. \A i \in 1..n : Len(Points(v.at[i])) >= 2
  BY <1>1, <1>2, <1>4, PointsLength DEF Sound1
<1>6. \A l \in S : Len(l) >= 2
  BY <1>5
<1>7. AddedLines(v) \in Seq(S)
  BY <1>3, AddedLinesAre
<1> HIDE DEF S
<1> QED BY <1>6, <1>7 DEF Range

LEMMA EmptyIffNoLength ==
    ASSUME NEW s, Len(s) \in Nat, DOMAIN s = 1..Len(s), s = [i \in 1..Len(s) |-> s[i]]
    PROVE  s = <<>> <=> Len(s) = 0
<1> DEFINE S == {s[i] : i \in 1..Len(s)}
<1>1. s \in Seq(S)
  OBVIOUS
<1> HIDE DEF S
<1> QED BY <1>1, EmptySeq

LEMMA LinestringMade ==
    ASSUME NEW v, Sound0(v), IsArray(v), LinestringTest(v) = "ok"
    PROVE  Points(v) # <<>>
<1>1. Len(v.at) \in Nat /\ DOMAIN v.at = 1..Len(v.at) /\ v.at = [i \in 1..Len(v.at) |-> v.at[i]]
  BY ConvertersAssumption DEF Sound0
<1>2. v.at # <<>>
  BY DEF LinestringTest
<1>3. Len(v.at) # 0
  BY <1>1, <1>2, EmptyIffNoLength
<1>4. DOMAIN Points(v) = 1..Len(v.at) /\ 1 \in 1..Len(v.at)
  BY <1>1, <1>3 DEF Points, Each
<1> QED BY <1>4

-----------------------------------------------------------------------------
(* The inductive invariant: the object and the value returned are those of  *)
(* the input, whose tests passed; a call only dies on an input that fails.  *)
TooLong(type, o) == \E n \in Extends(type, o) : Minus1(n) > MaxMemory

Accepted(i) == IsArray(i.value) /\ Test(i.type, i.value) = "ok"

CallInv ==
    /\ input \in Inputs
    /\ out \in {"object", "result"} =>
          Accepted(input) /\ object = Object(input.type, input.value)
    /\ out = "result" => result = ToPerl(input.type, Object(input.type, input.value))
    /\ out = "exhausted" => TooLong(input.type, Object(input.type, input.value))
    /\ out \in {"croak", "crash"} => ~Accepted(input)

LEMMA CallInit == Init => CallInv
BY DEF Init, CallInv

LEMMA CallStep == CallInv /\ [Next]_vars => CallInv'
<1> SUFFICES ASSUME CallInv, [Next]_vars PROVE CallInv'
  OBVIOUS
<1>1. CASE FromPerl
  <2>1. out = "call" /\ input' = input /\ result' = result
    BY <1>1 DEF FromPerl
  <2>2. \/ ~IsArray(input.value) /\ out' = "croak"
        \/ Accepted(input) /\ out' = "object" /\ object' = Object(input.type, input.value)
        \/ ~Accepted(input) /\ out' \in {"croak", "crash"}
    BY <1>1 DEF FromPerl, TypemapAccepts, Accepted
  <2> HIDE DEF Accepted
  <2> QED BY <2>1, <2>2 DEF CallInv, Accepted
<1>2. CASE Returned
  <2>1. out = "object" /\ input' = input /\ object' = object
    BY <1>2 DEF Returned
  <2>2. \/ out' = "exhausted" /\ TooLong(input.type, object)
        \/ out' = "result" /\ result' = ToPerl(input.type, object)
    BY <1>2 DEF Returned, TooLong
  <2> QED BY <2>1, <2>2 DEF CallInv
<1>3. CASE UNCHANGED vars
  BY <1>3 DEF CallInv, vars
<1> QED BY <1>1, <1>2, <1>3 DEF Next

LEMMA AcceptedMade ==
    ASSUME NEW i \in Inputs, Accepted(i), NEW o, o = Object(i.type, i.value)
    PROVE  /\ i.type = "polygon" => RingsLong(o)
           /\ i.type = "multi_polygon" => \A p \in Range(o) : RingsLong(p)
           /\ i.type = "linestring" => o # <<>>
           /\ i.type = "multi_linestring" => \A l \in Range(o) : Len(l) >= 2
           /\ i.type = "point_xy" => Len(o) = 2
           /\ i.type \in Types
<1> DEFINE v == i.value
<1>1. i.type \in Types /\ Sound3(v) /\ Sound2(v) /\ Sound0(v) /\ IsArray(v)
  BY InputsSound, SoundBelow DEF Sound3, Accepted
<1>2. CASE i.type = "polygon"
  <2>1. PolygonTest(v) = "ok" /\ o = Rings(v)
    BY <1>2 DEF Accepted, Test, Object
  <2> QED BY <1>1, <1>2, <2>1, PolygonMade
<1>3. CASE i.type = "multi_polygon"
  <2>1. MultiPolygonTest(v) = "ok" /\ o = Each(v.at, Rings)
    BY <1>3 DEF Accepted, Test, Object
  <2> QED BY <1>1, <1>3, <2>1, MultiPolygonMade
<1>4. CASE i.type = "linestring"
  <2>1. LinestringTest(v) = "ok" /\ o = Points(v)
    BY <1>4 DEF Accepted, Test, Object
  <2> QED BY <1>1, <1>4, <2>1, LinestringMade
<1>5. CASE i.type = "multi_linestring"
  <2>1. MultiLinestringTest(v) = "ok" /\ o = AddedLines(v)
    BY <1>5 DEF Accepted, Test, Object
  <2> QED BY <1>1, <1>5, <2>1, MultiLinestringMade
<1>6. CASE i.type = "point_xy"
  <2>1. o = FetchPoint(v)
    BY <1>6 DEF Object
  <2> QED BY <1>1, <1>6, <2>1 DEF FetchPoint
<1> QED BY <1>1, <1>2, <1>3, <1>4, <1>5, <1>6 DEF Types

LEMMA WellFormedBack ==
    ASSUME NEW i \in Inputs, WellFormed(i.type, i.value)
    PROVE  Accepted(i) /\ ToPerl(i.type, Object(i.type, i.value)) = Planar(i.type, i.value)
<1> DEFINE v == i.value
<1>1. i.type \in Types /\ Sound3(v) /\ Sound2(v) /\ Sound1(v) /\ Sound0(v)
  BY InputsSound, SoundBelow DEF Sound3
<1>2. CASE i.type = "polygon"
  <2>1. IsPolygon(v)
    BY <1>2 DEF WellFormed
  <2>2. IsArray(v)
    BY <2>1 DEF IsPolygon, IsList
  <2>3. PolygonTest(v) = "ok" /\ PolygonToPerl(Rings(v)) = PlanarLists(v)
    BY <1>1, <2>1, PolygonBack
  <2> QED BY <1>2, <2>2, <2>3 DEF Accepted, Test, ToPerl, Object, Planar
<1>3. CASE i.type = "multi_polygon"
  <2>1. IsList(v, 0, IsPolygon)
    BY <1>3 DEF WellFormed
  <2>2. IsArray(v)
    BY <2>1 DEF IsList
  <2>3. /\ MultiPolygonTest(v) = "ok"
        /\ Array(Each(Each(v.at, Rings), PolygonToPerl)) = Array(Each(v.at, PlanarLists))
    BY <1>1, <2>1, MultiPolygonBack
  <2> QED BY <1>3, <2>2, <2>3 DEF Accepted, Test, ToPerl, Object, Planar
<1>4. CASE i.type = "linestring"
  <2>1. IsList(v, 1, IsPoint)
    BY <1>4 DEF WellFormed
  <2>2. IsArray(v) /\ Len(v.at) >= 1 /\ \A k \in DOMAIN v.at : IsPoint(v.at[k])
    BY <2>1 DEF IsList
  <2>3. LinePointsTest(v) = "ok" /\ PointsToPerl(Points(v)) = PlanarPoints(v)
    BY <1>1, <2>2, LineBack
  <2>4. LinestringTest(v) = "ok"
    BY <2>2, <2>3 DEF LinestringTest
  <2> QED BY <1>4, <2>2, <2>3, <2>4 DEF Accepted, Test, ToPerl, Object, Planar
<1>5. CASE i.type = "multi_linestring"
  <2>1. IsList(v, 0, IsLine)
    BY <1>5 DEF WellFormed
  <2>2. IsArray(v)
    BY <2>1 DEF IsList
  <2>3. MultiLinestringTest(v) = "ok" /\ Array(Each(AddedLines(v), LineToPerl)) = PlanarLists(v)
    BY <1>1, <2>1, MultiLinestringBack
  <2> QED BY <1>5, <2>2, <2>3 DEF Accepted, Test, ToPerl, Object, Planar
<1>6. CASE i.type = "point_xy"
  <2>1. IsPoint(v) /\ IsArray(v)
    BY <1>6 DEF WellFormed, IsPoint
  <2>2. FetchTest(v) = "ok" /\ PointToPerl(FetchPoint(v)) = PlanarPoint(v)
    BY <1>1, <2>1, PointBack
  <2> QED BY <1>6, <2>1, <2>2 DEF Accepted, Test, ToPerl, Object, Planar
<1> QED BY <1>1, <1>2, <1>3, <1>4, <1>5, <1>6 DEF Types

(* No array of the result is extended to less than nothing: the rings and    *)
(* lines of the object are as long as the lists they were made of.           *)
LEMMA WellFormedFits ==
    ASSUME NEW i \in Inputs, WellFormed(i.type, i.value),
           i.type = "multi_linestring" => i.value.at # <<>>
    PROVE  ~TooLong(i.type, Object(i.type, i.value))
<1> DEFINE v == i.value
           o == Object(i.type, v)
           Short(s) == Len(s) \in 0..MaxMemory /\ Len(s) # 0
<1>1. i.type \in Types /\ Sound3(v) /\ Sound2(v) /\ Sound1(v) /\ Sound0(v)
  BY InputsSound, SoundBelow DEF Sound3
<1>2. \A n \in 0..MaxMemory : n # 0 => ~(Minus1(n) > MaxMemory)
  <2>1. \A n \in 0..MaxMemory : n # 0 => Minus1(n) <= MaxMemory
    BY LessOne
  <2>2. \A n \in 0..MaxMemory : Minus1(n) \in Int /\ MaxMemory \in Int
    BY ConvertersAssumption DEF Minus1
  <2> QED BY <2>1, <2>2
<1>3. SUFFICES ASSUME NEW n \in Extends(i.type, o) PROVE n \in 0..MaxMemory /\ n # 0
  BY <1>2 DEF TooLong
<1>4. ASSUME NEW r, Sound0(r), IsArray(r), Len(r.at) >= 1 PROVE Short(Points(r))
  BY <1>4, PointsLength, ConvertersAssumption DEF Sound0
<1>5. ASSUME NEW p, Sound2(p), IsPolygon(p) PROVE \A r \in Range(Rings(p)) : Short(r)
  <2>1. Rings(p) = [k \in DOMAIN p.at |-> Points(p.at[k])]
    BY DEF Rings, Each
  <2>2. ASSUME NEW k \in DOMAIN p.at PROVE Short(Points(p.at[k]))
    <3>1. Sound0(p.at[k]) /\ IsRing(p.at[k])
      BY <1>5, <2>2 DEF IsPolygon, IsList, Sound2, MembersSound1, Sound1
    <3>2. IsArray(p.at[k]) /\ Len(p.at[k].at) >= 2
      BY <3>1 DEF IsRing, IsList
    <3> QED BY <1>4, <3>1, <3>2, ConvertersAssumption DEF Sound0
  <2> QED BY <2>1, <2>2 DEF Range
<1>6. CASE i.type = "polygon"
  <2>1. o = Rings(v) /\ IsPolygon(v) /\ n \in {Len(r) : r \in Range(o)}
    BY <1>6 DEF Object, WellFormed, Extends
  <2> QED BY <1>1, <1>5, <2>1
<1>7. CASE i.type = "multi_polygon"
  <2>1. /\ o = [k \in DOMAIN v.at |-> Rings(v.at[k])]
        /\ IsArray(v) /\ \A k \in DOMAIN v.at : IsPolygon(v.at[k])
        /\ n \in {Len(r) : r \in UNION {Range(p) : p \in Range(o)}}
    BY <1>7 DEF Object, WellFormed, Extends, IsList, Each
  <2>2. \A k \in DOMAIN v.at : Sound2(v.at[k])
    BY <1>1, <2>1 DEF Sound3, MembersSound2
  <2>3. PICK r : n = Len(r) /\ \E p \in Range(o) : r \in Range(p)
    BY <2>1
  <2>4. PICK k \in DOMAIN v.at : r \in Range(Rings(v.at[k]))
    <3>1. \A p \in Range(o) : \E k \in DOMAIN v.at : p = Rings(v.at[k])
      BY <2>1 DEF Range
    <3> QED BY <2>3, <3>1
  <2> QED BY <1>5, <2>1, <2>2, <2>3, <2>4
<1>8. CASE i.type = "linestring"
  <2>1. o = Points(v) /\ n = Len(o) /\ IsArray(v) /\ Len(v.at) >= 1
    BY <1>8 DEF Object, WellFormed, Extends, IsList
  <2> QED BY <1>1, <1>4, <2>1
<1>9. CASE i.type = "multi_linestring"
  <2>1. n = Len(o) /\ o = AddedLines(v) /\ IsList(v, 0, IsLine) /\ IsArray(v)
    BY <1>9 DEF Object, WellFormed, Extends, IsList
  <2>2. Len(v.at) \in 0..MaxMemory /\ DOMAIN v.at = 1..Len(v.at) /\ MaxMemory \in Nat
        /\ v.at = [k \in 1..Len(v.at) |-> v.at[k]]
    BY <1>1, <2>1, ConvertersAssumption DEF Sound0
  <2>3. \A k \in 1..Len(v.at) : LinePointsTest(v.at[k]) = "ok"
    <3> SUFFICES ASSUME NEW k \in 1..Len(v.at) PROVE LinePointsTest(v.at[k]) = "ok"
      OBVIOUS
    <3>1. Sound1(v.at[k]) /\ IsLine(v.at[k])
      BY <1>1, <2>1, <2>2 DEF IsList, Sound2, MembersSound1
    <3>2. IsArray(v.at[k]) /\ \A j \in DOMAIN v.at[k].at : IsPoint(v.at[k].at[j])
      BY <3>1 DEF IsLine, IsList
    <3> QED BY <3>1, <3>2, LineBack
  <2>4. o = [k \in 1..Len(v.at) |-> Points(v.at[k])]
    <3>1. Len(v.at) \in Nat
      BY <2>2
    <3>2. AddedLines(v) = [k \in 1..Len(v.at) |-> Points(v.at[k])]
      BY <2>3, <3>1, AddedLinesAre
    <3> QED BY <2>1, <3>2
  <2>5. n = Len(v.at)
    BY <2>1, <2>2, <2>4
  <2>6. Len(v.at) # 0
    BY <1>9, <2>2, EmptyIffNoLength
  <2> QED BY <2>2, <2>5, <2>6
<1>10. CASE i.type = "point_xy"
  BY <1>10 DEF Extends
<1> QED BY <1>1, <1>6, <1>7, <1>8, <1>9, <1>10 DEF Types

(* Whatever array a typemap accepts, the object made of it has what the     *)
(* algorithms of Boost.Geometry rely on: rings and lines of at least two     *)
(* points, a polygon with a ring, a line with a point.                       *)
THEOREM ConvertedObjectsWellFormed == Spec => []ObjectsWellFormed
<1>1. CallInv => ObjectsWellFormed
  <2> SUFFICES ASSUME CallInv, out \in {"object", "result"} PROVE ObjectsWellFormed
    BY DEF ObjectsWellFormed
  <2>1. input \in Inputs /\ Accepted(input) /\ object = Object(input.type, input.value)
    BY DEF CallInv
  <2>2. /\ input.type = "polygon" => RingsLong(object)
        /\ input.type = "multi_polygon" => \A p \in Range(object) : RingsLong(p)
        /\ input.type = "linestring" => object # <<>>
        /\ input.type = "multi_linestring" => \A l \in Range(object) : Len(l) >= 2
        /\ input.type = "point_xy" => Len(object) = 2
        /\ input.type \in Types
    BY <2>1, AcceptedMade
  <2> QED BY <2>2 DEF ObjectsWellFormed, RingsLong, Types
<1> QED BY <1>1, CallInit, CallStep, PTL DEF Spec

(* An array of the documented shape, with any numbers and any number of     *)
(* points, rings and polygons that fits into memory, is never refused, no    *)
(* call dies of it, and the round trip gives it back but for the coordinates *)
(* after the second.  There is one exception, the multilinestring without    *)
(* lines.                                                                    *)
THEOREM RoundTripIsIdentity == Spec => []RoundTrip
<1>1. CallInv => RoundTrip
  <2> SUFFICES ASSUME CallInv, ~NoLines, WellFormed(input.type, input.value)
               PROVE  /\ out \notin {"croak", "crash", "exhausted"}
                      /\ out = "result" => result = Planar(input.type, input.value)
    BY DEF RoundTrip, WellFormedComesBack
  <2>1. input \in Inputs
    BY DEF CallInv
  <2>2. /\ Accepted(input)
        /\ ToPerl(input.type, Object(input.type, input.value)) = Planar(input.type, input.value)
    BY <2>1, WellFormedBack
  <2>3. ~TooLong(input.type, Object(input.type, input.value))
    BY <2>1, WellFormedFits DEF NoLines
  <2> QED BY <2>2, <2>3 DEF CallInv
<1> QED BY <1>1, CallInit, CallStep, PTL DEF Spec
=============================================================================
