------------------------- MODULE MedialAxisProofs -------------------------
(***************************************************************************)
(* Proofs about the first half of _build, for every diagram the sweep      *)
(* leaves: the links of the half-edges in use, the stars of their vertices,*)
(* what the compaction keeps of the diagram the sweep left, and the cycles *)
(* around its cells.  Proofs about the feet that half-edges get during the *)
(* sweep: no rule follows a null pointer.                                  *)
(***************************************************************************)
EXTENDS MedialAxis, MedialAxisFeet, SweepLineProofs

-----------------------------------------------------------------------------
(* What a walk meets is the least set that holds its start and is closed     *)
(* under its step.                                                           *)
LEMMA MetFacts ==
    ASSUME numEdges \in Nat, NEW step \in [Edge -> 0..numEdges], NEW e \in Edge
    PROVE  /\ e \in Met(step, e) /\ Met(step, e) \subseteq Edge
           /\ \A f \in Met(step, e) : step[f] # Null => step[f] \in Met(step, e)
           /\ \A S \in SUBSET Edge :
                e \in S /\ (\A f \in S : step[f] # Null => step[f] \in S)
                    => Met(step, e) \subseteq S
<1> DEFINE n == numEdges
           onward == [f \in 0..numEdges |-> IF f = Null THEN Null ELSE step[f]]
           Step(t) == [k \in 0..n |-> IF k = 0 THEN e ELSE onward[t[k - 1]]]
           walk == CHOOSE t : t = Step(t)
<1>1. /\ onward \in [0..n -> 0..n] /\ onward[0] = 0
      /\ \A f \in Edge : onward[f] = step[f]
      /\ e \in 0..n /\ e # 0 /\ Edge \subseteq 0..n /\ \A f \in 0..n : f # 0 => f \in Edge
  BY DEF Edge, Null
<1>2. Met(step, e) = {walk[k] : k \in 0..n} \ {Null}
  BY DEF Met
<1>a. n \in Nat
  OBVIOUS
<1> HIDE DEF onward, n
<1>3. AreIterates(walk, 0..n, e, onward, n)
  BY <1>1, <1>a, IteratesChosen
<1>4. walk \in [0..n -> 0..n] /\ walk[0] = e /\ \A k \in 1..n : walk[k] = onward[walk[k - 1]]
  BY <1>3 DEF AreIterates
<1>5. \A k \in 0..n : onward[walk[k]] # 0 => \E m \in 0..n : walk[m] = onward[walk[k]]
  <2> SUFFICES ASSUME NEW k \in 0..n, onward[walk[k]] # 0
               PROVE  \E m \in 0..n : walk[m] = onward[walk[k]]
    OBVIOUS
  <2> HIDE DEF walk
  <2>1. n \in Nat /\ e \in 0..n /\ onward \in [0..n -> 0..n] /\ onward[0] = 0
    BY <1>1, <1>a
  <2> QED BY <2>1, <1>3, WalkCloses, Zenon
<1> HIDE DEF walk
<1>6. e \in Met(step, e)
  BY <1>1, <1>2, <1>4, <1>a DEF Null
<1>7. Met(step, e) \subseteq Edge
  BY <1>1, <1>2, <1>4 DEF Null
<1>8. ASSUME NEW f \in Met(step, e), step[f] # Null PROVE step[f] \in Met(step, e)
  <2>1. PICK k \in 0..n : walk[k] = f
    BY <1>2, <1>8
  <2>2. onward[f] = step[f]
    BY <1>1, <1>7
  <2>3. PICK m \in 0..n : walk[m] = step[f]
    BY <2>1, <2>2, <1>5, <1>8 DEF Null
  <2> QED BY <2>3, <1>2, <1>8
<1>9. ASSUME NEW S \in SUBSET Edge, e \in S,
             \A f \in S : step[f] # Null => step[f] \in S
      PROVE  Met(step, e) \subseteq S
  <2> DEFINE D == {k \in Nat : k <= n => walk[k] = Null \/ walk[k] \in S}
  <2>1. 0 \in D
    BY <1>4, <1>9
  <2>2. ASSUME NEW k \in Nat, k \in D PROVE k + 1 \in D
    <3>1. CASE k + 1 <= n
      <4>1. k <= n /\ k + 1 \in 1..n /\ (k + 1) - 1 = k
        BY <3>1, <1>a
      <4>2. walk[k] = Null \/ walk[k] \in S
        BY <4>1, <2>2
      <4>3. walk[k + 1] = onward[walk[k]]
        BY <4>1, <1>4
      <4>4. CASE walk[k] = Null
        BY <4>3, <4>4, <1>1 DEF Null
      <4>5. CASE walk[k] \in S
        <5>1. walk[k] \in Edge /\ walk[k + 1] = step[walk[k]]
          BY <4>3, <4>5, <1>1, <1>9
        <5> QED BY <4>5, <5>1, <1>9 DEF Null
      <4> QED BY <4>2, <4>4, <4>5
    <3>2. CASE ~ (k + 1 <= n)
      BY <3>2
    <3> QED BY <3>1, <3>2
  <2>3. Nat \subseteq D
    <3> HIDE DEF D
    <3> QED BY <2>1, <2>2, Induction
  <2>4. \A k \in 0..n : walk[k] = Null \/ walk[k] \in S
    BY <2>3, <1>a
  <2> QED BY <2>4, <1>2
<1> QED BY <1>6, <1>7, <1>8, <1>9

-----------------------------------------------------------------------------
(* The parts of the invariant, for the half-edges L in use and the columns   *)
(* of their table.                                                           *)

TwinsIn(L, tw, cl) ==
    \A e \in L : tw[e] \in L \ {e} /\ tw[tw[e]] = e /\ cl[tw[e]] # cl[e]

LinksIn(L, tw, nx, pv, v0, cl) ==
    \A e \in L : /\ nx[e] # Null => /\ nx[e] \in L /\ pv[nx[e]] = e
                                    /\ cl[nx[e]] = cl[e] /\ v0[nx[e]] = v0[tw[e]]
                 /\ pv[e] # Null => pv[e] \in L /\ nx[pv[e]] = e

(* A link is missing only where there is no vertex. *)
EndsLinked(L, tw, nx, pv, v0) ==
    \A e \in L : /\ v0[e] # Null => pv[e] # Null
                 /\ v0[tw[e]] # Null => nx[e] # Null

(* No link leads to infinity. *)
EndsOpen(L, tw, nx, pv, v0) ==
    \A e \in L : /\ pv[e] # Null => v0[e] # Null
                 /\ nx[e] # Null => v0[tw[e]] # Null

NoLoops(L, tw, v0) == \A e \in L : v0[e] # Null => v0[tw[e]] # v0[e]

(* A set that rot_next does not leave. *)
Around(S, tw, pv) == \A f \in S : pv[f] # Null => tw[pv[f]] \in S

Star(L, v0, e) == {f \in L : v0[f] = v0[e]}

(* It takes rot_next all the way around a vertex. *)
StarsWhole(L, tw, pv, v0) ==
    \A S \in SUBSET L : Around(S, tw, pv) =>
        \A e \in S : v0[e] # Null => Star(L, v0, e) \subseteq S

Linked(L, tw, nx, pv, v0, cl) ==
    /\ TwinsIn(L, tw, cl)
    /\ LinksIn(L, tw, nx, pv, v0, cl)
    /\ EndsLinked(L, tw, nx, pv, v0)
    /\ NoLoops(L, tw, v0)
    /\ StarsWhole(L, tw, pv, v0)

(* Within one star rot_next turns without leaving it.                       *)
LEMMA StarTurns ==
    ASSUME NEW L, Null \notin L, NEW tw, NEW nx, NEW pv, NEW v0, NEW cl,
           TwinsIn(L, tw, cl), LinksIn(L, tw, nx, pv, v0, cl),
           NEW f \in L, pv[f] # Null
    PROVE  tw[pv[f]] \in L /\ v0[tw[pv[f]]] = v0[f]
  BY DEF TwinsIn, LinksIn
(* The half-edges e and t leave the lists of their cells. *)
Unlinked(L, e, t, nx, pv, nx2, pv2) ==
    \A f \in L : /\ nx2[f] = IF f = pv[e] THEN nx[e] ELSE IF f = pv[t] THEN nx[t] ELSE nx[f]
                 /\ pv2[f] = IF f = nx[e] THEN pv[e] ELSE IF f = nx[t] THEN pv[t] ELSE pv[f]

(* What started at the vertex of t starts at the vertex of e. *)
MergedInto(L, e, t, v0, w0) ==
    \A f \in L \ {e, t} : w0[f] = IF v0[f] = v0[t] THEN v0[e] ELSE v0[f]

NoneParallel(L, e, t, tw, v0) ==
    \A f \in L \ {e, t} : {v0[f], v0[tw[f]]} # {v0[e], v0[t]}

(* A pair of twins that is no line is unlinked from the two cells it bounds, *)
(* and its two vertices become one.                                          *)
LEMMA UnlinkedPair ==
    ASSUME NEW L, Null \notin L, NEW tw, NEW nx, NEW pv, NEW v0, NEW cl,
           Linked(L, tw, nx, pv, v0, cl), EndsOpen(L, tw, nx, pv, v0),
           NEW e \in L, NEW t \in L, t = tw[e], v0[e] # Null, v0[t] # Null,
           NoneParallel(L, e, t, tw, v0),
           NEW nx2, NEW pv2, Unlinked(L, e, t, nx, pv, nx2, pv2),
           NEW w0, MergedInto(L, e, t, v0, w0)
    PROVE  /\ Linked(L \ {e, t}, tw, nx2, pv2, w0, cl)
           /\ EndsOpen(L \ {e, t}, tw, nx2, pv2, w0)
           /\ pv[e] \in L \ {e, t} /\ pv[t] \in L \ {e, t}
           /\ nx[e] \in L \ {e, t} /\ nx[t] \in L \ {e, t}
<1> DEFINE M == L \ {e, t}
<1>0. /\ TwinsIn(L, tw, cl) /\ LinksIn(L, tw, nx, pv, v0, cl)
      /\ EndsLinked(L, tw, nx, pv, v0) /\ NoLoops(L, tw, v0)
      /\ StarsWhole(L, tw, pv, v0)
  BY DEF Linked
<1>1. /\ tw[t] = e /\ e # t /\ cl[e] # cl[t] /\ v0[e] # v0[t]
  BY <1>0 DEF TwinsIn, NoLoops
<1>2. /\ pv[e] \in L /\ nx[pv[e]] = e /\ pv[t] \in L /\ nx[pv[t]] = t
      /\ nx[e] \in L /\ pv[nx[e]] = e /\ nx[t] \in L /\ pv[nx[t]] = t
      /\ cl[nx[e]] = cl[e] /\ v0[nx[e]] = v0[t] /\ cl[nx[t]] = cl[t] /\ v0[nx[t]] = v0[e]
      /\ pv[e] # Null /\ pv[t] # Null /\ nx[e] # Null /\ nx[t] # Null
  BY <1>0, <1>1 DEF LinksIn, EndsLinked
<1>3. /\ v0[tw[pv[e]]] = v0[e] /\ cl[pv[e]] = cl[e]
      /\ v0[tw[pv[t]]] = v0[t] /\ cl[pv[t]] = cl[t]
  BY <1>0, <1>1, <1>2 DEF LinksIn
<1>4. pv[e] \in M /\ pv[t] \in M /\ nx[e] \in M /\ nx[t] \in M
  BY <1>1, <1>2, <1>3
<1>5. pv[e] # pv[t] /\ nx[e] # nx[t]
  BY <1>1, <1>2
<1>6. \A f \in M : tw[f] \in M /\ tw[tw[f]] = f /\ tw[f] # f /\ cl[tw[f]] # cl[f]
  BY <1>0, <1>1 DEF TwinsIn
<1>7. TwinsIn(M, tw, cl)
  BY <1>6 DEF TwinsIn
<1>8. \A f \in M : v0[f] # Null => ~ (v0[f] = v0[e] /\ v0[tw[f]] = v0[t])
                /\ ~ (v0[f] = v0[t] /\ v0[tw[f]] = v0[e])
  BY DEF NoneParallel
<1>m. \A f \in M : w0[f] = IF v0[f] = v0[t] THEN v0[e] ELSE v0[f]
  BY DEF MergedInto
<1>u. /\ \A f \in M : nx2[f] = IF f = pv[e] THEN nx[e] ELSE IF f = pv[t] THEN nx[t] ELSE nx[f]
      /\ \A f \in M : pv2[f] = IF f = nx[e] THEN pv[e] ELSE IF f = nx[t] THEN pv[t] ELSE pv[f]
  BY DEF Unlinked
<1>k. \A f \in M : f \in L /\ f # e /\ f # t
  OBVIOUS
<1>9. NoLoops(M, tw, w0)
  BY <1>0, <1>1, <1>6, <1>8, <1>m DEF NoLoops
<1>10. \A f \in M : w0[f] = Null <=> v0[f] = Null
  BY <1>1, <1>m
<1>11. /\ \A f \in M : nx2[f] # Null <=> nx[f] # Null
       /\ \A f \in M : pv2[f] # Null <=> pv[f] # Null
  BY <1>2, <1>u
<1>12. EndsLinked(M, tw, nx2, pv2, w0)
  BY <1>0, <1>6, <1>10, <1>11 DEF EndsLinked
<1>13. EndsOpen(M, tw, nx2, pv2, w0)
  BY <1>6, <1>10, <1>11 DEF EndsOpen
<1>14. LinksIn(M, tw, nx2, pv2, w0, cl)
  <2> SUFFICES ASSUME NEW f \in M
               PROVE  /\ nx2[f] # Null => /\ nx2[f] \in M /\ pv2[nx2[f]] = f
                                          /\ cl[nx2[f]] = cl[f] /\ w0[nx2[f]] = w0[tw[f]]
                      /\ pv2[f] # Null => pv2[f] \in M /\ nx2[pv2[f]] = f
    BY DEF LinksIn
  <2>1. ASSUME nx2[f] # Null
        PROVE  /\ nx2[f] \in M /\ pv2[nx2[f]] = f
               /\ cl[nx2[f]] = cl[f] /\ w0[nx2[f]] = w0[tw[f]]
    <3>1. CASE f = pv[e]
      BY <1>1, <1>2, <1>3, <1>4, <1>5, <1>6, <1>m, <1>u, <3>1
    <3>2. CASE f = pv[t]
      BY <1>1, <1>2, <1>3, <1>4, <1>5, <1>6, <1>m, <1>u, <3>2
    <3>3. CASE f # pv[e] /\ f # pv[t]
      <4>1. /\ nx2[f] = nx[f] /\ nx[f] \in L /\ pv[nx[f]] = f
            /\ cl[nx[f]] = cl[f] /\ v0[nx[f]] = v0[tw[f]]
        BY <1>0, <1>k, <1>u, <2>1, <3>3 DEF LinksIn
      <4>2. nx[f] # e /\ nx[f] # t /\ nx[f] # nx[e] /\ nx[f] # nx[t]
        BY <1>2, <3>3, <4>1
      <4>3. nx2[f] \in M /\ pv2[nx2[f]] = f /\ tw[f] \in M
        BY <1>6, <1>u, <4>1, <4>2
      <4> QED BY <1>m, <4>1, <4>3
    <3> QED BY <3>1, <3>2, <3>3
  <2>2. ASSUME pv2[f] # Null PROVE pv2[f] \in M /\ nx2[pv2[f]] = f
    <3>1. CASE f = nx[e]
      BY <1>4, <1>5, <1>u, <3>1
    <3>2. CASE f = nx[t]
      BY <1>4, <1>5, <1>u, <3>2
    <3>3. CASE f # nx[e] /\ f # nx[t]
      <4>1. pv2[f] = pv[f] /\ pv[f] \in L /\ nx[pv[f]] = f
        BY <1>0, <1>k, <1>u, <2>2, <3>3 DEF LinksIn
      <4>2. pv[f] # e /\ pv[f] # t /\ pv[f] # pv[e] /\ pv[f] # pv[t]
        BY <1>2, <1>k, <3>3, <4>1
      <4> QED BY <1>u, <4>1, <4>2
    <3> QED BY <3>1, <3>2, <3>3
  <2> QED BY <2>1, <2>2
<1>15. StarsWhole(M, tw, pv2, w0)
  <2> SUFFICES ASSUME NEW S \in SUBSET M, Around(S, tw, pv2),
                      NEW o \in S, w0[o] # Null
               PROVE  Star(M, w0, o) \subseteq S
    BY DEF StarsWhole
  <2>1. \A f \in S : pv2[f] # Null => tw[pv2[f]] \in S
    BY DEF Around
  <2>2. \A f \in L : pv[f] # Null => tw[pv[f]] \in L /\ v0[tw[pv[f]]] = v0[f]
    BY <1>0, StarTurns
  <2>3. ASSUME NEW u \in L, v0[u] # Null, NEW T \in SUBSET L, u \in T,
               \A f \in T : pv[f] # Null => tw[pv[f]] \in T
        PROVE  \A f \in L : v0[f] = v0[u] => f \in T
    BY <1>0, <2>3 DEF StarsWhole, Around, Star
  <2>4. ASSUME NEW x \in {e, t}, NEW y \in {e, t}, y = tw[x],
               NEW q \in S, v0[q] = v0[x]
        PROVE  nx[y] \in S /\ tw[pv[y]] \in S
    <3> DEFINE T == {f \in S : v0[f] = v0[x]}
    <3>1. /\ x # y /\ tw[y] = x /\ v0[x] # v0[y] /\ v0[x] # Null
          /\ nx[y] \in M /\ v0[nx[y]] = v0[x] /\ v0[nx[x]] = v0[y] /\ pv[nx[y]] = y
          /\ nx[x] # nx[y] /\ pv2[nx[y]] = pv[y] /\ pv[y] # Null
      BY <1>1, <1>2, <1>4, <1>5, <1>u, <2>4
    <3>2. nx[y] \in S
      <4> SUFFICES ASSUME nx[y] \notin S PROVE FALSE
        OBVIOUS
      <4>1. ASSUME NEW f \in T, pv[f] # Null PROVE tw[pv[f]] \in T
        <5>1. f # nx[x] /\ f # nx[y] /\ f \in S /\ f \in L
          BY <3>1, <4>1
        <5>2. pv2[f] = pv[f]
          BY <1>1, <1>2, <1>u, <2>4, <5>1
        <5> QED BY <2>1, <2>2, <4>1, <5>1, <5>2
      <4>2. q \in T /\ T \in SUBSET L /\ q \in L /\ v0[q] # Null
        BY <2>4, <3>1
      <4>3. \A f \in L : v0[f] = v0[q] => f \in T
        <5> HIDE DEF T
        <5> QED BY <2>3, <4>1, <4>2
      <4> QED BY <2>4, <3>1, <4>3
    <3> QED BY <2>1, <3>1, <3>2
  <2>5. ASSUME NEW x \in {e, t}, NEW y \in {e, t}, y = tw[x],
               NEW q \in S, v0[q] = v0[x]
        PROVE  \A f \in M : v0[f] = v0[x] => f \in S
    <3> DEFINE T == {f \in S : v0[f] = v0[x]} \cup {x}
    <3>1. /\ x # y /\ tw[y] = x /\ v0[x] # v0[y] /\ v0[x] # Null /\ v0[y] # Null
          /\ x = tw[y] /\ pv[nx[y]] = y /\ v0[nx[x]] = v0[y] /\ v0[tw[pv[y]]] = v0[y]
          /\ v0[tw[pv[x]]] = v0[x]
      BY <1>1, <1>2, <1>3, <2>5
    <3>2. nx[y] \in S /\ tw[pv[y]] \in S
      BY <2>4, <2>5
    <3>3. nx[x] \in S /\ tw[pv[x]] \in S
      BY <2>4, <3>1, <3>2
    <3>4. ASSUME NEW f \in T, pv[f] # Null PROVE tw[pv[f]] \in T
      <4>1. CASE f = x
        BY <3>1, <3>3, <4>1
      <4>2. CASE f = nx[y]
        BY <3>1, <4>2
      <4>3. CASE f # x /\ f # nx[y]
        <5>1. f # nx[x] /\ f \in S /\ f \in L /\ v0[f] = v0[x]
          BY <3>1, <4>3
        <5>2. pv2[f] = pv[f]
          BY <1>1, <1>2, <1>u, <2>5, <4>3, <5>1
        <5> QED BY <2>1, <2>2, <3>4, <5>1, <5>2
      <4> QED BY <4>1, <4>2, <4>3
    <3>5. x \in T /\ T \in SUBSET L /\ x \in L
      OBVIOUS
    <3>6. \A f \in L : v0[f] = v0[x] => f \in T
      <4> HIDE DEF T
      <4> QED BY <2>3, <3>1, <3>4, <3>5
    <3> QED BY <3>6
  <2>6. CASE v0[o] # v0[e] /\ v0[o] # v0[t]
    <3> DEFINE T == {f \in S : v0[f] = v0[o]}
    <3>1. ASSUME NEW f \in T, pv[f] # Null PROVE tw[pv[f]] \in T
      <4>1. f # nx[e] /\ f # nx[t] /\ f \in S /\ f \in L
        BY <1>2, <2>6
      <4>2. pv2[f] = pv[f]
        BY <1>u, <4>1
      <4> QED BY <2>1, <2>2, <3>1, <4>1, <4>2
    <3>2. o \in T /\ T \in SUBSET L /\ o \in L /\ v0[o] # Null
      BY <1>10
    <3>3. \A f \in L : v0[f] = v0[o] => f \in T
      <4> HIDE DEF T
      <4> QED BY <2>3, <3>1, <3>2
    <3>4. \A f \in M : w0[f] = w0[o] => v0[f] = v0[o]
      BY <1>m, <2>6
    <3> QED BY <3>3, <3>4 DEF Star
  <2>7. CASE v0[o] = v0[e] \/ v0[o] = v0[t]
    <3>1. PICK x \in {e, t} : v0[o] = v0[x]
      BY <2>7
    <3>2. PICK y \in {e, t} : y = tw[x] /\ x = tw[y]
      BY <1>1
    <3>3. \A f \in M : v0[f] = v0[x] => f \in S
      BY <2>5, <3>1, <3>2
    <3>4. tw[pv[y]] \in S /\ v0[tw[pv[y]]] = v0[y]
      BY <1>3, <2>4, <3>1, <3>2
    <3>5. \A f \in M : v0[f] = v0[y] => f \in S
      BY <2>5, <3>2, <3>4
    <3>6. \A f \in M : w0[f] = w0[o] => v0[f] = v0[e] \/ v0[f] = v0[t]
      BY <1>m, <2>7
    <3>7. {x, y} = {e, t}
      BY <1>1, <3>2
    <3> QED BY <3>3, <3>5, <3>6, <3>7 DEF Star
  <2> QED BY <2>6, <2>7
<1> QED BY <1>4, <1>7, <1>9, <1>12, <1>13, <1>14, <1>15 DEF Linked

(* The columns when each half-edge f of L is at new[f]. *)
Moved(L, M, new, old, tw, nx, pv, v0, cl, tw2, nx2, pv2, w0, cl2) ==
    /\ \A f \in L : new[f] \in M /\ old[new[f]] = f
    /\ \A g \in M : old[g] \in L /\ new[old[g]] = g
    /\ \A g \in M : cl2[g] = cl[old[g]] /\ w0[g] = v0[old[g]]
    /\ \A g \in M : tw2[g] = new[tw[old[g]]]
    /\ \A g \in M : nx2[g] = IF nx[old[g]] = Null THEN Null ELSE new[nx[old[g]]]
    /\ \A g \in M : pv2[g] = IF pv[old[g]] = Null THEN Null ELSE new[pv[old[g]]]

(* Half-edges are moved to other places of the table, and all links with     *)
(* them.                                                                     *)
LEMMA MovedPair ==
    ASSUME NEW L, NEW M, Null \notin L, Null \notin M,
           NEW tw, NEW nx, NEW pv, NEW v0, NEW cl,
           Linked(L, tw, nx, pv, v0, cl), EndsOpen(L, tw, nx, pv, v0),
           NEW new, NEW old, NEW tw2, NEW nx2, NEW pv2, NEW w0, NEW cl2,
           Moved(L, M, new, old, tw, nx, pv, v0, cl, tw2, nx2, pv2, w0, cl2)
    PROVE  Linked(M, tw2, nx2, pv2, w0, cl2) /\ EndsOpen(M, tw2, nx2, pv2, w0)
<1> USE DEF Moved
<1>0. /\ TwinsIn(L, tw, cl) /\ LinksIn(L, tw, nx, pv, v0, cl)
      /\ EndsLinked(L, tw, nx, pv, v0) /\ NoLoops(L, tw, v0)
      /\ StarsWhole(L, tw, pv, v0)
  BY DEF Linked
<1>1. /\ Null \notin L /\ Null \notin M
  OBVIOUS
<1>2. \A g \in M : /\ tw2[g] \in M /\ old[tw2[g]] = tw[old[g]] /\ tw2[g] # g
                   /\ tw2[tw2[g]] = g /\ w0[tw2[g]] = v0[tw[old[g]]]
                   /\ cl2[tw2[g]] = cl[tw[old[g]]] /\ cl[tw[old[g]]] # cl[old[g]]
  BY <1>0 DEF TwinsIn
<1>3. TwinsIn(M, tw2, cl2)
  BY <1>2 DEF TwinsIn
<1>4. \A g \in M : /\ nx2[g] = Null <=> nx[old[g]] = Null
                   /\ pv2[g] = Null <=> pv[old[g]] = Null
                   /\ nx2[g] # Null => nx2[g] \in M /\ old[nx2[g]] = nx[old[g]]
                   /\ pv2[g] # Null => pv2[g] \in M /\ old[pv2[g]] = pv[old[g]]
  BY <1>0, <1>1 DEF LinksIn
<1>5. LinksIn(M, tw2, nx2, pv2, w0, cl2)
  <2> SUFFICES ASSUME NEW g \in M
               PROVE  /\ nx2[g] # Null => /\ nx2[g] \in M /\ pv2[nx2[g]] = g
                                          /\ cl2[nx2[g]] = cl2[g] /\ w0[nx2[g]] = w0[tw2[g]]
                      /\ pv2[g] # Null => pv2[g] \in M /\ nx2[pv2[g]] = g
    BY DEF LinksIn
  <2> DEFINE f == old[g]
  <2>1. f \in L /\ new[f] = g
    OBVIOUS
  <2>2. ASSUME nx2[g] # Null
        PROVE  /\ nx2[g] \in M /\ pv2[nx2[g]] = g
               /\ cl2[nx2[g]] = cl2[g] /\ w0[nx2[g]] = w0[tw2[g]]
    <3>1. /\ nx2[g] \in M /\ old[nx2[g]] = nx[f] /\ nx[f] # Null
      BY <1>4, <2>2
    <3>2. pv[nx[f]] = f /\ cl[nx[f]] = cl[f] /\ v0[nx[f]] = v0[tw[f]]
      BY <1>0, <2>1, <3>1 DEF LinksIn
    <3>3. f # Null
      BY <1>1, <2>1
    <3> HIDE DEF f
    <3>4. pv2[nx2[g]] = new[f]
      BY <3>1, <3>2, <3>3
    <3> QED BY <1>2, <2>1, <3>1, <3>2, <3>4 DEF f
  <2>3. ASSUME pv2[g] # Null PROVE pv2[g] \in M /\ nx2[pv2[g]] = g
    <3>1. /\ pv2[g] \in M /\ old[pv2[g]] = pv[f] /\ pv[f] # Null
      BY <1>4, <2>3
    <3>2. nx[pv[f]] = f /\ f # Null
      BY <1>0, <1>1, <2>1, <3>1 DEF LinksIn
    <3> HIDE DEF f
    <3> QED BY <2>1, <3>1, <3>2
  <2> QED BY <2>2, <2>3
<1>6. EndsLinked(M, tw2, nx2, pv2, w0) /\ EndsOpen(M, tw2, nx2, pv2, w0)
  BY <1>0, <1>2, <1>4 DEF EndsLinked, EndsOpen
<1>7. NoLoops(M, tw2, w0)
  BY <1>0, <1>2 DEF NoLoops
<1>8. StarsWhole(M, tw2, pv2, w0)
  <2> SUFFICES ASSUME NEW S \in SUBSET M, Around(S, tw2, pv2), NEW o \in S, w0[o] # Null
               PROVE  Star(M, w0, o) \subseteq S
    BY DEF StarsWhole
  <2> DEFINE T == {f \in L : new[f] \in S}
  <2>1. ASSUME NEW f \in T, pv[f] # Null PROVE tw[pv[f]] \in T
    <3> DEFINE g == new[f]
    <3>1. g \in S /\ g \in M /\ old[g] = f
      OBVIOUS
    <3>2. pv2[g] \in M /\ old[pv2[g]] = pv[f] /\ pv2[g] # Null
      BY <1>4, <2>1, <3>1
    <3>3. tw2[pv2[g]] \in S
      BY <3>1, <3>2 DEF Around
    <3>4. tw2[pv2[g]] = new[tw[pv[f]]] /\ tw[pv[f]] \in L
      BY <1>0, <2>1, <3>2 DEF TwinsIn, LinksIn
    <3> QED BY <3>3, <3>4
  <2>2. old[o] \in T /\ v0[old[o]] # Null /\ T \in SUBSET L
    OBVIOUS
  <2>3. Star(L, v0, old[o]) \subseteq T
    <3> HIDE DEF T
    <3>1. Around(T, tw, pv)
      BY <2>1 DEF Around
    <3> QED BY <1>0, <2>2, <3>1 DEF StarsWhole
  <2> QED BY <2>3 DEF Star
<1> QED BY <1>3, <1>5, <1>6, <1>7, <1>8 DEF Linked
Closed(L, leftmost, rightmost, nx, pv, nx2, pv2) ==
    \A f \in L : /\ nx2[f] = IF f = rightmost THEN leftmost ELSE nx[f]
                 /\ pv2[f] = IF f = leftmost THEN rightmost ELSE pv[f]

(* The two ends of a cell that reaches to infinity are linked. *)
LEMMA ClosedCell ==
    ASSUME NEW L, Null \notin L, NEW tw, NEW nx, NEW pv, NEW v0, NEW cl,
           Linked(L, tw, nx, pv, v0, cl),
           NEW leftmost \in L, NEW rightmost \in L, pv[leftmost] = Null, nx[rightmost] = Null,
           cl[leftmost] = cl[rightmost],
           NEW nx2, NEW pv2, Closed(L, leftmost, rightmost, nx, pv, nx2, pv2)
    PROVE  Linked(L, tw, nx2, pv2, v0, cl)
<1> USE DEF Closed
<1>0. /\ TwinsIn(L, tw, cl) /\ LinksIn(L, tw, nx, pv, v0, cl)
      /\ EndsLinked(L, tw, nx, pv, v0) /\ NoLoops(L, tw, v0)
      /\ StarsWhole(L, tw, pv, v0)
  BY DEF Linked
<1>1. v0[leftmost] = Null /\ v0[tw[rightmost]] = Null
  BY <1>0 DEF EndsLinked
<1>2. EndsLinked(L, tw, nx2, pv2, v0)
  BY <1>0 DEF EndsLinked
<1>3. LinksIn(L, tw, nx2, pv2, v0, cl)
  BY <1>0, <1>1 DEF LinksIn
<1>4. StarsWhole(L, tw, pv2, v0)
  <2> SUFFICES ASSUME NEW S \in SUBSET L, Around(S, tw, pv2), NEW o \in S, v0[o] # Null
               PROVE  Star(L, v0, o) \subseteq S
    BY DEF StarsWhole
  <2> DEFINE T == {f \in S : v0[f] = v0[o]}
  <2>1. Around(T, tw, pv)
    <3> SUFFICES ASSUME NEW f \in T, pv[f] # Null PROVE tw[pv[f]] \in T
      BY DEF Around
    <3>1. tw[pv[f]] \in L /\ v0[tw[pv[f]]] = v0[f]
      BY <1>0, StarTurns
    <3>2. pv2[f] = pv[f]
      BY <1>1
    <3> QED BY <3>1, <3>2 DEF Around
  <2>2. T \in SUBSET L /\ o \in T
    OBVIOUS
  <2> HIDE DEF T
  <2>3. Star(L, v0, o) \subseteq T
    BY <1>0, <2>1, <2>2 DEF StarsWhole
  <2> QED BY <2>3 DEF T
<1> QED BY <1>0, <1>2, <1>3, <1>4 DEF Linked

Renumbered(L, v0, a, b, w0) ==
    \A f \in L : v0[f] # b /\ w0[f] = IF v0[f] = a THEN b ELSE v0[f]

(* A vertex takes the number of one that no half-edge starts at. *)
LEMMA RenamedVertex ==
    ASSUME NEW L, NEW tw, NEW nx, NEW pv, NEW v0, NEW cl,
           Linked(L, tw, nx, pv, v0, cl),
           NEW a, NEW b, a # Null, b # Null, NEW w0, Renumbered(L, v0, a, b, w0)
    PROVE  /\ Linked(L, tw, nx, pv, w0, cl)
           /\ EndsOpen(L, tw, nx, pv, v0) => EndsOpen(L, tw, nx, pv, w0)
<1> USE DEF Renumbered
<1>0. /\ TwinsIn(L, tw, cl) /\ LinksIn(L, tw, nx, pv, v0, cl)
      /\ EndsLinked(L, tw, nx, pv, v0) /\ NoLoops(L, tw, v0)
      /\ StarsWhole(L, tw, pv, v0)
  BY DEF Linked
<1>1. \A f \in L : tw[f] \in L
  BY <1>0 DEF TwinsIn
<1>2. \A f \in L : w0[f] = Null <=> v0[f] = Null
  OBVIOUS
<1>3. \A f, g \in L : w0[f] = w0[g] <=> v0[f] = v0[g]
  OBVIOUS
<1>4. EndsLinked(L, tw, nx, pv, w0) /\ NoLoops(L, tw, w0)
  BY <1>0, <1>1, <1>2, <1>3 DEF EndsLinked, NoLoops
<1>5. EndsOpen(L, tw, nx, pv, v0) => EndsOpen(L, tw, nx, pv, w0)
  BY <1>1, <1>2 DEF EndsOpen
<1>6. LinksIn(L, tw, nx, pv, w0, cl)
  BY <1>0, <1>1, <1>3 DEF LinksIn
<1>7. StarsWhole(L, tw, pv, w0)
  BY <1>0, <1>2, <1>3 DEF StarsWhole, Star
<1> QED BY <1>0, <1>4, <1>5, <1>6, <1>7 DEF Linked

(* Nothing moves. *)
Same(L, tw, nx, pv, v0, cl, tw2, nx2, pv2, w0, cl2) ==
    \A f \in L : /\ tw2[f] = tw[f] /\ nx2[f] = nx[f] /\ pv2[f] = pv[f]
                 /\ w0[f] = v0[f] /\ cl2[f] = cl[f]

(* Links that do not change stay linked.                                    *)
LEMMA SameColumns ==
    ASSUME NEW L, NEW tw, NEW nx, NEW pv, NEW v0, NEW cl, Null \notin L,
           Linked(L, tw, nx, pv, v0, cl),
           NEW tw2, NEW nx2, NEW pv2, NEW w0, NEW cl2,
           Same(L, tw, nx, pv, v0, cl, tw2, nx2, pv2, w0, cl2)
    PROVE  /\ Linked(L, tw2, nx2, pv2, w0, cl2)
           /\ EndsOpen(L, tw, nx, pv, v0) => EndsOpen(L, tw2, nx2, pv2, w0)
<1> USE DEF Same
<1>0. /\ TwinsIn(L, tw, cl) /\ LinksIn(L, tw, nx, pv, v0, cl)
      /\ EndsLinked(L, tw, nx, pv, v0) /\ NoLoops(L, tw, v0)
      /\ StarsWhole(L, tw, pv, v0)
  BY DEF Linked
<1>1. \A f \in L : tw[f] \in L
  BY <1>0 DEF TwinsIn
<1>2. TwinsIn(L, tw2, cl2)
  BY <1>0 DEF TwinsIn
<1>3. LinksIn(L, tw2, nx2, pv2, w0, cl2)
  BY <1>0, <1>1 DEF LinksIn
<1>4. EndsLinked(L, tw2, nx2, pv2, w0) /\ NoLoops(L, tw2, w0)
  BY <1>0, <1>1 DEF EndsLinked, NoLoops
<1>5. EndsOpen(L, tw, nx, pv, v0) => EndsOpen(L, tw2, nx2, pv2, w0)
  BY <1>1 DEF EndsOpen
<1>6. StarsWhole(L, tw2, pv2, w0)
  <2> SUFFICES ASSUME NEW S \in SUBSET L, Around(S, tw2, pv2), NEW o \in S, w0[o] # Null
               PROVE  Star(L, w0, o) \subseteq S
    BY DEF StarsWhole
  <2>1. Around(S, tw, pv)
    <3> SUFFICES ASSUME NEW f \in S, pv[f] # Null PROVE tw[pv[f]] \in S
      BY DEF Around
    <3>1. pv2[f] = pv[f] /\ pv[f] \in L
      BY <1>0 DEF LinksIn
    <3>2. tw2[pv2[f]] \in S
      BY <3>1 DEF Around
    <3> QED BY <3>1, <3>2
  <2>2. Star(L, v0, o) \subseteq S
    BY <1>0, <2>1 DEF StarsWhole
  <2> QED BY <2>2 DEF Star
<1> QED BY <1>2, <1>3, <1>4, <1>5, <1>6 DEF Linked

-----------------------------------------------------------------------------
(* What the sweep leaves: twins are pushed in pairs, and a half-edge ends at *)
(* another vertex than it starts at.                                         *)

PairsInv ==
    /\ numEdges % 2 = 0
    /\ \A e \in Edge : e % 2 = 1 => twin[e] = e + 1
    /\ NoLoops(Edge, twin, vertex0)

(* The half-edges of a pair stand side by side in their table, the first at *)
(* an odd place, which the loops of _build that go two by two rely on.      *)
LEMMA InitPairs == GraphInit => PairsInv
  BY DEF GraphInit, PairsInv, NoLoops, Edge

LEMMA StepKeepsPairs ==
    ASSUME GraphInv, PairsInv, [GraphNext]_graphVars
    PROVE  PairsInv'
<1>1. /\ numEdges \in Nat /\ numEdges % 2 = 0 /\ numVertices \in Nat
      /\ \A e \in 1..numEdges : e % 2 = 1 => twin[e] = e + 1
      /\ \A e \in 1..numEdges : vertex0[e] # 0 => vertex0[twin[e]] # vertex0[e]
  BY EdgeFacts DEF PairsInv, NoLoops, Edge, Null
<1>2. (numEdges + 2) % 2 = 0 /\ (numEdges + 1) % 2 = 1
  BY <1>1
<1>3. CASE UNCHANGED <<numEdges, twin, vertex0>>
  BY <1>3 DEF PairsInv, NoLoops, Edge
<1>4. ASSUME NEW s1 \in Site, NEW s2 \in Site, AddSite(s1, s2)
      PROVE  PairsInv'
  <2>1. InsertSiteEdge(s1, s2) /\ GraphTypeOK
    BY <1>4 DEF AddSite, GraphInv
  <2>2. /\ numEdges' = numEdges + 2
        /\ \A e \in 1..numEdges : twin'[e] = twin[e] /\ vertex0'[e] = vertex0[e]
        /\ vertex0'[numEdges + 1] = 0 /\ vertex0'[numEdges + 2] = 0
        /\ twin'[numEdges + 1] = numEdges + 2
    BY <1>1, <2>1, AddSiteEffect DEF Edge, Null
  <2>3. \A e \in 1..(numEdges + 2) : e \in 1..numEdges \/ e = numEdges + 1 \/ e = numEdges + 2
    BY <1>1
  <2>4. \A e \in 1..numEdges : twin[e] \in 1..numEdges
    BY EdgeFacts
  <2>5. \A e \in 1..(numEdges + 2) : e % 2 = 1 => twin'[e] = e + 1
    BY <1>1, <1>2, <2>2, <2>3
  <2>6. \A e \in 1..(numEdges + 2) : vertex0'[e] # 0 => vertex0'[twin'[e]] # vertex0'[e]
    BY <1>1, <2>2, <2>3, <2>4
  <2> QED BY <1>2, <2>2, <2>5, <2>6 DEF PairsInv, NoLoops, Edge, Null
<1>5. ASSUME NEW e12 \in Edge, NEW e23 \in Edge, JoinBisectors(e12, e23)
      PROVE  PairsInv'
  <2>1. PICK n, v, t12, t23 : Joined(e12, e23, t12, t23, n, v)
    BY <1>5, JoinFacts
  <2>2. /\ n = numEdges /\ v = numVertices + 1 /\ numEdges' = n + 2 /\ e12 \in 1..n /\ e23 \in 1..n
        /\ t12 # e12 /\ t12 # e23 /\ t23 # e12 /\ t23 # e23
        /\ t12 = twin[e12] /\ t23 = twin[e23]
        /\ \A e \in 1..n : twin'[e] = twin[e]
        /\ \A e \in 1..n : e # e12 /\ e # e23 => vertex0'[e] = vertex0[e]
        /\ vertex0'[e12] = v /\ vertex0'[e23] = v
        /\ vertex0'[n + 1] = 0 /\ vertex0'[n + 2] = v
        /\ twin'[n + 1] = n + 2 /\ twin'[n + 2] = n + 1
    BY <2>1 DEF Joined
  <2>3. \A e \in 1..(n + 2) : e \in 1..n \/ e = n + 1 \/ e = n + 2
    BY <1>1, <2>2
  <2>4. \A e \in 1..n : twin[e] \in 1..n /\ twin[twin[e]] = e /\ vertex0[e] \in 0..numVertices
    BY <2>2, EdgeFacts
  <2>5. \A e \in 1..(n + 2) : e % 2 = 1 => twin'[e] = e + 1
    BY <1>1, <1>2, <2>2, <2>3
  <2>6. ASSUME NEW e \in 1..(n + 2), vertex0'[e] # 0
        PROVE  vertex0'[twin'[e]] # vertex0'[e]
    <3>1. \A f \in 1..n : vertex0[f] # v
      BY <1>1, <2>2, <2>4
    <3>2. CASE e = n + 1 \/ e = n + 2
      BY <1>1, <2>2, <2>6, <3>2
    <3>3. CASE e = e12 \/ e = e23
      BY <2>2, <2>4, <3>1, <3>3
    <3>4. CASE e \in 1..n /\ e # e12 /\ e # e23
      BY <1>1, <2>2, <2>4, <2>6, <3>1, <3>4
    <3> QED BY <2>3, <3>2, <3>3, <3>4
  <2> QED BY <1>2, <2>2, <2>5, <2>6 DEF PairsInv, NoLoops, Edge, Null
<1>6. CASE GraphNext
  <2>1. ProcessSingleSite(1) => UNCHANGED <<numEdges, twin, vertex0>>
    BY DEF ProcessSingleSite
  <2> QED BY <1>3, <1>4, <1>5, <1>6, <2>1 DEF GraphNext
<1> QED BY <1>3, <1>6 DEF graphVars
-----------------------------------------------------------------------------
(* The invariant of _build. *)

BuildTypes == GraphTypeOK /\ stage \in Stages \ {"sweep"} /\ it \in Nat \ {0} /\ slot \in Nat \ {0}

LinksInv ==
    ~ (stage = "diagram" /\ numVertices = 0) => Linked(Live, twin, next, prev, vertex0, cell)

(* Until a cell is closed. *)
EndsInv ==
    stage \in {"edges", "incident", "vertices"} \/ (stage = "infinite" /\ numVertices = 0)
        => EndsOpen(Live, twin, next, prev, vertex0)

EdgesInv ==
    stage = "edges" =>
        /\ slot <= it /\ it <= numEdges + 1
        /\ slot % 2 = 1 /\ it % 2 = 1 /\ numEdges % 2 = 0
        /\ \A e \in it..numEdges : e % 2 = 1 => twin[e] = e + 1

IncidentInv ==
    stage \in {"vertices", "infinite", "diagram"} => cellEdge \in [DOMAIN cells -> 0..numEdges]

(* The vertices that half-edges start at are those already moved and those   *)
(* still ahead, and their incident edges are among these half-edges.         *)
VerticesInv ==
    stage = "vertices" =>
        /\ slot <= it /\ it <= numVertices + 1
        /\ vertexEdge \in [1..numVertices -> 0..numEdges]
        /\ \A e \in Edge : vertex0[e] < slot \/ vertex0[e] >= it
        /\ \A v \in 1..(slot - 1) : vertexEdge[v] # Null /\ vertex0[vertexEdge[v]] = v
        /\ \A v \in it..numVertices : IF vertexEdge[v] = Null THEN \A e \in Edge : vertex0[e] # v
                                      ELSE vertex0[vertexEdge[v]] = v

BuildInv == BuildTypes /\ LinksInv /\ EndsInv /\ EdgesInv /\ IncidentInv /\ VerticesInv

(* What the types say of each column.                                       *)
LEMMA TypeFacts ==
    ASSUME GraphTypeOK
    PROVE  /\ numEdges \in Nat /\ numVertices \in Nat
           /\ cell \in [1..numEdges -> Site]
           /\ twin \in [1..numEdges -> 1..numEdges]
           /\ vertex0 \in [1..numEdges -> 0..numVertices]
           /\ next \in [1..numEdges -> 0..numEdges]
           /\ prev \in [1..numEdges -> 0..numEdges]
           /\ Turn \in [1..numEdges -> 0..numEdges]
           /\ \A e \in 1..numEdges : Turn[e] = IF prev[e] = 0 THEN 0 ELSE twin[prev[e]]
<1>1. /\ numEdges \in Nat /\ numVertices \in Nat
      /\ cell \in [1..numEdges -> Site]
      /\ twin \in [1..numEdges -> 1..numEdges]
      /\ vertex0 \in [1..numEdges -> 0..numVertices]
      /\ next \in [1..numEdges -> 0..numEdges]
      /\ prev \in [1..numEdges -> 0..numEdges]
  BY DEF GraphTypeOK, Edge
<1>2. Turn = [e \in 1..numEdges |-> IF prev[e] = 0 THEN 0 ELSE twin[prev[e]]]
  BY DEF Turn, RotNext, Null, Edge
<1>3. \A e \in 1..numEdges : prev[e] # 0 => prev[e] \in 1..numEdges
  BY <1>1
<1>4. \A e \in 1..numEdges : (IF prev[e] = 0 THEN 0 ELSE twin[prev[e]]) \in 0..numEdges
  <2> SUFFICES ASSUME NEW e \in 1..numEdges
               PROVE  (IF prev[e] = 0 THEN 0 ELSE twin[prev[e]]) \in 0..numEdges
    OBVIOUS
  <2>0. numEdges \in Nat
    BY <1>1
  <2>1. CASE prev[e] = 0
    BY <2>0, <2>1
  <2>2. CASE prev[e] # 0
    <3>1. twin[prev[e]] \in 1..numEdges
      BY <1>1, <1>3, <2>2
    <3> QED BY <2>0, <2>2, <3>1
  <2> QED BY <2>1, <2>2
<1>5. Turn \in [1..numEdges -> 0..numEdges]
  BY <1>2, <1>4
<1> QED BY <1>1, <1>2, <1>5

(* The half-edges in use are slots of the table.                            *)
LEMMA LiveFacts ==
    ASSUME BuildInv
    PROVE  Live \subseteq Edge /\ Null \notin Live
<1>1. /\ numEdges \in Nat /\ it \in Nat \ {0} /\ slot \in Nat \ {0}
  BY TypeFacts DEF BuildInv, BuildTypes
<1>2. CASE stage = "edges"
  <2>1. slot <= it /\ it <= numEdges + 1
    BY <1>2 DEF BuildInv, EdgesInv
  <2> QED BY <1>1, <1>2, <2>1 DEF Live, Edge, Null
<1>3. CASE stage # "edges"
  BY <1>1, <1>3 DEF Live, Edge, Null
<1> QED BY <1>2, <1>3

(* rot_next meets the whole star of a vertex and nothing else. *)
LEMMA StarMet ==
    ASSUME BuildInv, Linked(Live, twin, next, prev, vertex0, cell),
           NEW e \in Live, vertex0[e] # Null
    PROVE  Met(Turn, e) = Star(Live, vertex0, e)
<1>1. /\ numEdges \in Nat /\ Turn \in [Edge -> 0..numEdges] /\ e \in Edge
      /\ Live \subseteq Edge /\ Null \notin Live
      /\ \A f \in Edge : Turn[f] = IF prev[f] = Null THEN Null ELSE twin[prev[f]]
  BY TypeFacts, LiveFacts DEF BuildInv, BuildTypes, Edge, Null
<1>2. /\ TwinsIn(Live, twin, cell) /\ LinksIn(Live, twin, next, prev, vertex0, cell)
      /\ StarsWhole(Live, twin, prev, vertex0)
  BY DEF Linked
<1>3. ASSUME NEW f \in Star(Live, vertex0, e), Turn[f] # Null
      PROVE  Turn[f] \in Star(Live, vertex0, e)
  <2>1. f \in Live /\ vertex0[f] = vertex0[e] /\ f \in Edge
    BY <1>1, <1>3 DEF Star
  <2>2. prev[f] # Null /\ Turn[f] = twin[prev[f]]
    BY <1>1, <1>3, <2>1
  <2>3. twin[prev[f]] \in Live /\ vertex0[twin[prev[f]]] = vertex0[f]
    BY <1>1, <1>2, <2>1, <2>2, StarTurns
  <2> QED BY <2>1, <2>2, <2>3 DEF Star
<1>4. Star(Live, vertex0, e) \in SUBSET Edge /\ e \in Star(Live, vertex0, e)
  BY <1>1 DEF Star
<1>5. /\ e \in Met(Turn, e)
      /\ \A f \in Met(Turn, e) : Turn[f] # Null => Turn[f] \in Met(Turn, e)
      /\ Met(Turn, e) \subseteq Star(Live, vertex0, e)
  BY <1>1, <1>3, <1>4, MetFacts
<1>6. Around(Met(Turn, e), twin, prev)
  <2> SUFFICES ASSUME NEW f \in Met(Turn, e), prev[f] # Null PROVE twin[prev[f]] \in Met(Turn, e)
    BY DEF Around
  <2>1. f \in Live /\ f \in Edge /\ Turn[f] = twin[prev[f]]
    BY <1>1, <1>5 DEF Star
  <2>2. twin[prev[f]] \in Live
    BY <1>1, <1>2, <2>1, StarTurns
  <2>3. Turn[f] # Null
    BY <1>1, <2>1, <2>2
  <2> QED BY <1>5, <2>1, <2>3
<1>7. Met(Turn, e) \in SUBSET Live
  BY <1>5 DEF Star
<1>8. Star(Live, vertex0, e) \subseteq Met(Turn, e)
  BY <1>2, <1>5, <1>6, <1>7 DEF StarsWhole
<1> QED BY <1>5, <1>8

(* The last of a set of slots is one of them, and 0 if there is none.       *)
LEMMA LastOfFacts ==
    ASSUME NEW n \in Nat, NEW S \in SUBSET (1..n)
    PROVE  /\ LastOf(S) \in 0..n
           /\ S = {} => LastOf(S) = 0
           /\ S # {} => LastOf(S) \in S /\ \A x \in S : x <= LastOf(S)
<1>1. CASE S = {}
  BY <1>1 DEF LastOf, Null
<1>2. CASE S # {}
  <2> DEFINE R == {n - x : x \in S}
  <2>0. \A x \in S : x \in Int /\ x <= n /\ n - x \in Nat
    OBVIOUS
  <2>1. R \in SUBSET Nat /\ R # {}
    <3>1. PICK x \in S : TRUE
      BY <1>2
    <3>2. n - x \in R
      BY <3>1
    <3>3. R \in SUBSET Nat
      BY <2>0
    <3> HIDE DEF R
    <3> QED BY <3>2, <3>3
  <2>2. PICK r \in R : \A s \in R : r <= s
    <3> HIDE DEF R
    <3> QED BY <2>1, LeastNatural
  <2>3. PICK x \in S : r = n - x
    BY <2>2
  <2>4. \A y \in S : y <= x
    <3> SUFFICES ASSUME NEW y \in S PROVE y <= x
      OBVIOUS
    <3>1. n - x <= n - y
      BY <2>2, <2>3
    <3>2. x \in Int /\ y \in Int
      OBVIOUS
    <3> QED BY <3>1, <3>2
  <2>5. LastOf(S) \in S /\ \A y \in S : y <= LastOf(S)
    BY <1>2, <2>4 DEF LastOf
  <2>6. LastOf(S) \in 0..n
    <3>1. LastOf(S) \in 1..n
      BY <2>5
    <3> HIDE DEF R
    <3> QED BY <3>1
  <2> QED BY <1>2, <2>5, <2>6
<1> QED BY <1>1, <1>2

-----------------------------------------------------------------------------
(* The graph the sweep leaves, if it is a diagram, is as _build needs it.   *)
LEMMA StartBuildStarts ==
    ASSUME GraphInv, Trivalent, PairsInv, it = 1, slot = 1, StartBuild
    PROVE  BuildInv'
<1>1. /\ stage' = "edges" /\ UNCHANGED <<graphVars, it, slot>>
      /\ \A e \in Edge : cell[e] # cell[twin[e]]
  BY DEF StartBuild, IsDiagram
<1>2. /\ numEdges \in Nat
      /\ \A e \in Edge : /\ twin[e] \in Edge /\ twin[e] # e /\ twin[twin[e]] = e
                         /\ prev[e] = Null <=> vertex0[e] = Null
                         /\ next[e] = Null <=> vertex0[twin[e]] = Null
                         /\ next[e] # Null => /\ next[e] \in Edge /\ prev[next[e]] = e
                                              /\ cell[next[e]] = cell[e]
                                              /\ vertex0[next[e]] = vertex0[twin[e]]
                         /\ prev[e] # Null => prev[e] \in Edge /\ next[prev[e]] = e
  BY EdgeFacts DEF Edge, Null
<1>3. TwinsIn(Edge, twin, cell)
  BY <1>1, <1>2 DEF TwinsIn
<1>4. LinksIn(Edge, twin, next, prev, vertex0, cell)
  BY <1>2 DEF LinksIn
<1>5. EndsLinked(Edge, twin, next, prev, vertex0) /\ EndsOpen(Edge, twin, next, prev, vertex0)
  BY <1>2 DEF EndsLinked, EndsOpen
<1>6. StarsWhole(Edge, twin, prev, vertex0)
  <2> SUFFICES ASSUME NEW S \in SUBSET Edge, Around(S, twin, prev),
                      NEW o \in S, vertex0[o] # Null
               PROVE  Star(Edge, vertex0, o) \subseteq S
    BY DEF StarsWhole
  <2> DEFINE f == twin[prev[o]]
             g == twin[prev[f]]
  <2>1. Star(Edge, vertex0, o) = {o, f, g}
    BY DEF Trivalent, Star, Open, RotNext
  <2>2. prev[o] # Null /\ f \in S
    BY <1>2 DEF Around
  <2>3. vertex0[f] = vertex0[o]
    <3>1. prev[o] \in Edge /\ next[prev[o]] = o /\ o \in Edge
      BY <1>2, <2>2
    <3>2. o # Null
      BY <1>2, <3>1 DEF Edge, Null
    <3> QED BY <1>2, <3>1, <3>2
  <2>4. prev[f] # Null
    BY <1>2, <2>2, <2>3
  <2>5. g \in S
    BY <2>2, <2>4 DEF Around
  <2> QED BY <2>1, <2>2, <2>5
<1>7. Linked(Edge, twin, next, prev, vertex0, cell)
  BY <1>3, <1>4, <1>5, <1>6 DEF Linked, PairsInv
<1>8. Live' = Edge
  BY <1>1, <1>2 DEF Live, Edge, graphVars
<1>9. LinksInv' /\ EndsInv'
  BY <1>1, <1>5, <1>7, <1>8 DEF LinksInv, EndsInv, graphVars
<1>10. BuildTypes'
  <2>1. GraphTypeOK'
    BY <1>1 DEF GraphInv, GraphTypeOK, graphVars, Edge
  <2>2. stage' \in Stages \ {"sweep"} /\ it' \in Nat \ {0} /\ slot' \in Nat \ {0}
    BY <1>1 DEF Stages
  <2> QED BY <2>1, <2>2 DEF BuildTypes
<1>11. EdgesInv'
  BY <1>1, <1>2 DEF EdgesInv, PairsInv, Edge, graphVars
<1>12. IncidentInv' /\ VerticesInv'
  BY <1>1 DEF IncidentInv, VerticesInv
<1> QED BY <1>9, <1>10, <1>11, <1>12 DEF BuildInv

(* remove_edge takes the pair out, links its neighbours past it, and moves  *)
(* the star of its second vertex to its first, which no other half-edge     *)
(* joins.                                                                   *)
LEMMA RemoveEdgeEffect ==
    ASSUME BuildInv, RemoveEdge, NEW t, t = it + 1
    PROVE  /\ BuildInv'
           /\ stage = "edges" /\ stage' = "edges"
           /\ it \in Live /\ t \in Live /\ it # t /\ twin[it] = t /\ twin[t] = it
           /\ Live' = Live \ {it, t} /\ Live \subseteq Edge /\ Null \notin Live
           /\ vertex0[it] # Null /\ vertex0[t] # Null
           /\ Linked(Live, twin, next, prev, vertex0, cell)
           /\ Unlinked(Live, it, t, next, prev, next', prev')
           /\ MergedInto(Live, it, t, vertex0, vertex0')
           /\ prev[it] \in Live' /\ prev[t] \in Live' /\ next[it] \in Live' /\ next[t] \in Live'
<1>1. /\ stage = "edges" /\ stage' = "edges" /\ it <= numEdges
      /\ vertex0[it] # Null /\ vertex0[twin[it]] # Null
      /\ vertex0' = MoveStar(it) /\ next' = BridgeNext(it) /\ prev' = BridgePrev(it)
      /\ it' = it + 2 /\ slot' = slot
      /\ numEdges' = numEdges /\ numVertices' = numVertices /\ cell' = cell /\ twin' = twin
      /\ cells' = cells
      /\ ClosesNoCycle(it)
  BY DEF RemoveEdge, Vertex1
<1>2. /\ GraphTypeOK /\ it \in Nat \ {0} /\ slot \in Nat \ {0} /\ numEdges \in Nat
      /\ slot <= it /\ slot % 2 = 1 /\ it % 2 = 1 /\ numEdges % 2 = 0
      /\ \A e \in it..numEdges : e % 2 = 1 => twin[e] = e + 1
  BY <1>1, TypeFacts DEF BuildInv, BuildTypes, EdgesInv
<1>3. /\ Linked(Live, twin, next, prev, vertex0, cell)
      /\ EndsOpen(Live, twin, next, prev, vertex0)
  BY <1>1 DEF BuildInv, LinksInv, EndsInv
<1>4. Live = (1..(slot - 1)) \cup (it..numEdges)
  BY <1>1 DEF Live
<1>5. it + 1 <= numEdges /\ (it + 2) % 2 = 1
  BY <1>1, <1>2
<1>6. /\ it \in Live /\ t \in Live /\ twin[it] = t /\ it \in Edge
      /\ Live \subseteq Edge /\ Null \notin Live
  BY <1>1, <1>2, <1>4, <1>5, LiveFacts DEF Edge
<1>7. Live' = Live \ {it, t}
  <2>1. Live' = (1..(slot - 1)) \cup ((it + 2)..numEdges)
    BY <1>1 DEF Live
  <2> QED BY <1>2, <1>4, <1>5, <2>1
<1>8. /\ TwinsIn(Live, twin, cell) /\ LinksIn(Live, twin, next, prev, vertex0, cell)
      /\ EndsLinked(Live, twin, next, prev, vertex0) /\ NoLoops(Live, twin, vertex0)
  BY <1>3 DEF Linked
<1>9. /\ prev[it] \in Live /\ prev[t] \in Live /\ next[it] \in Live /\ next[t] \in Live
      /\ next[prev[it]] = it /\ next[prev[t]] = t /\ prev[next[it]] = it /\ prev[next[t]] = t
      /\ twin[t] = it /\ it # t
  BY <1>1, <1>6, <1>8 DEF TwinsIn, LinksIn, EndsLinked
<1>10. /\ twin[RotNext(it)] = prev[it] /\ twin[RotNext(t)] = prev[t]
       /\ RotPrev(t) = next[it] /\ RotPrev(it) = next[t]
  BY <1>6, <1>8, <1>9 DEF RotNext, RotPrev, TwinsIn
<1>11. /\ next' = [next EXCEPT ![prev[it]] = next[it], ![prev[t]] = next[t]]
       /\ prev' = [prev EXCEPT ![next[it]] = prev[it], ![next[t]] = prev[t]]
  BY <1>1, <1>6, <1>10 DEF BridgeNext, BridgePrev
<1>12. /\ next' \in [Edge -> 0..numEdges] /\ prev' \in [Edge -> 0..numEdges]
  <2>1. /\ next \in [Edge -> 0..numEdges] /\ prev \in [Edge -> 0..numEdges]
        /\ \A e \in Edge : e \in 0..numEdges
    BY <1>2 DEF GraphTypeOK, Edge
  <2>2. /\ next[it] \in 0..numEdges /\ next[t] \in 0..numEdges
        /\ prev[it] \in 0..numEdges /\ prev[t] \in 0..numEdges
    BY <1>6, <1>9, <2>1
  <2> QED BY <1>11, <2>1, <2>2
<1>13. Unlinked(Live, it, t, next, prev, next', prev')
  <2>1. next \in [Edge -> 0..numEdges] /\ prev \in [Edge -> 0..numEdges]
    BY <1>2 DEF GraphTypeOK
  <2>2. prev[it] # prev[t] /\ next[it] # next[t]
    BY <1>9
  <2>3. \A f \in Live : next'[f] = IF f = prev[it] THEN next[it]
                                   ELSE IF f = prev[t] THEN next[t] ELSE next[f]
    BY <1>6, <1>9, <1>11, <2>1, <2>2
  <2>4. \A f \in Live : prev'[f] = IF f = next[it] THEN prev[it]
                                   ELSE IF f = next[t] THEN prev[t] ELSE prev[f]
    BY <1>6, <1>9, <1>11, <2>1, <2>2
  <2> QED BY <2>3, <2>4 DEF Unlinked
<1>14. Met(Turn, t) = Star(Live, vertex0, t)
  BY <1>1, <1>3, <1>6, StarMet
<1>15. vertex0' = [f \in Edge |-> IF f \in Star(Live, vertex0, t) \ {t} THEN vertex0[it]
                                                                     ELSE vertex0[f]]
  BY <1>1, <1>6, <1>14 DEF MoveStar
<1>16. vertex0' \in [Edge -> 0..numVertices]
  <2>1. vertex0 \in [Edge -> 0..numVertices]
    BY <1>2 DEF GraphTypeOK
  <2> QED BY <1>6, <1>15, <2>1
<1>17. MergedInto(Live, it, t, vertex0, vertex0')
  BY <1>6, <1>15 DEF MergedInto, Star
<1>18. NoneParallel(Live, it, t, twin, vertex0)
  BY <1>1, <1>6 DEF ClosesNoCycle, NoneParallel, Vertex1
<1>19. /\ Linked(Live \ {it, t}, twin, next', prev', vertex0', cell)
       /\ EndsOpen(Live \ {it, t}, twin, next', prev', vertex0')
       /\ prev[it] \in Live \ {it, t} /\ prev[t] \in Live \ {it, t}
       /\ next[it] \in Live \ {it, t} /\ next[t] \in Live \ {it, t}
  <2>1. /\ Null \notin Live /\ it \in Live /\ t \in Live /\ t = twin[it]
        /\ vertex0[it] # Null /\ vertex0[t] # Null
    BY <1>1, <1>6
  <2> QED BY <1>3, <1>13, <1>17, <1>18, <2>1, UnlinkedPair
<1>20. LinksInv' /\ EndsInv'
  BY <1>1, <1>7, <1>19 DEF LinksInv, EndsInv
<1>21. BuildTypes'
  <2>1. GraphTypeOK'
    BY <1>1, <1>2, <1>12, <1>16 DEF GraphTypeOK, Edge
  <2>2. stage' \in Stages \ {"sweep"} /\ it' \in Nat \ {0} /\ slot' \in Nat \ {0}
    BY <1>1, <1>2 DEF Stages
  <2> QED BY <2>1, <2>2 DEF BuildTypes
<1>22. EdgesInv'
  <2>1. slot <= it + 2 /\ it + 2 <= numEdges + 1
    BY <1>2, <1>5
  <2>2. \A e \in (it + 2)..numEdges : e % 2 = 1 => twin[e] = e + 1
    BY <1>2
  <2> QED BY <1>1, <1>2, <1>5, <2>1, <2>2 DEF EdgesInv
<1>23. IncidentInv' /\ VerticesInv'
  BY <1>1 DEF IncidentInv, VerticesInv
<1>24. BuildInv'
  BY <1>20, <1>21, <1>22, <1>23 DEF BuildInv
<1> QED BY <1>1, <1>3, <1>6, <1>7, <1>9, <1>13, <1>17, <1>19, <1>24

(* A pair that is kept moves to the free slots, and the half-edges that     *)
(* pointed to its old place point to the new one.                           *)
LEMMA KeepEdgeEffect ==
    ASSUME BuildInv, KeepEdge
    PROVE  /\ BuildInv'
           /\ stage = "edges" /\ stage' = "edges" /\ UNCHANGED <<numVertices, before, gone, place>>
           /\ Linked(Live, twin, next, prev, vertex0, cell)
           /\ Null \notin Live /\ Null \notin Live'
           /\ \E new, old :
                /\ Moved(Live, Live', new, old, twin, next, prev, vertex0, cell,
                         twin', next', prev', vertex0', cell')
                /\ origin \in [Edge -> Nat] =>
                     /\ origin' \in [Edge' -> Nat]
                     /\ \A g \in Live' : origin'[g] = origin[old[g]]
<1> DEFINE t == it + 1
           p == slot + 1
           L == Live
           M == Live'
<1>1. /\ stage = "edges" /\ stage' = "edges" /\ it <= numEdges
      /\ it' = it + 2 /\ slot' = slot + 2
      /\ numEdges' = numEdges /\ numVertices' = numVertices /\ cells' = cells
  BY DEF KeepEdge
<1>2. /\ GraphTypeOK /\ it \in Nat \ {0} /\ slot \in Nat \ {0} /\ numEdges \in Nat
      /\ slot <= it /\ slot % 2 = 1 /\ it % 2 = 1 /\ numEdges % 2 = 0
      /\ \A e \in it..numEdges : e % 2 = 1 => twin[e] = e + 1
  BY <1>1, TypeFacts DEF BuildInv, BuildTypes, EdgesInv
<1>3. /\ Linked(L, twin, next, prev, vertex0, cell)
      /\ EndsOpen(L, twin, next, prev, vertex0)
  BY <1>1 DEF BuildInv, LinksInv, EndsInv
<1>4. /\ L = (1..(slot - 1)) \cup (it..numEdges)
      /\ M = (1..(slot + 1)) \cup ((it + 2)..numEdges)
  <2>1. (slot + 2) - 1 = slot + 1
    BY <1>2
  <2> QED BY <1>1, <2>1 DEF Live
<1>5. it + 1 <= numEdges /\ (it + 2) % 2 = 1 /\ (slot + 2) % 2 = 1
  BY <1>1, <1>2
<1>6. EdgesInv'
  <2>1. slot + 2 <= it + 2 /\ it + 2 <= numEdges + 1
    BY <1>2, <1>5
  <2>2. \A e \in (it + 2)..numEdges : e % 2 = 1 => twin[e] = e + 1
    BY <1>2
  <2>3. \A e \in (it + 2)..numEdges : twin'[e] = twin[e]
    <3>1. CASE twin' = twin
      BY <3>1
    <3>2. CASE twin' = [twin EXCEPT ![slot] = slot + 1, ![slot + 1] = slot]
      <4>1. twin \in [1..numEdges -> 1..numEdges]
        BY <1>2, TypeFacts
      <4>2. \A e \in (it + 2)..numEdges : e \in 1..numEdges /\ e # slot /\ e # slot + 1
        BY <1>2
      <4> QED BY <3>2, <4>1, <4>2
    <3> QED BY <3>1, <3>2 DEF KeepEdge
  <2> QED BY <1>1, <1>2, <1>5, <2>1, <2>2, <2>3 DEF EdgesInv
<1>7. IncidentInv' /\ VerticesInv'
  BY <1>1 DEF IncidentInv, VerticesInv
<1>8. stage' \in Stages \ {"sweep"} /\ it' \in Nat \ {0} /\ slot' \in Nat \ {0}
  BY <1>1, <1>2 DEF Stages
<1>9. CASE it = slot
  <2>1. UNCHANGED <<cell, twin, vertex0, next, prev>>
    BY <1>9 DEF KeepEdge
  <2>2. M = L
    BY <1>2, <1>4, <1>5, <1>9
  <2>3. LinksInv' /\ EndsInv'
    BY <1>1, <1>3, <2>1, <2>2 DEF LinksInv, EndsInv
  <2>4. GraphTypeOK'
    BY <1>1, <1>2, <2>1 DEF GraphTypeOK, Edge
  <2>5. BuildInv'
    BY <1>6, <1>7, <1>8, <2>3, <2>4 DEF BuildInv, BuildTypes
  <2>6. Null \notin L /\ \A f \in L : twin[f] \in L /\ (next[f] # Null => next[f] \in L)
                                                  /\ (prev[f] # Null => prev[f] \in L)
    BY <1>3, LiveFacts DEF Linked, TwinsIn, LinksIn
  <2> DEFINE id == [f \in L |-> f]
  <2>7. Moved(L, L, id, id, twin, next, prev, vertex0, cell, twin, next, prev, vertex0, cell)
    BY <2>6 DEF Moved
  <2>8. Moved(L, M, id, id, twin, next, prev, vertex0, cell, twin', next', prev', vertex0', cell')
    BY <2>1, <2>2, <2>7
  <2>9. origin' = origin /\ Edge' = Edge /\ \A g \in M : id[g] = g
    BY <1>1, <1>9, <2>2 DEF KeepEdge, Edge
  <2>10. UNCHANGED <<before, gone, place>>
    BY DEF KeepEdge
  <2>11. \E new, old :
                /\ Moved(L, M, new, old, twin, next, prev, vertex0, cell,
                         twin', next', prev', vertex0', cell')
                /\ origin \in [Edge -> Nat] =>
                     /\ origin' \in [Edge' -> Nat]
                     /\ \A g \in M : origin'[g] = origin[old[g]]
    <3> HIDE DEF id, L, M
    <3> QED BY <2>8, <2>9
  <2> QED BY <1>1, <1>3, <2>2, <2>5, <2>6, <2>10, <2>11
<1>10. CASE it # slot
  <2>1. /\ cell' = Copied(cell) /\ vertex0' = Copied(vertex0)
        /\ twin' = [twin EXCEPT ![slot] = p, ![p] = slot]
        /\ next' = RelinkNext /\ prev' = RelinkPrev
    BY <1>10 DEF KeepEdge
  <2>2. /\ slot + 1 < it /\ slot \in 1..numEdges /\ p \in 1..numEdges
        /\ it \in 1..numEdges /\ t \in 1..numEdges
        /\ it \in L /\ t \in L /\ slot \in M /\ p \in M /\ slot # p /\ it # t
        /\ slot \notin L /\ p \notin L /\ it \notin M /\ t \notin M
        /\ \A f \in L : f # it /\ f # t => f \in M
        /\ \A g \in M : g # slot /\ g # p => g \in L
    BY <1>1, <1>2, <1>4, <1>5, <1>10
  <2>3. /\ cell \in [1..numEdges -> Site]
        /\ twin \in [1..numEdges -> 1..numEdges]
        /\ vertex0 \in [1..numEdges -> 0..numVertices]
        /\ next \in [1..numEdges -> 0..numEdges]
        /\ prev \in [1..numEdges -> 0..numEdges]
    BY <1>2, TypeFacts
  <2>4. L \subseteq 1..numEdges /\ Null \notin L /\ M \subseteq 1..numEdges /\ Null \notin M
    BY <1>1, <1>2, <1>4, <1>5 DEF Null
  <2> HIDE DEF t, p, L, M
  <2>5. /\ TwinsIn(L, twin, cell) /\ LinksIn(L, twin, next, prev, vertex0, cell)
        /\ EndsLinked(L, twin, next, prev, vertex0) /\ NoLoops(L, twin, vertex0)
    BY <1>3 DEF Linked
  <2>6. twin[it] = t /\ twin[t] = it
    <3>1. it \in it..numEdges
      BY <1>1, <1>2
    <3> QED BY <1>2, <2>2, <2>5, <3>1 DEF TwinsIn, t
  <2>7. \A x \in {it, t} : /\ prev[x] # it /\ prev[x] # t /\ next[x] # it /\ next[x] # t
    <3>1. \A x \in L : /\ next[x] # Null => cell[next[x]] = cell[x] /\ vertex0[next[x]] = vertex0[twin[x]]
                       /\ prev[x] # Null => prev[x] \in L /\ next[prev[x]] = x
                       /\ vertex0[x] # Null => vertex0[twin[x]] # vertex0[x]
                       /\ cell[twin[x]] # cell[x]
                       /\ next[x] # Null => vertex0[twin[x]] # Null
      BY <1>3, <2>5 DEF TwinsIn, LinksIn, NoLoops, EndsOpen
    <3>2. \A x \in L : next[x] # Null => next[x] # x /\ next[x] # twin[x]
      BY <3>1
    <3>3. \A x \in {it, t} : next[x] # it /\ next[x] # t
      BY <2>2, <2>4, <2>6, <3>2
    <3> QED BY <2>2, <2>4, <3>1, <3>3
  <2>8. (prev[t] # Null <=> next[it] # Null) /\ (prev[it] # Null <=> next[t] # Null)
    BY <1>3, <2>2, <2>5, <2>6 DEF EndsLinked, EndsOpen
  <2> DEFINE new == [f \in L |-> IF f = it THEN slot ELSE IF f = t THEN p ELSE f]
             old == [g \in M |-> IF g = slot THEN it ELSE IF g = p THEN t ELSE g]
  <2>9. /\ \A f \in L : new[f] \in M /\ old[new[f]] = f
        /\ \A g \in M : old[g] \in L /\ new[old[g]] = g
    BY <2>2
  <2>10. /\ \A g \in M : cell'[g] = cell[old[g]] /\ vertex0'[g] = vertex0[old[g]]
         /\ cell' \in [1..numEdges -> Site] /\ vertex0' \in [1..numEdges -> 0..numVertices]
    BY <2>1, <2>2, <2>3, <2>4 DEF Copied, t, p
  <2>11. /\ \A g \in M : twin'[g] = new[twin[old[g]]]
         /\ twin' \in [1..numEdges -> 1..numEdges]
    <3>1. \A g \in 1..numEdges : twin'[g] = IF g = slot THEN p ELSE IF g = p THEN slot ELSE twin[g]
      BY <2>1, <2>2, <2>3
    <3>2. twin' \in [1..numEdges -> 1..numEdges]
      BY <2>1, <2>2, <2>3
    <3>3. new[it] = slot /\ new[t] = p /\ old[slot] = it /\ old[p] = t
      BY <2>2
    <3>4. ASSUME NEW g \in M, g # slot, g # p PROVE twin'[g] = new[twin[old[g]]]
      <4>1. g \in L /\ old[g] = g /\ g # it /\ g # t /\ twin'[g] = twin[g]
        BY <2>2, <2>4, <3>1, <3>4
      <4>2. twin[g] \in L /\ twin[g] # it /\ twin[g] # t
        BY <2>2, <2>5, <2>6, <4>1 DEF TwinsIn
      <4>3. new[twin[g]] = twin[g]
        BY <4>2
      <4> QED BY <4>1, <4>3
    <3>5. twin'[slot] = p /\ twin'[p] = slot
      BY <2>2, <3>1
    <3> HIDE DEF new, old
    <3> QED BY <2>6, <3>2, <3>3, <3>4, <3>5
  <2>12. /\ \A g \in M : next'[g] = IF next[old[g]] = Null THEN Null ELSE new[next[old[g]]]
         /\ next' \in [1..numEdges -> 0..numEdges]
    <3>1. \A g \in 1..numEdges : Copied(next)[g] = IF g = slot THEN next[it]
                                                   ELSE IF g = p THEN next[t] ELSE next[g]
      BY <2>2, <2>3 DEF Copied, t, p
    <3>2. \A g \in 1..numEdges : next'[g] = IF g = prev[it] THEN slot
                                            ELSE IF g = prev[t] THEN p ELSE Copied(next)[g]
      BY <2>1 DEF RelinkNext, t, p, Edge
    <3>3. next' \in [1..numEdges -> 0..numEdges]
      <4>1. \A g \in 1..numEdges : Copied(next)[g] \in 0..numEdges
        BY <2>2, <2>3, <3>1
      <4>2. slot \in 0..numEdges /\ p \in 0..numEdges
        BY <2>2
      <4>3. next' = [g \in 1..numEdges |-> IF g = prev[it] THEN slot
                                            ELSE IF g = prev[t] THEN p ELSE Copied(next)[g]]
        BY <2>1 DEF RelinkNext, t, p, Edge
      <4> QED BY <4>1, <4>2, <4>3
    <3>4. \A x \in L : /\ prev[x] # Null => prev[x] \in L /\ next[prev[x]] = x
                       /\ next[x] # Null => next[x] \in L /\ prev[next[x]] = x
      BY <2>5 DEF LinksIn
    <3>5. ASSUME NEW g \in M
          PROVE  next'[g] = IF next[old[g]] = Null THEN Null ELSE new[next[old[g]]]
      <4>1. CASE g = slot
        <5>1. next'[g] = next[it]
          BY <2>2, <2>4, <3>1, <3>2, <3>4, <4>1
        <5>2. next[it] # Null => new[next[it]] = next[it]
          BY <2>2, <2>7, <3>4
        <5> QED BY <2>2, <4>1, <5>1, <5>2
      <4>2. CASE g = p
        <5>1. next'[g] = next[t]
          BY <2>2, <2>4, <3>1, <3>2, <3>4, <4>2
        <5>2. next[t] # Null => new[next[t]] = next[t]
          BY <2>2, <2>7, <3>4
        <5> QED BY <2>2, <4>2, <5>1, <5>2
      <4>3. CASE g # slot /\ g # p
        <5>1. g \in L /\ g # it /\ g # t /\ old[g] = g /\ g \in 1..numEdges /\ g # Null
          BY <2>2, <2>4, <4>3
        <5>2. (g = prev[it] <=> next[g] = it) /\ (g = prev[t] <=> next[g] = t)
          BY <2>2, <2>4, <3>4, <5>1
        <5>3. CASE next[g] = it
          <6>1. next'[g] = slot /\ new[it] = slot /\ it # Null
            BY <2>2, <2>4, <3>2, <5>1, <5>2, <5>3
          <6> QED BY <5>1, <5>3, <6>1
        <5>4. CASE next[g] = t
          <6>1. next'[g] = p /\ new[t] = p /\ t # Null
            BY <2>2, <2>4, <3>2, <5>1, <5>2, <5>4
          <6> QED BY <5>1, <5>4, <6>1
        <5>5. CASE next[g] # it /\ next[g] # t
          <6>1. next'[g] = next[g]
            BY <3>1, <3>2, <4>3, <5>1, <5>2, <5>5
          <6>2. next[g] # Null => new[next[g]] = next[g]
            BY <3>4, <5>1, <5>5
          <6> QED BY <5>1, <6>1, <6>2
        <5> QED BY <5>3, <5>4, <5>5
      <4> QED BY <4>1, <4>2, <4>3
    <3> QED BY <3>3, <3>5
  <2>13. /\ \A g \in M : prev'[g] = IF prev[old[g]] = Null THEN Null ELSE new[prev[old[g]]]
         /\ prev' \in [1..numEdges -> 0..numEdges]
    <3>1. \A g \in 1..numEdges : Copied(prev)[g] = IF g = slot THEN prev[it]
                                                   ELSE IF g = p THEN prev[t] ELSE prev[g]
      BY <2>2, <2>3 DEF Copied, t, p
    <3>2. prev' = [g \in 1..numEdges |-> IF prev[t] # Null /\ g = next[it] THEN slot
                                         ELSE IF prev[it] # Null /\ g = next[t] THEN p
                                         ELSE Copied(prev)[g]]
      BY <2>1 DEF RelinkPrev, t, p, Edge
    <3>3. prev' \in [1..numEdges -> 0..numEdges]
      <4>1. \A g \in 1..numEdges : Copied(prev)[g] \in 0..numEdges
        BY <2>2, <2>3, <3>1
      <4>2. slot \in 0..numEdges /\ p \in 0..numEdges
        BY <2>2
      <4> QED BY <3>2, <4>1, <4>2
    <3>4. \A x \in L : /\ prev[x] # Null => prev[x] \in L /\ next[prev[x]] = x
                       /\ next[x] # Null => next[x] \in L /\ prev[next[x]] = x
      BY <2>5 DEF LinksIn
    <3>6. \A g \in M : g # Null /\ g \in 1..numEdges
      BY <2>4
    <3>7. \A g \in M : prev'[g] = IF g = next[it] THEN slot
                                  ELSE IF g = next[t] THEN p ELSE Copied(prev)[g]
      BY <2>8, <3>2, <3>6
    <3>5. ASSUME NEW g \in M
          PROVE  prev'[g] = IF prev[old[g]] = Null THEN Null ELSE new[prev[old[g]]]
      <4>1. CASE g = slot
        <5>1. prev'[g] = prev[it]
          BY <2>2, <2>4, <3>1, <3>7, <3>4, <4>1
        <5>2. prev[it] # Null => new[prev[it]] = prev[it]
          BY <2>2, <2>7, <3>4
        <5> QED BY <2>2, <4>1, <5>1, <5>2
      <4>2. CASE g = p
        <5>1. prev'[g] = prev[t]
          BY <2>2, <2>4, <3>1, <3>7, <3>4, <4>2
        <5>2. prev[t] # Null => new[prev[t]] = prev[t]
          BY <2>2, <2>7, <3>4
        <5> QED BY <2>2, <4>2, <5>1, <5>2
      <4>3. CASE g # slot /\ g # p
        <5>1. g \in L /\ g # it /\ g # t /\ old[g] = g /\ g \in 1..numEdges /\ g # Null
          BY <2>2, <2>4, <4>3
        <5>2. (g = next[it] <=> prev[g] = it) /\ (g = next[t] <=> prev[g] = t)
          BY <2>2, <2>4, <3>4, <5>1
        <5>3. CASE prev[g] = it
          <6>1. prev'[g] = slot /\ new[it] = slot /\ it # Null
            BY <2>2, <2>4, <3>7, <5>1, <5>2, <5>3
          <6> QED BY <5>1, <5>3, <6>1
        <5>4. CASE prev[g] = t
          <6>1. prev'[g] = p /\ new[t] = p /\ t # Null
            BY <2>2, <2>4, <3>7, <5>1, <5>2, <5>4
          <6> QED BY <5>1, <5>4, <6>1
        <5>5. CASE prev[g] # it /\ prev[g] # t
          <6>1. prev'[g] = prev[g]
            BY <3>1, <3>7, <4>3, <5>1, <5>2, <5>5
          <6>2. prev[g] # Null => new[prev[g]] = prev[g]
            BY <3>4, <5>1, <5>5
          <6> QED BY <5>1, <6>1, <6>2
        <5> QED BY <5>3, <5>4, <5>5
      <4> QED BY <4>1, <4>2, <4>3
    <3> QED BY <3>3, <3>5
  <2>14. Linked(M, twin', next', prev', vertex0', cell') /\ EndsOpen(M, twin', next', prev', vertex0')
    <3>1. Null \notin L /\ Null \notin M
      BY <2>4
    <3> HIDE DEF new, old
    <3>2. Moved(L, M, new, old, twin, next, prev, vertex0, cell,
                twin', next', prev', vertex0', cell')
      BY <2>9, <2>10, <2>11, <2>12, <2>13 DEF Moved
    <3> QED BY <1>3, <3>1, <3>2, MovedPair
  <2>15. LinksInv' /\ EndsInv'
    BY <1>1, <2>14 DEF LinksInv, EndsInv, M
  <2>16. GraphTypeOK'
    BY <1>1, <1>2, <2>10, <2>11, <2>12, <2>13 DEF GraphTypeOK, Edge
  <2>17. BuildInv'
    BY <1>6, <1>7, <1>8, <2>15, <2>16 DEF BuildInv, BuildTypes
  <2>18. UNCHANGED <<before, gone, place>> /\ origin' = Copied(origin)
    BY <1>10 DEF KeepEdge
  <2>19. ASSUME origin \in [Edge -> Nat]
         PROVE  origin' \in [Edge' -> Nat] /\ \A g \in M : origin'[g] = origin[old[g]]
    <3>1. \A g \in 1..numEdges : origin'[g] = IF g = slot THEN origin[it]
                                              ELSE IF g = p THEN origin[t] ELSE origin[g]
      BY <2>2, <2>18, <2>19 DEF Copied, Edge, t, p
    <3>2. origin' \in [1..numEdges -> Nat]
      <4>1. origin[it] \in Nat /\ origin[t] \in Nat
        BY <2>2, <2>19 DEF Edge
      <4> QED BY <2>2, <2>18, <2>19, <4>1 DEF Copied, Edge, t, p
    <3>3. \A g \in M : origin'[g] = origin[old[g]]
      BY <2>4, <3>1
    <3> QED BY <1>1, <3>2, <3>3 DEF Edge
  <2>20. \E n, o :
                /\ Moved(L, M, n, o, twin, next, prev, vertex0, cell,
                         twin', next', prev', vertex0', cell')
                /\ origin \in [Edge -> Nat] =>
                     /\ origin' \in [Edge' -> Nat]
                     /\ \A g \in M : origin'[g] = origin[o[g]]
    <3>1. Moved(L, M, new, old, twin, next, prev, vertex0, cell,
                twin', next', prev', vertex0', cell')
      <4> HIDE DEF new, old
      <4> QED BY <2>9, <2>10, <2>11, <2>12, <2>13 DEF Moved
    <3> HIDE DEF new, old
    <3> QED BY <2>19, <3>1
  <2> QED BY <1>1, <1>3, <2>4, <2>17, <2>18, <2>20 DEF L, M
<1> QED BY <1>9, <1>10

(* The steps of _build that remove no half-edge keep its invariant, one     *)
(* lemma for each.                                                          *)
LEMMA EraseEdgesKeeps == BuildInv /\ EraseEdges => BuildInv'
<1> SUFFICES ASSUME BuildInv, EraseEdges PROVE BuildInv'
  OBVIOUS
<1> DEFINE m == slot - 1
<1>1. /\ stage = "edges" /\ stage' = "incident" /\ it > numEdges /\ numEdges' = m
      /\ it' = it /\ slot' = slot /\ numVertices' = numVertices /\ cells' = cells
      /\ cell' = [e \in 1..m |-> cell[e]] /\ twin' = [e \in 1..m |-> twin[e]]
      /\ vertex0' = [e \in 1..m |-> vertex0[e]]
      /\ next' = [e \in 1..m |-> next[e]] /\ prev' = [e \in 1..m |-> prev[e]]
  BY DEF EraseEdges
<1>2. /\ GraphTypeOK /\ it \in Nat \ {0} /\ slot \in Nat \ {0} /\ numEdges \in Nat
      /\ slot <= it /\ it <= numEdges + 1
  BY <1>1, TypeFacts DEF BuildInv, BuildTypes, EdgesInv
<1>3. /\ Linked(Live, twin, next, prev, vertex0, cell)
      /\ EndsOpen(Live, twin, next, prev, vertex0)
  BY <1>1 DEF BuildInv, LinksInv, EndsInv
<1>4. Live = 1..m /\ Null \notin Live /\ m \in Nat /\ 1..m \subseteq 1..numEdges
  BY <1>1, <1>2 DEF Live, Null
<1>5. Live' = 1..m
  BY <1>1 DEF Live, Edge
<1>6. /\ \A e \in 1..m : /\ cell[e] \in Site /\ vertex0[e] \in 0..numVertices
                         /\ twin[e] \in 1..m /\ next[e] \in 0..m /\ prev[e] \in 0..m
  <2>1. /\ TwinsIn(Live, twin, cell) /\ LinksIn(Live, twin, next, prev, vertex0, cell)
    BY <1>3 DEF Linked
  <2>2. \A e \in 1..m : twin[e] \in 1..m /\ (next[e] # 0 => next[e] \in 1..m)
                                         /\ (prev[e] # 0 => prev[e] \in 1..m)
    BY <1>4, <2>1 DEF TwinsIn, LinksIn, Null
  <2> HIDE DEF m
  <2> SUFFICES ASSUME NEW e \in 1..m
               PROVE  /\ cell[e] \in Site /\ vertex0[e] \in 0..numVertices
                      /\ twin[e] \in 1..m /\ next[e] \in 0..m /\ prev[e] \in 0..m
    OBVIOUS
  <2>3. e \in 1..numEdges
    BY <1>4
  <2>4. \A x \in 1..m : x \in 0..m
    BY <1>4
  <2>5. 0 \in 0..m
    BY <1>4
  <2>6. cell[e] \in Site /\ vertex0[e] \in 0..numVertices
    BY <1>2, <2>3, TypeFacts
  <2> QED BY <2>2, <2>4, <2>5, <2>6
<1> HIDE DEF m
<1>7. GraphTypeOK'
  BY <1>1, <1>2, <1>4, <1>6 DEF GraphTypeOK, Edge
<1>8. /\ Linked(Live', twin', next', prev', vertex0', cell')
      /\ EndsOpen(Live', twin', next', prev', vertex0')
  <2>1. Same(Live, twin, next, prev, vertex0, cell, twin', next', prev', vertex0', cell')
    BY <1>1, <1>4 DEF Same
  <2>2. Live' = Live
    BY <1>4, <1>5
  <2>3. /\ Linked(Live, twin', next', prev', vertex0', cell')
        /\ EndsOpen(Live, twin', next', prev', vertex0')
    BY <1>3, <1>4, <2>1, SameColumns
  <2> QED BY <2>2, <2>3
<1>9. stage' \in Stages \ {"sweep"} /\ it' \in Nat \ {0} /\ slot' \in Nat \ {0}
  BY <1>1, <1>2 DEF Stages
<1> QED BY <1>1, <1>7, <1>8, <1>9
        DEF BuildInv, BuildTypes, LinksInv, EndsInv, EdgesInv, IncidentInv, VerticesInv

LEMMA SetIncidentEdgesKeeps == BuildInv /\ SetIncidentEdges => BuildInv'
<1> SUFFICES ASSUME BuildInv, SetIncidentEdges PROVE BuildInv'
  OBVIOUS
<1>1. /\ stage = "incident" /\ stage' = "vertices" /\ it' = 1 /\ slot' = 1
      /\ UNCHANGED graphVars
      /\ cellEdge' = [c \in DOMAIN cells |-> LastOf({e \in Edge : cell[e] = c})]
      /\ vertexEdge' = [v \in 1..numVertices |-> LastOf({e \in Edge : vertex0[e] = v})]
  BY DEF SetIncidentEdges
<1>2. GraphTypeOK /\ numEdges \in Nat /\ numVertices \in Nat
  BY TypeFacts DEF BuildInv, BuildTypes
<1>3. BuildTypes'
  <2>1. GraphTypeOK'
    BY <1>1, <1>2 DEF GraphTypeOK, graphVars, Edge
  <2> QED BY <1>1, <2>1 DEF BuildTypes, Stages
<1>4. Live' = Live
  BY <1>1 DEF Live, Edge, graphVars
<1>5. LinksInv' /\ EndsInv' /\ EdgesInv'
  BY <1>1, <1>4 DEF BuildInv, LinksInv, EndsInv, EdgesInv, graphVars
<1>6. IncidentInv'
  <2>1. \A c \in DOMAIN cells : LastOf({e \in Edge : cell[e] = c}) \in 0..numEdges
    <3> SUFFICES ASSUME NEW c \in DOMAIN cells
                 PROVE  LastOf({e \in Edge : cell[e] = c}) \in 0..numEdges
      OBVIOUS
    <3>1. {e \in Edge : cell[e] = c} \in SUBSET (1..numEdges)
      BY DEF Edge
    <3> QED BY <1>2, <3>1, LastOfFacts
  <2>2. cellEdge' \in [DOMAIN cells -> 0..numEdges]
    BY <1>1, <2>1
  <2> QED BY <1>1, <2>2 DEF IncidentInv, graphVars
<1>7. VerticesInv'
  <2>1. ASSUME NEW v \in 1..numVertices
        PROVE  /\ vertexEdge'[v] \in 0..numEdges
               /\ vertexEdge'[v] = Null => \A e \in Edge : vertex0[e] # v
               /\ vertexEdge'[v] # Null => vertex0[vertexEdge'[v]] = v
    <3> DEFINE S == {e \in Edge : vertex0[e] = v}
    <3>1. S \in SUBSET (1..numEdges)
      BY DEF Edge
    <3>2. vertexEdge'[v] = LastOf(S)
      BY <1>1
    <3>3. /\ LastOf(S) \in 0..numEdges
          /\ S = {} => LastOf(S) = 0
          /\ S # {} => LastOf(S) \in S
      <4> HIDE DEF S
      <4> QED BY <1>2, <3>1, LastOfFacts
    <3>4. S # {} => LastOf(S) # 0
      BY <3>1, <3>3
    <3> QED BY <3>2, <3>3, <3>4 DEF Null
  <2>2. vertexEdge' \in [1..numVertices -> 0..numEdges]
    BY <1>1, <2>1
  <2>3. \A e \in Edge : vertex0[e] < 1 \/ vertex0[e] >= 1
    BY <1>2, TypeFacts DEF Edge
  <2>4. \A v \in 1..(1 - 1) : FALSE
    OBVIOUS
  <2>5. 1 <= numVertices + 1
    BY <1>2
  <2> HIDE DEF Null
  <2>6. /\ vertexEdge' \in [1..numVertices' -> 0..numEdges']
        /\ \A e \in Edge' : vertex0'[e] < slot' \/ vertex0'[e] >= it'
        /\ \A v \in 1..(slot' - 1) : FALSE
        /\ slot' <= it' /\ it' <= numVertices' + 1
    BY <1>1, <2>2, <2>3, <2>4, <2>5 DEF graphVars, Edge
  <2>7. \A v \in it'..numVertices' : IF vertexEdge'[v] = Null THEN \A e \in Edge' : vertex0'[e] # v
                                     ELSE vertex0'[vertexEdge'[v]] = v
    BY <1>1, <2>1 DEF graphVars, Edge
  <2> QED BY <2>6, <2>7 DEF VerticesInv
<1> QED BY <1>3, <1>5, <1>6, <1>7 DEF BuildInv

LEMMA SkipVertexKeeps == BuildInv /\ SkipVertex => BuildInv'
<1> SUFFICES ASSUME BuildInv, SkipVertex PROVE BuildInv'
  OBVIOUS
<1>1. /\ stage = "vertices" /\ stage' = "vertices" /\ it <= numVertices /\ vertexEdge[it] = Null
      /\ it' = it + 1 /\ slot' = slot /\ UNCHANGED graphVars
      /\ cellEdge' = cellEdge /\ vertexEdge' = vertexEdge
  BY DEF SkipVertex
<1>2. /\ GraphTypeOK /\ numEdges \in Nat /\ numVertices \in Nat /\ it \in Nat \ {0} /\ slot \in Nat \ {0}
  BY TypeFacts DEF BuildInv, BuildTypes
<1>3. BuildTypes'
  <2>1. GraphTypeOK'
    BY <1>1, <1>2 DEF GraphTypeOK, graphVars, Edge
  <2> QED BY <1>1, <1>2, <2>1 DEF BuildTypes, Stages
<1>4. Live' = Live
  BY <1>1 DEF Live, Edge, graphVars
<1>5. LinksInv' /\ EndsInv' /\ EdgesInv' /\ IncidentInv'
  BY <1>1, <1>4 DEF BuildInv, LinksInv, EndsInv, EdgesInv, IncidentInv, graphVars
<1>6. /\ slot <= it /\ vertexEdge \in [1..numVertices -> 0..numEdges]
      /\ \A e \in Edge : vertex0[e] < slot \/ vertex0[e] >= it
      /\ \A v \in 1..(slot - 1) : vertexEdge[v] # Null /\ vertex0[vertexEdge[v]] = v
      /\ \A v \in it..numVertices : IF vertexEdge[v] = Null THEN \A e \in Edge : vertex0[e] # v
                                    ELSE vertex0[vertexEdge[v]] = v
  BY <1>1 DEF BuildInv, VerticesInv
<1>7. \A e \in Edge : vertex0[e] < slot \/ vertex0[e] >= it + 1
  <2>1. \A e \in Edge : vertex0[e] # it /\ vertex0[e] \in Int
    <3>1. \A e \in Edge : vertex0[e] \in Int
      BY <1>2, TypeFacts DEF Edge
    <3>2. it \in it..numVertices
      BY <1>1, <1>2
    <3> QED BY <1>1, <1>6, <3>1, <3>2
  <2> QED BY <1>2, <1>6, <2>1
<1>8. VerticesInv'
  <2>1. slot <= it + 1 /\ it + 1 <= numVertices + 1 /\ (it + 1)..numVertices \subseteq it..numVertices
    BY <1>1, <1>2, <1>6
  <2> QED BY <1>1, <1>6, <1>7, <2>1 DEF VerticesInv, graphVars, Edge
<1> QED BY <1>3, <1>5, <1>8 DEF BuildInv

(* A vertex that is kept moves to its new place with the half-edges that    *)
(* start at it, and with no others.                                        *)
LEMMA KeepVertexEffect ==
    ASSUME BuildInv, KeepVertex
    PROVE  /\ vertexEdge[it] \in Edge /\ vertex0[vertexEdge[it]] = it
           /\ it \in 1..numVertices /\ slot \in 1..numVertices
           /\ \A e \in Edge : vertex0[e] \in 0..numVertices
           /\ \A e \in Edge : vertex0'[e] = IF vertex0[e] = it THEN slot ELSE vertex0[e]
           /\ vertex0' \in [Edge -> 0..numVertices]
           /\ vertexEdge' \in [1..numVertices -> 0..numEdges]
           /\ vertexEdge'[slot] = vertexEdge[it]
           /\ \A v \in 1..numVertices : v # slot => vertexEdge'[v] = vertexEdge[v]
           /\ it # slot => \A e \in Edge : vertex0[e] # slot
<1>1. /\ stage = "vertices" /\ stage' = "vertices" /\ it <= numVertices /\ vertexEdge[it] # Null
      /\ it' = it + 1 /\ slot' = slot + 1
      /\ UNCHANGED <<cells, numVertices, numEdges, cell, twin, next, prev>>
      /\ cellEdge' = cellEdge
  BY DEF KeepVertex
<1>2. /\ GraphTypeOK /\ numEdges \in Nat /\ numVertices \in Nat /\ it \in Nat \ {0} /\ slot \in Nat \ {0}
      /\ vertex0 \in [Edge -> 0..numVertices]
  BY TypeFacts DEF BuildInv, BuildTypes, Edge
<1>3. /\ slot <= it /\ vertexEdge \in [1..numVertices -> 0..numEdges]
      /\ \A e \in Edge : vertex0[e] < slot \/ vertex0[e] >= it
      /\ \A v \in 1..(slot - 1) : vertexEdge[v] # Null /\ vertex0[vertexEdge[v]] = v
      /\ \A v \in it..numVertices : IF vertexEdge[v] = Null THEN \A e \in Edge : vertex0[e] # v
                                    ELSE vertex0[vertexEdge[v]] = v
  BY <1>1 DEF BuildInv, VerticesInv
<1>4. Live = Edge /\ Live' = Edge
  BY <1>1 DEF Live, Edge
<1>5. Linked(Edge, twin, next, prev, vertex0, cell) /\ EndsOpen(Edge, twin, next, prev, vertex0)
  BY <1>1, <1>4 DEF BuildInv, LinksInv, EndsInv
<1>6. /\ vertexEdge[it] \in Edge /\ vertex0[vertexEdge[it]] = it
      /\ it \in 1..numVertices /\ slot \in 1..numVertices
  <2>1. it \in 1..numVertices /\ slot \in 1..numVertices /\ it \in it..numVertices
    BY <1>1, <1>2, <1>3
  <2>2. vertexEdge[it] \in 0..numEdges
    BY <1>3, <2>1
  <2>3. vertexEdge[it] \in Edge
    BY <1>1, <1>2, <2>2 DEF Edge, Null
  <2> QED BY <1>1, <1>3, <2>1, <2>3
<1>7. \A e \in Edge : vertex0[e] \in 0..numVertices
  BY <1>2
<1>8. /\ \A e \in Edge : vertex0'[e] = IF vertex0[e] = it THEN slot ELSE vertex0[e]
      /\ vertex0' \in [Edge -> 0..numVertices]
      /\ vertexEdge' \in [1..numVertices -> 0..numEdges]
      /\ vertexEdge'[slot] = vertexEdge[it]
      /\ \A v \in 1..numVertices : v # slot => vertexEdge'[v] = vertexEdge[v]
  <2>1. CASE it = slot
    <3>1. vertex0' = vertex0 /\ vertexEdge' = vertexEdge
      BY <2>1 DEF KeepVertex
    <3> QED BY <1>2, <1>3, <2>1, <3>1
  <2>2. CASE it # slot
    <3>1. /\ vertexEdge' = [vertexEdge EXCEPT ![slot] = vertexEdge[it]]
          /\ vertex0' = Follow(it)
      BY <2>2 DEF KeepVertex
    <3>2. Met(Turn, vertexEdge[it]) = Star(Edge, vertex0, vertexEdge[it])
      <4>1. vertex0[vertexEdge[it]] # Null
        BY <1>2, <1>6 DEF Null
      <4> QED BY <1>4, <1>5, <1>6, <4>1, StarMet
    <3>3. vertex0' = [e \in Edge |-> IF vertex0[e] = it THEN slot ELSE vertex0[e]]
      BY <1>6, <3>1, <3>2 DEF Follow, Star
    <3>4. slot \in 0..numVertices
      BY <1>6
    <3> QED BY <1>2, <1>3, <1>6, <1>7, <3>1, <3>3, <3>4
  <2> QED BY <2>1, <2>2
<1>9. it # slot => \A e \in Edge : vertex0[e] # slot
  BY <1>2, <1>3, <1>7
<1> QED BY <1>6, <1>7, <1>8, <1>9

LEMMA KeepVertexKeeps == BuildInv /\ KeepVertex => BuildInv'
<1> SUFFICES ASSUME BuildInv, KeepVertex PROVE BuildInv'
  OBVIOUS
<1>1. /\ stage = "vertices" /\ stage' = "vertices" /\ it <= numVertices /\ vertexEdge[it] # Null
      /\ it' = it + 1 /\ slot' = slot + 1
      /\ UNCHANGED <<cells, numVertices, numEdges, cell, twin, next, prev>>
      /\ cellEdge' = cellEdge
  BY DEF KeepVertex
<1>2. /\ GraphTypeOK /\ numEdges \in Nat /\ numVertices \in Nat /\ it \in Nat \ {0} /\ slot \in Nat \ {0}
      /\ vertex0 \in [Edge -> 0..numVertices]
  BY TypeFacts DEF BuildInv, BuildTypes, Edge
<1>3. /\ slot <= it /\ vertexEdge \in [1..numVertices -> 0..numEdges]
      /\ \A e \in Edge : vertex0[e] < slot \/ vertex0[e] >= it
      /\ \A v \in 1..(slot - 1) : vertexEdge[v] # Null /\ vertex0[vertexEdge[v]] = v
      /\ \A v \in it..numVertices : IF vertexEdge[v] = Null THEN \A e \in Edge : vertex0[e] # v
                                    ELSE vertex0[vertexEdge[v]] = v
  BY <1>1 DEF BuildInv, VerticesInv
<1>4. Live = Edge /\ Live' = Edge
  BY <1>1 DEF Live, Edge
<1>5. Linked(Edge, twin, next, prev, vertex0, cell) /\ EndsOpen(Edge, twin, next, prev, vertex0)
  BY <1>1, <1>4 DEF BuildInv, LinksInv, EndsInv
<1>6. /\ vertexEdge[it] \in Edge /\ vertex0[vertexEdge[it]] = it
      /\ it \in 1..numVertices /\ slot \in 1..numVertices
  BY KeepVertexEffect
<1>7. \A e \in Edge : vertex0[e] \in 0..numVertices
  BY KeepVertexEffect
<1>8. /\ \A e \in Edge : vertex0'[e] = IF vertex0[e] = it THEN slot ELSE vertex0[e]
      /\ vertex0' \in [Edge -> 0..numVertices]
      /\ vertexEdge' \in [1..numVertices -> 0..numEdges]
      /\ vertexEdge'[slot] = vertexEdge[it]
      /\ \A v \in 1..numVertices : v # slot => vertexEdge'[v] = vertexEdge[v]
  BY KeepVertexEffect
<1>9. Linked(Edge, twin, next, prev, vertex0', cell) /\ EndsOpen(Edge, twin, next, prev, vertex0')
  <2>1. CASE it = slot
    <3>1. vertex0' = vertex0
      BY <2>1 DEF KeepVertex
    <3> QED BY <1>5, <3>1
  <2>2. CASE it # slot
    <3>1. \A e \in Edge : vertex0[e] # slot
      BY <2>2, KeepVertexEffect
    <3>2. Renumbered(Edge, vertex0, it, slot, vertex0')
      BY <1>8, <3>1 DEF Renumbered
    <3>3. it # Null /\ slot # Null
      BY <1>2 DEF Null
    <3> QED BY <1>5, <3>2, <3>3, RenamedVertex
  <2> QED BY <2>1, <2>2
<1>10. LinksInv' /\ EndsInv' /\ EdgesInv'
  BY <1>1, <1>4, <1>9 DEF LinksInv, EndsInv, EdgesInv
<1>11. IncidentInv'
  BY <1>1 DEF BuildInv, IncidentInv
<1>12. BuildTypes'
  <2>1. GraphTypeOK'
    BY <1>1, <1>2, <1>8 DEF GraphTypeOK, Edge
  <2> QED BY <1>1, <1>2, <2>1 DEF BuildTypes, Stages
<1>13. VerticesInv'
  <2>1. slot + 1 <= it + 1 /\ it + 1 <= numVertices + 1
    BY <1>1, <1>2, <1>3
  <2>2. \A e \in Edge : vertex0'[e] < slot + 1 \/ vertex0'[e] >= it + 1
    <3> SUFFICES ASSUME NEW e \in Edge
                 PROVE  vertex0'[e] < slot + 1 \/ vertex0'[e] >= it + 1
      OBVIOUS
    <3>1. vertex0[e] \in Int /\ (vertex0[e] < slot \/ vertex0[e] >= it)
      BY <1>3, <1>7
    <3>2. CASE vertex0[e] = it
      <4>1. vertex0'[e] = slot
        BY <1>8, <3>2
      <4> QED BY <1>2, <4>1
    <3>3. CASE vertex0[e] # it
      <4>1. vertex0'[e] = vertex0[e]
        BY <1>8, <3>3
      <4> QED BY <1>2, <3>1, <3>3, <4>1
    <3> QED BY <3>2, <3>3
  <2>3. ASSUME NEW v \in 1..((slot + 1) - 1)
        PROVE  vertexEdge'[v] # Null /\ vertex0'[vertexEdge'[v]] = v
    <3>1. CASE v = slot
      BY <1>1, <1>6, <1>8, <3>1
    <3>2. CASE v # slot
      <4>1. v \in 1..(slot - 1) /\ v \in 1..numVertices /\ v # it
        BY <1>2, <1>3, <1>6, <3>2
      <4>2. vertexEdge'[v] = vertexEdge[v] /\ vertexEdge[v] # Null /\ vertex0[vertexEdge[v]] = v
        BY <1>3, <1>8, <3>2, <4>1
      <4>3. vertexEdge[v] \in 0..numEdges
        BY <1>3, <4>1
      <4>4. vertexEdge[v] \in Edge
        BY <1>2, <4>2, <4>3 DEF Edge, Null
      <4> QED BY <1>8, <4>1, <4>2, <4>4
    <3> QED BY <3>1, <3>2
  <2>4. ASSUME NEW v \in (it + 1)..numVertices
        PROVE  IF vertexEdge'[v] = Null THEN \A e \in Edge : vertex0'[e] # v
               ELSE vertex0'[vertexEdge'[v]] = v
    <3>1. v \in it..numVertices /\ v \in 1..numVertices /\ v # it /\ v # slot
      BY <1>2, <1>3
    <3>2. vertexEdge'[v] = vertexEdge[v] /\ vertexEdge[v] \in 0..numEdges
      BY <1>3, <1>8, <3>1
    <3>3. CASE vertexEdge[v] = Null
      BY <1>3, <1>8, <3>1, <3>2, <3>3
    <3>4. CASE vertexEdge[v] # Null
      <4>1. vertexEdge[v] \in Edge
        BY <1>2, <3>2, <3>4 DEF Edge, Null
      <4> QED BY <1>3, <1>8, <3>1, <3>2, <3>4, <4>1
    <3> QED BY <3>3, <3>4
  <2>5. /\ slot' <= it' /\ it' <= numVertices' + 1
        /\ vertexEdge' \in [1..numVertices' -> 0..numEdges']
        /\ \A e \in Edge' : vertex0'[e] < slot' \/ vertex0'[e] >= it'
    BY <1>1, <1>8, <2>1, <2>2 DEF Edge
  <2>6. \A v \in 1..(slot' - 1) : vertexEdge'[v] # Null /\ vertex0'[vertexEdge'[v]] = v
    BY <1>1, <2>3
  <2>7. \A v \in it'..numVertices' : IF vertexEdge'[v] = Null THEN \A e \in Edge' : vertex0'[e] # v
                                     ELSE vertex0'[vertexEdge'[v]] = v
    BY <1>1, <2>4 DEF Edge
  <2> QED BY <2>5, <2>6, <2>7 DEF VerticesInv
<1> QED BY <1>10, <1>11, <1>12, <1>13 DEF BuildInv

LEMMA EraseVerticesKeeps == BuildInv /\ EraseVertices => BuildInv'
<1> SUFFICES ASSUME BuildInv, EraseVertices PROVE BuildInv'
  OBVIOUS
<1>1. /\ stage = "vertices" /\ stage' = "infinite" /\ it > numVertices
      /\ numVertices' = slot - 1 /\ it' = 1 /\ slot' = 1
      /\ UNCHANGED <<cells, numEdges, cell, twin, vertex0, next, prev, cellEdge>>
  BY DEF EraseVertices
<1>2. /\ GraphTypeOK /\ numEdges \in Nat /\ numVertices \in Nat /\ it \in Nat \ {0} /\ slot \in Nat \ {0}
      /\ vertex0 \in [Edge -> 0..numVertices]
  BY TypeFacts DEF BuildInv, BuildTypes, Edge
<1>3. slot <= it /\ it <= numVertices + 1 /\ \A e \in Edge : vertex0[e] < slot \/ vertex0[e] >= it
  BY <1>1 DEF BuildInv, VerticesInv
<1>4. Live = Edge /\ Live' = Edge
  BY <1>1 DEF Live, Edge
<1>5. vertex0 \in [Edge -> 0..(slot - 1)]
  <2>1. \A e \in Edge : vertex0[e] \in 0..numVertices
    BY <1>2
  <2>2. \A e \in Edge : vertex0[e] \in 0..(slot - 1)
    BY <1>1, <1>2, <1>3, <2>1
  <2> QED BY <1>2, <2>2
<1>6. BuildTypes'
  <2>1. GraphTypeOK'
    <3>1. slot - 1 \in Nat
      BY <1>2
    <3> QED BY <1>1, <1>2, <1>5, <3>1 DEF GraphTypeOK, Edge
  <2> QED BY <1>1, <2>1 DEF BuildTypes, Stages
<1>7. LinksInv' /\ EndsInv' /\ EdgesInv' /\ IncidentInv' /\ VerticesInv'
  BY <1>1, <1>4 DEF BuildInv, LinksInv, EndsInv, EdgesInv, IncidentInv, VerticesInv
<1> QED BY <1>6, <1>7 DEF BuildInv

LEMMA LinkLinesKeeps == BuildInv /\ LinkLines => BuildInv'
<1> SUFFICES ASSUME BuildInv, LinkLines PROVE BuildInv'
  OBVIOUS
<1> DEFINE partner == [e \in Edge |-> IF e = 1 \/ e = numEdges THEN e
                                      ELSE IF e % 2 = 0 THEN e + 1 ELSE e - 1]
<1>1. /\ stage = "infinite" /\ stage' = "diagram" /\ numVertices = 0
      /\ next' = partner /\ prev' = partner
      /\ UNCHANGED <<cells, numVertices, numEdges, cell, twin, vertex0, cellEdge, it, slot>>
  BY DEF LinkLines
<1>2. GraphTypeOK /\ numEdges \in Nat
  BY TypeFacts DEF BuildInv, BuildTypes
<1>3. partner \in [Edge -> 0..numEdges]
  <2>1. \A e \in 1..numEdges : (IF e = 1 \/ e = numEdges THEN e
                                ELSE IF e % 2 = 0 THEN e + 1 ELSE e - 1) \in 0..numEdges
    BY <1>2
  <2> QED BY <2>1 DEF Edge
<1> HIDE DEF partner
<1>4. BuildTypes'
  <2>1. GraphTypeOK'
    BY <1>1, <1>2, <1>3 DEF GraphTypeOK, Edge
  <2> QED BY <1>1, <2>1 DEF BuildInv, BuildTypes, Stages
<1> QED BY <1>1, <1>4 DEF BuildInv, LinksInv, EndsInv, EdgesInv, IncidentInv, VerticesInv

(* Walks around a cell do not leave it. *)
LEMMA EndsInCell ==
    ASSUME BuildInv, Linked(Edge, twin, next, prev, vertex0, cell), Live = Edge,
           NEW e \in Edge
    PROVE  /\ \A f \in Ends(prev, e) : f \in Edge /\ prev[f] = Null /\ cell[f] = cell[e]
           /\ \A f \in Ends(next, e) : f \in Edge /\ next[f] = Null /\ cell[f] = cell[e]
<1> DEFINE S == {f \in Edge : cell[f] = cell[e]}
<1>1. LinksIn(Edge, twin, next, prev, vertex0, cell) /\ Null \notin Edge
  BY LiveFacts DEF Linked
<1>2. \A f \in S : /\ next[f] # Null => next[f] \in S
                   /\ prev[f] # Null => prev[f] \in S
  BY <1>1 DEF LinksIn
<1>3. /\ numEdges \in Nat /\ next \in [Edge -> 0..numEdges] /\ prev \in [Edge -> 0..numEdges]
  BY TypeFacts DEF BuildInv, BuildTypes, Edge
<1>4. S \in SUBSET Edge /\ e \in S
  OBVIOUS
<1>5. Met(prev, e) \subseteq S /\ Met(next, e) \subseteq S
  <2> HIDE DEF S
  <2> QED BY <1>2, <1>3, <1>4, MetFacts
<1> QED BY <1>5 DEF Ends

LEMMA LinkCellKeeps == BuildInv /\ LinkCell => BuildInv'
<1> SUFFICES ASSUME BuildInv, LinkCell PROVE BuildInv'
  OBVIOUS
<1>1. /\ stage = "infinite" /\ stage' = "infinite" /\ numVertices # 0 /\ it <= Len(cells)
      /\ it' = it + 1
      /\ UNCHANGED <<cells, numVertices, numEdges, cell, twin, vertex0, slot, cellEdge>>
  BY DEF LinkCell
<1>2. /\ GraphTypeOK /\ numEdges \in Nat /\ it \in Nat \ {0} /\ slot \in Nat \ {0}
      /\ next \in [Edge -> 0..numEdges] /\ prev \in [Edge -> 0..numEdges]
  BY TypeFacts DEF BuildInv, BuildTypes, Edge
<1>3. Live = Edge /\ Live' = Edge
  BY <1>1 DEF Live, Edge
<1>4. Linked(Edge, twin, next, prev, vertex0, cell)
  BY <1>1, <1>3 DEF BuildInv, LinksInv
<1>5. /\ Linked(Edge, twin, next', prev', vertex0, cell)
      /\ next' \in [Edge -> 0..numEdges] /\ prev' \in [Edge -> 0..numEdges]
  <2>1. CASE LeftEnds(it) = {}
    <3>1. next' = next /\ prev' = prev
      BY <2>1 DEF LinkCell
    <3> QED BY <1>2, <1>4, <3>1
  <2>2. CASE LeftEnds(it) # {}
    <3>1. PICK leftmost \in LeftEnds(it), rightmost \in Ends(next, cellEdge[it]) :
            /\ prev' = [prev EXCEPT ![leftmost] = rightmost]
            /\ next' = [next EXCEPT ![rightmost] = leftmost]
      BY <2>2 DEF LinkCell
    <3>2. cellEdge[it] # Null /\ leftmost \in Ends(prev, cellEdge[it])
      BY DEF LeftEnds
    <3>3. cellEdge[it] \in Edge
      <4>1. cellEdge \in [DOMAIN cells -> 0..numEdges] /\ it \in DOMAIN cells
        <5>1. cells \in Seq(Site)
          BY <1>2 DEF GraphTypeOK
        <5> QED BY <1>1, <1>2, <5>1, LenProperties DEF BuildInv, IncidentInv
      <4>2. cellEdge[it] \in 0..numEdges
        BY <4>1
      <4> QED BY <1>2, <3>2, <4>2 DEF Edge, Null
    <3>4. /\ leftmost \in Edge /\ prev[leftmost] = Null /\ rightmost \in Edge /\ next[rightmost] = Null
          /\ cell[leftmost] = cell[rightmost]
      BY <1>3, <1>4, <3>2, <3>3, EndsInCell
    <3>5. Closed(Edge, leftmost, rightmost, next, prev, next', prev')
      BY <1>2, <3>1, <3>4 DEF Closed
    <3>6. Null \notin Edge /\ leftmost \in 0..numEdges /\ rightmost \in 0..numEdges
      BY <1>2, <3>4 DEF Edge, Null
    <3>7. Linked(Edge, twin, next', prev', vertex0, cell)
      BY <1>4, <3>4, <3>5, <3>6, ClosedCell
    <3> QED BY <1>2, <3>1, <3>6, <3>7
  <2> QED BY <2>1, <2>2
<1>6. BuildTypes'
  <2>1. GraphTypeOK'
    BY <1>1, <1>2, <1>5 DEF GraphTypeOK, Edge
  <2> QED BY <1>1, <1>2, <2>1 DEF BuildTypes, Stages
<1>7. LinksInv' /\ EndsInv'
  BY <1>1, <1>3, <1>5 DEF LinksInv, EndsInv
<1>8. EdgesInv' /\ VerticesInv' /\ IncidentInv'
  BY <1>1 DEF BuildInv, EdgesInv, VerticesInv, IncidentInv
<1> QED BY <1>6, <1>7, <1>8 DEF BuildInv

LEMMA AllCellsLinkedKeeps == BuildInv /\ AllCellsLinked => BuildInv'
<1> SUFFICES ASSUME BuildInv, AllCellsLinked PROVE BuildInv'
  OBVIOUS
<1>1. /\ stage = "infinite" /\ stage' = "diagram" /\ numVertices # 0
      /\ UNCHANGED <<graphVars, it, slot, cellEdge>>
  BY DEF AllCellsLinked
<1>2. BuildTypes'
  <2>1. GraphTypeOK'
    BY <1>1 DEF BuildInv, BuildTypes, GraphTypeOK, graphVars, Edge
  <2> QED BY <1>1, <2>1 DEF BuildInv, BuildTypes, Stages
<1>3. Live' = Live
  BY <1>1 DEF Live, Edge, graphVars
<1> QED BY <1>1, <1>2, <1>3
        DEF BuildInv, LinksInv, EndsInv, EdgesInv, IncidentInv, VerticesInv, graphVars

LEMMA BuildStutterKeeps == BuildInv /\ UNCHANGED <<graphVars, buildVars>> => BuildInv'
<1> SUFFICES ASSUME BuildInv, UNCHANGED <<graphVars, buildVars>> PROVE BuildInv'
  OBVIOUS
<1>1. UNCHANGED graphVars /\ UNCHANGED <<stage, it, slot, cellEdge, vertexEdge>>
  BY DEF buildVars
<1>2. BuildTypes'
  <2>1. GraphTypeOK'
    BY <1>1 DEF BuildInv, BuildTypes, GraphTypeOK, graphVars, Edge
  <2> QED BY <1>1, <2>1 DEF BuildInv, BuildTypes
<1>3. Live' = Live
  BY <1>1 DEF Live, Edge, graphVars
<1>4. LinksInv' /\ EndsInv'
  BY <1>1, <1>3 DEF BuildInv, LinksInv, EndsInv, graphVars
<1>5. EdgesInv' /\ IncidentInv' /\ VerticesInv'
  BY <1>1 DEF BuildInv, EdgesInv, IncidentInv, VerticesInv, graphVars, Edge
<1> QED BY <1>2, <1>4, <1>5 DEF BuildInv

-----------------------------------------------------------------------------
(* What the invariant says of two of the properties.                        *)
LEMMA BuildInvLiveLinks ==
    ASSUME BuildInv, ~ (stage = "diagram" /\ numVertices = 0)
    PROVE  LiveLinks
  BY DEF BuildInv, LinksInv, Linked, TwinsIn, LinksIn, LiveLinks, Vertex1

LEMMA BuildInvStarsComplete ==
    ASSUME BuildInv
    PROVE  StarsComplete
<1>1. CASE stage = "diagram" /\ numVertices = 0
  <2>1. \A e \in Live : vertex0[e] = Null
    BY <1>1, TypeFacts, LiveFacts DEF BuildInv, BuildTypes, Edge, Null
  <2> QED BY <2>1 DEF StarsComplete
<1>2. CASE ~ (stage = "diagram" /\ numVertices = 0)
  <2>1. Linked(Live, twin, next, prev, vertex0, cell)
    BY <1>2 DEF BuildInv, LinksInv
  <2> QED BY <2>1, StarMet DEF StarsComplete, Star
<1> QED BY <1>1, <1>2
-----------------------------------------------------------------------------
(* What is recorded of the half-edges as _build found them. *)

(* From x the walk over the removed half-edges gn along bn comes to y. *)
Follows(x, y, gn, bn) ==
    \A S \in SUBSET Nat : x \in S /\ (\A g \in gn : g \in S => bn[g] \in S) => y \in S

(* Removed half-edges join the vertices x and y. *)
SameVertex(x, y, gn, bv, bt) ==
    \A S \in SUBSET Nat : x \in S /\ (\A g \in gn : bv[g] \in S => bv[bt[g]] \in S) => y \in S

BeforeInv ==
    \E n \in Nat :
        /\ before.next \in [1..n -> 0..n] /\ before.twin \in [1..n -> 1..n]
        /\ before.vertex0 \in [1..n -> Nat]
        /\ gone \in SUBSET (1..n)
        /\ \A x \in 1..n : before.twin[before.twin[x]] = x
        /\ \A x, y \in 1..n : before.next[x] = before.next[y] /\ before.next[x] # Null => x = y
        /\ \A g \in gone : before.twin[g] \in gone

(* The removed half-edges are counted by their last.                        *)
LEMMA GoneFacts ==
    ASSUME NEW n \in Nat, NEW S \in SUBSET (1..n)
    PROVE  LastOf(S) \in Nat /\ S \subseteq 1..LastOf(S)
<1>1. LastOf(S) \in 0..n /\ \A x \in S : x <= LastOf(S)
  BY LastOfFacts
<1> QED BY <1>1

(* The walk over removed half-edges ends within their number, where it first *)
(* finds one that was not removed.                                           *)
LEMMA BoundaryAfterFacts ==
    ASSUME BeforeInv, NEW o \in (DOMAIN before.next) \ gone, NEW y, y \notin gone,
           Follows(before.next[o], y, gone, before.next)
    PROVE  BoundaryAfter(o) = y
<1> DEFINE K == LastOf(gone)
           bn == before.next
           Step(t) == [k \in 0..K |-> IF k = 0 THEN before.next[o]
                         ELSE LET f == t[k - 1] IN IF f \in gone THEN before.next[f] ELSE f]
           a == CHOOSE t : t = Step(t)
<1>1. PICK n \in Nat : /\ bn \in [1..n -> 0..n] /\ gone \in SUBSET (1..n)
                       /\ \A x, z \in 1..n : bn[x] = bn[z] /\ bn[x] # Null => x = z
  BY DEF BeforeInv
<1>2. K \in Nat /\ gone \subseteq 1..K
  BY <1>1, GoneFacts
<1>3. BoundaryAfter(o) = a[K]
  BY DEF BoundaryAfter
<1>4. o \in 1..n /\ o \notin gone /\ bn[o] \in 0..n /\ \A g \in gone : g \in 1..n /\ bn[g] \in 0..n
  BY <1>1
<1> HIDE DEF K, bn
<1>5. /\ a[0] = bn[o] /\ a = [k \in 0..K |-> a[k]]
      /\ \A k \in 1..K : a[k] = IF a[k - 1] \in gone THEN bn[a[k - 1]] ELSE a[k - 1]
  <2> DEFINE f == [x \in 0..n |-> IF x \in gone THEN bn[x] ELSE x]
  <2>1. f \in [0..n -> 0..n]
    BY <1>4
  <2> HIDE DEF f
  <2>2. PICK t : AreIterates(t, 0..n, bn[o], f, K)
    BY <1>2, <1>4, <2>1, Iterates
  <2>3. /\ t \in [0..K -> 0..n] /\ t[0] = bn[o]
        /\ \A k \in 1..K : t[k] = f[t[k - 1]]
    BY <2>2 DEF AreIterates
  <2>4. ASSUME NEW k \in 0..K
        PROVE  t[k] = IF k = 0 THEN bn[o]
                      ELSE LET z == t[k - 1] IN IF z \in gone THEN bn[z] ELSE z
    <3>1. CASE k = 0
      BY <2>3, <3>1
    <3>2. CASE k # 0
      <4>1. k \in 1..K /\ k - 1 \in 0..K
        BY <1>2, <3>2
      <4>2. t[k] = f[t[k - 1]] /\ t[k - 1] \in 0..n
        BY <2>3, <4>1
      <4> QED BY <3>2, <4>2 DEF f
    <3> QED BY <3>1, <3>2
  <2>5. t = Step(t)
    BY <2>3, <2>4 DEF bn
  <2>6. a = Step(a)
    <3> HIDE DEF Step
    <3>1. \E r : r = Step(r)
      BY <2>5
    <3> QED BY <3>1
  <2> HIDE DEF a
  <2>7. a[0] = bn[o] /\ a = [k \in 0..K |-> a[k]]
    <3>1. Step(a)[0] = bn[o] /\ Step(a) = [k \in 0..K |-> Step(a)[k]]
      BY <1>2 DEF bn
    <3> HIDE DEF Step
    <3> QED BY <2>6, <3>1
  <2>8. ASSUME NEW k \in 1..K
        PROVE  a[k] = IF a[k - 1] \in gone THEN bn[a[k - 1]] ELSE a[k - 1]
    <3>1. k \in 0..K /\ k # 0
      BY <1>2
    <3>2. Step(a)[k] = IF a[k - 1] \in gone THEN bn[a[k - 1]] ELSE a[k - 1]
      BY <3>1 DEF bn
    <3> HIDE DEF Step
    <3> QED BY <2>6, <3>2
  <2> QED BY <2>7, <2>8
<1> HIDE DEF a
<1>6. \A k \in Nat : k + 1 <= K => a[k + 1] = IF a[k] \in gone THEN bn[a[k]] ELSE a[k]
  <2> SUFFICES ASSUME NEW k \in Nat, k + 1 <= K
               PROVE  a[k + 1] = IF a[k] \in gone THEN bn[a[k]] ELSE a[k]
    OBVIOUS
  <2>1. k + 1 \in 1..K /\ (k + 1) - 1 = k
    BY <1>2
  <2> QED BY <1>5, <2>1
<1>7. ASSUME NEW k \in 0..K, a[k] \notin gone PROVE a[K] = a[k]
  <2> DEFINE D == {m \in Nat : k + m <= K => a[k + m] = a[k]}
  <2>1. 0 \in D
    OBVIOUS
  <2>2. ASSUME NEW m \in Nat, m \in D PROVE m + 1 \in D
    <3>1. CASE k + (m + 1) <= K
      <4>1. k + m \in Nat /\ (k + m) + 1 <= K /\ k + m <= K /\ k + (m + 1) = (k + m) + 1
        BY <1>2, <3>1
      <4>2. a[k + m] = a[k]
        BY <2>2, <4>1
      <4>3. a[(k + m) + 1] = a[k]
        BY <1>6, <1>7, <4>1, <4>2
      <4> QED BY <4>1, <4>3
    <3>2. CASE ~ (k + (m + 1) <= K)
      BY <3>2
    <3> QED BY <3>1, <3>2
  <2>3. Nat \subseteq D
    <3> HIDE DEF D
    <3> QED BY <2>1, <2>2, Induction
  <2>4. K - k \in Nat /\ k + (K - k) = K
    BY <1>2
  <2>5. K - k \in D
    BY <2>3, <2>4
  <2> QED BY <1>2, <2>4, <2>5
<1>8. a[K] \notin gone
  <2> SUFFICES ASSUME a[K] \in gone PROVE FALSE
    OBVIOUS
  <2>1. \A k \in 0..K : a[k] \in gone
    BY <1>7
  <2>2. a \in [0..K -> 1..K]
    <3>1. \A k \in 0..K : a[k] \in 1..K
      BY <1>2, <2>1
    <3> QED BY <1>5, <3>1
  <2> DEFINE D == {i \in 0..K : \E j \in 0..K : i < j /\ a[i] = a[j]}
  <2>3. D # {} /\ D \in SUBSET Nat
    <3>1. PICK x, z \in 0..K : x < z /\ a[x] = a[z]
      BY <1>2, <2>2, Pigeonhole
    <3>2. x \in D
      BY <3>1
    <3>3. D \in SUBSET Nat
      OBVIOUS
    <3> HIDE DEF D
    <3> QED BY <3>2, <3>3
  <2>4. PICK i \in D : \A d \in D : i <= d
    <3> HIDE DEF D
    <3> QED BY <2>3, LeastNatural
  <2>5. PICK j \in 0..K : i < j /\ a[i] = a[j]
    BY <2>4
  <2>6. /\ i \in Nat /\ i <= K /\ j \in 1..K /\ j - 1 \in 0..K
        /\ a[j] = bn[a[j - 1]] /\ a[j - 1] \in gone /\ a[j] # Null
    <3>1. i \in 0..K
      BY <2>4
    <3>2. j \in 1..K /\ j - 1 \in 0..K
      BY <1>2, <2>5, <3>1
    <3>3. a[j - 1] \in gone /\ a[j] \in gone
      BY <2>1, <2>5, <3>2
    <3>4. a[j] # Null
      BY <1>2, <3>3 DEF Null
    <3>5. a[j] = bn[a[j - 1]]
      BY <1>5, <3>2, <3>3
    <3>6. i \in Nat /\ i <= K
      BY <1>2, <3>1
    <3> QED BY <3>2, <3>3, <3>4, <3>5, <3>6
  <2>7. CASE i = 0
    <3>1. bn[o] = bn[a[j - 1]]
      BY <1>5, <2>5, <2>6, <2>7
    <3> QED BY <1>1, <1>4, <2>5, <2>6, <2>7, <3>1, <1>5
  <2>8. CASE i # 0
    <3>1. i \in 1..K /\ i - 1 \in 0..K /\ i - 1 < j - 1
      BY <1>2, <2>5, <2>6, <2>8
    <3>2. a[i] = bn[a[i - 1]] /\ a[i - 1] \in gone
      BY <1>5, <2>1, <3>1
    <3>3. a[i - 1] = a[j - 1]
      BY <1>1, <1>4, <2>5, <2>6, <3>2
    <3>4. i - 1 \in D
      BY <2>6, <3>1, <3>3
    <3>5. i <= i - 1
      BY <2>4, <3>4
    <3> QED BY <2>6, <3>5
  <2> QED BY <2>7, <2>8
<1>9. PICK k \in 0..K : a[k] = y
  <2> DEFINE S == {a[k] : k \in 0..K}
  <2>1. \A k \in 0..K : a[k] \in 0..n
    <3> DEFINE D == {k \in Nat : k <= K => a[k] \in 0..n}
    <3>1. 0 \in D
      BY <1>4, <1>5
    <3>2. ASSUME NEW k \in Nat, k \in D PROVE k + 1 \in D
      <4>1. CASE k + 1 <= K
        <5>1. a[k] \in 0..n /\ a[k + 1] = IF a[k] \in gone THEN bn[a[k]] ELSE a[k]
          BY <1>2, <1>6, <3>2, <4>1
        <5>2. a[k + 1] \in 0..n
          BY <1>4, <5>1
        <5> QED BY <5>2
      <4>2. CASE ~ (k + 1 <= K)
        BY <4>2
      <4> QED BY <4>1, <4>2
    <3>3. Nat \subseteq D
      <4> HIDE DEF D
      <4> QED BY <3>1, <3>2, Induction
    <3> QED BY <1>2, <3>3
  <2>2. S \in SUBSET Nat
    BY <2>1
  <2>3. bn[o] \in S
    <3>1. 0 \in 0..K
      BY <1>2
    <3> QED BY <1>5, <3>1
  <2>4. ASSUME NEW g \in gone, g \in S PROVE bn[g] \in S
    <3>1. PICK k \in 0..K : a[k] = g
      BY <2>4
    <3>2. k # K
      BY <1>8, <2>4, <3>1
    <3>3. k \in Nat /\ k + 1 <= K /\ k + 1 \in 0..K
      BY <1>2, <3>2
    <3>4. a[k + 1] = bn[g]
      BY <1>6, <2>4, <3>1, <3>3
    <3> QED BY <3>3, <3>4
  <2>5. y \in S
    <3> HIDE DEF S
    <3> QED BY <2>2, <2>3, <2>4 DEF Follows, bn
  <2> QED BY <2>5
<1> QED BY <1>3, <1>7, <1>9

(* As many rounds as there are removed half-edges join all they join. *)
LEMMA MergedWithFacts ==
    ASSUME BeforeInv, NEW v \in Nat, NEW y,
           SameVertex(v, y, gone, before.vertex0, before.twin)
    PROVE  y \in MergedWith(v)
<1> DEFINE K == LastOf(gone)
           bv == before.vertex0
           bt == before.twin
           ends(S) == {before.vertex0[before.twin[g]] : g \in {h \in gone : before.vertex0[h] \in S}}
           Step(t) == [k \in 0..K |-> IF k = 0 THEN {v} ELSE LET S == t[k - 1] IN S \cup ends(S)]
           m == CHOOSE t : t = Step(t)
<1>1. PICK n \in Nat : /\ bv \in [1..n -> Nat] /\ bt \in [1..n -> 1..n]
                       /\ gone \in SUBSET (1..n)
  BY DEF BeforeInv
<1>2. K \in Nat /\ gone \subseteq 1..K
  BY <1>1, GoneFacts
<1>3. MergedWith(v) = m[K]
  BY DEF MergedWith
<1>4. \A S : ends(S) \in SUBSET Nat
  BY <1>1
<1>5. \A S : \A g \in gone : bv[g] \in S => bv[bt[g]] \in ends(S)
  OBVIOUS
<1> HIDE DEF K, ends
<1>6. /\ m[0] = {v} /\ m = [k \in 0..K |-> m[k]]
      /\ \A k \in 1..K : m[k] = m[k - 1] \cup ends(m[k - 1])
  <2> DEFINE f == [T \in SUBSET Nat |-> T \cup ends(T)]
  <2>1. f \in [SUBSET Nat -> SUBSET Nat] /\ {v} \in SUBSET Nat
    BY <1>4
  <2> HIDE DEF f
  <2>2. PICK t : AreIterates(t, SUBSET Nat, {v}, f, K)
    BY <1>2, <2>1, Iterates
  <2>3. /\ t \in [0..K -> SUBSET Nat] /\ t[0] = {v}
        /\ \A k \in 1..K : t[k] = f[t[k - 1]]
    BY <2>2 DEF AreIterates
  <2>4. ASSUME NEW k \in 0..K
        PROVE  t[k] = IF k = 0 THEN {v} ELSE LET S == t[k - 1] IN S \cup ends(S)
    <3>1. CASE k = 0
      BY <2>3, <3>1
    <3>2. CASE k # 0
      <4>1. k \in 1..K /\ k - 1 \in 0..K
        BY <1>2, <3>2
      <4>2. t[k] = f[t[k - 1]] /\ t[k - 1] \in SUBSET Nat
        BY <2>3, <4>1
      <4> QED BY <3>2, <4>2 DEF f
    <3> QED BY <3>1, <3>2
  <2>5. t = Step(t)
    BY <2>3, <2>4
  <2>6. m = Step(m)
    <3> HIDE DEF Step
    <3>1. \E r : r = Step(r)
      BY <2>5
    <3> QED BY <3>1
  <2> HIDE DEF m
  <2>7. m[0] = {v} /\ m = [k \in 0..K |-> m[k]]
    <3>1. Step(m)[0] = {v} /\ Step(m) = [k \in 0..K |-> Step(m)[k]]
      BY <1>2
    <3> HIDE DEF Step
    <3> QED BY <2>6, <3>1
  <2>8. ASSUME NEW k \in 1..K
        PROVE  m[k] = m[k - 1] \cup ends(m[k - 1])
    <3>1. k \in 0..K /\ k # 0
      BY <1>2
    <3>2. Step(m)[k] = m[k - 1] \cup ends(m[k - 1])
      BY <3>1
    <3> HIDE DEF Step
    <3> QED BY <2>6, <3>2
  <2> QED BY <2>7, <2>8
<1> HIDE DEF m
<1>7. \A k \in Nat : k + 1 <= K => m[k + 1] = m[k] \cup ends(m[k])
  <2> SUFFICES ASSUME NEW k \in Nat, k + 1 <= K
               PROVE  m[k + 1] = m[k] \cup ends(m[k])
    OBVIOUS
  <2>1. k + 1 \in 1..K /\ (k + 1) - 1 = k
    BY <1>2
  <2> QED BY <1>6, <2>1
<1>8. ASSUME NEW i \in 0..K, NEW j \in 0..K, i <= j PROVE m[i] \subseteq m[j]
  <2> DEFINE D == {d \in Nat : i + d <= K => m[i] \subseteq m[i + d]}
  <2>1. 0 \in D
    OBVIOUS
  <2>2. ASSUME NEW d \in Nat, d \in D PROVE d + 1 \in D
    <3>1. CASE i + (d + 1) <= K
      <4>1. i + d \in Nat /\ (i + d) + 1 <= K /\ i + d <= K /\ i + (d + 1) = (i + d) + 1
        BY <1>2, <3>1
      <4>2. m[i] \subseteq m[i + d]
        BY <2>2, <4>1
      <4>3. m[i] \subseteq m[(i + d) + 1]
        BY <1>7, <4>1, <4>2
      <4>4. m[i] \subseteq m[i + (d + 1)]
        BY <4>1, <4>3
      <4> QED BY <4>4
    <3>2. CASE ~ (i + (d + 1) <= K)
      BY <3>2
    <3> QED BY <3>1, <3>2
  <2>3. Nat \subseteq D
    <3> HIDE DEF D
    <3> QED BY <2>1, <2>2, Induction
  <2>4. j - i \in Nat /\ i + (j - i) = j /\ i + (j - i) <= K
    BY <1>2, <1>8
  <2>5. j - i \in D
    BY <2>3, <2>4
  <2> QED BY <2>4, <2>5
<1>9. ASSUME NEW k \in 0..K, ends(m[k]) \subseteq m[k] PROVE m[K] = m[k]
  <2> DEFINE D == {d \in Nat : k + d <= K => m[k + d] = m[k]}
  <2>1. 0 \in D
    OBVIOUS
  <2>2. ASSUME NEW d \in Nat, d \in D PROVE d + 1 \in D
    <3>1. CASE k + (d + 1) <= K
      <4>1. k + d \in Nat /\ (k + d) + 1 <= K /\ k + d <= K /\ k + (d + 1) = (k + d) + 1
        BY <1>2, <3>1
      <4>2. m[k + d] = m[k]
        BY <2>2, <4>1
      <4>3. m[(k + d) + 1] = m[k]
        BY <1>7, <1>9, <4>1, <4>2
      <4> QED BY <4>1, <4>3
    <3>2. CASE ~ (k + (d + 1) <= K)
      BY <3>2
    <3> QED BY <3>1, <3>2
  <2>3. Nat \subseteq D
    <3> HIDE DEF D
    <3> QED BY <2>1, <2>2, Induction
  <2>4. K - k \in Nat /\ k + (K - k) = K
    BY <1>2
  <2>5. K - k \in D
    BY <2>3, <2>4
  <2> QED BY <1>2, <2>4, <2>5
<1>10. ends(m[K]) \subseteq m[K]
  <2> SUFFICES ASSUME ~ (ends(m[K]) \subseteq m[K]) PROVE FALSE
    OBVIOUS
  <2>1. ASSUME NEW k \in 0..K
        PROVE  \E g \in gone : bv[bt[g]] \in ends(m[k]) /\ bv[bt[g]] \notin m[k]
    <3>1. ~ (ends(m[k]) \subseteq m[k])
      BY <1>9
    <3> QED BY <3>1 DEF ends
  <2> DEFINE t == [k \in 0..K |-> CHOOSE g \in gone : /\ bv[bt[g]] \in ends(m[k])
                                                      /\ bv[bt[g]] \notin m[k]]
  <2>2. \A k \in 0..K : t[k] \in gone /\ bv[bt[t[k]]] \in ends(m[k]) /\ bv[bt[t[k]]] \notin m[k]
    BY <2>1
  <2>3. t \in [0..K -> 1..K]
    BY <1>2, <2>2
  <2> HIDE DEF t
  <2>4. PICK i, j \in 0..K : i < j /\ t[i] = t[j]
    BY <1>2, <2>3, Pigeonhole
  <2>5. i \in Nat /\ i + 1 <= K /\ i + 1 \in 0..K /\ i + 1 <= j
    BY <1>2, <2>4
  <2>6. bv[bt[t[i]]] \in m[i + 1]
    BY <1>7, <2>2, <2>5
  <2>7. m[i + 1] \subseteq m[j]
    BY <1>8, <2>5
  <2> QED BY <2>2, <2>4, <2>6, <2>7
<1>11. m[K] \in SUBSET Nat
  <2> DEFINE D == {k \in Nat : k <= K => m[k] \subseteq Nat}
  <2>1. 0 \in D
    BY <1>6
  <2>2. ASSUME NEW k \in Nat, k \in D PROVE k + 1 \in D
    <3>1. CASE k + 1 <= K
      <4>1. m[k] \subseteq Nat /\ m[k + 1] = m[k] \cup ends(m[k])
        BY <1>2, <1>7, <2>2, <3>1
      <4>2. m[k + 1] \subseteq Nat
        BY <1>4, <4>1
      <4> QED BY <4>2
    <3>2. CASE ~ (k + 1 <= K)
      BY <3>2
    <3> QED BY <3>1, <3>2
  <2>3. Nat \subseteq D
    <3> HIDE DEF D
    <3> QED BY <2>1, <2>2, Induction
  <2> QED BY <1>2, <2>3
<1>12. v \in m[K]
  <2>1. 0 \in 0..K /\ K \in 0..K /\ 0 <= K
    BY <1>2
  <2> QED BY <1>6, <1>8, <2>1
<1>13. y \in m[K]
  <2>1. \A g \in gone : bv[g] \in m[K] => bv[bt[g]] \in m[K]
    BY <1>5, <1>10
  <2> QED BY <1>11, <1>12, <2>1 DEF SameVertex
<1> QED BY <1>3, <1>13
-----------------------------------------------------------------------------
(* The invariant of the records. *)

OriginInv ==
    /\ origin \in [Edge -> Nat]
    /\ \A e \in Live : origin[e] \in (DOMAIN before.next) \ gone
    /\ \A x \in (DOMAIN before.next) \ gone : \E e \in Live : origin[e] = x
    /\ \A e, f \in Live : origin[e] = origin[f] => e = f
    /\ \A e \in Live : cell[e] = before.cell[origin[e]] /\ origin[twin[e]] = before.twin[origin[e]]

Closing(s) == s \in {"infinite", "diagram"}

BoundaryInv ==
    \A e \in Live : \E y \in Nat :
        /\ y \notin gone /\ Follows(before.next[origin[e]], y, gone, before.next)
        /\ y # Null => next[e] # Null /\ origin[next[e]] = y
        /\ y = Null /\ ~ Closing(stage) => next[e] = Null

PlaceInv ==
    /\ place \in [1..numVertices -> Nat]
    /\ \A e \in Live :
        /\ before.vertex0[origin[e]] = Null <=> vertex0[e] = Null
        /\ vertex0[e] # Null =>
             SameVertex(before.vertex0[origin[e]], place[vertex0[e]], gone,
                        before.vertex0, before.twin)

KeptInv == Closing(stage) => \A v \in 1..numVertices : vertex0[vertexEdge[v]] = v

RecordsInv == BeforeInv /\ OriginInv /\ BoundaryInv /\ PlaceInv /\ KeptInv

(* What holds with fewer removed half-edges holds with more.                *)
LEMMA OneMoreGone ==
    ASSUME NEW gn, NEW hn, gn \subseteq hn, NEW bv, NEW bt, NEW x, NEW y
    PROVE  /\ Follows(x, y, gn, bv) => Follows(x, y, hn, bv)
           /\ SameVertex(x, y, gn, bv, bt) => SameVertex(x, y, hn, bv, bt)
<1>1. ASSUME Follows(x, y, gn, bv), NEW S \in SUBSET Nat, x \in S,
             \A g \in hn : g \in S => bv[g] \in S
      PROVE  y \in S
  BY <1>1 DEF Follows
<1>2. ASSUME SameVertex(x, y, gn, bv, bt), NEW S \in SUBSET Nat, x \in S,
             \A g \in hn : bv[g] \in S => bv[bt[g]] \in S
      PROVE  y \in S
  BY <1>2 DEF SameVertex
<1> QED BY <1>1, <1>2 DEF Follows, SameVertex

(* Walks over removed half-edges can be put together.                       *)
LEMMA FollowsOn ==
    ASSUME NEW gn, NEW bn, NEW x, NEW g \in gn, NEW y,
           Follows(x, g, gn, bn), Follows(bn[g], y, gn, bn)
    PROVE  Follows(x, y, gn, bn)
  BY DEF Follows

(* Merging works in both directions, and from merge to merge.               *)
LEMMA SameVertexBack ==
    ASSUME NEW gn, NEW bv, NEW bt, NEW x \in Nat, NEW y,
           \A g \in gn : bt[g] \in gn /\ bt[bt[g]] = g /\ bv[g] \in Nat,
           SameVertex(x, y, gn, bv, bt)
    PROVE  SameVertex(y, x, gn, bv, bt)
<1> SUFFICES ASSUME NEW S \in SUBSET Nat, y \in S, x \notin S,
                    \A g \in gn : bv[g] \in S => bv[bt[g]] \in S
             PROVE  FALSE
  BY DEF SameVertex
<1> DEFINE C == Nat \ S
<1>1. \A g \in gn : bv[g] \in C => bv[bt[g]] \in C
  OBVIOUS
<1>2. x \in C /\ C \in SUBSET Nat
  OBVIOUS
<1> HIDE DEF C
<1>3. y \in C
  BY <1>1, <1>2 DEF SameVertex
<1> QED BY <1>3 DEF C

LEMMA SameVertexOn ==
    ASSUME NEW gn, NEW bv, NEW bt, NEW x, NEW y, NEW z,
           SameVertex(x, y, gn, bv, bt), SameVertex(y, z, gn, bv, bt)
    PROVE  SameVertex(x, z, gn, bv, bt)
  BY DEF SameVertex

LEMMA SameVertexStep ==
    ASSUME NEW gn, NEW bv, NEW bt, NEW g \in gn
    PROVE  SameVertex(bv[g], bv[bt[g]], gn, bv, bt)
  BY DEF SameVertex

(* Nothing of what the records are about changes. *)
LEMMA RecordsStay ==
    ASSUME BuildInv, RecordsInv, Linked(Live, twin, next, prev, vertex0, cell),
           Live' = Live, UNCHANGED <<before, gone>>,
           \A e \in Live : origin'[e] = origin[e] /\ cell'[e] = cell[e] /\ twin'[e] = twin[e],
           \A e \in Live : next[e] # Null => next'[e] = next[e],
           \A e \in Live : next[e] = Null => next'[e] = Null \/ Closing(stage'),
           Closing(stage) => Closing(stage'),
           \A e \in Live : /\ vertex0'[e] = Null <=> vertex0[e] = Null
                           /\ vertex0[e] # Null => place'[vertex0'[e]] = place[vertex0[e]],
           origin' \in [Edge' -> Nat], place' \in [1..numVertices' -> Nat],
           KeptInv'
    PROVE  RecordsInv'
<1>1. \A e \in Live : twin[e] \in Live /\ (next[e] # Null => next[e] \in Live)
  BY DEF Linked, TwinsIn, LinksIn
<1>2. BeforeInv'
  BY DEF RecordsInv, BeforeInv
<1>3. OriginInv'
  BY <1>1 DEF RecordsInv, OriginInv
<1>4. BoundaryInv'
  <2> SUFFICES ASSUME NEW e \in Live
               PROVE  \E y \in Nat :
                        /\ y \notin gone /\ Follows(before.next[origin'[e]], y, gone, before.next)
                        /\ y # Null => next'[e] # Null /\ origin'[next'[e]] = y
                        /\ y = Null /\ ~ Closing(stage') => next'[e] = Null
    BY DEF BoundaryInv
  <2>1. PICK y \in Nat :
                        /\ y \notin gone /\ Follows(before.next[origin[e]], y, gone, before.next)
                        /\ y # Null => next[e] # Null /\ origin[next[e]] = y
                        /\ y = Null /\ ~ Closing(stage) => next[e] = Null
    BY DEF RecordsInv, BoundaryInv
  <2>2. y # Null => next'[e] # Null /\ origin'[next'[e]] = y
    BY <1>1, <2>1
  <2>3. y = Null /\ ~ Closing(stage') => next'[e] = Null
    BY <2>1
  <2>4. origin'[e] = origin[e]
    OBVIOUS
  <2> QED BY <2>1, <2>2, <2>3, <2>4
<1>5. PlaceInv'
  BY DEF RecordsInv, PlaceInv
<1> QED BY <1>2, <1>3, <1>4, <1>5 DEF RecordsInv

(* One lemma for each step of _build: the records stay true of it.          *)
LEMMA StartBuildRecords ==
    ASSUME GraphInv, it = 1, slot = 1, gone = {}, StartBuild
    PROVE  RecordsInv'
<1>1. /\ stage' = "edges" /\ UNCHANGED <<graphVars, gone, it, slot>>
      /\ before' = [cell |-> cell, vertex0 |-> vertex0, twin |-> twin, next |-> next]
      /\ origin' = [e \in Edge |-> e] /\ place' = [v \in 1..numVertices |-> v]
  BY DEF StartBuild
<1>2. /\ numEdges \in Nat /\ numVertices \in Nat
      /\ next \in [1..numEdges -> 0..numEdges] /\ twin \in [1..numEdges -> 1..numEdges]
      /\ vertex0 \in [1..numEdges -> 0..numVertices]
      /\ \A e \in 1..numEdges : /\ twin[twin[e]] = e
                                /\ next[e] # 0 => prev[next[e]] = e
  BY EdgeFacts, TypeFacts DEF GraphInv
<1>3. /\ before'.next = next /\ before'.twin = twin /\ before'.vertex0 = vertex0
      /\ before'.cell = cell /\ gone' = {}
      /\ next' = next /\ twin' = twin /\ vertex0' = vertex0 /\ cell' = cell
      /\ numVertices' = numVertices
  BY <1>1 DEF graphVars
<1>4. BeforeInv'
  <2>1. vertex0 \in [1..numEdges -> Nat]
    BY <1>2
  <2>2. \A x, y \in 1..numEdges : next[x] = next[y] /\ next[x] # 0 => x = y
    BY <1>2
  <2>3. gone' \in SUBSET (1..numEdges) /\ \A g \in gone' : twin[g] \in gone'
    BY <1>3
  <2>4. \A x, y \in 1..numEdges : next[x] = next[y] /\ next[x] # Null => x = y
    BY <2>2 DEF Null
  <2> DEFINE Fits(n) ==
          /\ before'.next \in [1..n -> 0..n] /\ before'.twin \in [1..n -> 1..n]
          /\ before'.vertex0 \in [1..n -> Nat]
          /\ gone' \in SUBSET (1..n)
          /\ \A x \in 1..n : before'.twin[before'.twin[x]] = x
          /\ \A x, y \in 1..n : before'.next[x] = before'.next[y] /\ before'.next[x] # Null => x = y
          /\ \A g \in gone' : before'.twin[g] \in gone'
  <2>5. Fits(numEdges)
    BY <1>2, <1>3, <2>1, <2>3, <2>4
  <2>6. \E n \in Nat : Fits(n)
    <3> HIDE DEF Fits
    <3> QED BY <1>2, <2>5
  <2> QED BY <2>6 DEF BeforeInv
<1>5. Live' = 1..numEdges /\ Edge' = 1..numEdges /\ DOMAIN before'.next = 1..numEdges
  <2>1. numEdges' = numEdges
    BY <1>1 DEF graphVars
  <2>2. Live' = (1..(1 - 1)) \cup (1..numEdges)
    BY <1>1, <2>1 DEF Live
  <2> QED BY <1>2, <1>3, <2>1, <2>2 DEF Edge
<1>6. \A e \in 1..numEdges : origin'[e] = e /\ twin[e] \in 1..numEdges
  BY <1>1, <1>2 DEF Edge
<1>7. OriginInv'
  <2>1. origin' \in [1..numEdges -> Nat]
    BY <1>1, <1>2 DEF Edge
  <2> QED BY <1>3, <1>5, <1>6, <2>1 DEF OriginInv
<1>8. BoundaryInv'
  <2> SUFFICES ASSUME NEW e \in 1..numEdges
               PROVE  \E y \in Nat :
                        /\ y \notin {} /\ Follows(next[e], y, {}, next)
                        /\ y # Null => next[e] # Null /\ origin'[next[e]] = y
                        /\ y = Null /\ ~ Closing("edges") => next[e] = Null
    BY <1>1, <1>3, <1>5, <1>6 DEF BoundaryInv
  <2>1. next[e] \in Nat /\ (next[e] # Null => next[e] \in 1..numEdges)
    BY <1>2 DEF Null
  <2>2. Follows(next[e], next[e], {}, next)
    BY DEF Follows
  <2> QED BY <1>6, <2>1, <2>2
<1>9. PlaceInv'
  <2>1. place' \in [1..numVertices -> Nat]
    BY <1>1, <1>2
  <2>2. \A e \in 1..numEdges : vertex0[e] # Null => place'[vertex0[e]] = vertex0[e]
    BY <1>1, <1>2 DEF Null
  <2>3. \A x : SameVertex(x, x, {}, vertex0, twin)
    BY DEF SameVertex
  <2> QED BY <1>3, <1>5, <1>6, <2>1, <2>2, <2>3 DEF PlaceInv
<1>10. KeptInv'
  BY <1>1 DEF KeptInv, Closing
<1> QED BY <1>4, <1>7, <1>8, <1>9, <1>10 DEF RecordsInv

LEMMA RemoveEdgeRecords ==
    ASSUME BuildInv, RecordsInv, RemoveEdge
    PROVE  RecordsInv'
<1> DEFINE bn == before.next
           bt == before.twin
           bv == before.vertex0
<1>1. PICK t : t = it + 1
  OBVIOUS
<1>2. /\ stage = "edges" /\ stage' = "edges"
      /\ it \in Live /\ t \in Live /\ it # t /\ twin[it] = t /\ twin[t] = it
      /\ Live' = Live \ {it, t} /\ Live \subseteq Edge /\ Null \notin Live
      /\ vertex0[it] # Null /\ vertex0[t] # Null
      /\ Linked(Live, twin, next, prev, vertex0, cell)
      /\ Unlinked(Live, it, t, next, prev, next', prev')
      /\ MergedInto(Live, it, t, vertex0, vertex0')
      /\ prev[it] \in Live' /\ prev[t] \in Live' /\ next[it] \in Live' /\ next[t] \in Live'
  BY <1>1, RemoveEdgeEffect
<1>3. /\ gone' = gone \cup {origin[it], origin[t]}
      /\ UNCHANGED <<numVertices, numEdges, cell, twin, origin, before, place>>
  BY <1>1 DEF RemoveEdge
<1>4. PICK n \in Nat :
        /\ bn \in [1..n -> 0..n] /\ bt \in [1..n -> 1..n] /\ bv \in [1..n -> Nat]
        /\ gone \in SUBSET (1..n)
        /\ \A x \in 1..n : bt[bt[x]] = x
        /\ \A x, y \in 1..n : bn[x] = bn[y] /\ bn[x] # Null => x = y
        /\ \A g \in gone : bt[g] \in gone
  BY DEF RecordsInv, BeforeInv
<1>5. DOMAIN bn = 1..n
  BY <1>4
<1>6. /\ origin \in [Edge -> Nat]
      /\ \A e \in Live : origin[e] \in (1..n) \ gone
      /\ \A x \in (1..n) \ gone : \E e \in Live : origin[e] = x
      /\ \A e, f \in Live : origin[e] = origin[f] => e = f
      /\ \A e \in Live : cell[e] = before.cell[origin[e]] /\ origin[twin[e]] = bt[origin[e]]
  BY <1>5 DEF RecordsInv, OriginInv
<1> HIDE DEF bn, bt, bv
<1>7. /\ TwinsIn(Live, twin, cell) /\ LinksIn(Live, twin, next, prev, vertex0, cell)
  BY <1>2 DEF Linked
<1>8. gone' \in SUBSET (1..n) /\ gone \subseteq gone' /\ \A g \in gone' : bt[g] \in gone'
  <2>1. origin[it] \in 1..n /\ origin[t] \in 1..n
    BY <1>2, <1>6
  <2>2. bt[origin[it]] = origin[t] /\ bt[origin[t]] = origin[it]
    BY <1>2, <1>6
  <2> QED BY <1>3, <1>4, <2>1, <2>2
<1>9. BeforeInv'
  BY <1>3, <1>4, <1>8 DEF BeforeInv, bn, bt, bv
<1>10. OriginInv'
  <2>1. /\ \A e \in Live' : origin[e] \in (1..n) \ gone'
        /\ \A x \in (1..n) \ gone' : \E e \in Live' : origin[e] = x
    BY <1>2, <1>3, <1>6
  <2> QED BY <1>2, <1>3, <1>5, <1>6, <2>1 DEF OriginInv, bn, bt, Edge
<1>11. \A f \in Live' : next'[f] = IF f = prev[it] THEN next[it]
                                  ELSE IF f = prev[t] THEN next[t] ELSE next[f]
  BY <1>2 DEF Unlinked
<1>12. ASSUME NEW f \in Live
       PROVE  \E y \in Nat :
                /\ y \notin gone /\ Follows(bn[origin[f]], y, gone', bn)
                /\ y # Null => next[f] # Null /\ origin[next[f]] = y
                /\ y = Null => next[f] = Null
  <2>1. PICK y \in Nat :
                /\ y \notin gone /\ Follows(bn[origin[f]], y, gone, bn)
                /\ y # Null => next[f] # Null /\ origin[next[f]] = y
                /\ y = Null /\ ~ Closing(stage) => next[f] = Null
    BY DEF RecordsInv, BoundaryInv, bn
  <2>2. Follows(bn[origin[f]], y, gone', bn)
    BY <1>8, <2>1, OneMoreGone
  <2> QED BY <1>2, <2>1, <2>2 DEF Closing
<1>13. ASSUME NEW x \in {it, t}, NEW f \in Live', f = prev[x]
       PROVE  /\ next[x] # Null /\ next[x] \in Live'
              /\ Follows(bn[origin[f]], origin[next[x]], gone', bn)
  <2>1. next[x] \in Live' /\ next[x] # Null /\ next[f] = x /\ x # Null /\ f \in Live /\ x \in Live
        /\ origin[x] \in gone'
    BY <1>2, <1>3, <1>7, <1>13 DEF LinksIn
  <2>2. Follows(bn[origin[f]], origin[x], gone', bn)
    <3>1. PICK y \in Nat : /\ Follows(bn[origin[f]], y, gone', bn)
                           /\ y # Null => origin[next[f]] = y
                           /\ y = Null => next[f] = Null
      BY <1>12, <2>1
    <3> QED BY <2>1, <3>1
  <2>3. Follows(bn[origin[x]], origin[next[x]], gone', bn)
    <3>1. PICK y \in Nat : /\ Follows(bn[origin[x]], y, gone', bn)
                           /\ y # Null => origin[next[x]] = y
                           /\ y = Null => next[x] = Null
      BY <1>12, <2>1
    <3> QED BY <2>1, <3>1
  <2> QED BY <2>1, <2>2, <2>3, FollowsOn
<1>14. BoundaryInv'
  <2> SUFFICES ASSUME NEW f \in Live'
               PROVE  \E y \in Nat :
                        /\ y \notin gone' /\ Follows(bn[origin[f]], y, gone', bn)
                        /\ y # Null => next'[f] # Null /\ origin[next'[f]] = y
                        /\ y = Null => next'[f] = Null
    BY <1>3 DEF BoundaryInv, bn
  <2>1. \A e \in Live' : origin[e] \in Nat /\ origin[e] # Null /\ origin[e] \notin gone'
    BY <1>2, <1>3, <1>4, <1>6 DEF Null
  <2>2. ASSUME NEW x \in {it, t}, f = prev[x], next'[f] = next[x]
        PROVE  \E y \in Nat :
                        /\ y \notin gone' /\ Follows(bn[origin[f]], y, gone', bn)
                        /\ y # Null => next'[f] # Null /\ origin[next'[f]] = y
                        /\ y = Null => next'[f] = Null
    <3>1. /\ next[x] # Null /\ next[x] \in Live'
          /\ Follows(bn[origin[f]], origin[next[x]], gone', bn)
      BY <1>13, <2>2
    <3> QED BY <2>1, <2>2, <3>1
  <2>3. CASE f = prev[it]
    BY <1>11, <2>2, <2>3
  <2>4. CASE f = prev[t] /\ f # prev[it]
    BY <1>11, <2>2, <2>4
  <2>5. CASE f # prev[it] /\ f # prev[t]
    <3>1. f \in Live /\ next'[f] = next[f]
      BY <1>2, <1>11, <2>5
    <3>2. PICK y \in Nat : /\ Follows(bn[origin[f]], y, gone', bn)
                           /\ y # Null => next[f] # Null /\ origin[next[f]] = y
                           /\ y = Null => next[f] = Null
      BY <1>12, <3>1
    <3>3. next[f] # Null => next[f] \in Live'
      BY <1>2, <1>7, <2>5, <3>1 DEF LinksIn
    <3>4. y \notin gone'
      BY <1>8, <2>1, <3>2, <3>3 DEF Null
    <3> QED BY <3>1, <3>2, <3>4
  <2> QED BY <2>3, <2>4, <2>5
<1>15. ASSUME NEW f \in Live
       PROVE  /\ bv[origin[f]] = Null <=> vertex0[f] = Null
              /\ vertex0[f] # Null => SameVertex(bv[origin[f]], place[vertex0[f]], gone', bv, bt)
  <2>1. /\ bv[origin[f]] = Null <=> vertex0[f] = Null
        /\ vertex0[f] # Null => SameVertex(bv[origin[f]], place[vertex0[f]], gone, bv, bt)
    BY DEF RecordsInv, PlaceInv, bv, bt
  <2> QED BY <1>8, <2>1, OneMoreGone
<1>16. SameVertex(place[vertex0[t]], place[vertex0[it]], gone', bv, bt)
  <2>1. /\ SameVertex(bv[origin[t]], place[vertex0[t]], gone', bv, bt)
        /\ SameVertex(bv[origin[it]], place[vertex0[it]], gone', bv, bt)
    BY <1>2, <1>15
  <2>2. origin[t] \in gone' /\ bt[origin[t]] = origin[it] /\ bv[origin[t]] \in Nat
    BY <1>2, <1>3, <1>4, <1>6
  <2>3. SameVertex(bv[origin[t]], bv[origin[it]], gone', bv, bt)
    BY <2>2, SameVertexStep
  <2>4. \A g \in gone' : bt[g] \in gone' /\ bt[bt[g]] = g /\ bv[g] \in Nat
    BY <1>4, <1>8
  <2>5. SameVertex(place[vertex0[t]], bv[origin[t]], gone', bv, bt)
    BY <2>1, <2>2, <2>4, SameVertexBack
  <2> QED BY <2>1, <2>3, <2>5, SameVertexOn
<1>17. PlaceInv'
  <2> SUFFICES ASSUME NEW f \in Live'
               PROVE  /\ bv[origin[f]] = Null <=> vertex0'[f] = Null
                      /\ vertex0'[f] # Null =>
                            SameVertex(bv[origin[f]], place[vertex0'[f]], gone', bv, bt)
    BY <1>3 DEF RecordsInv, PlaceInv, bv, bt
  <2>1. f \in Live /\ vertex0'[f] = IF vertex0[f] = vertex0[t] THEN vertex0[it] ELSE vertex0[f]
    BY <1>2 DEF MergedInto
  <2>2. CASE vertex0[f] = vertex0[t]
    BY <1>2, <1>15, <1>16, <2>1, <2>2, SameVertexOn
  <2>3. CASE vertex0[f] # vertex0[t]
    BY <1>15, <2>1, <2>3
  <2> QED BY <2>2, <2>3
<1>18. KeptInv'
  BY <1>2 DEF KeptInv, Closing
<1> QED BY <1>9, <1>10, <1>14, <1>17, <1>18 DEF RecordsInv

LEMMA KeepEdgeRecords ==
    ASSUME BuildInv, RecordsInv, KeepEdge
    PROVE  RecordsInv'
<1>1. /\ stage = "edges" /\ stage' = "edges" /\ UNCHANGED <<numVertices, before, gone, place>>
      /\ Linked(Live, twin, next, prev, vertex0, cell)
      /\ Null \notin Live /\ Null \notin Live'
  BY KeepEdgeEffect
<1>2. PICK new, old :
        /\ Moved(Live, Live', new, old, twin, next, prev, vertex0, cell,
                 twin', next', prev', vertex0', cell')
        /\ origin \in [Edge -> Nat] =>
             /\ origin' \in [Edge' -> Nat]
             /\ \A g \in Live' : origin'[g] = origin[old[g]]
  BY KeepEdgeEffect
<1>3. /\ \A f \in Live : new[f] \in Live' /\ old[new[f]] = f
      /\ \A g \in Live' : old[g] \in Live /\ new[old[g]] = g
      /\ \A g \in Live' : cell'[g] = cell[old[g]] /\ vertex0'[g] = vertex0[old[g]]
      /\ \A g \in Live' : twin'[g] = new[twin[old[g]]]
      /\ \A g \in Live' : next'[g] = IF next[old[g]] = Null THEN Null ELSE new[next[old[g]]]
  BY <1>2 DEF Moved
<1>4. origin' \in [Edge' -> Nat] /\ \A g \in Live' : origin'[g] = origin[old[g]]
  BY <1>2 DEF RecordsInv, OriginInv
<1>5. \A f \in Live : twin[f] \in Live /\ (next[f] # Null => next[f] \in Live)
  BY <1>1 DEF Linked, TwinsIn, LinksIn
<1>6. BeforeInv'
  BY <1>1 DEF RecordsInv, BeforeInv
<1>7. OriginInv'
  <2>1. \A e \in Live : origin[e] \in (DOMAIN before.next) \ gone
    BY DEF RecordsInv, OriginInv
  <2>2. \A x \in (DOMAIN before.next) \ gone : \E g \in Live' : origin'[g] = x
    <3> SUFFICES ASSUME NEW x \in (DOMAIN before.next) \ gone
                 PROVE  \E g \in Live' : origin'[g] = x
      OBVIOUS
    <3>1. PICK e \in Live : origin[e] = x
      BY DEF RecordsInv, OriginInv
    <3> QED BY <1>3, <1>4, <3>1
  <2>3. \A g, h \in Live' : origin'[g] = origin'[h] => g = h
    <3>1. \A e, f \in Live : origin[e] = origin[f] => e = f
      BY DEF RecordsInv, OriginInv
    <3> QED BY <1>3, <1>4, <3>1
  <2>4. \A g \in Live' : cell'[g] = before.cell[origin'[g]] /\ origin'[twin'[g]] = before.twin[origin'[g]]
    <3> SUFFICES ASSUME NEW g \in Live'
                 PROVE  /\ cell'[g] = before.cell[origin'[g]]
                        /\ origin'[twin'[g]] = before.twin[origin'[g]]
      OBVIOUS
    <3>1. cell[old[g]] = before.cell[origin[old[g]]] /\ origin[twin[old[g]]] = before.twin[origin[old[g]]]
      BY <1>3 DEF RecordsInv, OriginInv
    <3>2. twin'[g] \in Live' /\ old[twin'[g]] = twin[old[g]]
      BY <1>3, <1>5
    <3> QED BY <1>3, <1>4, <3>1, <3>2
  <2> QED BY <1>1, <1>3, <1>4, <2>1, <2>2, <2>3, <2>4 DEF OriginInv
<1>8. BoundaryInv'
  <2> SUFFICES ASSUME NEW g \in Live'
               PROVE  \E y \in Nat :
                        /\ y \notin gone /\ Follows(before.next[origin'[g]], y, gone, before.next)
                        /\ y # Null => next'[g] # Null /\ origin'[next'[g]] = y
                        /\ y = Null /\ ~ Closing(stage) => next'[g] = Null
    BY <1>1 DEF BoundaryInv
  <2>1. PICK y \in Nat :
                        /\ y \notin gone /\ Follows(before.next[origin[old[g]]], y, gone, before.next)
                        /\ y # Null => next[old[g]] # Null /\ origin[next[old[g]]] = y
                        /\ y = Null /\ ~ Closing(stage) => next[old[g]] = Null
    BY <1>3 DEF RecordsInv, BoundaryInv
  <2>2. next[old[g]] # Null => /\ next'[g] \in Live' /\ next'[g] # Null
                               /\ origin'[next'[g]] = origin[next[old[g]]]
    BY <1>1, <1>3, <1>4, <1>5
  <2>3. next[old[g]] = Null => next'[g] = Null
    BY <1>3
  <2> QED BY <1>4, <2>1, <2>2, <2>3
<1>9. PlaceInv'
  BY <1>1, <1>3, <1>4 DEF RecordsInv, PlaceInv
<1>10. KeptInv'
  BY <1>1 DEF KeptInv, Closing
<1> QED BY <1>6, <1>7, <1>8, <1>9, <1>10 DEF RecordsInv

LEMMA EraseEdgesRecords ==
    ASSUME BuildInv, RecordsInv, EraseEdges
    PROVE  RecordsInv'
<1> DEFINE m == slot - 1
<1>1. /\ stage = "edges" /\ stage' = "incident" /\ it > numEdges /\ numEdges' = m
      /\ UNCHANGED <<numVertices, before, gone, place>>
      /\ cell' = [e \in 1..m |-> cell[e]] /\ twin' = [e \in 1..m |-> twin[e]]
      /\ vertex0' = [e \in 1..m |-> vertex0[e]] /\ next' = [e \in 1..m |-> next[e]]
      /\ origin' = [e \in 1..m |-> origin[e]]
  BY DEF EraseEdges
<1>2. /\ it \in Nat \ {0} /\ slot \in Nat \ {0} /\ numEdges \in Nat
      /\ slot <= it /\ it <= numEdges + 1
  BY <1>1, TypeFacts DEF BuildInv, BuildTypes, EdgesInv
<1>3. Linked(Live, twin, next, prev, vertex0, cell)
  BY <1>1 DEF BuildInv, LinksInv
<1>4. Live = 1..m /\ 1..m \subseteq 1..numEdges
  BY <1>1, <1>2 DEF Live
<1>5. Live' = 1..m /\ Edge' = 1..m
  BY <1>1 DEF Live, Edge
<1> HIDE DEF m
<1>6. origin' \in [Edge' -> Nat]
  <2>1. \A e \in 1..m : origin[e] \in Nat
    BY <1>4 DEF RecordsInv, OriginInv, Edge
  <2> QED BY <1>1, <1>5, <2>1
<1>7. place' \in [1..numVertices' -> Nat] /\ KeptInv'
  BY <1>1 DEF RecordsInv, PlaceInv, KeptInv, Closing
<1>8. \A e \in Live : /\ origin'[e] = origin[e] /\ cell'[e] = cell[e] /\ twin'[e] = twin[e]
                      /\ next'[e] = next[e] /\ vertex0'[e] = vertex0[e]
  BY <1>1, <1>4
<1> QED BY <1>1, <1>3, <1>4, <1>5, <1>6, <1>7, <1>8, RecordsStay DEF Closing

(* The half-edges and the records stay as they are. *)
LEMMA GraphStaysRecords ==
    ASSUME BuildInv, RecordsInv, stage \notin {"edges", "diagram"}, stage' # "edges",
           UNCHANGED <<graphVars, recordVars>>, Closing(stage) => Closing(stage'),
           KeptInv'
    PROVE  RecordsInv'
<1>1. Linked(Live, twin, next, prev, vertex0, cell)
  BY DEF BuildInv, LinksInv
<1>2. Live' = Live /\ Edge' = Edge
  BY DEF Live, Edge, graphVars
<1>3. /\ next' = next /\ vertex0' = vertex0 /\ cell' = cell /\ twin' = twin
      /\ numVertices' = numVertices
      /\ UNCHANGED <<before, origin, gone, place>>
  BY DEF graphVars, recordVars
<1>4. origin' \in [Edge' -> Nat] /\ place' \in [1..numVertices' -> Nat]
  BY <1>2, <1>3 DEF RecordsInv, OriginInv, PlaceInv
<1> QED BY <1>1, <1>2, <1>3, <1>4, RecordsStay

LEMMA SetIncidentEdgesRecords ==
    ASSUME BuildInv, RecordsInv, SetIncidentEdges
    PROVE  RecordsInv'
<1>1. /\ stage = "incident" /\ stage' = "vertices" /\ UNCHANGED <<graphVars, recordVars>>
  BY DEF SetIncidentEdges
<1> QED BY <1>1, GraphStaysRecords DEF KeptInv, Closing

LEMMA SkipVertexRecords ==
    ASSUME BuildInv, RecordsInv, SkipVertex
    PROVE  RecordsInv'
<1>1. /\ stage = "vertices" /\ stage' = "vertices" /\ UNCHANGED <<graphVars, recordVars>>
  BY DEF SkipVertex
<1> QED BY <1>1, GraphStaysRecords DEF KeptInv, Closing

LEMMA AllCellsLinkedRecords ==
    ASSUME BuildInv, RecordsInv, AllCellsLinked
    PROVE  RecordsInv'
<1>1. /\ stage = "infinite" /\ stage' = "diagram"
      /\ UNCHANGED <<graphVars, vertexEdge, recordVars>>
  BY DEF AllCellsLinked
<1>2. KeptInv'
  BY <1>1 DEF RecordsInv, KeptInv, Closing, graphVars
<1> QED BY <1>1, <1>2, GraphStaysRecords DEF Closing

LEMMA KeepVertexRecords ==
    ASSUME BuildInv, RecordsInv, KeepVertex
    PROVE  RecordsInv'
<1>1. /\ stage = "vertices" /\ stage' = "vertices"
      /\ UNCHANGED <<numVertices, numEdges, cell, twin, next, before, origin, gone>>
  BY DEF KeepVertex
<1>2. Linked(Live, twin, next, prev, vertex0, cell)
  BY <1>1 DEF BuildInv, LinksInv
<1>3. Live = Edge /\ Live' = Edge /\ Edge' = Edge
  BY <1>1 DEF Live, Edge
<1>4. /\ it \in 1..numVertices /\ slot \in 1..numVertices /\ numVertices \in Nat
      /\ \A e \in Edge : vertex0[e] \in 0..numVertices
      /\ \A e \in Edge : vertex0'[e] = IF vertex0[e] = it THEN slot ELSE vertex0[e]
      /\ it # slot => \A e \in Edge : vertex0[e] # slot
  BY KeepVertexEffect, TypeFacts DEF BuildInv, BuildTypes
<1>5. place \in [1..numVertices -> Nat]
  BY DEF RecordsInv, PlaceInv
<1>6. /\ place' \in [1..numVertices -> Nat] /\ place'[slot] = place[it]
      /\ \A v \in 1..numVertices : v # slot => place'[v] = place[v]
  <2>1. CASE it = slot
    <3>1. place' = place
      BY <2>1 DEF KeepVertex
    <3> QED BY <1>5, <2>1, <3>1
  <2>2. CASE it # slot
    <3>1. place' = [place EXCEPT ![slot] = place[it]]
      BY <2>2 DEF KeepVertex
    <3> QED BY <1>4, <1>5, <3>1
  <2> QED BY <2>1, <2>2
<1>7. ASSUME NEW e \in Live
      PROVE  /\ vertex0'[e] = Null <=> vertex0[e] = Null
             /\ vertex0[e] # Null => place'[vertex0'[e]] = place[vertex0[e]]
  <2>1. CASE vertex0[e] = it
    BY <1>3, <1>4, <1>6, <2>1 DEF Null
  <2>2. CASE vertex0[e] # it
    <3>1. vertex0'[e] = vertex0[e]
      BY <1>3, <1>4, <2>2
    <3>2. vertex0[e] # Null => vertex0[e] \in 1..numVertices /\ vertex0[e] # slot
      BY <1>3, <1>4, <2>2 DEF Null
    <3> QED BY <1>6, <3>1, <3>2
  <2> QED BY <2>1, <2>2
<1>8. origin' \in [Edge' -> Nat] /\ place' \in [1..numVertices' -> Nat]
  BY <1>1, <1>3, <1>6 DEF RecordsInv, OriginInv
<1>9. KeptInv'
  BY <1>1 DEF KeptInv, Closing
<1> QED BY <1>1, <1>2, <1>3, <1>7, <1>8, <1>9, RecordsStay

LEMMA EraseVerticesRecords ==
    ASSUME BuildInv, RecordsInv, EraseVertices
    PROVE  RecordsInv'
<1> DEFINE m == slot - 1
<1>1. /\ stage = "vertices" /\ stage' = "infinite" /\ it > numVertices /\ numVertices' = m
      /\ UNCHANGED <<numEdges, cell, twin, vertex0, next, before, origin, gone>>
      /\ vertexEdge' = [v \in 1..m |-> vertexEdge[v]] /\ place' = [v \in 1..m |-> place[v]]
  BY DEF EraseVertices
<1>2. /\ it \in Nat \ {0} /\ slot \in Nat \ {0} /\ numVertices \in Nat
      /\ slot <= it /\ it <= numVertices + 1
      /\ \A e \in Edge : vertex0[e] \in 0..numVertices
      /\ \A e \in Edge : vertex0[e] < slot \/ vertex0[e] >= it
      /\ \A v \in 1..m : vertex0[vertexEdge[v]] = v
  BY <1>1, TypeFacts DEF BuildInv, BuildTypes, VerticesInv, Edge
<1>3. 1..m \subseteq 1..numVertices /\ \A e \in Edge : vertex0[e] # Null => vertex0[e] \in 1..m
  BY <1>1, <1>2 DEF Null
<1>4. Live = Edge /\ Live' = Edge /\ Edge' = Edge
  BY <1>1 DEF Live, Edge
<1>5. Linked(Live, twin, next, prev, vertex0, cell)
  BY <1>1 DEF BuildInv, LinksInv
<1> HIDE DEF m
<1>6. place' \in [1..numVertices' -> Nat] /\ \A v \in 1..m : place'[v] = place[v]
  <2>1. \A v \in 1..m : place[v] \in Nat
    BY <1>3 DEF RecordsInv, PlaceInv
  <2> QED BY <1>1, <2>1
<1>7. origin' \in [Edge' -> Nat]
  BY <1>1, <1>4 DEF RecordsInv, OriginInv
<1>8. KeptInv'
  BY <1>1, <1>2 DEF KeptInv
<1>9. \A e \in Live : vertex0[e] # Null => place'[vertex0'[e]] = place[vertex0[e]]
  BY <1>1, <1>3, <1>4, <1>6
<1> QED BY <1>1, <1>4, <1>5, <1>6, <1>7, <1>8, <1>9, RecordsStay DEF Closing

LEMMA LinkLinesRecords ==
    ASSUME BuildInv, RecordsInv, LinkLines
    PROVE  RecordsInv'
<1>1. /\ stage = "infinite" /\ stage' = "diagram" /\ numVertices = 0
      /\ UNCHANGED <<numVertices, numEdges, cell, twin, vertex0, vertexEdge>>
      /\ UNCHANGED <<before, origin, gone, place>>
  BY DEF LinkLines, recordVars
<1>2. Live = Edge /\ Live' = Edge /\ Edge' = Edge
  BY <1>1 DEF Live, Edge
<1>3. /\ Linked(Live, twin, next, prev, vertex0, cell)
      /\ EndsOpen(Live, twin, next, prev, vertex0)
  BY <1>1 DEF BuildInv, LinksInv, EndsInv
<1>4. \A e \in Live : next[e] = Null
  <2>1. \A e \in Live : vertex0[e] = Null /\ twin[e] \in Live
    BY <1>1, <1>2, <1>3, TypeFacts DEF BuildInv, BuildTypes, Edge, Null, Linked, TwinsIn
  <2> QED BY <1>3, <2>1 DEF EndsOpen
<1>5. KeptInv' /\ origin' \in [Edge' -> Nat] /\ place' \in [1..numVertices' -> Nat]
  BY <1>1, <1>2 DEF RecordsInv, KeptInv, Closing, OriginInv, PlaceInv
<1> QED BY <1>1, <1>2, <1>3, <1>4, <1>5, RecordsStay DEF Closing

LEMMA LinkCellRecords ==
    ASSUME BuildInv, RecordsInv, LinkCell
    PROVE  RecordsInv'
<1>1. /\ stage = "infinite" /\ stage' = "infinite" /\ numVertices # 0
      /\ UNCHANGED <<numVertices, numEdges, cell, twin, vertex0, vertexEdge>>
      /\ UNCHANGED <<before, origin, gone, place>>
  BY DEF LinkCell, recordVars
<1>2. Live = Edge /\ Live' = Edge /\ Edge' = Edge
  BY <1>1 DEF Live, Edge
<1>3. Linked(Live, twin, next, prev, vertex0, cell)
  BY <1>1 DEF BuildInv, LinksInv
<1>4. \A e \in Live : next[e] # Null => next'[e] = next[e]
  <2>1. CASE LeftEnds(it) = {}
    BY <2>1 DEF LinkCell
  <2>2. CASE LeftEnds(it) # {}
    <3>1. PICK leftmost \in LeftEnds(it), rightmost \in Ends(next, cellEdge[it]) :
            next' = [next EXCEPT ![rightmost] = leftmost]
      BY <2>2 DEF LinkCell
    <3>2. next[rightmost] = Null
      BY DEF Ends
    <3>3. next \in [Edge -> 0..numEdges]
      BY TypeFacts DEF BuildInv, BuildTypes, Edge
    <3> QED BY <1>2, <3>1, <3>2, <3>3
  <2> QED BY <2>1, <2>2
<1>5. KeptInv' /\ origin' \in [Edge' -> Nat] /\ place' \in [1..numVertices' -> Nat]
  BY <1>1, <1>2 DEF RecordsInv, KeptInv, Closing, OriginInv, PlaceInv
<1> QED BY <1>1, <1>2, <1>3, <1>4, <1>5, RecordsStay DEF Closing

LEMMA StutterRecords ==
    ASSUME RecordsInv, UNCHANGED <<graphVars, buildVars>>
    PROVE  RecordsInv'
<1>1. Live' = Live /\ Edge' = Edge
  BY DEF Live, Edge, graphVars, buildVars
<1>2. BeforeInv'
  BY DEF RecordsInv, BeforeInv, buildVars, recordVars
<1>3. OriginInv' /\ BoundaryInv' /\ PlaceInv' /\ KeptInv'
  BY <1>1 DEF RecordsInv, OriginInv, BoundaryInv, PlaceInv, KeptInv,
              graphVars, buildVars, recordVars
<1> QED BY <1>2, <1>3 DEF RecordsInv

(* What the records say of the other two properties: the walks of           *)
(* BoundaryAfter and MergedWith, which end within the number of removed     *)
(* half-edges, find what the invariant promises.                            *)
LEMMA RecordsKeepBoundaries ==
    ASSUME BuildInv, RecordsInv
    PROVE  BoundariesKept
<1>1. OriginInv /\ BeforeInv /\ BoundaryInv
  BY DEF RecordsInv
<1>2. {origin[e] : e \in Live} = (DOMAIN before.next) \ gone
  BY <1>1 DEF OriginInv
<1>3. ASSUME NEW e \in Live
      PROVE  IF BoundaryAfter(origin[e]) # Null
             THEN next[e] # Null /\ origin[next[e]] = BoundaryAfter(origin[e])
             ELSE stage \notin {"infinite", "diagram"} => next[e] = Null
  <2>1. PICK y \in Nat :
          /\ y \notin gone /\ Follows(before.next[origin[e]], y, gone, before.next)
          /\ y # Null => next[e] # Null /\ origin[next[e]] = y
          /\ y = Null /\ ~ Closing(stage) => next[e] = Null
    BY <1>1 DEF BoundaryInv
  <2>2. origin[e] \in (DOMAIN before.next) \ gone
    BY <1>1 DEF OriginInv
  <2>3. BoundaryAfter(origin[e]) = y
    BY <1>1, <2>1, <2>2, BoundaryAfterFacts
  <2> QED BY <2>1, <2>3 DEF Closing
<1>4. /\ \A e, f \in Live : origin[e] = origin[f] => e = f
      /\ \A e \in Live : cell[e] = before.cell[origin[e]] /\ origin[twin[e]] = before.twin[origin[e]]
  BY <1>1 DEF OriginInv
<1> QED BY <1>2, <1>3, <1>4 DEF BoundariesKept

LEMMA RecordsKeepVertices ==
    ASSUME BuildInv, RecordsInv
    PROVE  VerticesKept
<1>1. BeforeInv /\ OriginInv /\ PlaceInv /\ KeptInv
  BY DEF RecordsInv
<1>2. ASSUME NEW e \in Live
      PROVE  IF before.vertex0[origin[e]] = Null THEN vertex0[e] = Null
             ELSE place[vertex0[e]] \in MergedWith(before.vertex0[origin[e]])
  <2>1. before.vertex0[origin[e]] \in Nat
    BY <1>1 DEF OriginInv, BeforeInv
  <2>2. /\ before.vertex0[origin[e]] = Null <=> vertex0[e] = Null
        /\ vertex0[e] # Null =>
             SameVertex(before.vertex0[origin[e]], place[vertex0[e]], gone,
                        before.vertex0, before.twin)
    BY <1>1 DEF PlaceInv
  <2> QED BY <1>1, <2>1, <2>2, MergedWithFacts
<1> QED BY <1>1, <1>2 DEF VerticesKept, KeptInv, Closing
-----------------------------------------------------------------------------
(* The invariant of the program: while it sweeps, that of the sweep and what *)
(* _build asks of its graph; from then on, that of _build.                  *)
SweepPart ==
    /\ it = 1 /\ slot = 1 /\ gone = {}
    /\ SweepInv /\ Trivalent /\ PairsInv

AxisInv == IF stage = "sweep" THEN SweepPart ELSE pc = "done" /\ BuildInv /\ RecordsInv

LEMMA InitAxisInv == AxisInit => AxisInv
<1>1. Init => SweepInv /\ GraphInit
  BY InitSweepInv
<1>2. GraphInit => Trivalent /\ PairsInv
  BY InitPairs DEF GraphInit, Trivalent, Edge
<1> QED BY <1>1, <1>2 DEF AxisInit, BuildInit, AxisInv, SweepPart

(* A step of _build after its first one. *)
LEMMA BuildStepKeeps ==
    ASSUME BuildInv, RecordsInv, BuildNext
    PROVE  BuildInv' /\ RecordsInv' /\ stage' # "sweep"
<1>1. stage # "sweep"
  BY DEF BuildInv, BuildTypes
<1>2. BuildInv' => stage' # "sweep"
  BY DEF BuildInv, BuildTypes
<1>3. CASE StartBuild
  BY <1>1, <1>3 DEF StartBuild
<1>4. CASE RemoveEdge
  <2>1. PICK t : t = it + 1
    OBVIOUS
  <2>2. BuildInv'
    BY <1>4, <2>1, RemoveEdgeEffect
  <2> QED BY <1>2, <1>4, <2>2, RemoveEdgeRecords
<1>5. CASE KeepEdge
  BY <1>2, <1>5, KeepEdgeEffect, KeepEdgeRecords
<1>6. CASE EraseEdges
  BY <1>2, <1>6, EraseEdgesKeeps, EraseEdgesRecords
<1>7. CASE SetIncidentEdges
  BY <1>2, <1>7, SetIncidentEdgesKeeps, SetIncidentEdgesRecords
<1>8. CASE SkipVertex
  BY <1>2, <1>8, SkipVertexKeeps, SkipVertexRecords
<1>9. CASE KeepVertex
  BY <1>2, <1>9, KeepVertexKeeps, KeepVertexRecords
<1>10. CASE EraseVertices
  BY <1>2, <1>10, EraseVerticesKeeps, EraseVerticesRecords
<1>11. CASE LinkLines
  BY <1>2, <1>11, LinkLinesKeeps, LinkLinesRecords
<1>12. CASE LinkCell
  BY <1>2, <1>12, LinkCellKeeps, LinkCellRecords
<1>13. CASE AllCellsLinked
  BY <1>2, <1>13, AllCellsLinkedKeeps, AllCellsLinkedRecords
<1> QED BY <1>3, <1>4, <1>5, <1>6, <1>7, <1>8, <1>9, <1>10, <1>11, <1>12, <1>13 DEF BuildNext

(* One step of the sweep, or the step that hands its graph to _build. *)
LEMMA SweepPartKeeps ==
    ASSUME stage = "sweep", SweepPart, [AxisNext]_allVars
    PROVE  AxisInv'
<1>1. GraphInv /\ it = 1 /\ slot = 1 /\ gone = {} /\ SweepInv /\ Trivalent /\ PairsInv
  BY DEF SweepPart, SweepInv
<1>2. CASE UNCHANGED buildVars /\ [Next]_vars
  <2>1. stage' = "sweep" /\ it' = 1 /\ slot' = 1 /\ gone' = {}
    BY <1>1, <1>2 DEF buildVars, recordVars
  <2>2. SweepInv' /\ [GraphNext]_graphVars
    BY <1>1, <1>2, StepKeepsSweepInv
  <2>3. Trivalent' /\ PairsInv'
    BY <1>1, <2>2, StepKeepsTrivalent, StepKeepsPairs
  <2> QED BY <2>1, <2>2, <2>3 DEF AxisInv, SweepPart
<1>3. CASE Building
  <2>1. StartBuild
    BY <1>3 DEF Building, BuildNext, RemoveEdge, KeepEdge, EraseEdges, SetIncidentEdges,
                SkipVertex, KeepVertex, EraseVertices, LinkLines, LinkCell, AllCellsLinked
  <2>2. BuildInv' /\ RecordsInv'
    BY <1>1, <2>1, StartBuildStarts, StartBuildRecords
  <2>3. pc' = "done" /\ stage' = "edges"
    BY <1>3, <2>1 DEF Building, sweepVars, StartBuild
  <2> QED BY <2>2, <2>3 DEF AxisInv
<1> QED BY <1>2, <1>3 DEF AxisNext, Sweeping, Stopped, allVars

LEMMA StepKeepsAxisInv == AxisInv /\ [AxisNext]_allVars => AxisInv'
<1> SUFFICES ASSUME AxisInv, [AxisNext]_allVars PROVE AxisInv'
  OBVIOUS
<1>1. CASE stage = "sweep"
  BY <1>1, SweepPartKeeps DEF AxisInv
<1>2. CASE stage # "sweep"
  <2>1. pc = "done" /\ BuildInv /\ RecordsInv
    BY <1>2 DEF AxisInv
  <2>2. CASE Building
    <3>1. BuildInv' /\ RecordsInv' /\ stage' # "sweep"
      BY <2>1, <2>2, BuildStepKeeps DEF Building
    <3>2. pc' = "done"
      BY <2>1, <2>2 DEF Building, sweepVars
    <3> QED BY <3>1, <3>2 DEF AxisInv
  <2>3. CASE UNCHANGED allVars
    <3>1. UNCHANGED <<graphVars, buildVars>> /\ pc' = pc /\ stage' = stage
      BY <2>3 DEF allVars, vars, sweepVars, buildVars
    <3>2. BuildInv' /\ RecordsInv'
      BY <2>1, <3>1, BuildStutterKeeps, StutterRecords
    <3> QED BY <1>2, <2>1, <3>1, <3>2 DEF AxisInv
  <2> QED BY <2>1, <2>2, <2>3 DEF AxisNext, Sweeping, Stopped
<1> QED BY <1>1, <1>2

(* AxisInv is an inductive invariant of the sweep and _build together.      *)
LEMMA InvariantAxisInv == AxisSpec => []AxisInv
BY InitAxisInv, StepKeepsAxisInv, PTL DEF AxisSpec

(* Between two steps of the compaction, and after it, the pointers of the    *)
(* half-edges in use lead to half-edges in use and are inverse to each      *)
(* other.  A diagram without vertices, whose lines _build links by their    *)
(* numbers alone, is left out once they are linked: that the linked lines   *)
(* bound the same cell is not for _build to see.                            *)
THEOREM CompactionKeepsLinks ==
    AxisSpec => [](~ (stage = "diagram" /\ numVertices = 0) => LiveLinks)
<1>1. AxisInv /\ ~ (stage = "diagram" /\ numVertices = 0) => LiveLinks
  BY BuildInvLiveLinks DEF AxisInv, LiveLinks
<1> QED BY <1>1, InvariantAxisInv, PTL

(* rot_next meets all half-edges in use that start in a vertex, and no       *)
(* others, in every state of _build: remove_edge and the removal of         *)
(* vertices move whole stars, and their loops over rot_next() end.          *)
THEOREM CompactionMovesWholeStars == AxisSpec => []StarsComplete
<1>1. AxisInv => StarsComplete
  BY BuildInvStarsComplete DEF AxisInv, StarsComplete
<1> QED BY <1>1, InvariantAxisInv, PTL

(* The half-edges in use are those the sweep left that were not found        *)
(* degenerate, each once and in the order the sweep left around its cell.   *)
THEOREM CompactionKeepsBoundaries == AxisSpec => []BoundariesKept
<1>1. AxisInv => BoundariesKept
  BY RecordsKeepBoundaries DEF AxisInv, BoundariesKept
<1> QED BY <1>1, InvariantAxisInv, PTL

(* A half-edge starts where it started when the sweep ended, or at a vertex  *)
(* that removed half-edges have merged with that one, and no vertex is kept *)
(* that starts no half-edge.                                                *)
THEOREM CompactionKeepsVertices == AxisSpec => []VerticesKept
<1>1. AxisInv => VerticesKept
  BY RecordsKeepVertices DEF AxisInv, VerticesKept
<1> QED BY <1>1, InvariantAxisInv, PTL

-----------------------------------------------------------------------------
(* The half-edges of a cell keep hanging together: when a pair is unlinked,  *)
(* when half-edges move, and when the two ends of a cell are linked.        *)
LEMMA UnlinkedWhole ==
    ASSUME NEW L, NEW nx, NEW pv, NEW cl, LinksMatch(L, nx, pv, cl), CellsWhole(L, nx, cl),
           NEW e \in L, NEW t \in L, e # t, NEW M, M = L \ {e, t},
           pv[e] \in M, pv[t] \in M, nx[e] \in M, nx[t] \in M,
           NEW nx2, NEW pv2, Unlinked(L, e, t, nx, pv, nx2, pv2)
    PROVE  CellsWhole(M, nx2, cl)
<1> SUFFICES ASSUME NEW S \in SUBSET M, ClosedUnder(S, M, nx2) PROVE HoldsCells(S, M, cl)
  BY DEF CellsWhole
<1> DEFINE T == S \cup {x \in {e, t} : pv[x] \in S}
<1>1. /\ Null \notin L /\ nx[pv[e]] = e /\ nx[pv[t]] = t /\ pv[e] # pv[t]
      /\ \A f \in L : nx[f] # Null => nx[f] \in L /\ pv[nx[f]] = f
  BY DEF LinksMatch
<1>2. nx2[pv[e]] = nx[e] /\ nx2[pv[t]] = nx[t]
  BY <1>1 DEF Unlinked
<1>3. (pv[e] \in S <=> nx[e] \in S) /\ (pv[t] \in S <=> nx[t] \in S)
  BY <1>1, <1>2 DEF ClosedUnder
<1>4. (e \in T <=> pv[e] \in S) /\ (t \in T <=> pv[t] \in S) /\ \A f \in M : f \in T <=> f \in S
  OBVIOUS
<1>5. T \in SUBSET L
  OBVIOUS
<1> HIDE DEF T
<1>6. ASSUME NEW f \in L, nx[f] # Null PROVE f \in T <=> nx[f] \in T
  <2>1. CASE f = e
    BY <2>1, <1>3, <1>4
  <2>2. CASE f = t
    BY <2>2, <1>3, <1>4
  <2>3. CASE f = pv[e]
    BY <2>3, <1>1, <1>4
  <2>4. CASE f = pv[t]
    BY <2>4, <1>1, <1>4
  <2>5. CASE f \notin {e, t, pv[e], pv[t]}
    <3>1. f \in M /\ nx[f] \in M /\ nx2[f] = nx[f]
      BY <1>1, <1>6, <2>5 DEF Unlinked
    <3> QED BY <1>4, <1>6, <3>1 DEF ClosedUnder
  <2> QED BY <2>1, <2>2, <2>3, <2>4, <2>5
<1>7. HoldsCells(T, L, cl)
  BY <1>5, <1>6 DEF CellsWhole, ClosedUnder
<1> QED BY <1>4, <1>7 DEF HoldsCells

LEMMA MovedWhole ==
    ASSUME NEW L, NEW M, NEW nx, NEW pv, NEW cl, LinksMatch(L, nx, pv, cl), CellsWhole(L, nx, cl),
           Null \notin M, NEW new, NEW old, NEW tw, NEW v0,
           NEW tw2, NEW nx2, NEW pv2, NEW w0, NEW cl2,
           Moved(L, M, new, old, tw, nx, pv, v0, cl, tw2, nx2, pv2, w0, cl2)
    PROVE  CellsWhole(M, nx2, cl2)
<1> SUFFICES ASSUME NEW S \in SUBSET M, ClosedUnder(S, M, nx2) PROVE HoldsCells(S, M, cl2)
  BY DEF CellsWhole
<1> DEFINE T == {f \in L : new[f] \in S}
<1>1. ASSUME NEW f \in L, nx[f] # Null PROVE f \in T <=> nx[f] \in T
  <2>1. nx[f] \in L /\ new[nx[f]] \in M /\ new[f] \in M
    BY <1>1 DEF Moved, LinksMatch
  <2>2. nx2[new[f]] = new[nx[f]] /\ nx2[new[f]] # Null
    BY <1>1, <2>1 DEF Moved
  <2>3. new[f] \in S <=> new[nx[f]] \in S
    BY <2>1, <2>2 DEF ClosedUnder
  <2> QED BY <2>1, <2>3
<1>2. T \in SUBSET L
  OBVIOUS
<1> HIDE DEF T
<1>3. HoldsCells(T, L, cl)
  BY <1>1, <1>2 DEF CellsWhole, ClosedUnder
<1> SUFFICES ASSUME NEW g \in M, NEW h \in M, g \in S, cl2[h] = cl2[g] PROVE h \in S
  BY DEF HoldsCells
<1>4. /\ old[g] \in L /\ old[h] \in L /\ new[old[g]] = g /\ new[old[h]] = h
      /\ cl[old[h]] = cl[old[g]]
  BY DEF Moved
<1> QED BY <1>3, <1>4 DEF HoldsCells, T

LEMMA MoreLinksWhole ==
    ASSUME NEW L, NEW nx, NEW cl, CellsWhole(L, nx, cl), NEW nx2,
           \A f \in L : nx[f] # Null => nx2[f] = nx[f]
    PROVE  CellsWhole(L, nx2, cl)
  BY DEF CellsWhole, ClosedUnder

-----------------------------------------------------------------------------
(* The loops of _build over next() and prev() meet what is reached.         *)
LEMMA MetIsReach ==
    ASSUME numEdges \in Nat, NEW step \in [Edge -> 0..numEdges], NEW e \in Edge
    PROVE  Met(step, e) = Reach(Edge, step, e)
<1>1. /\ e \in Met(step, e) /\ Met(step, e) \in SUBSET Edge
      /\ \A f \in Met(step, e) : step[f] # Null => step[f] \in Met(step, e)
      /\ \A S \in SUBSET Edge :
            e \in S /\ (\A f \in S : step[f] # Null => step[f] \in S) => Met(step, e) \subseteq S
  BY MetFacts
<1>2. Met(step, e) \subseteq Reach(Edge, step, e)
  BY <1>1 DEF Reach, Onward
<1>3. Reach(Edge, step, e) \subseteq Met(step, e)
  BY <1>1 DEF Reach, Onward
<1> QED BY <1>2, <1>3

LEMMA LiveLinksMatch ==
    ASSUME BuildInv, ~ (stage = "diagram" /\ numVertices = 0)
    PROVE  LinksMatch(Live, next, prev, cell)
<1>1. Live \subseteq Edge /\ Null \notin Live /\ IsFiniteSet(Live)
  BY LiveFacts, TypeFacts, UpTo, FS_Subset DEF BuildInv, BuildTypes, Edge
<1>2. LinksIn(Live, twin, next, prev, vertex0, cell)
  BY DEF BuildInv, LinksInv, Linked
<1> QED BY <1>1, <1>2 DEF LinksIn, LinksMatch

-----------------------------------------------------------------------------
(* Each cell as a whole.  In the loop over the cells, those before it have   *)
(* no end any more.                                                         *)
NoEnds(S) == \A e \in S : next[e] # Null /\ prev[e] # Null

CellsKnown == \A e \in Live : cell[e] \in DOMAIN cells

LiveCellsWhole == numVertices # 0 => CellsWhole(Live, next, cell)

IncidentIsLast ==
    stage \in {"vertices", "infinite", "diagram"} =>
        \A c \in DOMAIN cells : cellEdge[c] = LastOf({e \in Edge : cell[e] = c})

NoEndsBefore == stage = "infinite" /\ numVertices # 0 => NoEnds({e \in Edge : cell[e] < it})

NoEndsLeft == stage = "diagram" /\ numVertices # 0 => NoEnds(Edge)

BuildWhole == CellsKnown /\ LiveCellsWhole /\ IncidentIsLast /\ NoEndsBefore /\ NoEndsLeft

(* The sweep's own invariant of the cells until _build starts.               *)
CellsPart == IF stage = "sweep" THEN CellsIndexedBySite /\ WholeInv ELSE BuildWhole

(* The steps of _build. *)
LEMMA StartBuildWhole ==
    ASSUME CellsIndexedBySite, WholeInv, pc = "done", StartBuild, it = 1, slot = 1,
           numEdges \in Nat
    PROVE  BuildWhole'
<1>1. /\ stage' = "edges" /\ UNCHANGED <<graphVars, it, slot>> /\ IsDiagram
  BY DEF StartBuild
<1>2. Live' = Edge
  BY <1>1 DEF Live, Edge, graphVars
<1>3. numVertices # 0 => CellsWhole(Edge, next, cell)
  BY <1>1 DEF WholeInv, OneEnd, IsDiagram
<1>4. CellsKnown' /\ LiveCellsWhole'
  BY <1>1, <1>2, <1>3 DEF CellsKnown, LiveCellsWhole, CellsIndexedBySite, graphVars
<1> QED BY <1>1, <1>4 DEF BuildWhole, IncidentIsLast, NoEndsBefore, NoEndsLeft

LEMMA RemoveEdgeWhole ==
    ASSUME BuildInv, BuildWhole, RemoveEdge
    PROVE  BuildWhole'
<1> DEFINE t == it + 1
<1>1. /\ stage = "edges" /\ stage' = "edges"
      /\ UNCHANGED <<cells, numVertices, cell>>
  BY DEF RemoveEdge
<1>2. /\ it \in Live /\ t \in Live /\ it # t /\ Live' = Live \ {it, t}
      /\ Unlinked(Live, it, t, next, prev, next', prev')
      /\ prev[it] \in Live' /\ prev[t] \in Live' /\ next[it] \in Live' /\ next[t] \in Live'
  BY RemoveEdgeEffect
<1>3. LinksMatch(Live, next, prev, cell)
  BY <1>1, LiveLinksMatch
<1> HIDE DEF t
<1>4. ASSUME CellsWhole(Live, next, cell) PROVE CellsWhole(Live', next', cell)
  BY <1>2, <1>3, <1>4, UnlinkedWhole
<1>5. CellsKnown' /\ LiveCellsWhole'
  BY <1>1, <1>2, <1>4 DEF BuildWhole, CellsKnown, LiveCellsWhole
<1> QED BY <1>1, <1>5 DEF BuildWhole, IncidentIsLast, NoEndsBefore, NoEndsLeft

LEMMA KeepEdgeWhole ==
    ASSUME BuildInv, BuildWhole, KeepEdge
    PROVE  BuildWhole'
<1>1. /\ stage = "edges" /\ stage' = "edges" /\ UNCHANGED <<cells, numVertices>>
  BY DEF KeepEdge
<1>2. PICK new, old :
        Moved(Live, Live', new, old, twin, next, prev, vertex0, cell,
              twin', next', prev', vertex0', cell')
  BY KeepEdgeEffect
<1>3. LinksMatch(Live, next, prev, cell) /\ Null \notin Live'
  BY <1>1, LiveLinksMatch, KeepEdgeEffect
<1>4. ASSUME CellsWhole(Live, next, cell) PROVE CellsWhole(Live', next', cell')
  BY <1>2, <1>3, <1>4, MovedWhole
<1>5. \A g \in Live' : cell'[g] \in DOMAIN cells
  BY <1>2 DEF Moved, BuildWhole, CellsKnown
<1>6. CellsKnown' /\ LiveCellsWhole'
  BY <1>1, <1>4, <1>5 DEF BuildWhole, CellsKnown, LiveCellsWhole
<1> QED BY <1>1, <1>6 DEF BuildWhole, IncidentIsLast, NoEndsBefore, NoEndsLeft

LEMMA EraseEdgesWhole ==
    ASSUME BuildInv, BuildWhole, EraseEdges
    PROVE  BuildWhole'
<1>1. /\ stage = "edges" /\ stage' = "incident" /\ it > numEdges /\ numEdges' = slot - 1
      /\ UNCHANGED <<cells, numVertices>>
      /\ cell' = [e \in 1..(slot - 1) |-> cell[e]]
      /\ next' = [e \in 1..(slot - 1) |-> next[e]]
  BY DEF EraseEdges
<1>2. numEdges \in Nat /\ it \in Nat /\ slot \in Nat
  BY TypeFacts DEF BuildInv, BuildTypes
<1>3. Live = 1..(slot - 1) /\ Live' = Live
  BY <1>1, <1>2 DEF Live, Edge
<1>4. \A f \in Live : cell'[f] = cell[f] /\ next'[f] = next[f]
  BY <1>1, <1>3
<1>5. LiveCellsWhole'
  <2>1. ASSUME CellsWhole(Live, next, cell) PROVE CellsWhole(Live, next', cell')
    BY <1>4, <2>1 DEF CellsWhole, ClosedUnder, HoldsCells
  <2> QED BY <1>1, <1>3, <2>1 DEF BuildWhole, LiveCellsWhole
<1>6. CellsKnown'
  BY <1>1, <1>3, <1>4 DEF BuildWhole, CellsKnown
<1> QED BY <1>1, <1>5, <1>6 DEF BuildWhole, IncidentIsLast, NoEndsBefore, NoEndsLeft

(* Steps that change no link.                                               *)
LEMMA LinksStayWhole ==
    ASSUME BuildWhole, stage # "edges", stage' # "edges",
           UNCHANGED <<cells, numEdges, cell, next>>, numVertices' # 0 => numVertices # 0
    PROVE  CellsKnown' /\ LiveCellsWhole'
<1>1. Live' = Live
  BY DEF Live, Edge
<1> QED BY <1>1 DEF BuildWhole, CellsKnown, LiveCellsWhole

LEMMA SetIncidentEdgesWhole ==
    ASSUME BuildWhole, SetIncidentEdges
    PROVE  BuildWhole'
<1>1. /\ stage = "incident" /\ stage' = "vertices" /\ UNCHANGED graphVars
      /\ cellEdge' = [c \in DOMAIN cells |-> LastOf({e \in Edge : cell[e] = c})]
  BY DEF SetIncidentEdges
<1>2. CellsKnown' /\ LiveCellsWhole'
  BY <1>1, LinksStayWhole DEF graphVars
<1>3. IncidentIsLast'
  BY <1>1 DEF IncidentIsLast, graphVars, Edge
<1> QED BY <1>1, <1>2, <1>3 DEF BuildWhole, NoEndsBefore, NoEndsLeft

LEMMA VertexStepWhole ==
    ASSUME BuildWhole, SkipVertex \/ KeepVertex
    PROVE  BuildWhole'
<1>1. /\ stage = "vertices" /\ stage' = "vertices"
      /\ UNCHANGED <<cells, numVertices, numEdges, cell, next, cellEdge>>
  BY DEF SkipVertex, KeepVertex, graphVars
<1>2. CellsKnown' /\ LiveCellsWhole'
  BY <1>1, LinksStayWhole
<1>3. IncidentIsLast'
  BY <1>1 DEF BuildWhole, IncidentIsLast, Edge
<1> QED BY <1>1, <1>2, <1>3 DEF BuildWhole, NoEndsBefore, NoEndsLeft

LEMMA EraseVerticesWhole ==
    ASSUME BuildInv, BuildWhole, EraseVertices
    PROVE  BuildWhole'
<1>1. /\ stage = "vertices" /\ stage' = "infinite" /\ numVertices' = slot - 1 /\ it' = 1
      /\ UNCHANGED <<cells, numEdges, cell, next, cellEdge>>
  BY DEF EraseVertices
<1>2. numVertices' # 0 => numVertices # 0
  <2>1. slot <= it /\ it <= numVertices + 1 /\ slot \in Nat \ {0} /\ it \in Nat /\ numVertices \in Nat
    BY <1>1, TypeFacts DEF BuildInv, BuildTypes, VerticesInv
  <2> QED BY <1>1, <2>1
<1>3. CellsKnown' /\ LiveCellsWhole'
  BY <1>1, <1>2, LinksStayWhole
<1>4. IncidentIsLast'
  BY <1>1 DEF BuildWhole, IncidentIsLast, Edge
<1>5. NoEndsBefore'
  <2>1. cell \in [Edge -> Site] /\ Edge' = Edge
    BY <1>1, TypeFacts DEF BuildInv, BuildTypes, Edge
  <2>2. \A e \in Edge : cell[e] \in Nat \ {0}
    BY <2>1, SiteAssumption
  <2>3. \A e \in Edge' : ~ (cell'[e] < it')
    BY <1>1, <2>1, <2>2
  <2> QED BY <2>3 DEF NoEndsBefore, NoEnds
<1> QED BY <1>1, <1>3, <1>4, <1>5 DEF BuildWhole, NoEndsLeft

LEMMA LinkLinesWhole ==
    ASSUME BuildWhole, LinkLines
    PROVE  BuildWhole'
<1>1. /\ stage = "infinite" /\ stage' = "diagram" /\ numVertices = 0 /\ numVertices' = 0
      /\ UNCHANGED <<cells, numEdges, cell, cellEdge>>
  BY DEF LinkLines
<1>2. CellsKnown'
  BY <1>1 DEF BuildWhole, CellsKnown, Live, Edge
<1>3. IncidentIsLast'
  BY <1>1 DEF BuildWhole, IncidentIsLast, Edge
<1> QED BY <1>1, <1>2, <1>3 DEF BuildWhole, LiveCellsWhole, NoEndsBefore, NoEndsLeft

LEMMA AllCellsLinkedWhole ==
    ASSUME BuildInv, BuildWhole, AllCellsLinked
    PROVE  BuildWhole'
<1>1. /\ stage = "infinite" /\ stage' = "diagram" /\ numVertices # 0 /\ it > Len(cells)
      /\ UNCHANGED graphVars /\ cellEdge' = cellEdge
  BY DEF AllCellsLinked
<1>2. CellsKnown' /\ LiveCellsWhole'
  BY <1>1, LinksStayWhole DEF graphVars
<1>3. IncidentIsLast'
  BY <1>1 DEF BuildWhole, IncidentIsLast, Edge, graphVars
<1>4. NoEnds(Edge)
  <2>1. \A e \in Edge : cell[e] < it
    <3>1. cells \in Seq(Site) /\ it \in Nat
      BY DEF BuildInv, BuildTypes, GraphTypeOK
    <3>2. Live = Edge
      BY <1>1 DEF Live
    <3>3. \A e \in Edge : cell[e] \in 1..Len(cells)
      BY <3>1, <3>2, LenProperties DEF BuildWhole, CellsKnown
    <3>4. Len(cells) \in Nat
      BY <3>1, LenProperties
    <3> QED BY <1>1, <3>1, <3>3, <3>4
  <2> QED BY <1>1, <2>1 DEF BuildWhole, NoEndsBefore, NoEnds
<1>5. NoEndsLeft'
  BY <1>1, <1>4 DEF NoEndsLeft, NoEnds, graphVars, Edge
<1> QED BY <1>1, <1>2, <1>3, <1>5 DEF BuildWhole, NoEndsBefore

LEMMA StutterWhole ==
    ASSUME BuildWhole, UNCHANGED <<graphVars, buildVars>>
    PROVE  BuildWhole'
<1>1. UNCHANGED <<cells, numVertices, numEdges, cell, next, prev, stage, it, slot, cellEdge>>
  BY DEF graphVars, buildVars
<1> QED BY <1>1 DEF BuildWhole, CellsKnown, LiveCellsWhole, IncidentIsLast, NoEndsBefore,
                    NoEndsLeft, NoEnds, Live, Edge

-----------------------------------------------------------------------------
(* A cell without a beginning has no end, and one that has a beginning has   *)
(* one end each way: the loops of the iteration find both.                  *)
LEMMA NoStartNoEnd ==
    ASSUME NEW L, NEW nx, NEW pv, NEW cl, LinksMatch(L, nx, pv, cl), CellsWhole(L, nx, cl),
           NEW q \in L, \A f \in Reach(L, pv, q) : pv[f] # Null
    PROVE  \A f \in L : cl[f] = cl[q] => pv[f] # Null /\ nx[f] # Null
<1>1. LinksMatch(L, pv, nx, cl) /\ CellsWhole(L, pv, cl)
  BY MatchBack, WholeBack
<1>2. Reach(L, pv, q) = {f \in L : cl[f] = cl[q]}
  BY <1>1, ReachIsCell
<1>3. \A f \in L : cl[f] = cl[q] => pv[f] # Null
  BY <1>2
<1>4. ASSUME NEW f \in L, cl[f] = cl[q] PROVE nx[f] # Null
  <2>1. Reach(L, pv, f) \subseteq L /\ \A g \in Reach(L, pv, f) : cl[g] = cl[f]
    BY <1>1, ReachFacts
  <2>2. \A g \in Reach(L, pv, f) : pv[g] # Null
    BY <1>3, <1>4, <2>1
  <2>3. nx[f] \in Reach(L, pv, f)
    BY <1>1, <2>2, ReachReturns
  <2> QED BY <2>1, <2>3 DEF LinksMatch
<1> QED BY <1>3, <1>4

LEMMA LinkCellWhole ==
    ASSUME BuildInv, BuildWhole, LinkCell
    PROVE  BuildWhole'
<1>1. /\ stage = "infinite" /\ stage' = "infinite" /\ numVertices # 0 /\ it <= Len(cells)
      /\ it' = it + 1
      /\ UNCHANGED <<cells, numVertices, numEdges, cell, cellEdge>>
  BY DEF LinkCell
<1>2. /\ numEdges \in Nat /\ it \in Nat \ {0} /\ cells \in Seq(Site)
      /\ next \in [Edge -> 0..numEdges] /\ prev \in [Edge -> 0..numEdges]
      /\ cell \in [Edge -> Site]
  BY TypeFacts DEF BuildInv, BuildTypes, GraphTypeOK, Edge
<1>3. Live = Edge /\ Live' = Edge /\ Edge' = Edge
  BY <1>1 DEF Live, Edge
<1>4. LinksMatch(Edge, next, prev, cell) /\ CellsWhole(Edge, next, cell)
  BY <1>1, <1>3, LiveLinksMatch DEF BuildWhole, LiveCellsWhole
<1>5. LinksMatch(Edge, prev, next, cell) /\ CellsWhole(Edge, prev, cell) /\ Null \notin Edge
  BY <1>4, MatchBack, WholeBack DEF LinksMatch
<1>6. it \in DOMAIN cells
  BY <1>1, <1>2, LenProperties
<1> DEFINE Here == {e \in Edge : cell[e] = it}
<1>7. cellEdge[it] = LastOf(Here)
  BY <1>1, <1>6 DEF BuildWhole, IncidentIsLast
<1>8. (Here = {} => cellEdge[it] = 0) /\ (Here # {} => cellEdge[it] \in Here)
  <2>1. Here \in SUBSET (1..numEdges)
    BY DEF Edge
  <2> HIDE DEF Here
  <2> QED BY <1>2, <1>7, <2>1, LastOfFacts
<1>9. \A e \in Edge : cell[e] < it + 1 => cell[e] < it \/ e \in Here
  <2>1. \A e \in Edge : cell[e] \in Nat
    BY <1>2, SiteAssumption
  <2> QED BY <1>2, <2>1
<1>10. \A e \in Edge : cell[e] < it => next[e] # Null /\ prev[e] # Null
  BY <1>1 DEF BuildWhole, NoEndsBefore, NoEnds
<1>11. /\ \A e \in Edge : next[e] # Null => next'[e] = next[e]
       /\ \A e \in Edge : prev[e] # Null => prev'[e] = prev[e]
       /\ \A e \in Here : next'[e] # Null /\ prev'[e] # Null
  <2>1. CASE Here = {}
    <3>1. next' = next /\ prev' = prev
      BY <1>8, <2>1 DEF LinkCell, LeftEnds, Null
    <3> QED BY <2>1, <3>1
  <2>2. CASE Here # {}
    <3> DEFINE q == cellEdge[it]
    <3>1. q \in Edge /\ cell[q] = it /\ q # Null
      BY <1>5, <1>8, <2>2
    <3>2. Met(prev, q) = Reach(Edge, prev, q)
      BY <1>2, <3>1, MetIsReach
    <3>3. CASE LeftEnds(it) = {}
      <4>1. next' = next /\ prev' = prev
        BY <3>3 DEF LinkCell
      <4>2. \A f \in Reach(Edge, prev, q) : prev[f] # Null
        BY <3>1, <3>2, <3>3 DEF LeftEnds, Ends
      <4>3. \A f \in Edge : cell[f] = cell[q] => prev[f] # Null /\ next[f] # Null
        BY <1>4, <3>1, <4>2, NoStartNoEnd
      <4> QED BY <3>1, <4>1, <4>3
    <3>4. CASE LeftEnds(it) # {}
      <4>1. PICK leftmost \in LeftEnds(it), rightmost \in Ends(next, q) :
              /\ prev' = [prev EXCEPT ![leftmost] = rightmost]
              /\ next' = [next EXCEPT ![rightmost] = leftmost]
        BY <3>4 DEF LinkCell
      <4>2. leftmost \in Ends(prev, q)
        BY DEF LeftEnds
      <4>3. /\ leftmost \in Edge /\ prev[leftmost] = Null /\ cell[leftmost] = it
            /\ rightmost \in Edge /\ next[rightmost] = Null /\ cell[rightmost] = it
        <5>1. Linked(Edge, twin, next, prev, vertex0, cell)
          BY <1>1, <1>3 DEF BuildInv, LinksInv
        <5> QED BY <1>3, <3>1, <4>2, <5>1, EndsInCell
      <4>4. ASSUME NEW e \in Here PROVE prev[e] = Null => e = leftmost
        BY <1>4, <4>3, OneStart
      <4>5. ASSUME NEW e \in Here PROVE next[e] = Null => e = rightmost
        BY <1>5, <4>3, OneStart
      <4>6. /\ \A e \in Edge : next'[e] = IF e = rightmost THEN leftmost ELSE next[e]
            /\ \A e \in Edge : prev'[e] = IF e = leftmost THEN rightmost ELSE prev[e]
        BY <1>2, <4>1, <4>3
      <4>7. leftmost # Null /\ rightmost # Null
        BY <1>5, <4>3
      <4> QED BY <4>3, <4>4, <4>5, <4>6, <4>7
    <3> QED BY <3>3, <3>4
  <2> QED BY <2>1, <2>2
<1>12. NoEndsBefore'
  <2>1. \A e \in Edge : cell[e] < it + 1 => next'[e] # Null /\ prev'[e] # Null
    BY <1>9, <1>10, <1>11
  <2> QED BY <1>1, <1>3, <2>1 DEF NoEndsBefore, NoEnds
<1>13. CellsWhole(Edge, next', cell)
  BY <1>4, <1>11, MoreLinksWhole
<1>14. CellsKnown' /\ LiveCellsWhole'
  BY <1>1, <1>3, <1>13 DEF BuildWhole, CellsKnown, LiveCellsWhole
<1>15. IncidentIsLast'
  BY <1>1, <1>3 DEF BuildWhole, IncidentIsLast
<1> QED BY <1>1, <1>12, <1>14, <1>15 DEF BuildWhole, NoEndsLeft

LEMMA BuildStepKeepsWhole ==
    ASSUME BuildInv, BuildWhole, BuildNext
    PROVE  BuildWhole'
<1>1. ~ StartBuild
  BY DEF BuildInv, BuildTypes, StartBuild
<1> QED BY <1>1, RemoveEdgeWhole, KeepEdgeWhole, EraseEdgesWhole, SetIncidentEdgesWhole,
           VertexStepWhole, EraseVerticesWhole, LinkLinesWhole, LinkCellWhole,
           AllCellsLinkedWhole DEF BuildNext

LEMMA StepKeepsCellsPart ==
    ASSUME AxisInv, CellsPart, [AxisNext]_allVars
    PROVE  CellsPart'
<1>1. CASE UNCHANGED allVars
  <2>1. UNCHANGED <<graphVars, buildVars>> /\ stage' = stage /\ UNCHANGED vars
    BY <1>1 DEF allVars, buildVars, vars
  <2>2. CASE stage = "sweep"
    <3>1. CellsIndexedBySite /\ WholeInv /\ SweepInv /\ GraphInv
      BY <2>2 DEF CellsPart, AxisInv, SweepPart, SweepInv
    <3>2. WholeInv'
      BY <2>1, <3>1, StepKeepsWhole
    <3>3. CellsIndexedBySite'
      BY <2>1, <3>1, StepKeepsCells
    <3> QED BY <2>1, <2>2, <3>2, <3>3 DEF CellsPart
  <2>3. CASE stage # "sweep"
    BY <2>1, <2>3, StutterWhole DEF CellsPart
  <2> QED BY <2>2, <2>3
<1>2. CASE Sweeping
  <2>1. stage = "sweep"
    BY <1>2 DEF Sweeping, AxisInv
  <2>2. CellsIndexedBySite /\ WholeInv /\ SweepInv /\ GraphInv /\ [Next]_vars
    BY <1>2, <2>1 DEF CellsPart, AxisInv, SweepPart, SweepInv, Sweeping
  <2>3. [GraphNext]_graphVars
    BY <2>2, StepKeepsSweepInv
  <2>4. WholeInv' /\ CellsIndexedBySite'
    BY <2>2, <2>3, StepKeepsWhole, StepKeepsCells
  <2>5. stage' = "sweep"
    BY <1>2, <2>1 DEF Sweeping, buildVars
  <2> QED BY <2>4, <2>5 DEF CellsPart
<1>3. CASE Building
  <2>1. CASE stage = "sweep"
    <3>1. StartBuild /\ pc = "done"
      BY <1>3, <2>1 DEF Building, BuildNext, RemoveEdge, KeepEdge, EraseEdges, SetIncidentEdges,
                  SkipVertex, KeepVertex, EraseVertices, LinkLines, LinkCell, AllCellsLinked
    <3>2. CellsIndexedBySite /\ WholeInv /\ it = 1 /\ slot = 1 /\ numEdges \in Nat
      BY <2>1, EdgeFacts DEF CellsPart, AxisInv, SweepPart, SweepInv
    <3>3. BuildWhole' /\ stage' = "edges"
      BY <3>1, <3>2, StartBuildWhole DEF StartBuild
    <3> QED BY <3>3 DEF CellsPart
  <2>2. CASE stage # "sweep"
    <3>1. BuildInv /\ RecordsInv /\ BuildWhole /\ BuildNext
      BY <1>3, <2>2 DEF CellsPart, AxisInv, Building
    <3>2. BuildWhole' /\ stage' # "sweep"
      BY <3>1, BuildStepKeepsWhole, BuildStepKeeps
    <3> QED BY <3>2 DEF CellsPart
  <2> QED BY <2>1, <2>2
<1> QED BY <1>1, <1>2, <1>3 DEF AxisNext, Stopped

(* What is left when the last cell is closed.                               *)
LEMMA BuildWholeCellsClosed ==
    ASSUME BuildInv, BuildWhole, numVertices # 0
    PROVE  CellsClosed
<1> SUFFICES ASSUME stage = "diagram" PROVE CellsClosed
  BY DEF CellsClosed
<1>1. /\ numEdges \in Nat /\ next \in [Edge -> 0..numEdges] /\ prev \in [Edge -> 0..numEdges]
  BY TypeFacts DEF BuildInv, BuildTypes, Edge
<1>2. Live = Edge
  BY DEF Live
<1>3. LinksMatch(Edge, next, prev, cell) /\ CellsWhole(Edge, next, cell) /\ NoEnds(Edge)
  BY <1>2, LiveLinksMatch DEF BuildWhole, LiveCellsWhole, NoEndsLeft
<1>4. LinksMatch(Edge, prev, next, cell) /\ CellsWhole(Edge, prev, cell)
  BY <1>3, MatchBack, WholeBack
<1>5. ASSUME NEW e \in Edge
      PROVE  /\ next[e] # Null /\ prev[e] # Null
             /\ Met(next, e) = {f \in Edge : cell[f] = cell[e]}
             /\ Met(prev, e) = Met(next, e)
  <2>1. Reach(Edge, next, e) \subseteq Edge /\ Reach(Edge, prev, e) \subseteq Edge
    BY DEF Reach
  <2>2. Reach(Edge, next, e) = {f \in Edge : cell[f] = cell[e]}
    BY <1>3, <2>1, ReachIsCell DEF NoEnds
  <2>3. Reach(Edge, prev, e) = {f \in Edge : cell[f] = cell[e]}
    BY <1>3, <1>4, <2>1, ReachIsCell DEF NoEnds
  <2>4. Met(next, e) = Reach(Edge, next, e) /\ Met(prev, e) = Reach(Edge, prev, e)
    BY <1>1, MetIsReach
  <2> QED BY <1>3, <2>2, <2>3, <2>4 DEF NoEnds
<1>6. ASSUME NEW c \in DOMAIN cells
      PROVE  IF cellEdge[c] = Null THEN \A e \in Edge : cell[e] # c ELSE cell[cellEdge[c]] = c
  <2> DEFINE Here == {e \in Edge : cell[e] = c}
  <2>1. cellEdge[c] = LastOf(Here)
    BY DEF BuildWhole, IncidentIsLast
  <2>2. Here \in SUBSET (1..numEdges) /\ 0 \notin Here
    BY DEF Edge
  <2>3. (Here = {} => cellEdge[c] = 0) /\ (Here # {} => cellEdge[c] \in Here)
    <3> HIDE DEF Here
    <3> QED BY <1>1, <2>1, <2>2, LastOfFacts
  <2> QED BY <2>2, <2>3 DEF Null
<1> QED BY <1>5, <1>6 DEF CellsClosed

(* In a complete diagram with a vertex, the loops over next() and over       *)
(* prev() that start at any half-edge come back to it and have then seen    *)
(* all half-edges of its cell, and the incident edge of a cell is one of    *)
(* them.                                                                    *)
THEOREM DiagramCellsClosed == AxisSpec => [](numVertices # 0 => CellsClosed)
<1>1. AxisInit => CellsPart
  <2>1. Init => CellsIndexedBySite
    BY DEF Init, GraphInit, CellsIndexedBySite, Edge
  <2> QED BY <2>1, InitWhole DEF AxisInit, BuildInit, CellsPart
<1>2. AxisInv /\ CellsPart /\ [AxisNext]_allVars => CellsPart'
  BY StepKeepsCellsPart
<1>3. AxisInv /\ CellsPart => (numVertices # 0 => CellsClosed)
  BY BuildWholeCellsClosed DEF AxisInv, CellsPart, CellsClosed
<1> QED BY <1>1, <1>2, <1>3, InvariantAxisInv, PTL DEF AxisSpec
-----------------------------------------------------------------------------
(* Feet.  The half-edges that may have one: a half-edge that starts at no    *)
(* vertex yet only if its cell is a point.  The lower one of two that meet,  *)
(* e12, only if it ends at a vertex, is curved or has a point for its cell.  *)
MayHaveFoot(e12) ==
    {e \in Edge : /\ Open(e) => ContainsPoint(e)
                  /\ e = e12 /\ Linear(e) => ContainsPoint(e) \/ HasVertex1(e)}

(* What the rules of a circle event find.                                    *)
TwoMeet(e12, e23) ==
    /\ GraphInv
    /\ e12 \in Edge /\ e23 \in Edge /\ ~ Open(e12) /\ ~ Open(e23)
    /\ e12 # e23 /\ e12 # twin[e23]
    /\ prev[e12] \notin {e12, e23, twin[e23]}
    /\ cell[twin[e12]] = cell[e23] /\ cell[twin[next[twin[e23]]]] = cell[e12]
    /\ cell[e23] \in touched[vertex0[e23]]
    /\ Open(twin[e23]) => ContainsPoint(e23) \/ ContainsPoint(twin[e23])

LEMMA PutWithin ==
    ASSUME NEW f, NEW rule, NEW e, NEW spot, NEW S,
           DOMAIN f \subseteq S, rule => e \in S
    PROVE  DOMAIN Put(f, rule, e, spot) \subseteq S
BY DEF Put

LEMMA FillWithin ==
    ASSUME NEW f, NEW rule, NEW e, NEW spot, NEW S,
           DOMAIN f \subseteq S, rule /\ e \notin DOMAIN f => e \in S
    PROVE  DOMAIN Fill(f, rule, e, spot) \subseteq S
BY PutWithin DEF Fill

(* The half-edges around the vertex where two have met.                      *)
LEMMA MetEdges ==
    ASSUME NEW e12, NEW e23, TwoMeet(e12, e23)
    PROVE  /\ \A e \in Edge : /\ twin[e] \in Edge /\ twin[twin[e]] = e /\ twin[e] # e
                              /\ HasVertex1(e) <=> ~ Open(twin[e])
                              /\ HasVertex1(e) <=> next[e] # Null
                              /\ next[e] # Null => /\ next[e] \in Edge /\ ~ Open(next[e])
                                                   /\ prev[next[e]] = e /\ cell[next[e]] = cell[e]
                              /\ prev[e] = Null <=> Open(e)
                              /\ prev[e] # Null => /\ prev[e] \in Edge /\ next[prev[e]] = e
                                                   /\ cell[prev[e]] = cell[e]
           /\ next[twin[e23]] # Null /\ next[twin[e23]] # e12
           /\ prev[e12] # Null /\ prev[e12] # e12 /\ next[e12] # e12 /\ next[e23] # e12
<1>1. \A e \in Edge : /\ twin[e] \in Edge /\ twin[twin[e]] = e /\ twin[e] # e
                      /\ HasVertex1(e) <=> ~ Open(twin[e])
                      /\ HasVertex1(e) <=> next[e] # Null
                      /\ next[e] # Null => /\ next[e] \in Edge /\ ~ Open(next[e])
                                           /\ prev[next[e]] = e /\ cell[next[e]] = cell[e]
                      /\ prev[e] = Null <=> Open(e)
                      /\ prev[e] # Null => prev[e] \in Edge /\ next[prev[e]] = e
  BY EdgeFacts DEF TwoMeet, Edge, HasVertex1, Vertex1, Open, Null
<1>2. \A e \in Edge : prev[e] # Null => cell[prev[e]] = cell[e]
  <2> SUFFICES ASSUME NEW e \in Edge, prev[e] # Null PROVE cell[prev[e]] = cell[e]
    OBVIOUS
  <2>1. e # Null
    BY DEF Edge, Null
  <2> QED BY <1>1, <2>1
<1>3. next[twin[e23]] # Null /\ prev[e12] # Null
  BY <1>1 DEF TwoMeet
<1>4. \A e \in Edge : e # Null /\ (next[e] = e12 => prev[e12] = e)
  BY <1>1 DEF Edge, Null, TwoMeet
<1>5. next[twin[e23]] # e12 /\ prev[e12] # e12 /\ next[e12] # e12 /\ next[e23] # e12
  BY <1>1, <1>4 DEF TwoMeet
<1> HIDE DEF TwoMeet
<1> QED BY <1>1, <1>2, <1>3, <1>5

(* No rule follows a null pointer. *)
LEMMA NothingNull ==
    ASSUME NEW e12, NEW e23, TwoMeet(e12, e23)
    PROVE  ~ FollowsNull(e12, e23)
<1>1. e12 \in Edge /\ e23 \in Edge
  BY DEF TwoMeet
<1>2. \A e \in Edge : ~ CornerUnlinked(e)
  BY MetEdges DEF CornerUnlinked, BesideCorner, LeavesCorner
<1>3. ASSUME StartsInCorner(e23, cell[e12], cell[twin[e23]]) PROVE ~ Open(twin[e23])
  <2> DEFINE p == sites[cell[e12]].p0
  <2>1. /\ ~ ContainsPoint(twin[e23]) /\ p \in SiteEnds(cell[twin[e23]])
        /\ p \in Corners(vertex0[e23]) /\ Primary(e23)
    BY <1>3 DEF StartsInCorner, EqualsPoint, ContainsPoint, IsPoint
  <2>2. p \in SiteEnds(cell[e23])
    BY <2>1 DEF Corners, TwoMeet
  <2>3. ~ Mixed(e23)
    BY <2>1, <2>2 DEF Primary
  <2> QED BY <2>1, <2>3 DEF TwoMeet, Mixed
<1>4. StartsInCorner(e23, cell[e12], cell[twin[e23]]) => Vertex1(e23) # Null /\ next[e23] # Null
  BY <1>1, <1>3, MetEdges DEF HasVertex1
<1> QED BY <1>1, <1>2, <1>4 DEF FollowsNull

(* A rule that would reflect in a half-edge finds its second vertex. *)
LEMMA NotReflectedInNull ==
    ASSUME NEW e12, NEW e23, TwoMeet(e12, e23), NEW f, DOMAIN f \subseteq MayHaveFoot(e12)
    PROVE  ~ ReflectsInNull(e12, e23, f)
<1> SUFFICES ASSUME BetweenCurves(e12, e23, f) PROVE HasVertex1(e12)
  BY DEF ReflectsInNull
<1>1. ContainsPoint(twin[e23]) /\ Mixed(e23) /\ Mixed(next[twin[e23]])
  BY DEF BetweenCurves, Linear
<1>2. /\ twin[e23] \in Edge /\ twin[twin[e23]] = e23
      /\ cell[next[twin[e23]]] = cell[twin[e23]]
  <2>1. e23 \in Edge
    BY DEF TwoMeet
  <2>2. twin[e23] \in Edge /\ twin[twin[e23]] = e23
    BY <2>1, MetEdges
  <2> QED BY <2>2, MetEdges
<1>3. ~ ContainsPoint(e23) /\ ~ ContainsPoint(twin[next[twin[e23]]])
  BY <1>1, <1>2 DEF Mixed, ContainsPoint, IsPoint
<1>4. cell[twin[e12]] = cell[e23] /\ cell[twin[next[twin[e23]]]] = cell[e12]
  BY DEF TwoMeet
<1>5. ~ ContainsPoint(e12) /\ ~ ContainsPoint(twin[e12])
  BY <1>3, <1>4 DEF ContainsPoint
<1>6. Linear(e12)
  BY <1>5 DEF Linear, Mixed, ContainsPoint, IsPoint
<1> QED BY <1>5, <1>6 DEF MayHaveFoot, BetweenCurves

(* The half-edges that the rules of a circle event may give a foot. *)
LEMMA MetMayHaveFoot ==
    ASSUME NEW e12, NEW e23, TwoMeet(e12, e23)
    PROVE  /\ e23 \in MayHaveFoot(e12) /\ next[twin[e23]] \in MayHaveFoot(e12)
           /\ HasVertex1(e12) => e12 \in MayHaveFoot(e12) /\ twin[e12] \in MayHaveFoot(e12)
           /\ ~ Linear(e12) => e12 \in MayHaveFoot(e12)
           /\ HasVertex1(e23) => twin[e23] \in MayHaveFoot(e12)
           /\ next[e12] # Null => next[e12] \in MayHaveFoot(e12)
           /\ next[e23] # Null => next[e23] \in MayHaveFoot(e12)
           /\ ContainsPoint(e12) => prev[e12] \in MayHaveFoot(e12)
<1>1. \A e \in Edge : ~ Open(e) /\ e # e12 => e \in MayHaveFoot(e12)
  BY DEF MayHaveFoot
<1>2. ContainsPoint(e12) => prev[e12] \in MayHaveFoot(e12)
  BY MetEdges DEF MayHaveFoot, TwoMeet, ContainsPoint
<1>3. e12 \in Edge /\ e23 \in Edge /\ ~ Open(e12) /\ ~ Open(e23) /\ e12 # e23 /\ e12 # twin[e23]
  BY DEF TwoMeet
<1>4. HasVertex1(e12) \/ ~ Linear(e12) => e12 \in MayHaveFoot(e12)
  BY <1>3 DEF MayHaveFoot
<1>5. HasVertex1(e12) => twin[e12] \in MayHaveFoot(e12)
  BY <1>1, <1>3, MetEdges
<1>6. e23 \in MayHaveFoot(e12) /\ (HasVertex1(e23) => twin[e23] \in MayHaveFoot(e12))
  BY <1>1, <1>3, MetEdges
<1>7. \A e \in {e12, e23, twin[e23]} : next[e] # Null => next[e] \in MayHaveFoot(e12)
  BY <1>1, <1>3, MetEdges
<1> QED BY <1>2, <1>4, <1>5, <1>6, <1>7, MetEdges

(* Each rule gives feet only to half-edges that may have one. *)
LEMMA IntoCornersWithin ==
    ASSUME NEW e12, NEW e23, TwoMeet(e12, e23), NEW f, DOMAIN f \subseteq MayHaveFoot(e12)
    PROVE  DOMAIN IntoCorners(e12, e23, f) \subseteq MayHaveFoot(e12)
<1> DEFINE S == MayHaveFoot(e12)
           v == vertex0[e12]
           new2 == next[twin[e23]]
           s1 == cell[e12]
           s3 == cell[new2]
           f1 == Put(f, IntoCorner(e12) /\ IsSegment(sites[s1]), e12, Nearest(v, s1))
           f2 == Put(f1, IntoCorner(e23) /\ IsSegment(sites[s3]), new2, Nearest(v, s3))
           f3 == Put(f2, EndsAtItsPoint(e12, s1), twin[e12], VertexPlace(Vertex1(e12)))
           f4 == Put(f3, EndsAtItsPoint(e23, s3), twin[e23], VertexPlace(Vertex1(e23)))
<1>1. /\ IntoCorner(e12) => e12 \in S
      /\ new2 \in S
      /\ EndsAtItsPoint(e12, s1) => twin[e12] \in S
      /\ EndsAtItsPoint(e23, s3) => twin[e23] \in S
  BY MetMayHaveFoot DEF IntoCorner, EndsAtItsPoint
<1> HIDE DEF S, v, new2, s1, s3
<1>2. DOMAIN f1 \subseteq S
  BY <1>1, PutWithin DEF S
<1> HIDE DEF f1
<1>3. DOMAIN f2 \subseteq S
  BY <1>1, <1>2, PutWithin
<1> HIDE DEF f2
<1>4. DOMAIN f3 \subseteq S
  BY <1>1, <1>3, PutWithin
<1> HIDE DEF f3
<1>5. DOMAIN f4 \subseteq S
  BY <1>1, <1>4, PutWithin
<1>6. f4 = IntoCorners(e12, e23, f)
  BY DEF IntoCorners, f1, f2, f3, v, new2, s1, s3
<1> QED BY <1>5, <1>6 DEF S

LEMMA OutOfCornerWithin ==
    ASSUME NEW e12, NEW e23, TwoMeet(e12, e23), NEW f, DOMAIN f \subseteq MayHaveFoot(e12)
    PROVE  DOMAIN OutOfCorner(e12, e23, f) \subseteq MayHaveFoot(e12)
<1> DEFINE S == MayHaveFoot(e12)
           s3 == cell[twin[e23]]
           end == Vertex1(e23)
           rule == StartsInCorner(e23, cell[e12], s3)
           f1 == Put(f, rule, e23, VertexPlace(vertex0[e23]))
           f2 == Put(f1, rule, twin[e23], Nearest(end, s3))
           f3 == Put(f2, rule, next[e23], Reflected(Nearest(end, s3), end, e23))
<1>1. /\ rule => HasVertex1(e23) /\ next[e23] # Null
      /\ e23 \in S
      /\ rule => twin[e23] \in S /\ next[e23] \in S
  BY NothingNull, MetMayHaveFoot DEF FollowsNull, HasVertex1
<1> HIDE DEF S, s3, end, rule
<1>2. DOMAIN f1 \subseteq S
  BY <1>1, PutWithin DEF S
<1> HIDE DEF f1
<1>3. DOMAIN f2 \subseteq S
  BY <1>1, <1>2, PutWithin
<1> HIDE DEF f2
<1>4. DOMAIN f3 \subseteq S
  BY <1>1, <1>3, PutWithin
<1>5. f3 = OutOfCorner(e12, e23, f)
  BY DEF OutOfCorner, f1, f2, s3, end, rule
<1> QED BY <1>4, <1>5 DEF S

LEMMA StraightEdgesWithin ==
    ASSUME NEW e12, NEW e23, TwoMeet(e12, e23), NEW f, DOMAIN f \subseteq MayHaveFoot(e12)
    PROVE  DOMAIN StraightEdges(e12, e23, f) \subseteq MayHaveFoot(e12)
<1> DEFINE S == MayHaveFoot(e12)
           v == vertex0[e12]
           new2 == next[twin[e23]]
           s1 == cell[e12]
           s3 == cell[new2]
           ends3 == HasVertex1(e23) /\ IsSegment(sites[s3])
           missing == HasVertex1(e12) /\ IsSegment(sites[s1]) /\ Linear(e12) /\ e12 \notin DOMAIN f
           f1 == Fill(f, ends3 /\ Linear(e23), twin[e23], Nearest(Vertex1(e23), s3))
           f2 == Fill(f1, ends3 /\ Linear(new2), new2, Nearest(v, s3))
           f3 == Put(f2, missing, e12, Nearest(v, s1))
           f4 == Put(f3, missing /\ Corners(v) # {}, twin[e12], VertexPlace(Vertex1(e12)))
<1>1. /\ ends3 => twin[e23] \in S
      /\ new2 \in S
      /\ missing => e12 \in S /\ twin[e12] \in S
  BY MetMayHaveFoot
<1> HIDE DEF S, v, new2, s1, s3, ends3, missing
<1>2. DOMAIN f1 \subseteq S
  BY <1>1, FillWithin DEF S
<1> HIDE DEF f1
<1>3. DOMAIN f2 \subseteq S
  BY <1>1, <1>2, FillWithin
<1> HIDE DEF f2
<1>4. DOMAIN f3 \subseteq S
  BY <1>1, <1>3, PutWithin
<1> HIDE DEF f3
<1>5. DOMAIN f4 \subseteq S
  BY <1>1, <1>4, PutWithin
<1>6. f4 = StraightEdges(e12, e23, f)
  BY DEF StraightEdges, f1, f2, f3, v, new2, s1, s3, ends3, missing
<1> QED BY <1>5, <1>6 DEF S

LEMMA FillCornersWithin ==
    ASSUME NEW e12, NEW e23, TwoMeet(e12, e23), NEW f, DOMAIN f \subseteq MayHaveFoot(e12)
    PROVE  DOMAIN FillCorners(e12, e23, f) \subseteq MayHaveFoot(e12)
<1> DEFINE S == MayHaveFoot(e12)
           f1 == Fill(f, CornerBeyond(e12), next[e12], VertexPlace(Vertex1(e12)))
           f2 == Fill(f1, CornerBeyond(e23), next[e23], VertexPlace(Vertex1(e23)))
<1>1. /\ CornerBeyond(e12) => next[e12] \in S
      /\ CornerBeyond(e23) => next[e23] \in S
  BY MetMayHaveFoot DEF CornerBeyond
<1> HIDE DEF S
<1>2. DOMAIN f1 \subseteq S
  BY <1>1, FillWithin DEF S
<1> HIDE DEF f1
<1>3. DOMAIN f2 \subseteq S
  BY <1>1, <1>2, FillWithin
<1>4. f2 = FillCorners(e12, e23, f)
  BY DEF FillCorners, f1
<1> QED BY <1>3, <1>4 DEF S

LEMMA ReflectionsWithin ==
    ASSUME NEW e12, NEW e23, TwoMeet(e12, e23), NEW f, DOMAIN f \subseteq MayHaveFoot(e12)
    PROVE  DOMAIN Reflections(e12, e23, f) \subseteq MayHaveFoot(e12)
<1> DEFINE S == MayHaveFoot(e12)
           v == vertex0[e12]
           new2 == next[twin[e23]]
           f1 == Fill(f, HasVertex1(e23) /\ Linear(e23) /\ new2 \in DOMAIN f, e23, Reflected(f[new2], v, e23))
           onward == HasVertex1(e12) /\ Linear(e12) /\ e23 \in DOMAIN f1
           f2 == Fill(f1, onward, e12, Reflected(f1[e23], v, e12))
           f3 == Fill(f2, ~ Primary(e12) /\ Primary(e23) /\ HasVertex1(e12), e23, VertexPlace(Vertex1(e12)))
           f4 == Put(f3, ~ Linear(e12), e12, Nearest(v, cell[e12]))
<1>1. /\ e23 \in S
      /\ HasVertex1(e12) => e12 \in S
      /\ ~ Linear(e12) => e12 \in S
  BY MetMayHaveFoot
<1> HIDE DEF S, v, new2
<1>2. DOMAIN f1 \subseteq S
  BY <1>1, FillWithin DEF S
<1>3. onward => e12 \in S
  BY <1>1
<1> HIDE DEF onward, f1
<1>4. DOMAIN f2 \subseteq S
  BY <1>1, <1>2, <1>3, FillWithin
<1> HIDE DEF f2
<1>5. DOMAIN f3 \subseteq S
  BY <1>1, <1>4, FillWithin
<1> HIDE DEF f3
<1>6. DOMAIN f4 \subseteq S
  BY <1>1, <1>5, PutWithin
<1>7. f4 = Reflections(e12, e23, f)
  BY DEF Reflections, f1, f2, f3, onward, v, new2
<1> QED BY <1>6, <1>7 DEF S

LEMMA AroundPointsWithin ==
    ASSUME NEW e12, NEW e23, TwoMeet(e12, e23), NEW f, DOMAIN f \subseteq MayHaveFoot(e12)
    PROVE  DOMAIN AroundPoints(e12, e23, f) \subseteq MayHaveFoot(e12)
<1> DEFINE S == MayHaveFoot(e12)
           share(g, from, to, rule) ==
                Fill(g, from \in DOMAIN g /\ ContainsPoint(from) /\ rule, to, g[from])
           after == next[e23]
           f1 == share(f, twin[e12], e23, TRUE)
           f2 == share(f1, e23, after, after # Null /\ Primary(after))
           f3 == share(f2, twin[e23], next[twin[e23]], TRUE)
           f4 == share(f3, e12, prev[e12], TRUE)
<1>1. /\ e23 \in S
      /\ after # Null => after \in S
      /\ next[twin[e23]] \in S
      /\ ContainsPoint(e12) => prev[e12] \in S
  BY MetMayHaveFoot
<1> HIDE DEF S, after
<1>2. DOMAIN f1 \subseteq S
  BY <1>1, FillWithin DEF S
<1> HIDE DEF f1
<1>3. DOMAIN f2 \subseteq S
  BY <1>1, <1>2, FillWithin
<1> HIDE DEF f2
<1>4. DOMAIN f3 \subseteq S
  BY <1>1, <1>3, FillWithin
<1> HIDE DEF f3
<1>5. DOMAIN f4 \subseteq S
  BY <1>1, <1>4, FillWithin
<1>6. f4 = AroundPoints(e12, e23, f)
  BY DEF AroundPoints, f1, f2, f3, share, after
<1> QED BY <1>5, <1>6 DEF S

LEMMA LastRulesWithin ==
    ASSUME NEW e12, NEW e23, TwoMeet(e12, e23), NEW f, DOMAIN f \subseteq MayHaveFoot(e12)
    PROVE  DOMAIN LastRules(e12, e23, f) \subseteq MayHaveFoot(e12)
<1> DEFINE S == MayHaveFoot(e12)
           v == vertex0[e12]
           new2 == next[twin[e23]]
           f1 == Put(f, BetweenCurves(e12, e23, f), e23, Reflected(f[e12], v, e12))
           f2 == Put(f1, ~ Linear(new2), new2, Nearest(v, cell[new2]))
<1>1. /\ e23 \in S
      /\ new2 \in S
  BY MetMayHaveFoot
<1> HIDE DEF S, v, new2
<1>2. DOMAIN f1 \subseteq S
  BY <1>1, PutWithin DEF S
<1> HIDE DEF f1
<1>3. DOMAIN f2 \subseteq S
  BY <1>1, <1>2, PutWithin
<1>4. f2 = LastRules(e12, e23, f)
  BY DEF LastRules, f1, v, new2
<1> QED BY <1>3, <1>4 DEF S


(* Whatever feet a circle event finds, no rule follows a null pointer, and   *)
(* the rules give feet only to half-edges that may have one.                 *)
RulesSafe ==
    \A e12, e23 : TwoMeet(e12, e23) =>
        /\ ~ FollowsNull(e12, e23)
        /\ \A f : DOMAIN f \subseteq MayHaveFoot(e12) =>
            /\ DOMAIN IntoCorners(e12, e23, f) \subseteq MayHaveFoot(e12)
            /\ DOMAIN OutOfCorner(e12, e23, f) \subseteq MayHaveFoot(e12)
            /\ DOMAIN StraightEdges(e12, e23, f) \subseteq MayHaveFoot(e12)
            /\ DOMAIN FillCorners(e12, e23, f) \subseteq MayHaveFoot(e12)
            /\ DOMAIN Reflections(e12, e23, f) \subseteq MayHaveFoot(e12)
            /\ DOMAIN AroundPoints(e12, e23, f) \subseteq MayHaveFoot(e12)
            /\ DOMAIN LastRules(e12, e23, f) \subseteq MayHaveFoot(e12)
            /\ ~ ReflectsInNull(e12, e23, f)

LEMMA RulesAreSafe == RulesSafe
<1> SUFFICES ASSUME NEW e12, NEW e23, TwoMeet(e12, e23), NEW f, DOMAIN f \subseteq MayHaveFoot(e12)
             PROVE  /\ ~ FollowsNull(e12, e23)
                    /\ DOMAIN IntoCorners(e12, e23, f) \subseteq MayHaveFoot(e12)
                    /\ DOMAIN OutOfCorner(e12, e23, f) \subseteq MayHaveFoot(e12)
                    /\ DOMAIN StraightEdges(e12, e23, f) \subseteq MayHaveFoot(e12)
                    /\ DOMAIN FillCorners(e12, e23, f) \subseteq MayHaveFoot(e12)
                    /\ DOMAIN Reflections(e12, e23, f) \subseteq MayHaveFoot(e12)
                    /\ DOMAIN AroundPoints(e12, e23, f) \subseteq MayHaveFoot(e12)
                    /\ DOMAIN LastRules(e12, e23, f) \subseteq MayHaveFoot(e12)
                    /\ ~ ReflectsInNull(e12, e23, f)
  BY NothingNull DEF RulesSafe
<1> QED
  BY NothingNull, IntoCornersWithin, OutOfCornerWithin, StraightEdgesWithin, FillCornersWithin,
     ReflectionsWithin, AroundPointsWithin, LastRulesWithin, NotReflectedInNull

-----------------------------------------------------------------------------
(* The sites on one vertical line: a point between any two segments. *)
SegmentsApart ==
    \A i \in 1..(N - 1) :
        IsVertical(sites[i]) /\ IsVertical(sites[i + 1]) /\ sites[i].p0[1] = sites[i + 1].p0[1]
            => IsPoint(sites[i]) \/ IsPoint(sites[i + 1])

LEMMA InitSegmentsApart == Init => SegmentsApart
<1> SUFFICES ASSUME Init, NEW i \in 1..(N - 1), IsVertical(sites[i]), IsVertical(sites[i + 1]),
                    sites[i].p0[1] = sites[i + 1].p0[1],
                    IsSegment(sites[i]), IsSegment(sites[i + 1])
             PROVE  FALSE
  BY DEF SegmentsApart, IsPoint
<1>1. PICK E, n : QueueOfEvents(E, n)
  BY InitQueue
<1>2. /\ EventsFit(E) /\ n \in Nat /\ N = n
      /\ \A k \in 1..n : sites[k] \in E
      /\ \A s \in E : \E k \in 1..n : sites[k] = s
      /\ \A k, m \in 1..n : k < m => EventLess(sites[k], sites[m])
  BY <1>1 DEF QueueOfEvents, N
<1> DEFINE s == sites[i]
           t == sites[i + 1]
<1>3. /\ i \in 1..n /\ i + 1 \in 1..n /\ i < i + 1 /\ i \in Nat
      /\ s \in E /\ t \in E
  BY <1>2
<1>4. /\ s.p0[1] \in Int /\ s.p0[2] \in Int /\ t.p0[1] \in Int /\ t.p0[2] \in Int
  BY <1>2, <1>3 DEF EventsFit, SiteRecord, Point
<1>5. PICK k \in 1..n : sites[k] = PointSite(t.p0)
  BY <1>2, <1>3 DEF EventsFit
<1>6. sites[k].p0 = t.p0 /\ IsPoint(sites[k]) /\ IsVertical(sites[k])
  BY <1>5 DEF PointSite, IsPoint, IsSegment, IsVertical
<1>7. s.p0[2] < t.p0[2]
  <2>1. EventLess(s, t)
    BY <1>2, <1>3
  <2> QED BY <1>4, <2>1 DEF EventLess, SegmentBefore, IsPoint
<1>8. ~ (k < i)
  <2> SUFFICES ASSUME k < i PROVE FALSE
    OBVIOUS
  <2>1. EventLess(sites[k], s)
    BY <1>2, <1>3
  <2> QED BY <1>4, <1>6, <1>7, <2>1 DEF EventLess, PointBefore, IsPoint
<1>9. ~ (i + 1 < k)
  <2> SUFFICES ASSUME i + 1 < k PROVE FALSE
    OBVIOUS
  <2>1. EventLess(t, sites[k])
    BY <1>2, <1>3
  <2> QED BY <1>4, <1>6, <2>1 DEF EventLess, SegmentBefore, IsPoint
<1>10. k = i \/ k = i + 1
  BY <1>3, <1>8, <1>9
<1> QED BY <1>6, <1>10 DEF IsPoint

-----------------------------------------------------------------------------
(* A half-edge that no vertex starts yet has a foot only in the cell of a    *)
(* point, and a bisector that ends nowhere bounds one.                       *)
FeetInv ==
    /\ touched \in Seq(SUBSET Site) /\ Len(touched) = numVertices
    /\ \A e \in Edge : Open(e) /\ Open(twin[e]) => ContainsPoint(e) \/ ContainsPoint(twin[e])
    /\ \A e \in Edge \cap DOMAIN foot : Open(e) => ContainsPoint(e)
    /\ DOMAIN foot \subseteq Edge
    /\ SegmentsApart
    /\ ~ lost

LEMMA InitFeetInv == Init /\ FeetInit => FeetInv
<1> SUFFICES ASSUME Init, FeetInit PROVE FeetInv
  OBVIOUS
<1>1. numVertices = 0 /\ numEdges = 0 /\ Edge = {}
  BY DEF Init, GraphInit, Edge
<1>2. SegmentsApart
  BY InitSegmentsApart
<1>3. touched = <<>> /\ foot = <<>> /\ lost = FALSE
  BY DEF FeetInit
<1>4. touched \in Seq(SUBSET Site) /\ Len(touched) = 0 /\ DOMAIN foot = {}
  BY <1>3
<1> QED BY <1>1, <1>2, <1>3, <1>4 DEF FeetInv

(* A new site whose bisector has a point on one side. *)
LEMMA SiteKeepsFeet ==
    ASSUME GraphInv, FeetInv, NEW s1 \in Site, NEW s2 \in Site, InsertSiteEdge(s1, s2),
           UNCHANGED sites, SiteFeet, IsPoint(sites[s1]) \/ IsPoint(sites[s2])
    PROVE  FeetInv'
<1>1. /\ numEdges \in Nat /\ numEdges' = numEdges + 2 /\ numVertices' = numVertices
      /\ \A e \in 1..numEdges : /\ cell'[e] = cell[e] /\ twin'[e] = twin[e]
                                /\ vertex0'[e] = vertex0[e] /\ twin[e] \in 1..numEdges
      /\ cell'[numEdges + 1] = s1 /\ cell'[numEdges + 2] = s2
      /\ twin'[numEdges + 1] = numEdges + 2 /\ twin'[numEdges + 2] = numEdges + 1
  BY SiteEffect
<1>2. /\ \A e \in 1..numEdges : e \in 1..numEdges'
      /\ \A e \in 1..numEdges' : e \in 1..numEdges \/ e = numEdges + 1 \/ e = numEdges + 2
      /\ numEdges' = numEdges + 2 /\ numEdges' - 1 = numEdges + 1
      /\ numEdges + 1 \in 1..numEdges' /\ numEdges + 2 \in 1..numEdges'
  BY <1>1
<1>3. touched' = touched /\ lost' = lost
  BY DEF SiteFeet
<1>4. \A e \in DOMAIN foot' : /\ e \in Edge'
                              /\ ContainsPoint(e)' \/ e \in DOMAIN foot
  <2>1. PICK f \in {foot} : foot' = AfterSite(numEdges - 1, numEdges, f)'
    BY DEF SiteFeet
  <2> DEFINE curved == {d \in {numEdges' - 1, numEdges'} : ~ Linear(d)' /\ ContainsPoint(d)'}
  <2>2. DOMAIN foot' = DOMAIN foot \cup curved
    BY <2>1 DEF AfterSite
  <2>3. \A e \in DOMAIN foot' : \/ e \in DOMAIN foot
                                \/ e \in {numEdges' - 1, numEdges'} /\ ContainsPoint(e)'
    BY <2>2
  <2>4. DOMAIN foot \subseteq 1..numEdges
    BY DEF FeetInv, Edge
  <2> QED BY <1>2, <2>3, <2>4 DEF Edge
<1>5. \A e \in 1..numEdges : /\ ContainsPoint(e)' <=> ContainsPoint(e)
                             /\ ContainsPoint(twin[e])' <=> ContainsPoint(twin[e])
                             /\ Open(e)' <=> Open(e)
                             /\ Open(twin[e])' <=> Open(twin[e])
  BY <1>1 DEF ContainsPoint, Open
<1>6. \A e \in 1..numEdges' : Open(e)' /\ Open(twin[e])' => ContainsPoint(e)' \/ ContainsPoint(twin[e])'
  <2> SUFFICES ASSUME NEW e \in 1..numEdges', Open(e)', Open(twin[e])'
               PROVE  ContainsPoint(e)' \/ ContainsPoint(twin[e])'
    OBVIOUS
  <2>1. CASE e \in 1..numEdges
    BY <1>5, <2>1 DEF FeetInv, Edge
  <2>2. CASE e = numEdges + 1 \/ e = numEdges + 2
    BY <1>1, <2>2 DEF ContainsPoint
  <2> QED BY <1>2, <2>1, <2>2
<1>7. \A e \in Edge' \cap DOMAIN foot' : Open(e)' => ContainsPoint(e)'
  BY <1>4, <1>5 DEF FeetInv, Edge
<1>8. SegmentsApart'
  BY DEF FeetInv, SegmentsApart, N
<1> QED BY <1>1, <1>3, <1>4, <1>6, <1>7, <1>8 DEF FeetInv, Edge

(* Two half-edges that meet find what the rules rely on. *)
LEMMA JoinedMeet ==
    ASSUME FeetInv, NEW e12, NEW e23, NEW t12, NEW t23, NEW n, NEW v,
           GraphInv', Joined(e12, e23, t12, t23, n, v), UNCHANGED sites,
           touched' = Append(touched, {cell[e12], cell[e23], cell'[n + 2]}),
           cell[e12] \in Site, cell[e23] \in Site, cell'[n + 2] \in Site
    PROVE  /\ TwoMeet(e12, e23)'
           /\ DOMAIN foot \subseteq MayHaveFoot(e12)'
           /\ touched' \in Seq(SUBSET Site) /\ Len(touched') = numVertices'
<1>1. /\ numEdges = n /\ numEdges' = n + 2 /\ n \in Nat
      /\ \A e \in 1..n : e \in 1..(n + 2)
      /\ numVertices \in Nat /\ v = numVertices + 1 /\ numVertices' = v /\ v # 0
      /\ e12 \in 1..n /\ e23 \in 1..n /\ t12 \in 1..n /\ t23 \in 1..n
      /\ n + 1 \notin 1..n
  <2>1. numVertices \in Nat
    BY LenProperties DEF FeetInv
  <2> QED BY <2>1 DEF Joined
<1>2. /\ touched' \in Seq(SUBSET Site) /\ Len(touched') = numVertices'
      /\ touched'[v] = {cell[e12], cell[e23], cell'[n + 2]}
  BY <1>1, AppendProperties DEF FeetInv
<1>3. \A e \in 1..n : /\ cell'[e] = cell[e] /\ twin'[e] = twin[e]
                      /\ vertex0'[e] = Null => vertex0[e] = Null
  <2> SUFFICES ASSUME NEW e \in 1..n
               PROVE  /\ cell'[e] = cell[e] /\ twin'[e] = twin[e]
                      /\ vertex0'[e] = 0 => vertex0[e] = 0
    BY DEF Null
  <2>1. /\ cell'[e] = cell[e] /\ twin'[e] = twin[e]
        /\ e # e12 /\ e # e23 => vertex0'[e] = vertex0[e]
        /\ vertex0'[e12] = v /\ vertex0'[e23] = v
    BY DEF Joined
  <2> QED BY <1>1, <2>1
<1>4. \A e \in 1..n : ContainsPoint(e)' <=> ContainsPoint(e)
  BY <1>3 DEF ContainsPoint
<1>5. TwoMeet(e12, e23)'
  <2>1. /\ e12 \in Edge' /\ e23 \in Edge' /\ ~ Open(e12)' /\ ~ Open(e23)'
        /\ e12 # e23 /\ e12 # twin'[e23] /\ prev'[e12] \notin {e12, e23, twin'[e23]}
    BY <1>1 DEF Joined, Edge, Open, Null
  <2>2. /\ cell'[twin'[e12]] = cell'[e23] /\ next'[twin'[e23]] = n + 2
        /\ cell'[twin'[next'[twin'[e23]]]] = cell'[e12]
    BY <1>1 DEF Joined
  <2>3. cell'[e23] \in touched'[vertex0'[e23]]
    BY <1>1, <1>2 DEF Joined
  <2>4. Open(twin[e23])' => ContainsPoint(e23)' \/ ContainsPoint(twin[e23])'
    <3>1. twin'[e23] = t23 /\ twin[e23] = t23 /\ Open(e23)
      BY <1>1 DEF Joined, Open, Null
    <3>2. vertex0'[t23] = Null => ContainsPoint(e23) \/ ContainsPoint(t23)
      BY <1>1, <1>3, <3>1 DEF FeetInv, Edge, Open
    <3> QED BY <1>1, <1>3, <3>1, <3>2 DEF ContainsPoint, Open
  <2> QED BY <2>1, <2>2, <2>3, <2>4 DEF TwoMeet
<1>6. DOMAIN foot \subseteq MayHaveFoot(e12)'
  <2> SUFFICES ASSUME NEW e \in DOMAIN foot PROVE e \in MayHaveFoot(e12)'
    OBVIOUS
  <2>1. e \in 1..n /\ (Open(e) => ContainsPoint(e))
    BY <1>1 DEF FeetInv, Edge
  <2>2. e \in Edge' /\ (Open(e)' => ContainsPoint(e)')
    BY <1>1, <1>3, <1>4, <2>1 DEF Edge, Open
  <2>3. e = e12 => ContainsPoint(e)'
    BY <1>4, <2>1 DEF Joined, Open, Null
  <2> QED BY <2>2, <2>3 DEF MayHaveFoot
<1> QED BY <1>2, <1>5, <1>6
LEMMA CircleKeepsFeet ==
    ASSUME SweepInv, FeetInv, CircleEvent, CircleFeet, RulesSafe'
    PROVE  FeetInv'
<1>1. PICK ev \in circles, i \in DOMAIN beach : CircleAt(ev, i)
  BY CircleEventAt
<1>2. PICK e12 \in Edge, e23 \in Edge : JoinBisectors(e12, e23) /\ GraphInv' /\ GraphInv
  BY <1>1, CircleJoins DEF SweepInv
<1>3. PICK n, v, t12, t23 : n = numEdges /\ Joined(e12, e23, t12, t23, n, v)
  BY <1>2, JoinFacts
<1>4. /\ First = n + 1 /\ Second = n + 2 /\ next'[First] = e12 /\ twin[prev'[Second]] = e23
      /\ n \in Nat /\ n + 2 \in 1..(n + 2) /\ numEdges' = n + 2
  BY <1>3 DEF Joined, First, Second
<1>5. PICK f \in {foot} :
        /\ touched' = Append(touched, {cell[e12], cell[e23], cell'[Second]})
        /\ IF FollowsNull(e12, e23)' THEN lost' = TRUE /\ UNCHANGED foot
           ELSE \E f1 \in {OutOfCorner(e12, e23, IntoCorners(e12, e23, f))'} :
                \E f2 \in {FillCorners(e12, e23, StraightEdges(e12, e23, f1))'} :
                \E f3 \in {Reflections(e12, e23, f2)'} :
                \E f4 \in {AroundPoints(e12, e23, f3)'} :
                   IF ReflectsInNull(e12, e23, f4)' THEN lost' = TRUE /\ foot' = f4
                   ELSE foot' = LastRules(e12, e23, f4)' /\ UNCHANGED lost
  BY <1>4 DEF CircleFeet
<1>6. /\ cell[e12] \in Site /\ cell[e23] \in Site /\ cell'[n + 2] \in Site
      /\ UNCHANGED sites
  <2>1. n + 2 \in 1..numEdges'
    BY <1>4
  <2>2. \A e \in 1..numEdges : cell[e] \in Site
    BY <1>2, EdgeFacts
  <2>3. \A e \in 1..numEdges' : cell'[e] \in Site
    BY <1>2 DEF GraphInv, GraphTypeOK, Edge
  <2> QED BY <2>1, <2>2, <2>3, <1>2 DEF Edge, CircleEvent
<1>7. /\ TwoMeet(e12, e23)' /\ DOMAIN f \subseteq MayHaveFoot(e12)'
      /\ touched' \in Seq(SUBSET Site) /\ Len(touched') = numVertices'
  BY <1>2, <1>3, <1>4, <1>5, <1>6, JoinedMeet
<1>8. lost' = lost /\ DOMAIN foot' \subseteq MayHaveFoot(e12)'
  <2>1. ~ FollowsNull(e12, e23)'
    BY <1>7 DEF RulesSafe
  <2> DEFINE Within(g) == DOMAIN g \subseteq MayHaveFoot(e12)'
  <2>2. PICK f1 : /\ f1 = OutOfCorner(e12, e23, IntoCorners(e12, e23, f))'
                  /\ \E f2 \in {FillCorners(e12, e23, StraightEdges(e12, e23, f1))'} :
                     \E f3 \in {Reflections(e12, e23, f2)'} :
                     \E f4 \in {AroundPoints(e12, e23, f3)'} :
                        IF ReflectsInNull(e12, e23, f4)' THEN lost' = TRUE /\ foot' = f4
                        ELSE foot' = LastRules(e12, e23, f4)' /\ UNCHANGED lost
    BY <1>5, <2>1
  <2>3. Within(f1)
    <3>1. PICK g : g = IntoCorners(e12, e23, f)'
      OBVIOUS
    <3>2. Within(g)
      BY <1>7, <3>1 DEF RulesSafe
    <3> QED BY <1>7, <2>2, <3>1, <3>2 DEF RulesSafe
  <2>4. PICK f2 : /\ f2 = FillCorners(e12, e23, StraightEdges(e12, e23, f1))'
                  /\ \E f3 \in {Reflections(e12, e23, f2)'} :
                     \E f4 \in {AroundPoints(e12, e23, f3)'} :
                        IF ReflectsInNull(e12, e23, f4)' THEN lost' = TRUE /\ foot' = f4
                        ELSE foot' = LastRules(e12, e23, f4)' /\ UNCHANGED lost
    BY <2>2
  <2>5. Within(f2)
    <3>1. PICK g : g = StraightEdges(e12, e23, f1)'
      OBVIOUS
    <3>2. Within(g)
      BY <1>7, <2>3, <3>1 DEF RulesSafe
    <3> QED BY <1>7, <2>4, <3>1, <3>2 DEF RulesSafe
  <2>6. PICK f3, f4 : /\ f3 = Reflections(e12, e23, f2)' /\ f4 = AroundPoints(e12, e23, f3)'
                      /\ IF ReflectsInNull(e12, e23, f4)' THEN lost' = TRUE /\ foot' = f4
                         ELSE foot' = LastRules(e12, e23, f4)' /\ UNCHANGED lost
    BY <2>4
  <2>7. Within(f3)
    BY <1>7, <2>5, <2>6 DEF RulesSafe
  <2>8. Within(f4)
    BY <1>7, <2>6, <2>7 DEF RulesSafe
  <2>9. ~ ReflectsInNull(e12, e23, f4)' /\ DOMAIN LastRules(e12, e23, f4)' \subseteq MayHaveFoot(e12)'
    BY <1>7, <2>8 DEF RulesSafe
  <2> QED BY <2>6, <2>9
<1>9. \A e \in Edge' : Open(e)' /\ Open(twin[e])' => ContainsPoint(e)' \/ ContainsPoint(twin[e])'
  <2> SUFFICES ASSUME NEW e \in 1..(n + 2), vertex0'[e] = 0, vertex0'[twin'[e]] = 0
               PROVE  ContainsPoint(e)' \/ ContainsPoint(twin[e])'
    BY <1>4 DEF Edge, Open, Null
  <2>1. vertex0'[n + 2] # 0 /\ twin'[n + 1] = n + 2 /\ vertex0'[e12] # 0 /\ vertex0'[e23] # 0
    BY <1>3 DEF Joined
  <2>2. e # n + 1 /\ e # n + 2 /\ e # e12 /\ e # e23
    BY <2>1
  <2>3. e \in 1..n
    BY <1>4, <2>2
  <2>4. /\ cell'[e] = cell[e] /\ twin'[e] = twin[e] /\ vertex0'[e] = vertex0[e]
        /\ twin[e] \in 1..n
    BY <1>2, <1>3, <2>2, <2>3, EdgeFacts DEF Joined
  <2>5. cell'[twin[e]] = cell[twin[e]] /\ vertex0'[twin[e]] = vertex0[twin[e]]
    BY <1>3, <2>1, <2>4 DEF Joined
  <2>6. ContainsPoint(e) \/ ContainsPoint(twin[e])
    BY <1>3, <2>3, <2>4, <2>5 DEF FeetInv, Edge, Open, Null
  <2> QED BY <1>6, <2>4, <2>5, <2>6 DEF ContainsPoint
<1>10. SegmentsApart'
  BY <1>6 DEF FeetInv, SegmentsApart, N
<1>11. \A e \in DOMAIN foot' : e \in Edge' /\ (Open(e)' => ContainsPoint(e)')
  BY <1>8 DEF MayHaveFoot
<1> QED BY <1>7, <1>8, <1>9, <1>10, <1>11 DEF FeetInv

LEMMA InitKeepsFeet ==
    ASSUME SweepInv, FeetInv, InitDefault \/ InitCollinear, SiteFeet
    PROVE  FeetInv'
<1>1. /\ GraphInv /\ SitesInv /\ 1..N \subseteq Site /\ N \in Nat /\ IsPoint(sites[1])
      /\ UNCHANGED sites
  BY DEF SweepInv, SitesInv, InitDefault, InitCollinear
<1>2. CASE InitDefault
  <2>1. N > 1 /\ InsertSiteEdge(1, 2)
    BY <1>2 DEF InitDefault
  <2>2. 1 \in 1..N /\ 2 \in 1..N
    BY <1>1, <2>1
  <2> QED BY <1>1, <2>1, <2>2, SiteKeepsFeet
<1>3. CASE InitCollinear
  <2>1. pc = "init" /\ Skip > 1 /\ InsertSiteEdge(cursor, cursor + 1)
    BY <1>3 DEF InitCollinear
  <2>2. Skip \in 1..N /\ \A m \in 1..Skip : OnFirstVertical(m)
    BY <1>1, SkipFound
  <2>3. cursor \in 1..(N - 1) /\ cursor \in 1..Skip /\ cursor + 1 \in 1..Skip /\ cursor + 1 \in 1..N
    BY <1>1, <2>1, <2>2, InitFacts
  <2>4. IsPoint(sites[cursor]) \/ IsPoint(sites[cursor + 1])
    BY <2>2, <2>3 DEF FeetInv, SegmentsApart, OnFirstVertical
  <2>5. cursor \in Site /\ cursor + 1 \in Site
    BY <1>1, <2>3
  <2> HIDE DEF SiteFeet, FeetInv
  <2> QED BY <1>1, <2>1, <2>4, <2>5, SiteKeepsFeet
<1> QED BY <1>2, <1>3

LEMMA InsertArcKeepsFeet ==
    ASSUME SweepInv, FeetInv, InsertArc, SiteFeet, SegmentsSplitTheirPoint
    PROVE  FeetInv'
<1>1. /\ GraphInv /\ 1..N \subseteq Site /\ N \in Nat /\ cursor \in 1..N /\ UNCHANGED sites
      /\ pc = "arcs" /\ right \in 1..(Len(beach) + 1) /\ Len(beach) \in Nat
      /\ Len(cells) = cursor - 1
  BY BeachFacts DEF SweepInv, SitesInv, PhaseInv, InsertArc
<1>2. PICK s \in 1..Len(cells) :
        /\ AddSite(s, cursor)
        /\ IF right <= Len(beach) THEN s = beach[right].l.site ELSE right = Len(beach) + 1
        /\ right > 1 => s = beach[right - 1].r.site
  <2>1. ArcSplit
    BY InsertArcSteps
  <2>2. PICK arc :
          /\ arc.site \in 1..Len(cells) /\ AddSite(arc.site, cursor)
          /\ IF right <= Len(beach) THEN arc.site = beach[right].l.site
                                    ELSE right = Len(beach) + 1
          /\ right > 1 => arc.site = beach[right - 1].r.site
    BY <2>1, Zenon DEF ArcSplit
  <2> QED BY <2>2
<1>3. s \in Site /\ cursor \in Site /\ InsertSiteEdge(s, cursor)
  BY <1>1, <1>2 DEF AddSite
<1>4. Len(beach) > 0
  <2>1. N > 1 => beach # <<>>
    BY <1>1 DEF SweepInv, PhaseInv
  <2> QED BY <1>1, <1>2, <2>1, BeachFacts
<1>5. s = ArcToSplit.site
  BY <1>1, <1>2, <1>4 DEF ArcToSplit
<1>6. IsPoint(sites[s]) \/ IsPoint(sites[cursor])
  <2>1. CASE IsSegment(sites[cursor])
    <3>1. sites[s] = PointSite(sites[cursor].p0)
      BY <1>1, <1>5, <2>1 DEF SegmentsSplitTheirPoint, SiteEvent
    <3> QED BY <3>1 DEF PointSite, IsPoint, IsSegment
  <2> QED BY <2>1 DEF IsPoint
<1> QED BY <1>1, <1>3, <1>6, SiteKeepsFeet

LEMMA FeetUntouched ==
    ASSUME FeetInv, UNCHANGED <<numVertices, numEdges, cell, twin, vertex0, sites>>,
           UNCHANGED <<foot, touched, lost>>
    PROVE  FeetInv'
<1>1. Edge' = Edge /\ N' = N
  BY DEF Edge, N
<1>2. \A e \in Edge : /\ Open(e)' <=> Open(e)
                      /\ Open(twin[e])' <=> Open(twin[e])
                      /\ ContainsPoint(e)' <=> ContainsPoint(e)
                      /\ ContainsPoint(twin[e])' <=> ContainsPoint(twin[e])
  BY DEF Open, ContainsPoint
<1>3. SegmentsApart'
  BY <1>1 DEF FeetInv, SegmentsApart
<1> QED BY <1>1, <1>2, <1>3 DEF FeetInv

LEMMA StepKeepsFeetInv ==
    ASSUME SweepInv, FeetInv, SegmentsSplitTheirPoint, RulesSafe', [FeetNext]_feetAllVars
    PROVE  FeetInv'
<1>1. CASE CircleEvent /\ CircleFeet
  BY <1>1, CircleKeepsFeet
<1>2. CASE (InitDefault \/ InitCollinear) /\ SiteFeet
  BY <1>2, InitKeepsFeet
<1>3. CASE InsertArc /\ SiteFeet
  BY <1>3, InsertArcKeepsFeet
<1>4. CASE (\/ InitSingleSite \/ Finish \/ Returned \/ EraseTemporaryNode \/ LocateArc)
           /\ UNCHANGED feetVars
  <2>1. UNCHANGED <<numVertices, numEdges, cell, twin, vertex0, sites>>
    BY <1>4 DEF InitSingleSite, ProcessSingleSite, Finish, Returned, EraseTemporaryNode, LocateArc,
                vars, sweepVars, graphVars
  <2> QED BY <1>4, <2>1, FeetUntouched DEF feetVars
<1>5. CASE UNCHANGED feetAllVars
  <2>1. UNCHANGED <<numVertices, numEdges, cell, twin, vertex0, sites>>
    BY <1>5 DEF feetAllVars, vars, sweepVars, graphVars
  <2> QED BY <1>5, <2>1, FeetUntouched DEF feetAllVars, feetVars
<1> QED BY <1>1, <1>2, <1>3, <1>4, <1>5 DEF FeetNext

(* Rules that test one pointer and follow another never follow a null one,   *)
(* as long as a segment is inserted into the arc of the point it starts in.  *)
THEOREM RulesFollowNoNull == FeetSpec /\ []SegmentsSplitTheirPoint => []NoRuleFollowsNull
<1>1. Init /\ FeetInit => FeetInv
  BY InitFeetInv
<1>2. SweepInv /\ FeetInv /\ SegmentsSplitTheirPoint /\ RulesSafe' /\ [FeetNext]_feetAllVars
        => FeetInv'
  BY StepKeepsFeetInv
<1>3. RulesSafe
  BY RulesAreSafe
<1>4. [FeetNext]_feetAllVars => [Next]_vars
  BY DEF FeetNext, Next, feetAllVars
<1>5. FeetInv => NoRuleFollowsNull
  BY DEF FeetInv, NoRuleFollowsNull
<1> QED BY <1>1, <1>2, <1>3, <1>4, <1>5, InvariantSweepInv, PTL DEF FeetSpec, Spec
=============================================================================
