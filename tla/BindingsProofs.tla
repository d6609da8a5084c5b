--------------------------- MODULE BindingsProofs ----------------------------
(***************************************************************************)
(* Proofs about Bindings: for every set of addresses and of Perl variables *)
(* the XS layer keeps the promise of Ownership to a Perl program that gives *)
(* up the handles it passes to the _arrayref functions, and what is left of *)
(* it for one that keeps them.                                              *)
(***************************************************************************)
EXTENDS Bindings, SequenceTheorems, TLAPS

(* What the table of signatures says: a parameter is deleted, returned or   *)
(* left to its handle, never two of these.                                  *)
LEMMA Signatures ==
    ASSUME NEW f \in Functions \cup {"none"}
    PROVE  /\ Takes(f) \in Seq(Types)
           /\ Makes(f) \in Types \cup {"none"}
           /\ ReturnsArgument(f) => Len(Takes(f)) = 1 /\ Makes(f) = "none"
           /\ ReturnsArgument(f) => ~DeletesArguments(f) /\ f \notin HandleUsers
           /\ DeletesArguments(f) => f \notin HandleUsers
           /\ TakesHandles(f) => ~ReturnsHandle(f)
           /\ (Len(Takes(f)) > 0 /\ ~ReturnsArgument(f) /\ ~DeletesArguments(f))
                  => f \in HandleUsers
<1> USE DEF Functions, WrapFunctions, ArrayrefFunctions, WktReaders, HandleUsers,
        CorrectFunctions, Measures, Transforms
<1>a. ASSUME ReturnsArgument(f)
      PROVE  Takes(f) \in {<<"polygon">>, <<"multi_polygon">>, <<"multi_linestring">>}
  BY <1>a DEF Takes, ReturnsArgument
<1>b. Takes(f) \in { <<>>, <<"polygon">>, <<"multi_polygon">>, <<"multi_linestring">>,
          <<"linestring">>, <<"polygon", "multi_linestring">>,
          <<"multi_polygon", "multi_linestring">>, <<"multi_linestring", "multi_polygon">>,
          <<"point_xy", "polygon">>, <<"point_xy", "multi_polygon">> }
  BY Zenon DEF Takes
<1>1. Takes(f) \in Seq(Types) /\ (ReturnsArgument(f) => Len(Takes(f)) = 1)
  <2>1. \A x, y \in Types : <<>> \in Seq(Types) /\ <<x>> \in Seq(Types) /\ <<x, y>> \in Seq(Types)
    OBVIOUS
  <2>2. "polygon" \in Types /\ "multi_polygon" \in Types /\ "linestring" \in Types
        /\ "multi_linestring" \in Types /\ "point_xy" \in Types
    BY DEF Types
  <2>3. Takes(f) \in Seq(Types)
    BY <1>b, <2>1, <2>2
  <2> QED BY <1>a, <2>3
<1>2. Makes(f) \in Types \cup {"none"} /\ (ReturnsArgument(f) => Makes(f) = "none")
  BY DEF Makes, Types, ReturnsArgument
<1>3. /\ ReturnsArgument(f) => ~DeletesArguments(f) /\ f \notin HandleUsers
      /\ DeletesArguments(f) => f \notin HandleUsers
      /\ TakesHandles(f) => ~ReturnsHandle(f)
  BY DEF ReturnsArgument, DeletesArguments, TakesHandles, ReturnsHandle
<1>4. (Len(Takes(f)) > 0 /\ ~ReturnsArgument(f) /\ ~DeletesArguments(f)) => f \in HandleUsers
  BY DEF Takes, ReturnsArgument, DeletesArguments
<1> QED BY <1>1, <1>2, <1>3, <1>4

LEMMA ElementsOfAppend ==
    ASSUME NEW S, NEW s \in Seq(S), NEW x \in S
    PROVE  Elements(Append(s, x)) = Elements(s) \cup {x}
<1>1. /\ Len(s) \in Nat /\ DOMAIN s = 1 .. Len(s)
      /\ DOMAIN Append(s, x) = 1 .. (Len(s) + 1)
      /\ \A i \in 1 .. Len(s) : Append(s, x)[i] = s[i]
      /\ Append(s, x)[Len(s) + 1] = x
  OBVIOUS
<1>2. 1 .. (Len(s) + 1) = (1 .. Len(s)) \cup {Len(s) + 1}
  BY <1>1
<1>3. Elements(Append(s, x)) = {Append(s, x)[i] : i \in (1 .. Len(s)) \cup {Len(s) + 1}}
  BY <1>1, <1>2 DEF Elements
<1> QED BY <1>1, <1>3 DEF Elements

LEMMA ElementsOfEmpty == Elements(<<>>) = {}
  BY DEF Elements

-----------------------------------------------------------------------------
(* The inductive invariant.                                                 *)

PhaseOK ==
    /\ at = "perl" => fn = "none" /\ arg = <<>>
    /\ at \in {"input", "output"} => fn \in Functions
    /\ at = "output" => arg = <<>>
    /\ at # "output" => ret = NoObject

\* Every pointer of the call and of a handle is to an object that is allocated.
PointersLive == \A o \in InPerl \cup InCall : heap[o] = "live"

\* What the call will delete or give away is not the object of a handle; what it borrows is.
CallOwnsItsObjects ==
    /\ fn \notin HandleUsers => Elements(arg) \cap InPerl = {}
    /\ fn \in HandleUsers => Elements(arg) \subseteq InPerl
    /\ ret \notin InPerl

OwnershipInv == BindingsTypeOK /\ PhaseOK /\ PointersLive /\ CallOwnsItsObjects

(* How an object may move in a step of the code.                            *)
Moved(o) == <<Owner(o), Owner(o)'>> \in Promise!Moves

LEMMA OwnershipInvInit == Init => OwnershipInv
<1> SUFFICES ASSUME Init PROVE OwnershipInv
  OBVIOUS
<1>1. Takes("none") \in Seq(Types)
  BY Signatures
<1>2. BindingsTypeOK
  BY <1>1, BindingsAssumption DEF Init, BindingsTypeOK, States
<1>3. InPerl = {} /\ InCall = {}
  BY ElementsOfEmpty DEF Init, InPerl, InCall, Elements
<1> QED BY <1>2, <1>3, ElementsOfEmpty
      DEF Init, OwnershipInv, PhaseOK, PointersLive, CallOwnsItsObjects

(* Types do not depend on who owns what.                                    *)
LEMMA TypesStep ==
    ASSUME BindingsTypeOK, PhaseOK, [Next]_vars
    PROVE  BindingsTypeOK' /\ PhaseOK'
<1>1. /\ heap \in [Object -> States] /\ hold \in [Variable -> Object \cup {NoObject}]
      /\ fn \in Functions \cup {"none"} /\ arg \in Seq(Object)
      /\ ret \in Object \cup {NoObject} /\ at \in {"perl", "input", "output", "aborted"}
  BY DEF BindingsTypeOK
<1>2. /\ \A f \in Functions \cup {"none"} : Takes(f) \in Seq(Types) /\ Len(Takes(f)) \in Nat
      /\ "none" \notin Functions
  BY Signatures DEF Functions, WrapFunctions, ArrayrefFunctions, WktReaders, HandleUsers,
        CorrectFunctions, Measures, Transforms
<1>3. \A f \in Functions \cup {"none"} : LET none == <<>> IN
        /\ none \in Seq(Object) /\ Len(none) <= Len(Takes(f))
        /\ \A i \in DOMAIN none : TypeOf(none[i]) = Takes(f)[i]
  BY <1>2
<1>4. ASSUME NEW f \in Functions, Call(f)
      PROVE  BindingsTypeOK' /\ PhaseOK'
  BY <1>1, <1>3, <1>4 DEF Call, BindingsTypeOK, PhaseOK
<1>5. ASSUME NEW x \in Object, Converting, TypeOf(x) = NextType, arg' = Append(arg, x), fn' = fn
      PROVE  /\ arg' \in Seq(Object) /\ Len(arg') <= Len(Takes(fn'))
             /\ \A i \in DOMAIN arg' : TypeOf(arg'[i]) = Takes(fn')[i]
  BY <1>1, <1>2, <1>5 DEF Converting, NextType, BindingsTypeOK
<1>6. CASE ConvertArray
  <2>1. PICK o \in Object : /\ TypeOf(o) = NextType /\ heap' = [heap EXCEPT ![o] = "live"]
                            /\ arg' = Append(arg, o)
    BY <1>6 DEF ConvertArray, Fresh
  <2>2. heap' \in [Object -> States]
    BY <1>1, <2>1 DEF States
  <2>3. Converting /\ at = "input" /\ UNCHANGED <<hold, fn, ret, at, keepsGiven>>
    BY <1>6 DEF ConvertArray, Converting
  <2>4. /\ arg' \in Seq(Object) /\ Len(arg') <= Len(Takes(fn'))
        /\ \A i \in DOMAIN arg' : TypeOf(arg'[i]) = Takes(fn')[i]
    BY <1>5, <2>1, <2>3
  <2> QED BY <1>1, <2>2, <2>3, <2>4 DEF BindingsTypeOK, PhaseOK
<1>7. CASE Croak
  BY <1>1, <1>3, <1>7 DEF Croak, Return, BindingsTypeOK, PhaseOK
<1>8. ASSUME NEW v \in Variable, TakeHandle(v)
      PROVE  BindingsTypeOK' /\ PhaseOK'
  <2>1. /\ Converting /\ at = "input" /\ UNCHANGED <<heap, fn, ret, at, keepsGiven>>
        /\ hold[v] \in Object /\ TypeOf(hold[v]) = NextType /\ arg' = Append(arg, hold[v])
    BY <1>8 DEF TakeHandle, Converting
  <2>2. hold' \in [Variable -> Object \cup {NoObject}]
    BY <1>1, <1>8 DEF TakeHandle
  <2>3. /\ arg' \in Seq(Object) /\ Len(arg') <= Len(Takes(fn'))
        /\ \A i \in DOMAIN arg' : TypeOf(arg'[i]) = Takes(fn')[i]
    BY <1>5, <2>1
  <2> QED BY <1>1, <2>1, <2>2, <2>3 DEF BindingsTypeOK, PhaseOK
<1>9. CASE Body
  <2>1. fn \in Functions /\ Len(arg) = Len(Takes(fn)) /\ fn' = fn /\ hold' = hold
        /\ arg' = <<>> /\ at' = "output" /\ keepsGiven' = keepsGiven
    BY <1>9 DEF Body, Converted, PhaseOK
  <2>2. \A new : HeapWith(new) \in [Object -> States]
    BY <1>1 DEF HeapWith, States
  <2>3. heap' \in [Object -> States]
    BY <1>9, <2>2 DEF Body
  <2>4. ReturnsArgument(fn) => arg[1] \in Object
    BY <1>1, <2>1, Signatures
  <2>5. ret' \in Object \cup {NoObject}
    BY <1>9, <2>4 DEF Body, Fresh
  <2> QED BY <1>1, <1>3, <2>1, <2>3, <2>5 DEF BindingsTypeOK, PhaseOK
<1>10. CASE BodyThrows \/ ConverterDies
  BY <1>1, <1>10 DEF BodyThrows, ConverterDies, Converted, Converting, BindingsTypeOK, PhaseOK
<1>11. ASSUME NEW v \in Variable, OutputHandle(v)
       PROVE  BindingsTypeOK' /\ PhaseOK'
  <2>1. hold' \in [Variable -> Object \cup {NoObject}]
    BY <1>1, <1>11 DEF OutputHandle
  <2> QED BY <1>1, <1>3, <1>11, <2>1 DEF OutputHandle, Return, BindingsTypeOK, PhaseOK
<1>12. CASE OutputArrays
  <2>1. heap' \in [Object -> States]
    BY <1>1, <1>12 DEF OutputArrays, States
  <2> QED BY <1>1, <1>3, <1>12, <2>1 DEF OutputArrays, Return, BindingsTypeOK, PhaseOK
<1>13. ASSUME NEW v \in Variable, NEW w \in Variable, CopyHandle(v, w) \/ DropHandle(v)
       PROVE  BindingsTypeOK' /\ PhaseOK'
  <2>1. hold' \in [Variable -> Object \cup {NoObject}]
    BY <1>1, <1>13 DEF CopyHandle, DropHandle
  <2> QED BY <1>1, <1>13, <2>1 DEF CopyHandle, DropHandle, BindingsTypeOK, PhaseOK
<1>14. CASE UNCHANGED vars
  BY <1>14 DEF vars, BindingsTypeOK, PhaseOK
<1> QED BY <1>4, <1>6, <1>7, <1>8, <1>9, <1>10, <1>11, <1>12, <1>13, <1>14 DEF Next

(* One step per action: the invariant is preserved and objects move as they *)
(* may.                                                                     *)
LEMMA CallStep ==
    ASSUME OwnershipInv, NEW f \in Functions, Call(f)
    PROVE  OwnershipInv' /\ \A o \in Object : Moved(o)
<1>1. arg = <<>> /\ arg' = <<>> /\ ret = NoObject /\ ret' = NoObject
  BY DEF Call, OwnershipInv, PhaseOK
<1>2. Takes(f) \in Seq(Types)
  BY Signatures
<1>3. BindingsTypeOK' /\ PhaseOK'
  BY TypesStep DEF OwnershipInv, Next, vars
<1>4. InPerl' = InPerl /\ InCall' = {} /\ InCall = {} /\ Elements(arg') = {}
  BY <1>1, ElementsOfEmpty DEF Call, InPerl, InCall, Elements
<1>5. OwnershipInv'
  BY <1>1, <1>3, <1>4 DEF Call, OwnershipInv, PhaseOK, PointersLive, CallOwnsItsObjects
<1>6. ASSUME NEW o \in Object
      PROVE  Owner(o)' = Owner(o)
  BY <1>4 DEF Call, Owner
<1>7. \A o \in Object : Moved(o)
  BY <1>6 DEF Moved, Owner, Promise!Moves, Promise!Owners
<1> QED BY <1>5, <1>7

LEMMA ConvertArrayStep ==
    ASSUME OwnershipInv, ConvertArray
    PROVE  OwnershipInv' /\ \A o \in Object : Moved(o)
<1>1. PICK new \in Fresh(NextType) :
          heap' = [heap EXCEPT ![new] = "live"] /\ arg' = Append(arg, new)
  BY DEF ConvertArray
<1>2. new \in Object /\ heap[new] = "unborn" /\ TypeOf(new) = Takes(fn)[Len(arg) + 1]
  BY <1>1 DEF Fresh, NextType
<1>3. /\ fn \in Functions /\ fn \notin HandleUsers
      /\ at = "input" /\ Len(arg) < Len(Takes(fn)) /\ ret = NoObject
      /\ arg \in Seq(Object) /\ Takes(fn) \in Seq(Types)
      /\ fn' = fn /\ at' = at /\ ret' = ret /\ hold' = hold
  BY Signatures
     DEF ConvertArray, Converting, TakesHandles, OwnershipInv, PhaseOK, BindingsTypeOK
<1>4. Elements(arg') = Elements(arg) \cup {new}
  BY <1>1, <1>2, <1>3, ElementsOfAppend
<1>5. InPerl' = InPerl /\ InCall' = InCall \cup {new} /\ new \notin InPerl \cup InCall
  BY <1>2, <1>3, <1>4 DEF InPerl, InCall, OwnershipInv, PointersLive, Elements
<1>6. arg' \in Seq(Object) /\ Len(arg') = Len(arg) + 1
      /\ \A i \in DOMAIN arg' : TypeOf(arg'[i]) = Takes(fn)[i]
  BY <1>1, <1>2, <1>3 DEF OwnershipInv, BindingsTypeOK
<1>7. BindingsTypeOK' /\ PhaseOK'
  BY TypesStep DEF OwnershipInv, Next, vars
<1>8. OwnershipInv'
  <2>1. PointersLive'
    BY <1>1, <1>2, <1>5 DEF PointersLive, OwnershipInv, BindingsTypeOK
  <2>2. CallOwnsItsObjects'
    BY <1>3, <1>4, <1>5 DEF CallOwnsItsObjects, OwnershipInv
  <2> QED BY <1>3, <1>7, <2>1, <2>2 DEF OwnershipInv, PhaseOK
<1>9. ASSUME NEW o \in Object
      PROVE  Moved(o)
  <2>1. CASE o = new
    BY <1>1, <1>2, <1>5, <2>1
       DEF Moved, Owner, Promise!Moves, OwnershipInv, BindingsTypeOK
  <2>2. CASE o # new
    <3>1. heap'[o] = heap[o] /\ (o \in InCall' <=> o \in InCall) /\ InPerl' = InPerl
      BY <1>1, <1>5, <2>2 DEF OwnershipInv, BindingsTypeOK
    <3>2. Owner(o)' = Owner(o)
      BY <3>1 DEF Owner
    <3> QED BY <3>2 DEF Moved, Owner, Promise!Moves, Promise!Owners
  <2> QED BY <2>1, <2>2
<1> QED BY <1>8, <1>9

LEMMA CroakStep ==
    ASSUME OwnershipInv, Croak
    PROVE  OwnershipInv' /\ \A o \in Object : Moved(o)
<1>1. /\ fn' = "none" /\ arg' = <<>> /\ ret' = NoObject /\ at' = "perl" /\ at = "input"
      /\ heap' = heap /\ hold' = hold
  BY DEF Croak, Return, Converting
<1>2. InPerl' = InPerl /\ InCall' = {} /\ Elements(arg') = {}
  BY <1>1, ElementsOfEmpty DEF InPerl, InCall, Elements
<1>3. Takes("none") \in Seq(Types)
  BY Signatures
<1>4. BindingsTypeOK' /\ PhaseOK'
  BY TypesStep DEF OwnershipInv, Next, vars
<1>5. NoObject \notin InPerl
  BY DEF InPerl
<1>6. OwnershipInv'
  BY <1>1, <1>2, <1>4, <1>5 DEF OwnershipInv, PhaseOK, PointersLive, CallOwnsItsObjects
<1>7. ASSUME NEW o \in Object
      PROVE  Moved(o)
  BY <1>1, <1>2 DEF Moved, Owner, Promise!Moves, Promise!Owners
<1> QED BY <1>6, <1>7

LEMMA TakeHandleStep ==
    ASSUME OwnershipInv, ~keepsGiven, NEW v \in Variable, TakeHandle(v)
    PROVE  OwnershipInv' /\ \A o \in Object : Moved(o)
<1> DEFINE x == hold[v]
           given == fn \in ArrayrefFunctions
<1>1. /\ x \in Object /\ TypeOf(x) = Takes(fn)[Len(arg) + 1] /\ arg' = Append(arg, x)
      /\ given => Temporary(v)
      /\ hold' = IF given THEN [hold EXCEPT ![v] = NoObject] ELSE hold
      /\ heap' = heap /\ fn' = fn /\ ret' = ret /\ at' = at
  BY DEF TakeHandle, NextType
<1>2. /\ fn \in Functions /\ (given \/ fn \in HandleUsers)
      /\ at = "input" /\ Len(arg) < Len(Takes(fn)) /\ ret = NoObject
      /\ arg \in Seq(Object) /\ Takes(fn) \in Seq(Types)
      /\ hold \in [Variable -> Object \cup {NoObject}] /\ x \in InPerl
  <2>1. fn \in Functions /\ (given \/ fn \in HandleUsers) /\ at = "input"
        /\ Len(arg) < Len(Takes(fn)) /\ ret = NoObject
    BY DEF TakeHandle, Converting, TakesHandles, OwnershipInv, PhaseOK
  <2>2. arg \in Seq(Object) /\ hold \in [Variable -> Object \cup {NoObject}]
    BY DEF OwnershipInv, BindingsTypeOK
  <2>3. x \in InPerl
    BY <1>1, <2>2, BindingsAssumption DEF InPerl, Elements
  <2> QED BY <2>1, <2>2, <2>3, Signatures
<1>3. Elements(arg') = Elements(arg) \cup {x}
  BY <1>1, <1>2, ElementsOfAppend
<1>4. InCall' = InCall \cup {x}
  BY <1>1, <1>2, <1>3, BindingsAssumption DEF InCall
<1>5. /\ given => InPerl' = InPerl \ {x}
      /\ ~given => InPerl' = InPerl
      /\ hold' \in [Variable -> Object \cup {NoObject}]
  <2>1. CASE given
    <3>1. \A w \in Variable : hold'[w] = IF w = v THEN NoObject ELSE hold[w]
      BY <1>1, <1>2, <2>1
    <3>2. \A w \in Variable : w # v => hold[w] # x
      BY <1>1, <2>1 DEF Temporary
    <3>3. hold' \in [Variable -> Object \cup {NoObject}]
      BY <1>1, <1>2, <2>1
    <3>4. DOMAIN hold' = Variable /\ DOMAIN hold = Variable
      BY <3>3, <1>2
    <3> QED BY <2>1, <3>1, <3>2, <3>3, <3>4 DEF InPerl, Elements
  <2>2. CASE ~given
    BY <1>1, <1>2, <2>2 DEF InPerl, Elements
  <2> QED BY <2>1, <2>2
<1>6. arg' \in Seq(Object) /\ Len(arg') = Len(arg) + 1
      /\ \A i \in DOMAIN arg' : TypeOf(arg'[i]) = Takes(fn)[i]
  BY <1>1, <1>2 DEF OwnershipInv, BindingsTypeOK
<1>7. BindingsTypeOK' /\ PhaseOK'
  BY TypesStep DEF OwnershipInv, Next, vars
<1>8. PointersLive'
  BY <1>1, <1>2, <1>4, <1>5 DEF PointersLive, OwnershipInv
<1>9. CallOwnsItsObjects'
  <2>1. ret' \notin InPerl'
    BY <1>1, <1>2 DEF InPerl
  <2>2. CASE fn \in HandleUsers
    <3>1. ~given
      BY <2>2 DEF HandleUsers, ArrayrefFunctions
    <3> QED BY <1>1, <1>2, <1>3, <1>5, <2>1, <2>2, <3>1 DEF CallOwnsItsObjects, OwnershipInv
  <2>3. CASE fn \notin HandleUsers
    BY <1>1, <1>2, <1>3, <1>5, <2>1, <2>3 DEF CallOwnsItsObjects, OwnershipInv
  <2> QED BY <2>2, <2>3
<1>10. OwnershipInv'
  BY <1>1, <1>2, <1>7, <1>8, <1>9 DEF OwnershipInv, PhaseOK
<1>11. ASSUME NEW o \in Object
       PROVE  Moved(o)
  <2>1. CASE o = x /\ given
    BY <1>1, <1>2, <1>4, <1>5, <2>1
       DEF Moved, Owner, Promise!Moves, OwnershipInv, PointersLive
  <2>2. CASE ~(o = x /\ given)
    <3>1. (o \in InPerl' <=> o \in InPerl) /\ heap'[o] = heap[o]
          /\ (o \notin InPerl => (o \in InCall' <=> o \in InCall))
      BY <1>1, <1>2, <1>4, <1>5, <2>2
    <3>2. Owner(o)' = Owner(o)
      BY <3>1 DEF Owner
    <3> QED BY <3>2 DEF Moved, Owner, Promise!Moves, Promise!Owners
  <2> QED BY <2>1, <2>2
<1> QED BY <1>10, <1>11

(* What the body does with the pointers it got, in the three ways of ending. *)
LEMMA BodyFacts ==
    ASSUME OwnershipInv, Body
    PROVE  /\ fn \in Functions /\ fn' = fn /\ hold' = hold /\ arg' = <<>> /\ at' = "output"
           /\ arg \in Seq(Object) /\ Freed \subseteq Elements(arg) /\ InPerl' = InPerl
           /\ InCall = Elements(arg) /\ InCall' = {ret'} \ {NoObject}
           /\ Freed \cap InPerl = {}
           /\ (Makes(fn) = "none" /\ ReturnsArgument(fn)) =>
                  /\ ret' = arg[1] /\ Elements(arg) = {arg[1]} /\ arg[1] \in Object
                  /\ arg[1] \notin InPerl /\ heap[arg[1]] = "live" /\ Freed = {}
           /\ \A o \in Elements(arg) : o \in InPerl \/ o \in Freed \/ ReturnsArgument(fn)
<1>1. /\ fn \in Functions /\ fn' = fn /\ hold' = hold /\ arg' = <<>> /\ at' = "output"
      /\ arg \in Seq(Object) /\ Len(arg) = Len(Takes(fn)) /\ ret = NoObject /\ at = "input"
  BY DEF Body, Converted, OwnershipInv, PhaseOK, BindingsTypeOK
<1>2. /\ Takes(fn) \in Seq(Types)
      /\ ReturnsArgument(fn) => Len(Takes(fn)) = 1 /\ Makes(fn) = "none"
      /\ ReturnsArgument(fn) => ~DeletesArguments(fn) /\ fn \notin HandleUsers
      /\ DeletesArguments(fn) => fn \notin HandleUsers
      /\ (Len(Takes(fn)) > 0 /\ ~ReturnsArgument(fn) /\ ~DeletesArguments(fn))
                  => fn \in HandleUsers
  BY <1>1, Signatures
<1>3. InPerl' = InPerl /\ InCall = Elements(arg) /\ InCall' = {ret'} \ {NoObject}
  BY <1>1, ElementsOfEmpty DEF InPerl, InCall, Elements
<1>4. Freed \subseteq Elements(arg) /\ Freed \cap InPerl = {}
  BY <1>2 DEF Freed, OwnershipInv, CallOwnsItsObjects
<1>5. ASSUME Makes(fn) = "none", ReturnsArgument(fn)
      PROVE  /\ ret' = arg[1] /\ Elements(arg) = {arg[1]} /\ arg[1] \in Object
             /\ arg[1] \notin InPerl /\ heap[arg[1]] = "live" /\ Freed = {}
  <2>1. ret' = arg[1]
    BY <1>5 DEF Body
  <2>2. Len(arg) = 1 /\ DOMAIN arg = {1} /\ arg[1] \in Object
    <3>1. arg \in Seq(Object) /\ Len(arg) = 1
      BY <1>1, <1>2, <1>5
    <3>2. DOMAIN arg = 1 .. 1
      BY <3>1
    <3> QED BY <3>1, <3>2
  <2>3. Elements(arg) = {arg[1]}
    BY <2>2 DEF Elements
  <2>4. arg[1] \notin InPerl /\ heap[arg[1]] = "live"
    BY <1>2, <1>3, <1>5, <2>3 DEF OwnershipInv, CallOwnsItsObjects, PointersLive
  <2> QED BY <1>2, <1>5, <2>1, <2>2, <2>3, <2>4 DEF Freed
<1>6. ASSUME NEW o \in Elements(arg)
      PROVE  o \in InPerl \/ o \in Freed \/ ReturnsArgument(fn)
  <2>1. Len(Takes(fn)) > 0
    BY <1>1, <1>6 DEF Elements
  <2>2. CASE fn \in HandleUsers
    BY <1>6, <2>2 DEF OwnershipInv, CallOwnsItsObjects
  <2> QED BY <1>2, <2>1, <2>2 DEF Freed
<1> QED BY <1>1, <1>3, <1>4, <1>5, <1>6

LEMMA BodyStep ==
    ASSUME OwnershipInv, Body
    PROVE  OwnershipInv' /\ \A o \in Object : Moved(o)
<1> USE BodyFacts
<1>1. CASE Makes(fn) # "none"
  <2>1. PICK new \in Fresh(Makes(fn)) : heap' = HeapWith({new}) /\ ret' = new
    BY <1>1 DEF Body
  <2>2. new \in Object /\ heap[new] = "unborn"
    BY <2>1 DEF Fresh
  <2>3. /\ \A o \in Object :
               heap'[o] = IF o = new THEN "live" ELSE IF o \in Freed THEN "freed" ELSE heap[o]
        /\ heap' \in [Object -> States]
    BY <2>1 DEF HeapWith, OwnershipInv, BindingsTypeOK, States
  <2>4. InCall' = {new} /\ new \notin InPerl /\ new \notin Elements(arg)
    BY <2>1, <2>2, BindingsAssumption DEF OwnershipInv, PointersLive
  <2>5. InPerl \subseteq Object /\ ~ReturnsArgument(fn)
    BY <1>1, Signatures DEF OwnershipInv, BindingsTypeOK, InPerl, Elements
  <2>6. BindingsTypeOK' /\ PhaseOK'
    BY TypesStep DEF OwnershipInv, Next, vars
  <2>7. PointersLive'
    <3>1. \A o \in InPerl : o \in Object /\ o # new /\ o \notin Freed /\ heap[o] = "live"
      BY <2>4, <2>5 DEF OwnershipInv, PointersLive
    <3>2. heap'[new] = "live"
      BY <2>2, <2>3
    <3>3. \A o \in InPerl' \cup InCall' : heap'[o] = "live"
      BY <2>3, <2>4, <3>1, <3>2
    <3> QED BY <3>3 DEF PointersLive
  <2>8. CallOwnsItsObjects'
    BY <2>1, <2>4, ElementsOfEmpty DEF CallOwnsItsObjects
  <2>9. OwnershipInv'
    BY <2>6, <2>7, <2>8 DEF OwnershipInv, PhaseOK
  <2>10. ASSUME NEW o \in Object
         PROVE  Moved(o)
    <3>1. CASE o = new
      BY <2>2, <2>3, <2>4, <3>1 DEF Moved, Owner, Promise!Moves
    <3>2. CASE o \in Freed
      <4>1. heap[o] = "live" /\ o \notin InPerl /\ o \in InCall /\ o # new
        BY <2>4, <3>2 DEF OwnershipInv, PointersLive
      <4> QED BY <2>3, <3>2, <4>1 DEF Moved, Owner, Promise!Moves
    <3>3. CASE o # new /\ o \notin Freed
      <4>1. heap'[o] = heap[o] /\ (o \in InCall => o \in InPerl) /\ o \notin InCall'
        BY <2>3, <2>4, <2>5, <3>3
      <4>2. Owner(o)' = Owner(o)
        BY <4>1 DEF Owner
      <4> QED BY <4>2 DEF Moved, Owner, Promise!Moves, Promise!Owners
    <3> QED BY <3>1, <3>2, <3>3
  <2> QED BY <2>9, <2>10
<1>2. CASE Makes(fn) = "none"
  <2>1. heap' = HeapWith({}) /\ ret' = IF ReturnsArgument(fn) THEN arg[1] ELSE NoObject
    BY <1>2 DEF Body
  <2>2. /\ \A o \in Object : heap'[o] = IF o \in Freed THEN "freed" ELSE heap[o]
        /\ heap' \in [Object -> States]
    BY <2>1 DEF HeapWith, OwnershipInv, BindingsTypeOK, States
  <2>3. InPerl \subseteq Object /\ NoObject \notin InPerl
    BY DEF OwnershipInv, BindingsTypeOK, InPerl, Elements
  <2>4. /\ ReturnsArgument(fn) => InCall' = {arg[1]} /\ InCall = {arg[1]}
        /\ ~ReturnsArgument(fn) => InCall' = {}
    BY <1>2, <2>1, BindingsAssumption
  <2>5. BindingsTypeOK' /\ PhaseOK'
    BY TypesStep DEF OwnershipInv, Next, vars
  <2>6. PointersLive'
    BY <1>2, <2>2, <2>3, <2>4 DEF OwnershipInv, PointersLive
  <2>7. CallOwnsItsObjects'
    BY <1>2, <2>1, <2>3, ElementsOfEmpty DEF CallOwnsItsObjects
  <2>8. OwnershipInv'
    BY <2>5, <2>6, <2>7 DEF OwnershipInv, PhaseOK
  <2>9. ASSUME NEW o \in Object
        PROVE  Moved(o)
    <3>1. CASE o \in Freed
      <4>1. heap[o] = "live" /\ o \notin InPerl /\ o \in InCall
        BY <3>1 DEF OwnershipInv, PointersLive
      <4> QED BY <2>2, <3>1, <4>1 DEF Moved, Owner, Promise!Moves
    <3>2. CASE o \notin Freed
      <4>1. heap'[o] = heap[o] /\ (o \in InPerl \/ (o \in InCall' <=> o \in InCall))
        BY <2>2, <2>4, <3>2
      <4>2. Owner(o)' = Owner(o)
        BY <4>1 DEF Owner
      <4> QED BY <4>2 DEF Moved, Owner, Promise!Moves, Promise!Owners
    <3> QED BY <3>1, <3>2
  <2> QED BY <2>8, <2>9
<1> QED BY <1>1, <1>2

LEMMA AbortStep ==
    ASSUME OwnershipInv, BodyThrows \/ ConverterDies
    PROVE  OwnershipInv' /\ \A o \in Object : Moved(o)
<1>1. /\ heap' = heap /\ hold' = hold /\ fn' = fn /\ arg' = arg /\ ret' = ret
      /\ at' = "aborted" /\ at = "input" /\ keepsGiven' = keepsGiven
  BY DEF BodyThrows, ConverterDies, Converted, Converting
<1>2. InPerl' = InPerl /\ InCall' = InCall /\ Elements(arg') = Elements(arg)
  BY <1>1 DEF InPerl, InCall, Elements
<1>3. OwnershipInv'
  BY <1>1, <1>2
     DEF OwnershipInv, BindingsTypeOK, PhaseOK, PointersLive, CallOwnsItsObjects
<1>4. ASSUME NEW o \in Object
      PROVE  Moved(o)
  BY <1>1, <1>2 DEF Moved, Owner, Promise!Moves, Promise!Owners
<1> QED BY <1>3, <1>4

(* A variable of Perl is assigned: a handle, or nothing.                     *)
LEMMA HandleSet ==
    ASSUME OwnershipInv, NEW v \in Variable, NEW x \in Object \cup {NoObject},
           hold' = [hold EXCEPT ![v] = x]
    PROVE  /\ hold' \in [Variable -> Object \cup {NoObject}]
           /\ InPerl' \subseteq InPerl \cup ({x} \ {NoObject})
           /\ x # NoObject => x \in InPerl'
           /\ \A o \in InPerl : o \in InPerl' \/ (hold[v] = o /\ hold'[v] # o)
<1>1. hold \in [Variable -> Object \cup {NoObject}]
  BY DEF OwnershipInv, BindingsTypeOK
<1>2. hold' \in [Variable -> Object \cup {NoObject}] /\ hold'[v] = x
  BY <1>1
<1>3. /\ Elements(hold') \subseteq Elements(hold) \cup {x} /\ x \in Elements(hold')
      /\ \A y \in Elements(hold) : y # hold[v] => y \in Elements(hold')
  BY <1>1, <1>2 DEF Elements
<1>4. InPerl' = Elements(hold') \ {NoObject} /\ InPerl = Elements(hold) \ {NoObject}
  BY DEF InPerl
<1>5. ASSUME NEW o \in InPerl, o \notin InPerl'
      PROVE  hold[v] = o /\ hold'[v] # o
  <2>1. o \in Elements(hold) /\ o # NoObject /\ o \notin Elements(hold')
    BY <1>4, <1>5
  <2>2. o = hold[v] /\ o # x
    BY <1>3, <2>1
  <2> QED BY <1>2, <2>2
<1>6. InPerl' \subseteq InPerl \cup ({x} \ {NoObject})
  BY <1>3, <1>4
<1>7. x # NoObject => x \in InPerl'
  BY <1>3, <1>4
<1> QED BY <1>2, <1>5, <1>6, <1>7

LEMMA OutputHandleStep ==
    ASSUME OwnershipInv, NEW v \in Variable, OutputHandle(v)
    PROVE  OwnershipInv' /\ \A o \in Object : Moved(o)
<1>1. /\ fn' = "none" /\ arg' = <<>> /\ ret' = NoObject /\ at' = "perl" /\ at = "output"
      /\ heap' = heap /\ hold' = [hold EXCEPT ![v] = ret] /\ arg = <<>>
      /\ ret \in Object \cup {NoObject} /\ "none" \notin HandleUsers
  BY DEF OutputHandle, Return, OwnershipInv, PhaseOK, BindingsTypeOK, HandleUsers
<1>2. /\ hold' \in [Variable -> Object \cup {NoObject}]
      /\ InPerl' \subseteq InPerl \cup ({ret} \ {NoObject})
      /\ ret # NoObject => ret \in InPerl'
      /\ \A o \in InPerl : o \in InPerl' \/ (hold[v] = o /\ hold'[v] # o)
  BY <1>1, HandleSet
<1>3. InCall' = {} /\ Elements(arg') = {} /\ InCall = {ret} \ {NoObject}
      /\ NoObject \notin InPerl'
  BY <1>1, ElementsOfEmpty DEF InCall, InPerl
<1>4. Takes("none") \in Seq(Types)
  BY Signatures
<1>5. BindingsTypeOK' /\ PhaseOK'
  BY TypesStep DEF OwnershipInv, Next, vars
<1>6. PointersLive'
  BY <1>1, <1>2, <1>3 DEF OwnershipInv, PointersLive
<1>7. OwnershipInv'
  BY <1>1, <1>3, <1>5, <1>6 DEF OwnershipInv, PhaseOK, CallOwnsItsObjects
<1>8. ASSUME NEW o \in Object
      PROVE  Moved(o)
  BY <1>1, <1>2, <1>3 DEF Moved, Owner, Promise!Moves, Promise!Owners
<1> QED BY <1>7, <1>8

LEMMA OutputArraysStep ==
    ASSUME OwnershipInv, OutputArrays
    PROVE  OwnershipInv' /\ \A o \in Object : Moved(o)
<1>1. /\ fn' = "none" /\ arg' = <<>> /\ ret' = NoObject /\ at' = "perl" /\ at = "output"
      /\ hold' = hold /\ arg = <<>> /\ "none" \notin HandleUsers
  BY DEF OutputArrays, Return, OwnershipInv, PhaseOK, HandleUsers
<1>2. /\ \A o \in Object : heap'[o] = IF o = ret THEN "freed" ELSE heap[o]
      /\ heap' \in [Object -> States]
  BY BindingsAssumption DEF OutputArrays, OwnershipInv, BindingsTypeOK, States
<1>3. /\ InCall' = {} /\ Elements(arg') = {} /\ InCall = {ret} \ {NoObject}
      /\ InPerl' = InPerl /\ NoObject \notin InPerl /\ InPerl \subseteq Object
  BY <1>1, ElementsOfEmpty DEF InCall, InPerl, Elements, OwnershipInv, BindingsTypeOK
<1>4. ret \notin InPerl
  BY DEF OwnershipInv, CallOwnsItsObjects
<1>5. Takes("none") \in Seq(Types)
  BY Signatures
<1>6. BindingsTypeOK' /\ PhaseOK'
  BY TypesStep DEF OwnershipInv, Next, vars
<1>7. PointersLive'
  BY <1>2, <1>3, <1>4 DEF OwnershipInv, PointersLive
<1>8. OwnershipInv'
  BY <1>1, <1>3, <1>6, <1>7 DEF OwnershipInv, PhaseOK, CallOwnsItsObjects
<1>9. ASSUME NEW o \in Object
      PROVE  Moved(o)
  <2>1. CASE o = ret
    <3>1. Owner(o) = "call" /\ Owner(o)' = "freed"
      BY <1>2, <1>3, <1>4, <2>1, BindingsAssumption DEF Owner, OwnershipInv, PointersLive
    <3> QED BY <3>1 DEF Moved, Promise!Moves
  <2>2. CASE o # ret
    <3>1. Owner(o)' = Owner(o)
      BY <1>2, <1>3, <2>2 DEF Owner
    <3> QED BY <3>1 DEF Moved, Owner, Promise!Moves, Promise!Owners
  <2> QED BY <2>1, <2>2
<1> QED BY <1>8, <1>9

LEMMA PerlStep ==
    ASSUME OwnershipInv, NEW v \in Variable, NEW w \in Variable,
           CopyHandle(v, w) \/ DropHandle(w)
    PROVE  OwnershipInv' /\ \A o \in Object : Moved(o)
<1>1. PICK x \in Object \cup {NoObject} :
        /\ hold' = [hold EXCEPT ![w] = x]
        /\ x = NoObject \/ x \in InPerl
        /\ heap' = heap /\ fn' = fn /\ arg' = arg /\ ret' = ret /\ at' = at /\ at = "perl"
  BY DEF CopyHandle, DropHandle, OwnershipInv, BindingsTypeOK, InPerl, Elements
<1>2. /\ hold' \in [Variable -> Object \cup {NoObject}] /\ InPerl' \subseteq InPerl
      /\ \A o \in InPerl : o \in InPerl' \/ (hold[w] = o /\ hold'[w] # o)
  BY <1>1, HandleSet
<1>3. arg = <<>> /\ ret = NoObject /\ fn \notin HandleUsers
  BY <1>1 DEF OwnershipInv, PhaseOK, HandleUsers
<1>4. InCall = {} /\ InCall' = {} /\ Elements(arg) = {} /\ Elements(arg') = {}
      /\ NoObject \notin InPerl'
  BY <1>1, <1>3, ElementsOfEmpty DEF InCall, InPerl
<1>5. BindingsTypeOK' /\ PhaseOK'
  BY TypesStep DEF OwnershipInv, Next, vars
<1>6. PointersLive'
  BY <1>1, <1>2, <1>4 DEF OwnershipInv, PointersLive
<1>7. OwnershipInv'
  BY <1>1, <1>3, <1>4, <1>5, <1>6 DEF OwnershipInv, PhaseOK, CallOwnsItsObjects
<1>8. ASSUME NEW o \in Object
      PROVE  Moved(o)
  BY <1>1, <1>2, <1>4 DEF Moved, Owner, Promise!Moves, Promise!Owners
<1> QED BY <1>7, <1>8

(* A Perl program keeps what it gave away or does not.                      *)
LEMMA ProgramStays == [Next]_vars => keepsGiven' = keepsGiven
BY DEF Next, vars, Call, ConvertArray, Croak, TakeHandle, Body, BodyThrows, ConverterDies,
       OutputHandle, OutputArrays, CopyHandle, DropHandle

LEMMA NextStep ==
    ASSUME OwnershipInv, ~keepsGiven, [Next]_vars
    PROVE  OwnershipInv' /\ \A o \in Object : Moved(o)
<1>1. ASSUME NEW f \in Functions, Call(f)
      PROVE  OwnershipInv' /\ \A o \in Object : Moved(o)
  BY <1>1, CallStep
<1>2. CASE ConvertArray
  BY <1>2, ConvertArrayStep
<1>3. CASE Croak
  BY <1>3, CroakStep
<1>4. ASSUME NEW v \in Variable, TakeHandle(v)
      PROVE  OwnershipInv' /\ \A o \in Object : Moved(o)
  BY <1>4, TakeHandleStep
<1>5. CASE Body
  BY <1>5, BodyStep
<1>6. CASE BodyThrows \/ ConverterDies
  BY <1>6, AbortStep
<1>7. ASSUME NEW v \in Variable, OutputHandle(v)
      PROVE  OwnershipInv' /\ \A o \in Object : Moved(o)
  BY <1>7, OutputHandleStep
<1>8. CASE OutputArrays
  BY <1>8, OutputArraysStep
<1>9. ASSUME NEW v \in Variable, NEW w \in Variable, CopyHandle(v, w) \/ DropHandle(w)
      PROVE  OwnershipInv' /\ \A o \in Object : Moved(o)
  BY <1>9, PerlStep
<1>10. CASE UNCHANGED vars
  <2>1. InPerl' = InPerl /\ InCall' = InCall /\ Elements(arg') = Elements(arg)
    BY <1>10 DEF vars, InPerl, InCall, Elements
  <2>2. OwnershipInv'
    BY <1>10, <2>1
       DEF vars, OwnershipInv, BindingsTypeOK, PhaseOK, PointersLive, CallOwnsItsObjects
  <2>3. ASSUME NEW o \in Object
        PROVE  Moved(o)
    BY <1>10, <2>1 DEF vars, Moved, Owner, Promise!Moves, Promise!Owners
  <2> QED BY <2>2, <2>3
<1> QED BY <1>1, <1>2, <1>3, <1>4, <1>5, <1>6, <1>7, <1>8, <1>9, <1>10 DEF Next

-----------------------------------------------------------------------------
(* When Perl keeps handles that it gave away. *)

Reached == InPerl \cup InCall

Polygonal == {"polygon", "multi_polygon"}

(* Of the objects a call has made itself, or will delete though a handle    *)
(* leads to them, the latter are polygons.                                  *)
KeptInv ==
    /\ BindingsTypeOK /\ PhaseOK
    /\ OnlyPolygonHandlesDangle
    /\ fn \in HandleUsers => Elements(arg) \subseteq InPerl
    /\ \A o \in Reached : heap[o] # "unborn"
    /\ ~TakesHandles(fn) => Elements(arg) \cap InPerl = {}
    /\ ret \in InPerl => TypeOf(ret) \in Polygonal

(* A step that leaves the heap alone.                                       *)
LEMMA ReachedStays ==
    ASSUME KeptInv, Reached' \subseteq Reached, heap' = heap
    PROVE  OnlyPolygonHandlesDangle' /\ \A o \in Reached' : heap'[o] # "unborn"
BY DEF KeptInv, OnlyPolygonHandlesDangle, Reached

LEMMA KeptInvInit == Init => KeptInv
<1> SUFFICES ASSUME Init PROVE KeptInv
  OBVIOUS
<1>1. BindingsTypeOK /\ PhaseOK
  BY OwnershipInvInit DEF OwnershipInv
<1>2. InPerl = {} /\ InCall = {}
  BY ElementsOfEmpty DEF Init, InPerl, InCall, Elements
<1>3. Elements(arg) = {} /\ ret \notin InPerl
  BY <1>2, ElementsOfEmpty DEF Init
<1> QED BY <1>1, <1>2, <1>3 DEF KeptInv, OnlyPolygonHandlesDangle, Reached

LEMMA KeptInvStep ==
    ASSUME KeptInv, [Next]_vars
    PROVE  KeptInv'
<1>1. BindingsTypeOK' /\ PhaseOK'
  BY TypesStep DEF KeptInv
<1>2. /\ arg \in Seq(Object) /\ arg' \in Seq(Object)
      /\ fn \in Functions \cup {"none"} /\ ~TakesHandles("none")
      /\ ret \in Object \cup {NoObject} /\ NoObject \notin Object /\ InPerl \subseteq Object
      /\ NoObject \notin InPerl'
      /\ hold \in [Variable -> Object \cup {NoObject}]
      /\ \A f : f \in HandleUsers => TakesHandles(f) /\ f \notin ArrayrefFunctions
  BY <1>1, BindingsAssumption DEF KeptInv, BindingsTypeOK, TakesHandles, HandleUsers,
        ArrayrefFunctions, InPerl, Elements
<1>3. ASSUME Reached' \subseteq Reached, heap' = heap,
             ~TakesHandles(fn') => Elements(arg') \cap InPerl' = {},
             fn' \in HandleUsers => Elements(arg') \subseteq InPerl',
             ret' \in InPerl' => TypeOf(ret') \in Polygonal
      PROVE  KeptInv'
  BY <1>1, <1>3, ReachedStays DEF KeptInv
<1>4. ASSUME arg' = <<>>, ret' = NoObject, heap' = heap, InPerl' \subseteq Reached
      PROVE  KeptInv'
  <2>1. InCall' = {}
    BY <1>4, ElementsOfEmpty DEF InCall
  <2> QED BY <1>2, <1>3, <1>4, <2>1, ElementsOfEmpty DEF Reached
<1>5. ASSUME NEW f \in Functions, Call(f)
      PROVE  KeptInv'
  <2>1. arg' = <<>> /\ ret' = NoObject /\ heap' = heap /\ InPerl' = InPerl
    BY <1>5 DEF Call, KeptInv, PhaseOK, InPerl, Elements
  <2> QED BY <1>4, <2>1 DEF Reached
<1>6. CASE ConvertArray
  <2>1. PICK new \in Fresh(NextType) :
            heap' = [heap EXCEPT ![new] = "live"] /\ arg' = Append(arg, new)
    BY <1>6 DEF ConvertArray
  <2>2. new \in Object /\ heap[new] = "unborn" /\ new \notin Reached
    BY <2>1 DEF Fresh, KeptInv
  <2>3. ~TakesHandles(fn) /\ fn' = fn /\ ret' = ret /\ hold' = hold
    BY <1>6 DEF ConvertArray
  <2>4. Elements(arg') = Elements(arg) \cup {new}
    BY <1>2, <2>1, <2>2, ElementsOfAppend
  <2>5. InPerl' = InPerl /\ Reached' = Reached \cup {new}
    BY <2>3, <2>4 DEF Reached, InCall, InPerl, Elements
  <2>6. \A o \in Object : heap'[o] = IF o = new THEN "live" ELSE heap[o]
    BY <2>1 DEF KeptInv, BindingsTypeOK
  <2>7. Reached' \subseteq Object
    BY <1>2, <2>2, <2>5 DEF Reached, InCall, Elements
  <2>8. OnlyPolygonHandlesDangle' /\ \A o \in Reached' : heap'[o] # "unborn"
    BY <2>5, <2>6, <2>7 DEF KeptInv, OnlyPolygonHandlesDangle, Reached
  <2>9. Elements(arg') \cap InPerl' = {}
    BY <2>2, <2>3, <2>4, <2>5 DEF KeptInv, Reached
  <2>10. fn' \notin HandleUsers /\ ret' \in Object \cup {NoObject}
    BY <1>2, <2>3
  <2>11. ret' \in InPerl' => TypeOf(ret') \in Polygonal
    BY <2>3, <2>5 DEF KeptInv
  <2> QED BY <1>1, <2>8, <2>9, <2>10, <2>11 DEF KeptInv
<1>7. CASE Croak
  <2>1. arg' = <<>> /\ ret' = NoObject /\ heap' = heap /\ InPerl' = InPerl
    BY <1>7 DEF Croak, Return, InPerl, Elements
  <2> QED BY <1>4, <2>1 DEF Reached
<1>8. ASSUME NEW v \in Variable, TakeHandle(v)
      PROVE  KeptInv'
  <2>1. /\ TakesHandles(fn) /\ hold[v] \in Object /\ arg' = Append(arg, hold[v])
        /\ heap' = heap /\ fn' = fn /\ ret' = ret /\ at = "input"
        /\ hold' = [hold EXCEPT ![v] = NoObject] \/ hold' = hold
    BY <1>8 DEF TakeHandle, Converting
  <2>2. ret = NoObject
    BY <2>1 DEF KeptInv, PhaseOK
  <2>3. hold[v] \in InPerl /\ InPerl' \subseteq InPerl
    BY <1>2, <2>1 DEF InPerl, Elements
  <2>4. Elements(arg') = Elements(arg) \cup {hold[v]}
    BY <1>2, <2>1, ElementsOfAppend
  <2>5. Reached' \subseteq Reached
    BY <2>1, <2>3, <2>4 DEF Reached, InCall
  <2>6. fn' \in HandleUsers => Elements(arg') \subseteq InPerl'
    <3> SUFFICES ASSUME fn \in HandleUsers PROVE Elements(arg') \subseteq InPerl'
      BY <2>1
    <3>1. hold' = hold
      BY <1>2, <1>8 DEF TakeHandle
    <3>2. InPerl' = InPerl
      BY <3>1 DEF InPerl, Elements
    <3> QED BY <2>3, <2>4, <3>2 DEF KeptInv
  <2> QED BY <1>2, <1>3, <2>1, <2>2, <2>5, <2>6
<1>9. CASE Body
  <2>1. /\ fn \in Functions /\ fn' = fn /\ arg' = <<>> /\ Len(arg) = Len(Takes(fn))
        /\ InPerl' = InPerl /\ ret = NoObject
    BY <1>9 DEF Body, Converted, KeptInv, PhaseOK, InPerl, Elements
  <2>2. Elements(arg') = {} /\ InCall = Elements(arg) /\ Elements(arg) \subseteq Object
        /\ Reached' = InPerl \cup ({ret'} \ {NoObject})
    BY <1>2, <2>1, ElementsOfEmpty DEF InCall, Reached, Elements
  <2>3. Freed \cap InPerl = {}
    BY <2>1, Signatures DEF Freed, KeptInv, TakesHandles, DeletesArguments, Measures,
            Transforms, HandleUsers, ArrayrefFunctions
  <2>4. CASE Makes(fn) # "none"
    <3>1. PICK new \in Fresh(Makes(fn)) : heap' = HeapWith({new}) /\ ret' = new
      BY <1>9, <2>4 DEF Body
    <3>2. new \in Object /\ heap[new] = "unborn" /\ new \notin InPerl
      BY <3>1 DEF Fresh, KeptInv, Reached
    <3>3. heap'[new] = "live" /\ \A o \in InPerl : heap'[o] = heap[o]
      BY <1>2, <2>3, <3>1, <3>2 DEF HeapWith
    <3>4. OnlyPolygonHandlesDangle' /\ \A o \in Reached' : heap'[o] # "unborn"
      BY <2>2, <3>1, <3>3 DEF KeptInv, OnlyPolygonHandlesDangle, Reached
    <3> QED BY <1>1, <2>1, <2>2, <3>1, <3>2, <3>4 DEF KeptInv
  <2>5. CASE Makes(fn) = "none" /\ ReturnsArgument(fn)
    <3>1. /\ heap' = HeapWith({}) /\ ret' = arg[1] /\ Freed = {}
          /\ Len(Takes(fn)) = 1
      BY <1>9, <2>1, <2>5, Signatures DEF Body, Freed
    <3>2. arg[1] \in Elements(arg) /\ TypeOf(arg[1]) = Takes(fn)[1]
      BY <1>2, <2>1, <3>1 DEF Elements, KeptInv, BindingsTypeOK
    <3>3. \A o \in Object : heap'[o] = heap[o]
      BY <3>1 DEF HeapWith
    <3>4. Reached' \subseteq Reached /\ Reached \subseteq Object
      BY <1>2, <2>2, <3>1, <3>2 DEF Reached
    <3>5. OnlyPolygonHandlesDangle' /\ \A o \in Reached' : heap'[o] # "unborn"
      BY <3>3, <3>4 DEF KeptInv, OnlyPolygonHandlesDangle, Reached
    <3>6. TakesHandles(fn) => Takes(fn)[1] \in Polygonal
      BY <2>5, Signatures DEF TakesHandles, ArrayrefFunctions, HandleUsers, Takes, Polygonal,
              ReturnsArgument, WrapFunctions, CorrectFunctions
    <3>7. ret' \in InPerl' => TypeOf(ret') \in Polygonal
      BY <2>1, <3>1, <3>2, <3>6 DEF KeptInv
    <3> QED BY <1>1, <2>1, <2>2, <3>5, <3>7 DEF KeptInv
  <2>6. CASE Makes(fn) = "none" /\ ~ReturnsArgument(fn)
    <3>1. heap' = HeapWith({}) /\ ret' = NoObject
      BY <1>9, <2>6 DEF Body
    <3>2. \A o \in InPerl : heap'[o] = heap[o]
      BY <1>2, <2>3, <3>1 DEF HeapWith
    <3>3. OnlyPolygonHandlesDangle' /\ \A o \in Reached' : heap'[o] # "unborn"
      BY <2>2, <3>1, <3>2 DEF KeptInv, OnlyPolygonHandlesDangle, Reached
    <3> QED BY <1>1, <1>2, <2>1, <2>2, <3>1, <3>3 DEF KeptInv
  <2> QED BY <2>4, <2>5, <2>6
<1>10. CASE BodyThrows \/ ConverterDies
  <2>1. /\ heap' = heap /\ hold' = hold /\ fn' = fn /\ arg' = arg /\ ret' = ret
    BY <1>10 DEF BodyThrows, ConverterDies
  <2>2. Reached' = Reached /\ InPerl' = InPerl /\ Elements(arg') = Elements(arg)
    BY <2>1 DEF Reached, InPerl, InCall, Elements
  <2> QED BY <1>3, <2>1, <2>2 DEF KeptInv
<1>11. ASSUME NEW v \in Variable, OutputHandle(v)
       PROVE  KeptInv'
  <2>1. arg' = <<>> /\ ret' = NoObject /\ heap' = heap /\ hold' = [hold EXCEPT ![v] = ret]
    BY <1>11 DEF OutputHandle, Return
  <2>2. InPerl' \subseteq Reached
    BY <1>2, <2>1 DEF InPerl, Elements, Reached, InCall
  <2> QED BY <1>4, <2>1, <2>2
<1>12. CASE OutputArrays
  <2>1. /\ arg' = <<>> /\ ret' = NoObject /\ InPerl' = InPerl
        /\ \A o \in Object : heap'[o] = IF o = ret THEN "freed" ELSE heap[o]
    BY <1>2, <1>12 DEF OutputArrays, Return, InPerl, Elements, KeptInv, BindingsTypeOK
  <2>2. Elements(arg') = {} /\ Reached' = InPerl
    BY <2>1, ElementsOfEmpty DEF Reached, InCall
  <2>3. OnlyPolygonHandlesDangle' /\ \A o \in Reached' : heap'[o] # "unborn"
    BY <1>2, <2>1, <2>2 DEF KeptInv, OnlyPolygonHandlesDangle, Reached, Polygonal
  <2> QED BY <1>1, <1>2, <2>1, <2>2, <2>3 DEF KeptInv
<1>13. ASSUME NEW v \in Variable, NEW w \in Variable, CopyHandle(v, w) \/ DropHandle(w)
       PROVE  KeptInv'
  <2>1. /\ arg' = <<>> /\ ret' = NoObject /\ heap' = heap
        /\ hold' = [hold EXCEPT ![w] = hold[v]] \/ hold' = [hold EXCEPT ![w] = NoObject]
    BY <1>13 DEF CopyHandle, DropHandle, KeptInv, PhaseOK
  <2>2. InPerl' \subseteq Reached
    BY <1>2, <2>1 DEF InPerl, Elements, Reached
  <2> QED BY <1>4, <2>1, <2>2
<1>14. CASE UNCHANGED vars
  <2>1. Reached' = Reached /\ InPerl' = InPerl /\ Elements(arg') = Elements(arg)
    BY <1>14 DEF vars, Reached, InPerl, InCall, Elements
  <2> QED BY <1>3, <1>14, <2>1 DEF vars, KeptInv
<1> QED BY <1>5, <1>6, <1>7, <1>8, <1>9, <1>10, <1>11, <1>12, <1>13, <1>14 DEF Next

-----------------------------------------------------------------------------
(* An object that nothing reaches after a step was let go by a croak or by   *)
(* Perl: what a call has converted it deletes, returns or found in a handle. *)
LEMMA LostStep ==
    ASSUME KeptInv, [Next]_vars,
           NEW o \in Object, Owner(o) \in {"call", "perl"}, Owner(o)' = "lost"
    PROVE  \/ at = "input" /\ at' = "perl"
           \/ \E v \in Variable : hold[v] = o /\ hold'[v] # o
<1> SUFFICES ASSUME ~(at = "input" /\ at' = "perl"),
                    \A v \in Variable : hold[v] = o => hold'[v] = o
             PROVE  FALSE
  OBVIOUS
<1>1. /\ o \in Reached /\ o \notin Reached' /\ heap'[o] \notin {"unborn", "freed"}
      /\ heap[o] \notin {"unborn", "freed"}
  BY DEF Owner, Reached
<1>2. /\ arg \in Seq(Object) /\ fn \in Functions \cup {"none"}
      /\ ret \in Object \cup {NoObject} /\ NoObject \notin Object
      /\ hold \in [Variable -> Object \cup {NoObject}] /\ heap \in [Object -> States]
  BY BindingsAssumption DEF KeptInv, BindingsTypeOK
<1>3. hold' \in [Variable -> Object \cup {NoObject}]
  BY TypesStep DEF KeptInv, BindingsTypeOK
<1>4. o \notin InPerl
  BY <1>1, <1>2, <1>3 DEF InPerl, Elements, Reached
<1>5. o \in InCall /\ o \notin InCall'
  BY <1>1, <1>4 DEF Reached
<1>6. arg # <<>> \/ ret # NoObject
  BY <1>5, ElementsOfEmpty DEF InCall
<1>7. ASSUME arg' = arg, ret' = ret PROVE FALSE
  BY <1>5, <1>7 DEF InCall, Elements
<1>8. ASSUME NEW x \in Object, arg' = Append(arg, x), ret' = ret PROVE FALSE
  <2>1. Elements(arg') = Elements(arg) \cup {x}
    BY <1>2, <1>8, ElementsOfAppend
  <2> QED BY <1>5, <1>8, <2>1 DEF InCall
<1>9. ASSUME NEW f \in Functions, Call(f) PROVE FALSE
  BY <1>7, <1>9 DEF Call
<1>10. CASE ConvertArray
  BY <1>8, <1>10 DEF ConvertArray, Fresh
<1>11. CASE Croak
  BY <1>11 DEF Croak, Converting, Return
<1>12. ASSUME NEW v \in Variable, TakeHandle(v) PROVE FALSE
  BY <1>8, <1>12 DEF TakeHandle
<1>13. CASE Body
  <2>1. /\ Len(arg) = Len(Takes(fn)) /\ fn \in Functions /\ ret = NoObject
        /\ Makes(fn) = "none" => ret' = IF ReturnsArgument(fn) THEN arg[1] ELSE NoObject
    BY <1>13 DEF Body, Converted, KeptInv, PhaseOK
  <2>2. o \in Elements(arg) /\ Len(arg) \in Nat /\ Len(arg) > 0
    BY <1>2, <1>5, <2>1 DEF InCall, Elements
  <2>3. o \notin Freed
    <3>1. PICK new : heap' = HeapWith(new) /\ \A p \in new : heap[p] = "unborn"
      <4>1. CASE Makes(fn) = "none"
        BY <1>13, <4>1 DEF Body
      <4>2. CASE Makes(fn) # "none"
        <5>1. PICK p \in Fresh(Makes(fn)) : heap' = HeapWith({p})
          BY <1>13, <4>2 DEF Body
        <5> QED BY <5>1 DEF Fresh
      <4> QED BY <4>1, <4>2
    <3> QED BY <1>1, <3>1 DEF HeapWith
  <2>4. ~DeletesArguments(fn)
    BY <2>2, <2>3 DEF Freed
  <2>5. fn \notin HandleUsers
    BY <1>4, <2>2 DEF KeptInv
  <2>6. ReturnsArgument(fn) /\ Len(arg) = 1 /\ Makes(fn) = "none"
    BY <2>1, <2>2, <2>4, <2>5, Signatures
  <2>7. o = arg[1]
    BY <1>2, <2>2, <2>6 DEF Elements
  <2> QED BY <1>2, <1>5, <2>1, <2>6, <2>7 DEF InCall
<1>14. CASE BodyThrows \/ ConverterDies
  BY <1>7, <1>14 DEF BodyThrows, ConverterDies
<1>15. at = "output" => o = ret
  BY <1>5, ElementsOfEmpty DEF KeptInv, PhaseOK, InCall
<1>16. ASSUME NEW v \in Variable, OutputHandle(v) PROVE FALSE
  <2>1. o = ret /\ hold'[v] = ret
    BY <1>2, <1>15, <1>16 DEF OutputHandle
  <2> QED BY <1>1, <1>2, <1>3, <2>1 DEF Reached, InPerl, Elements
<1>17. CASE OutputArrays
  BY <1>1, <1>2, <1>15, <1>17 DEF OutputArrays
<1>18. ASSUME NEW v \in Variable, NEW w \in Variable, CopyHandle(v, w) \/ DropHandle(v)
       PROVE  FALSE
  BY <1>7, <1>18 DEF CopyHandle, DropHandle
<1>19. CASE UNCHANGED vars
  BY <1>7, <1>19 DEF vars
<1> QED BY <1>9, <1>10, <1>11, <1>12, <1>13, <1>14, <1>16, <1>17, <1>18, <1>19 DEF Next

-----------------------------------------------------------------------------
(* The results.                                                             *)

(* In a program that gives up the handles it passes to the _arrayref        *)
(* functions every pointer of a call or a handle stays valid, and a call    *)
(* deletes only what belongs to it.                                         *)
THEOREM OwnershipInvariant == Spec => [](~keepsGiven => OwnershipInv)
<1>1. (~keepsGiven => OwnershipInv) /\ [Next]_vars => (~keepsGiven => OwnershipInv)'
  BY NextStep, ProgramStays DEF OwnershipInv, BindingsTypeOK
<1> QED BY OwnershipInvInit, <1>1, PTL DEF Spec

(* Type correctness, whether Perl keeps handles it gave away or not:        *)
(* parameters are converted in order to objects of their types in every     *)
(* function of Utils.xsp.                                                   *)
THEOREM BindingsTypeCorrect == Spec => []BindingsTypeOK
<1>1. KeptInv /\ [Next]_vars => KeptInv'
  BY KeptInvStep
<1>2. KeptInv => BindingsTypeOK
  BY DEF KeptInv
<1> QED BY KeptInvInit, <1>1, <1>2, PTL DEF Spec

(* Whatever sequence of calls, croaks and Perl assignments, only objects    *)
(* that are allocated are touched and each is deleted at most once, in a    *)
(* program that gives up the handles it passes to the _arrayref functions:  *)
(* the XS layer implements Ownership.                                       *)
THEOREM BindingsImplementOwnership == Spec => OwnershipKept
<1>1. Init => Promise!OwnershipInit
  <2> SUFFICES ASSUME Init PROVE Promise!OwnershipInit
    OBVIOUS
  <2>1. InCall = {}
    BY ElementsOfEmpty DEF Init, InCall
  <2>2. \A o \in Object : Owner(o) = "none"
    BY DEF Init, Owner
  <2> QED BY <2>1, <2>2 DEF Promise!OwnershipInit
<1>2. (~keepsGiven => OwnershipInv) /\ [Next]_vars
          => [Promise!OwnershipNext]_(Promise!ownershipVars)
  <2> SUFFICES ASSUME ~keepsGiven => OwnershipInv, [Next]_vars
               PROVE  [Promise!OwnershipNext]_(Promise!ownershipVars)
    OBVIOUS
  <2>1. keepsGiven' = keepsGiven
    BY ProgramStays
  <2>2. CASE keepsGiven
    BY <2>1, <2>2 DEF Promise!ownershipVars
  <2>3. CASE ~keepsGiven
    <3>1. OwnershipInv' /\ \A o \in Object : Moved(o)
      BY <2>3, NextStep
    <3>2. \A o \in Object : Owner(o)' \in Promise!Owners
      BY DEF Owner, Promise!Owners
    <3>3. ASSUME NEW o \in InCall'
          PROVE  o \in Object /\ Owner(o)' \in {"call", "perl"}
      <4>1. o \in Object
        BY <3>1, <3>3 DEF OwnershipInv, BindingsTypeOK, InCall, Elements
      <4> QED BY <3>1, <3>3, <4>1 DEF OwnershipInv, PointersLive, Owner
    <3>4. \A o \in Object : <<Owner(o), Owner(o)'>> \in Promise!Moves
      BY <3>1 DEF Moved
    <3> QED BY <2>1, <2>3, <3>2, <3>3, <3>4 DEF Promise!OwnershipNext
  <2> QED BY <2>2, <2>3
<1> QED BY <1>1, <1>2, OwnershipInvariant, PTL DEF Spec, OwnershipKept, Promise!OwnershipSpec

(* A function that runs to its end loses no object, of whichever program.   *)
THEOREM LossesOnlyByCroaksAndDrops == Spec => OnlyCroaksAndDropsLose
<1> DEFINE Lost ==
        \A o \in Object :
            (Owner(o) \in {"call", "perl"} /\ Owner(o)' = "lost") =>
                \/ at = "input" /\ at' = "perl"
                \/ \E v \in Variable : hold[v] = o /\ hold'[v] # o
<1>1. KeptInv /\ [Next]_vars => KeptInv' /\ [Lost]_vars
  BY KeptInvStep, LostStep
<1> QED BY <1>1, KeptInvInit, PTL DEF Spec, OnlyCroaksAndDropsLose

(* Whatever Perl does with its handles, also with those it has given to an  *)
(* _arrayref function, only handles of polygons and multipolygons dangle.   *)
THEOREM OnlyPolygonsDangle == Spec => []OnlyPolygonHandlesDangle
<1>1. KeptInv /\ [Next]_vars => KeptInv'
  BY KeptInvStep
<1>2. KeptInv => OnlyPolygonHandlesDangle
  BY DEF KeptInv
<1> QED BY KeptInvInit, <1>1, <1>2, PTL DEF Spec
==============================================================================
