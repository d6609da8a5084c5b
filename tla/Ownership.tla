------------------------------ MODULE Ownership ------------------------------
(***************************************************************************)
(* What the XS layer promises about the C++ objects it allocates: an       *)
(* object is allocated once, then belongs to the call in progress or to    *)
(* Perl (as the target of a handle), is deleted at most once, and is       *)
(* touched only while it has an owner.  Objects may be lost, since nothing *)
(* collects the ones that no pointer reaches.                              *)
(***************************************************************************)
CONSTANT Object

VARIABLES
    owner,    \* owner[o]: who will delete the object at address o
    touched   \* the objects the call may dereference or delete now

ownershipVars == <<owner, touched>>

Owners == {"none", "call", "perl", "freed", "lost"}

\* Deleted and lost objects stay so: an address is not used again.
Moves ==
    { <<"none", "call">>, <<"call", "perl">>, <<"perl", "call">>, <<"call", "freed">>,
      <<"call", "lost">>, <<"perl", "lost">> } \cup {<<x, x>> : x \in Owners}

OwnershipInit ==
    /\ owner = [o \in Object |-> "none"]
    /\ touched = {}

OwnershipNext ==
    /\ owner' \in [Object -> Owners]
    /\ \A o \in Object : <<owner[o], owner'[o]>> \in Moves
    /\ touched' \subseteq {o \in Object : owner'[o] \in {"call", "perl"}}

OwnershipSpec == OwnershipInit /\ [][OwnershipNext]_ownershipVars
==============================================================================
