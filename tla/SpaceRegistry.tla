---------------------------- MODULE SpaceRegistry ----------------------------
(***************************************************************************)
(* What the launcher promises about virtual spaces during one lifetime of  *)
(* the Neutron process: a package owns at most one space, a space that was *)
(* handed out is never handed out again, and what leads to the hand-out    *)
(* (which Android command failed, which id was burned) is not observable.  *)
(* Restart begins a new lifetime, which remembers nothing of the last one. *)
(***************************************************************************)
EXTENDS Naturals

CONSTANTS Pkg,        \* package names
          SpaceId,    \* the identifiers a space can have
          NoSpace     \* "this package has no space": not a SpaceId

VARIABLES space,      \* package -> its space, or NoSpace
          issued      \* every space handed out in this lifetime

vars == <<space, issued>>

NoSpaces == [p \in Pkg |-> NoSpace]

Init == space = NoSpaces /\ issued = {}

Assign(p) ==
  \E id \in SpaceId \ issued :
    /\ space[p] = NoSpace
    /\ space' = [space EXCEPT ![p] = id]
    /\ issued' = issued \cup {id}

Release(p) == space' = [space EXCEPT ![p] = NoSpace] /\ UNCHANGED issued

ReleaseAll == space' = NoSpaces /\ UNCHANGED issued

Restart == space' = NoSpaces /\ issued' = {}

Next == \/ \E p \in Pkg : Assign(p) \/ Release(p)
        \/ ReleaseAll
        \/ Restart

Spec == Init /\ [][Next]_vars
=============================================================================
