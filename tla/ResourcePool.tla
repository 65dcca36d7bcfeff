---------------------------- MODULE ResourcePool ----------------------------
(***************************************************************************)
(* What a pool of shared resources promises its users: a resource serves   *)
(* one user at a time, a resource that is given back can be taken again,   *)
(* none is ever lost, and there are never more than MaxSize of them.  How  *)
(* users wait for a resource is left open.                                 *)
(***************************************************************************)
EXTENDS FiniteSets, Naturals

CONSTANTS Users, Resources, NoResource, MaxSize

VARIABLES free, inUse

Taken == {inUse[u] : u \in Users} \ {NoResource}
Owned == free \cup Taken

\* The pool opens with some resources, all of them free.
Init ==
    /\ free \in SUBSET Resources
    /\ Cardinality(free) <= MaxSize
    /\ inUse = [u \in Users |-> NoResource]

Take(u) ==
    /\ inUse[u] = NoResource
    /\ \E r \in free : /\ free' = free \ {r}
                       /\ inUse' = [inUse EXCEPT ![u] = r]

\* A new resource is added for a user that found none.
Add(u) ==
    /\ inUse[u] = NoResource
    /\ Cardinality(Owned) < MaxSize
    /\ \E r \in Resources \ Owned : inUse' = [inUse EXCEPT ![u] = r]
    /\ UNCHANGED free

Return(u) ==
    /\ inUse[u] # NoResource
    /\ free' = free \cup {inUse[u]}
    /\ inUse' = [inUse EXCEPT ![u] = NoResource]

Next == \E u \in Users : Take(u) \/ Add(u) \/ Return(u)

Spec == Init /\ [][Next]_<<free, inUse>>
=============================================================================
