-------------------------------- MODULE World -------------------------------
(***************************************************************************)
(* The position table of the world: World (world/world.cpp) hands every    *)
(* call to its MapManager (world/mapmanager.cpp), whose playerPositions is *)
(* an unordered_map from player id to (x, y): an entry loses the z of the  *)
(* place it is made from, and is read back with z = 0.  Entries are        *)
(* written and read; the code has no operation that removes one.           *)
(*                                                                         *)
(* The map has no mutex while all io threads use it.  An insertion of a    *)
(* new id that overlaps another access is a data race: the reader may      *)
(* miss entries that are there, and an insertion may be lost.  The "Racy"  *)
(* operators give the outcomes; a composing module decides when two        *)
(* accesses overlap.                                                       *)
(***************************************************************************)
EXTENDS Game

CONSTANTS
    Ground,     \* the place (x, y, 0) under a place (x, y, z)
    Walkable,   \* places whose cell of the collision grid is free; z is 0
    Near        \* pairs of places at most the range of 500 pixels apart

ASSUME WorldAssumption ==
    /\ Ground \in [Places -> Places]
    /\ \A place \in Places : Ground[Ground[place]] = Ground[place]
    /\ Walkable \subseteq Places
    /\ \A place \in Walkable : Ground[place] = place
    /\ Near \subseteq Places \X Places

VARIABLE playerPositions

isPositionWalkable(place) == place \in Walkable

Placed == DOMAIN playerPositions

\* playerPositions[playerId] = {x, y}: insert the id or overwrite its place.
updatePlayerPosition(p, place) ==
    playerPositions' = [q \in Placed \cup {p} |->
                            IF q = p THEN Ground[place] ELSE playerPositions[q]]

\* A missing id is answered with (0, 0, 0).
getPlayerPosition(p) == IF p \in Placed THEN playerPositions[p] ELSE Origin

\* Everybody else within range; nobody when p itself has no entry.
getPlayersInProximity(p) ==
    {q \in Placed \ {p} :
        p \in Placed /\ <<playerPositions[p], playerPositions[q]>> \in Near}

-----------------------------------------------------------------------------
(* Outcomes of an access that may overlap another thread's insertion.      *)

ReadOutcomes(p, racing) ==
    {getPlayerPosition(p)} \cup (IF racing THEN {Origin} ELSE {})

ProximityOutcomes(p, racing) ==
    IF racing THEN SUBSET getPlayersInProximity(p)
              ELSE {getPlayersInProximity(p)}

WriteOutcome(p, place, racing) ==
    \/ updatePlayerPosition(p, place)
    \/ racing /\ p \notin Placed /\ UNCHANGED playerPositions

-----------------------------------------------------------------------------
WorldTypeOK == /\ Placed \subseteq Players
               /\ \A p \in Placed : playerPositions[p] \in Places

WorldInit == playerPositions = [p \in {} |-> Origin]
=============================================================================
