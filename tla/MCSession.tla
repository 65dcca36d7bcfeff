------------------------------ MODULE MCSession -----------------------------
(***************************************************************************)
(* Small instances of Session for TLC.                                     *)
(***************************************************************************)
EXTENDS SessionProperties, TLC

CONSTANTS s1, s2, p1, p2, a1, a2, here, there, above, origin

OneSession == {s1}
MCSessions == {s1, s2}
OnePlayer  == {p1}
MCPlayers  == {p1, p2}

\* All players start at one place, and (0, 0, 0) is not walkable.
MCInitialDb == [p \in Players |-> here]
MCWalkable  == {here, there}

\* The player is stored on an upper floor, which the world does not have.
Upstairs == [p \in Players |-> above]
MCGround == [place \in Places |-> IF place = above THEN there ELSE place]

\* Only players at the same place are within range.
SameNear == {<<x, x>> : x \in Places}

\* All players belong to one account.
OneOwner  == [p \in Players |-> a1]

\* Each of two players has an account of its own.
TwoOwners == p1 :> a1 @@ p2 :> a2

\* What the clients send and what the environment does to their sessions.
NoCommands      == [s \in Sessions |-> {}]
Walking         == [s \in Sessions |-> {"MOVE", "LOGOUT"}]
ManyCommands    == [s \in Sessions |-> {"LOGOUT", "PING", "MOVE"}]
HangUps         == [s \in Sessions |-> {"eof"}]
LateLogins      == [s \in Sessions |-> {"slowLogin"}]
HangUpsAndLate  == [s \in Sessions |-> {"eof", "slowLogin"}]
Ticks           == [s \in Sessions |-> {"tick"}]
TicksAndHangUps == [s \in Sessions |-> {"eof", "tick"}]
Everything      == [s \in Sessions |-> AllEvents]
AllTheCommands  == [s \in Sessions |-> AllCommands]

SessionSymmetry == Permutations(Sessions)

\* The two characters change places together with their accounts.
OwnersSymmetry ==
    SessionSymmetry \cup {p1 :> p2 @@ p2 :> p1 @@ a1 :> a2 @@ a2 :> a1}
=============================================================================
