------------------------- MODULE MCCharacterCreation -------------------------
(***************************************************************************)
(* Small instances of CharacterCreation for TLC.                           *)
(***************************************************************************)
EXTENDS CharacterCreation, TLC

CONSTANTS s1, s2, s3, a1, a2, n1, n2, n3, n4

TwoClients   == {s1, s2}
ThreeClients == {s1, s2, s3}

\* Two sessions of one account and one of another, or both of one account.
MCAccountOf  == s1 :> a1 @@ s2 :> a1 @@ s3 :> a2
SameAccount  == s1 :> a1 @@ s2 :> a1

\* One row is stored, for the account with two sessions.
MCInitialOwner == [n \in Names |-> IF n = n1 THEN a1 ELSE NoAccount]

CreationSymmetry == Permutations(Names \ {n1})
=============================================================================
