------------------------------ MODULE Protocol ------------------------------
(***************************************************************************)
(* The messages of the server as sequences of bytes: the encoders and the  *)
(* decoders of protocol/ and the messages session.cpp and its handlers put *)
(* together themselves.  Ids, coordinates, counts and codes have the width *)
(* the code gives them; strings are sequences of bytes without zero.       *)
(***************************************************************************)
EXTENDS Integers, Sequences

ProtocolCommand ==
    [LOGIN |-> 1, LOGOUT |-> 2, PING |-> 3, CREATE_CHARACTER |-> 4,
     REQUEST_CHARACTER_LIST |-> 5, SELECT_CHARACTER |-> 6, MOVE_CHARACTER |-> 7,
     UPDATE_POSITION |-> 8, ATTACK |-> 9,
     LOGIN_SUCCESS |-> 101, LOGIN_FAILURE |-> 102, CHARACTER_LIST |-> 103,
     CHARACTER_SELECTION_SUCCESS |-> 104, CHARACTER_SELECTION_FAILURE |-> 105,
     CHARACTER_CREATION_SUCCESS |-> 106, CHARACTER_CREATION_FAILURE |-> 107,
     MOVEMENT_CONFIRMED |-> 108, MOVEMENT_BLOCKED |-> 109, PONG |-> 110,
     ATTACK_SUCCESS |-> 111, ATTACK_FAILURE |-> 112, OTHER_PLAYER_INFO |-> 201]

Byte == 0 .. 255
SignedByte == -128 .. 127
Word == {n \in Nat : n < 65536}
Text == Seq(Byte \ {0})

(* Integers as bytes, most significant first.  \div and % round down, as   *)
(* >> and & do on negative ints.                                           *)

High(n)      == (n \div 256) % 256
Low(n)       == n % 256
FourBytes(n) == <<High(n \div 65536), Low(n \div 65536), High(n), Low(n)>>

\* Two bytes of a message, the first at (0-based) offset, as a uint16_t.
uint16(message, offset) == message[offset + 1] * 256 + message[offset + 2]

\* A byte of a message, as an int8_t.
int8(message, offset) ==
    IF message[offset + 1] < 128 THEN message[offset + 1] ELSE message[offset + 1] - 256

\* The coordinates of places on a map, where every integer has a float.
Coordinate == {v \in Nat : v < 2^24}

\* The four bytes of a float that holds the coordinate v, least significant first.
Float(v) ==
    LET e    == CHOOSE k \in 0 .. 23 : 2^k <= v /\ v < 2^(k + 1)
        bits == IF v = 0 THEN 0 ELSE (127 + e) * 2^23 + (v - 2^e) * 2^(23 - e)
        b    == FourBytes(bits)
    IN  <<b[4], b[3], b[2], b[1]>>

\* Coordinates are (x, y, z) with z = 0 in the world.
Floats(place) == Float(place[1]) \o Float(place[2]) \o Float(0)

-----------------------------------------------------------------------------
(* Decoders.  Offsets are 0-based as in the code.  A decoder that throws    *)
(* gives Malformed.                                                        *)

Malformed == <<>>

extractCommandFromMessage(message) == message[1]

\* Faulty variant: the string ends with the message.
extractWholeRest(message, start) == SubSeq(message, start + 1, Len(message))

\* The bytes from start up to the next zero, or to the end of the message.
extractDataString(message, start) ==
    LET Ends(n) == start + n = Len(message) \/ message[start + n + 1] = 0
    IN  IF start >= Len(message) THEN <<>>
        ELSE SubSeq(message, start + 1,
                    start + CHOOSE n \in 0 .. Len(message) - start :
                               Ends(n) /\ \A k \in 0 .. n - 1 : ~Ends(k))

handleLoginRequest(message) ==
    LET username == extractDataString(message, 1)
    IN  IF extractCommandFromMessage(message) = ProtocolCommand.LOGIN
        THEN [username |-> username,
              password |-> extractDataString(message, Len(username) + 2)]
        ELSE [username |-> <<>>, password |-> <<>>]

handleCharacterSelectionRequest(message) == extractDataString(message, 1)

handleCharacterCreationRequest(message) ==
    LET name == extractDataString(message, 1)
    IN  [name |-> name, vocation |-> extractDataString(message, Len(name) + 2)]

\* Three bytes are the older format, five or more the newer one.
extractMovementData(message) ==
    IF Len(message) = 3 THEN <<int8(message, 1), int8(message, 2)>>
    ELSE IF Len(message) >= 5 THEN <<uint16(message, 1), uint16(message, 3)>>
    ELSE Malformed

\* Faulty variant: attacker and target exchanged.
extractAttackSwapped(message) ==
    IF Len(message) < 6 THEN Malformed
    ELSE <<uint16(message, 3), uint16(message, 1), message[6]>>

\* <<attackerId, targetId, attackType>>
extractAttackData(message) ==
    IF Len(message) < 6 THEN Malformed
    ELSE <<uint16(message, 1), uint16(message, 3), message[6]>>

-----------------------------------------------------------------------------
(* Encoders.                                                               *)

createLoginSuccess(accountId) == <<ProtocolCommand.LOGIN_SUCCESS, High(accountId), Low(accountId)>>
createLoginFailure(errorCode) == <<ProtocolCommand.LOGIN_FAILURE, errorCode>>

createCharacterList(characters) ==
    LET Entry(c) == FourBytes(c.id) \o c.name \o <<0>> \o c.vocation \o <<0>>
                      \o FourBytes(c.level)
        data[n \in 0 .. Len(characters)] ==
            IF n = 0 THEN 
              <<ProtocolCommand.CHARACTER_LIST, High(Len(characters)), Low(Len(characters))>>
            ELSE data[n - 1] \o Entry(characters[n])
    IN  data[Len(characters)]

createCharacterSelectionSuccess(characterId, x, y, z) ==
    <<ProtocolCommand.CHARACTER_SELECTION_SUCCESS>> \o FourBytes(characterId)
      \o <<High(x), Low(x), High(y), Low(y), High(z), Low(z)>>
createCharacterSelectionFailure(errorCode) ==
    <<ProtocolCommand.CHARACTER_SELECTION_FAILURE, errorCode>>

createCharacterCreationSuccess(characterId) ==
    <<ProtocolCommand.CHARACTER_CREATION_SUCCESS>> \o FourBytes(characterId)
createCharacterCreationFailure(errorCode) ==
    <<ProtocolCommand.CHARACTER_CREATION_FAILURE, errorCode>>

createPositionUpdateMessage(playerId, x, y) ==
    <<ProtocolCommand.UPDATE_POSITION, High(playerId), Low(playerId),
      High(x), Low(x), High(y), Low(y)>>

movementConfirmedMessage(place) == <<ProtocolCommand.MOVEMENT_CONFIRMED>> \o Floats(place)
movementBlockedMessage == <<ProtocolCommand.MOVEMENT_BLOCKED>>
pongMessage == <<ProtocolCommand.PONG>>

createAttackMessage(attackerId, targetId, attackType) ==
    <<ProtocolCommand.ATTACK, High(attackerId), Low(attackerId),
      High(targetId), Low(targetId), attackType>>

createAttackSuccess(attackerId, targetId, damage) ==
    <<ProtocolCommand.ATTACK_SUCCESS, High(attackerId), Low(attackerId),
      High(targetId), Low(targetId), High(damage), Low(damage)>>
createAttackFailure(attackerId, targetId) ==
    <<ProtocolCommand.ATTACK_FAILURE, High(attackerId), Low(attackerId),
      High(targetId), Low(targetId)>>

\* The name fills 32 bytes: a longer one is cut and has no zero at its end.
createOtherPlayerInfoMessage(playerId, name, place, state) ==
    <<ProtocolCommand.OTHER_PLAYER_INFO>> \o FourBytes(playerId)
      \o [i \in 1 .. 32 |-> IF i <= Len(name) THEN name[i] ELSE 0]
      \o Floats(place) \o <<state>>
=============================================================================
