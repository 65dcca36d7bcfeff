--------------------------- MODULE ClientConnection --------------------------
(***************************************************************************)
(* One connection, byte by byte: what a client means, the bytes it sends,  *)
(* the parts of them that the reads of the session return, what the        *)
(* handlers make of a part, and what arrives at the client.  The client    *)
(* sends without waiting for answers.  The session is in the middle of its *)
(* own work only where it sends more than one message or closes; what else *)
(* happens inside a handler is in Session.                                 *)
(***************************************************************************)
EXTENDS Protocol, MapGrid, SocketWrites

LOCAL INSTANCE SequencesExt

CONSTANTS
    Conversations,  \* what the client may want: sequences of commands
    Cuts,           \* where, in a message, a read may end
    max_length,     \* of a read
    Account,        \* of the user: its id, username and password
    Characters,     \* of the account, as in the database: id, name, vocation, level, place
    NoCharacter,
    NewIds,         \* ids that a character creation may report
    Neighbour,      \* the player of another session: its id, name and place
    MaxUpdates      \* messages from the other session

\* What a client may mean.  Texts have no zero, for a zero ends them; the numbers of
\* a move have the width of their field, those of an attack are ids of players.  A step
\* goes by so many pixels, as CLIENT_PROTOCOL.md has it; a move goes to a place.
Command ==
    [name : {"LIST", "PING", "LOGOUT"}]
      \cup [name : {"LOGIN"}, username : Text, password : Text]
      \cup [name : {"SELECT"}, character : Text]
      \cup [name : {"CREATE"}, character : Text, vocation : Text]
      \cup [name : {"STEP"}, delta : SignedByte \X SignedByte]
      \cup [name : {"MOVE"}, to : Word \X Word]
      \cup [name : {"ATTACK"}, attacker : Nat, target : Nat]

ASSUME ClientAssumption ==
    /\ Conversations \subseteq Seq(Command)
    /\ Cuts \subseteq Nat /\ max_length \in Nat

\* The columns of the table players, and what names have in common: they were read
\* from messages.
ASSUME RowsAssumption ==
    /\ Account.id \in Int /\ NewIds \subseteq Int
    /\ Characters \in Seq([id : Int, name : Text, vocation : Text, level : Int,
                           place : Int \X Int \X Int])
    /\ NoCharacter \notin ToSet(Characters)

\* The other player stands on the map, or where the map could be.
ASSUME NeighbourAssumption ==
    /\ Neighbour \in [id : Int, name : Text, place : Coordinate \X Coordinate]
    /\ mapWidth <= 2^24 /\ mapHeight <= 2^24
    /\ MaxUpdates \in Nat

\* The answer to a login fits in the socket's buffer.
ASSUME ConnectionAssumption == SendBuffer >= 2

VARIABLES
    conversation,   \* what this client wants
    begun,          \* history: where in the client's bytes the last read began
    consumed,       \* the bytes that have been read
    state,          \* player_session_state_
    loginTimer,     \* login_timer_
    character,      \* the one that was selected: player_id_ and what is stored of it
    place,          \* its entry in playerPositions
    handler,        \* what the session does next
    updates         \* the messages from the other session so far

sessionVars == <<begun, consumed, state, loginTimer, character, place, handler>>
connectionVars == <<conversation, sessionVars, updates, socketVars>>

-----------------------------------------------------------------------------
(* The client.                                                             *)

\* The bytes of a command.  CLIENT_PROTOCOL.md has all of them but the move of five
\* bytes and the attack, which are as their decoders take them.
Encode(command) ==
    CASE command.name = "LOGIN" -> <<ProtocolCommand.LOGIN>> \o command.username \o <<0>>
                                     \o command.password \o <<0>>
      [] command.name = "LIST" -> <<ProtocolCommand.REQUEST_CHARACTER_LIST>>
      [] command.name = "SELECT" -> <<ProtocolCommand.SELECT_CHARACTER>>
                                      \o command.character \o <<0>>
      [] command.name = "CREATE" -> <<ProtocolCommand.CREATE_CHARACTER>> \o command.character
                                      \o <<0>> \o command.vocation \o <<0>>
      [] command.name = "STEP" -> <<ProtocolCommand.MOVE_CHARACTER,
                                    Low(command.delta[1]), Low(command.delta[2])>>
      [] command.name = "MOVE" -> <<ProtocolCommand.MOVE_CHARACTER,
                                    High(command.to[1]), Low(command.to[1]),
                                    High(command.to[2]), Low(command.to[2])>>
      [] command.name = "ATTACK" -> createAttackMessage(command.attacker, command.target, 1)
      [] command.name = "PING" -> <<ProtocolCommand.PING>>
      [] command.name = "LOGOUT" -> <<ProtocolCommand.LOGOUT>>

Bytes == [wanted \in Conversations |->
             FlattenSeq([i \in 1 .. Len(wanted) |-> Encode(wanted[i])])]
Sent == Bytes[conversation]

\* Where each message begins, and where the last one ends.
Starts == [wanted \in Conversations |->
              [i \in 1 .. Len(wanted) + 1 |->
                  Len(FlattenSeq([j \in 1 .. i - 1 |-> Encode(wanted[j])]))]]
Start(i) == Starts[conversation][i]

\* A read ends at the end of a message or, when TCP parts a message, inside it.
Stops == {stop \in {Start(i) + cut : i \in 1 .. Len(conversation) + 1, cut \in Cuts \cup {0}} :
             /\ consumed < stop /\ stop <= Len(Sent)
             /\ stop <= consumed + max_length}

-----------------------------------------------------------------------------
(* The handlers.                                                           *)

Continue == handler' = "reading"
Stay     == UNCHANGED <<state, loginTimer, character, place>>

\* Faulty variant: the socket is closed first.
refuseLoginLate == closeSocket /\ handler' = "refused"

refuseLogin == sendDataToClient(createLoginFailure(1)) /\ handler' = "refusing"

\* The login fails also when the database does.
handleAuthentication(message) ==
    LET credentials == handleLoginRequest(message) IN
    \/ /\ credentials = [username |-> Account.username, password |-> Account.password]
       /\ sendDataToClient(createLoginSuccess(Account.id))
       /\ state' = "Authenticated" /\ loginTimer' = "cancelled"
       /\ Continue
       /\ UNCHANGED <<character, place>>
    \/ refuseLogin /\ Stay

\* Characters of the account that have the name, if the database answers.
getCharacterInfo(name) == {c \in ToSet(Characters) : c.name = name}

range == 500

enterGame(chosen) ==
    /\ chosen.place # <<0, 0, 0>>
    /\ state' = "InGame" /\ character' = chosen
    /\ place' = <<chosen.place[1], chosen.place[2]>>
    /\ handler' = IF getPlayersInProximity([id \in {chosen.id, Neighbour.id} |->
                          IF id = chosen.id THEN place' ELSE Neighbour.place],
                          chosen.id, range) = {}
                  THEN "confirming" ELSE "introducing"
    /\ UNCHANGED <<loginTimer, socketVars>>

handleCharacterSelectionCommands(message) ==
    LET command == extractCommandFromMessage(message)
        Answer(answer) == sendDataToClient(answer) /\ Continue /\ Stay
    IN
    \/ /\ command = ProtocolCommand.REQUEST_CHARACTER_LIST
       /\ \E found \in {Characters, <<>>} : Answer(createCharacterList(found))
    \/ /\ command = ProtocolCommand.SELECT_CHARACTER
       /\ \/ \E chosen \in getCharacterInfo(handleCharacterSelectionRequest(message)) :
                enterGame(chosen) \/ Answer(createCharacterSelectionFailure(2))
          \/ Answer(createCharacterSelectionFailure(1))
    \/ /\ command = ProtocolCommand.CREATE_CHARACTER
       /\ \/ \E id \in NewIds : Answer(createCharacterCreationSuccess(id))
          \/ Answer(createCharacterCreationFailure(1))
    \/ /\ command \notin {ProtocolCommand.REQUEST_CHARACTER_LIST,
                          ProtocolCommand.SELECT_CHARACTER, ProtocolCommand.CREATE_CHARACTER}
       /\ Continue /\ Stay
       /\ UNCHANGED socketVars

handleMovementCommands(message) ==
    LET to == extractMovementData(message) IN
    /\ \/ to = Malformed /\ UNCHANGED <<place, socketVars>>
       \/ /\ to # Malformed /\ isPositionWalkable(to[1], to[2])
          /\ place' = to
          /\ sendDataToClient(movementConfirmedMessage(to))
       \/ /\ to # Malformed /\ ~isPositionWalkable(to[1], to[2])
          /\ sendDataToClient(movementBlockedMessage)
          /\ UNCHANGED place
    /\ Continue
    /\ UNCHANGED <<state, loginTimer, character>>

\* The damage is always 10.
handleAttackCommands(message) ==
    LET attack == extractAttackData(message) IN
    /\ \/ /\ attack = Malformed
          /\ sendDataToClient(createAttackFailure(0, 0)) /\ Continue
       \/ /\ attack # Malformed /\ attack[1] # character.id
          /\ sendDataToClient(createAttackFailure(attack[1], attack[2]))
          /\ handler' = "idle"
       \/ /\ attack # Malformed /\ attack[1] = character.id
          /\ sendDataToClient(createAttackSuccess(attack[1], attack[2], 10)) /\ Continue
    /\ Stay

handlePlayerCommands(message) ==
    LET command == extractCommandFromMessage(message) IN
    \/ command = ProtocolCommand.LOGOUT /\ closeSocket /\ handler' = "idle" /\ Stay
    \/ /\ command = ProtocolCommand.PING
       /\ sendDataToClient(pongMessage) /\ handler' = "idle" /\ Stay
    \/ command = ProtocolCommand.MOVE_CHARACTER /\ handleMovementCommands(message)
    \/ command = ProtocolCommand.ATTACK /\ handleAttackCommands(message)
    \/ /\ command \notin {ProtocolCommand.LOGOUT, ProtocolCommand.PING,
                          ProtocolCommand.MOVE_CHARACTER, ProtocolCommand.ATTACK}
       /\ Continue /\ Stay
       /\ UNCHANGED socketVars

-----------------------------------------------------------------------------

ConnectionInit ==
    /\ conversation \in Conversations
    /\ begun = 0 /\ consumed = 0 /\ updates = 0
    /\ state = "Unauthenticated" /\ loginTimer = "running"
    /\ character = NoCharacter /\ place = <<0, 0>>
    /\ handler = "reading"
    /\ SocketInit

\* A read returns, and what it returned is a message.
ReadReturns ==
    /\ handler = "reading" /\ isOpen
    /\ \E stop \in Stops :
          LET message == SubSeq(Sent, consumed + 1, stop) IN
          /\ begun' = consumed /\ consumed' = stop
          /\ \/ state = "Unauthenticated" /\ handleAuthentication(message)
             \/ state = "Authenticated" /\ handleCharacterSelectionCommands(message)
             \/ state = "InGame" /\ handlePlayerCommands(message)
    /\ UNCHANGED <<conversation, updates>>

\* The client, done, closes its end (handleDisconnection).
ClientCloses ==
    /\ handler = "reading" /\ isOpen /\ consumed = Len(Sent)
    /\ closeSocket /\ handler' = "idle"
    /\ UNCHANGED <<conversation, begun, consumed, updates>> /\ Stay

\* A read is aborted because the socket was closed (handleDisconnection).
ReadAborted ==
    /\ handler = "reading" /\ ~isOpen
    /\ handler' = "idle"
    /\ UNCHANGED <<conversation, begun, consumed, updates, socketVars>> /\ Stay

\* A refused client is disconnected.
RefusalEnds ==
    /\ handler = "refusing"
    /\ closeSocket /\ handler' = "refused"
    /\ UNCHANGED <<conversation, begun, consumed, updates>> /\ Stay

\* sendNearbyPlayersInfo: the neighbour is introduced to the newcomer, or skipped when
\* the database does not say who it is.
Introduce ==
    /\ handler = "introducing"
    /\ \/ sendDataToClient(createOtherPlayerInfoMessage(Neighbour.id, Neighbour.name,
                                                        Neighbour.place, 0))
       \/ UNCHANGED socketVars
    /\ handler' = "confirming"
    /\ UNCHANGED <<conversation, begun, consumed, updates>> /\ Stay

ConfirmSelection ==
    /\ handler = "confirming"
    /\ sendDataToClient(createCharacterSelectionSuccess(character.id, character.place[1],
                            character.place[2], character.place[3]))
    /\ Continue
    /\ UNCHANGED <<conversation, begun, consumed, updates>> /\ Stay

LoginTimeout ==
    /\ loginTimer = "running"
    /\ loginTimer' = "expired" /\ closeSocket
    /\ UNCHANGED <<conversation, begun, consumed, state, character, place, handler, updates>>

\* The session of the neighbour tells this one of a move or announces itself,
\* whatever this one is doing.
OtherSessionSends ==
    /\ state = "InGame" /\ updates < MaxUpdates
    /\ updates' = updates + 1
    /\ \E message \in
            {createPositionUpdateMessage(Neighbour.id, Neighbour.place[1], Neighbour.place[2]),
             createOtherPlayerInfoMessage(Neighbour.id, Neighbour.name, Neighbour.place, 0)} :
          sendDataToClient(message)
    /\ UNCHANGED <<conversation, sessionVars>>

Writing == WriteSteps /\ UNCHANGED <<conversation, sessionVars, updates>>

HandlerSteps == RefusalEnds \/ Introduce \/ ConfirmSelection \/ ReadAborted

ConnectionNext ==
    \/ ReadReturns \/ HandlerSteps \/ ClientCloses
    \/ LoginTimeout \/ OtherSessionSends
    \/ Writing

\* The threads run what is ready, and the client goes on reading.
Fairness ==
    /\ WF_connectionVars(ReadReturns) /\ WF_connectionVars(HandlerSteps)
    /\ WF_connectionVars((\E n \in 1 .. Len(writes) : ContinueWrite(n))
                             /\ UNCHANGED <<conversation, sessionVars, updates>>)
    /\ WF_connectionVars(SocketWritable /\ UNCHANGED <<conversation, sessionVars, updates>>)
    /\ WF_connectionVars(ClientReads /\ UNCHANGED <<conversation, sessionVars, updates>>)

ConnectionSpec == ConnectionInit /\ [][ConnectionNext]_connectionVars /\ Fairness

-----------------------------------------------------------------------------

TypeOK ==
    /\ conversation \in Conversations
    /\ begun \in 0 .. consumed /\ consumed \in 0 .. Len(Sent)
    /\ state \in {"Unauthenticated", "Authenticated", "InGame"}
    /\ loginTimer \in {"running", "cancelled", "expired"}
    /\ character \in ToSet(Characters) \cup {NoCharacter}
    /\ state = "InGame" <=> character # NoCharacter
    /\ place \in Int \X Int
    /\ handler \in {"reading", "introducing", "confirming", "refusing", "refused", "idle"}
    /\ updates \in 0 .. MaxUpdates
    /\ SocketTypeOK

LastRead == SubSeq(Sent, begun + 1, consumed)

\* The last read began with the whole of the client's message i.
WholeRead(i) == begun = Start(i) /\ consumed >= Start(i + 1)

\* What the server understands a message to say.
Understood(message) ==
    LET command == extractCommandFromMessage(message)
        login   == handleLoginRequest(message)
        create  == handleCharacterCreationRequest(message)
        attack  == extractAttackData(message)
    IN CASE command = ProtocolCommand.LOGIN ->
                [name |-> "LOGIN", username |-> login.username, password |-> login.password]
         [] command = ProtocolCommand.REQUEST_CHARACTER_LIST -> [name |-> "LIST"]
         [] command = ProtocolCommand.SELECT_CHARACTER ->
                [name |-> "SELECT", character |-> handleCharacterSelectionRequest(message)]
         [] command = ProtocolCommand.CREATE_CHARACTER ->
                [name |-> "CREATE", character |-> create.name, vocation |-> create.vocation]
         [] command = ProtocolCommand.MOVE_CHARACTER ->
                [name |-> "MOVE", to |-> extractMovementData(message)]
         [] command = ProtocolCommand.ATTACK ->
                [name |-> "ATTACK", attacker |-> attack[1], target |-> attack[2]]
         [] command = ProtocolCommand.PING -> [name |-> "PING"]
         [] command = ProtocolCommand.LOGOUT -> [name |-> "LOGOUT"]

\* What a command of the client is taken for when the bytes that follow are joined to
\* it in the read.  The ids of an attack lose what 16 bits do not hold.  A step is a
\* move to the place its deltas name, or nothing when one byte follows, or a move to a
\* place two of whose four bytes are the next command's.
TakenFor(command, joined) ==
    CASE command.name = "ATTACK" ->
            [name |-> "ATTACK", attacker |-> command.attacker % 65536,
             target |-> command.target % 65536]
      [] command.name = "STEP" ->
            [name |-> "MOVE",
             to |-> IF joined = <<>> THEN command.delta
                    ELSE IF Len(joined) = 1 THEN Malformed
                    ELSE <<256 * Low(command.delta[1]) + Low(command.delta[2]),
                           256 * joined[1] + joined[2]>>]
      [] OTHER -> command

\* Every read that begins with a whole message, whatever else TCP joined to it
\* (session.cpp:86), is taken for what the client said, but for two things that are
\* lost in this one way only: the ids of an attack (attackprotocol.cpp:22) and the
\* deltas of a step (movementprotocol.cpp:19).
WholeReadsDecode ==
    \A i \in 1 .. Len(conversation) :
        WholeRead(i) => Understood(LastRead) =
                            TakenFor(conversation[i], SubSeq(Sent, Start(i + 1) + 1, consumed))

\* CLIENT_PROTOCOL.md:118-126, 281-289 and 328: the bytes of a step are deltas, so a
\* step that is read alone takes the player that far from where it stands, unless an
\* obstacle is there.  (The code takes them for a place: movementprotocol.cpp:19-21.)
StepsAreDeltas ==
    [][\A i \in 1 .. Len(conversation) :
          /\ state = "InGame" /\ consumed' # consumed
          /\ conversation[i].name = "STEP" /\ begun' = Start(i) /\ consumed' = Start(i + 1)
          => LET x == place[1] + conversation[i].delta[1]
                 y == place[2] + conversation[i].delta[2]
             IN  place' = IF isPositionWalkable(x, y) THEN <<x, y>> ELSE place
      ]_connectionVars

\* A player stands where the database has it or on a pixel no obstacle of the map
\* file reaches into, although the grid is made of truncated coordinates
\* (mapmanager.cpp:42) and the client's bytes may be anything.
PlaceIsClear ==
    state = "InGame" => \/ Clear(place[1], place[2])
                        \/ place = <<character.place[1], character.place[2]>>

\* A session in the game that has stopped reading from an open socket
\* (session.cpp:346, sessionattack.cpp:25) last got a ping, an attack in another's
\* name, or bytes that did not begin with a whole message; or its player has an id
\* of more than 16 bits, and its own attack was taken for another's.
SilenceIsExplained ==
    handler = "idle" /\ isOpen =>
        \/ \A i \in 1 .. Len(conversation) : ~WholeRead(i)
        \/ \E i \in 1 .. Len(conversation) :
              /\ WholeRead(i)
              /\ \/ conversation[i].name = "PING"
                 \/ /\ conversation[i].name = "ATTACK"
                    /\ \/ conversation[i].attacker # character.id
                       \/ character.id >= 65536

\* The socket of a refused client is closed without waiting for the write of the
\* answer (sessionauth.cpp:39-42), and yet the whole answer is on its way, unless
\* the login timer closed the socket before it was sent.
RefusalIsSent ==
    handler = "refused" /\ loginTimer # "expired" =>
        \E write \in ToSet(writes) : /\ write.message = createLoginFailure(1)
                                    /\ write.sent = Len(write.message)
=============================================================================
