----------------------- MODULE ClientConnectionProofs -----------------------
(***************************************************************************)
(* For every map, every client, every account and any parting of what the  *)
(* client sends: players stand on clear ground, and a refused client is    *)
(* told.                                                                   *)
(***************************************************************************)
EXTENDS ClientConnection, MapGridProofs, ProtocolProofs, SocketWritesProofs, TLAPS

LOCAL INSTANCE SequencesExt

-----------------------------------------------------------------------------
(* One message: its bytes, and what the server makes of them.              *)

\* The codes of the commands.
LEMMA Codes ==
    /\ ProtocolCommand.LOGIN = 1 /\ ProtocolCommand.LOGOUT = 2 /\ ProtocolCommand.PING = 3
    /\ ProtocolCommand.CREATE_CHARACTER = 4 /\ ProtocolCommand.REQUEST_CHARACTER_LIST = 5
    /\ ProtocolCommand.SELECT_CHARACTER = 6 /\ ProtocolCommand.MOVE_CHARACTER = 7
    /\ ProtocolCommand.ATTACK = 9
    /\ \A code \in 1 .. 9 : code \in Byte
BY DEF ProtocolCommand, Byte

\* The command a message that begins with a certain byte is taken for.
LEMMA UnderstoodByCode ==
    ASSUME NEW message
    PROVE  /\ message[1] = 1 =>
                Understood(message) =
                    [name |-> "LOGIN", username |-> extractDataString(message, 1),
                     password |-> extractDataString(message,
                                      Len(extractDataString(message, 1)) + 2)]
           /\ message[1] = 2 => Understood(message) = [name |-> "LOGOUT"]
           /\ message[1] = 3 => Understood(message) = [name |-> "PING"]
           /\ message[1] = 4 =>
                Understood(message) =
                    [name |-> "CREATE", character |-> extractDataString(message, 1),
                     vocation |-> extractDataString(message,
                                      Len(extractDataString(message, 1)) + 2)]
           /\ message[1] = 5 => Understood(message) = [name |-> "LIST"]
           /\ message[1] = 6 =>
                Understood(message) =
                    [name |-> "SELECT", character |-> extractDataString(message, 1)]
           /\ message[1] = 7 =>
                Understood(message) = [name |-> "MOVE", to |-> extractMovementData(message)]
           /\ message[1] = 9 =>
                Understood(message) = [name |-> "ATTACK",
                                       attacker |-> extractAttackData(message)[1],
                                       target |-> extractAttackData(message)[2]]
<1> USE Codes DEF Understood, extractCommandFromMessage
<1>1. CASE message[1] = 1
  BY <1>1 DEF handleLoginRequest
<1>2. CASE message[1] = 4
  BY <1>2 DEF handleCharacterCreationRequest
<1>3. CASE message[1] = 6
  BY <1>3 DEF handleCharacterSelectionRequest
<1>4. CASE message[1] \in {2, 3, 5, 7, 9}
  BY <1>4
<1>5. CASE message[1] \notin {1, 2, 3, 4, 5, 6, 7, 9}
  BY <1>5
<1> QED BY <1>1, <1>2, <1>3, <1>4, <1>5

\* A message that begins with the bytes of the command is taken for that command, or
\* for what becomes of it.
IsUnderstood(command) ==
    /\ Encode(command) \in Seq(Byte) \ {<<>>}
    /\ \A message : Begins(message, Encode(command)) =>
          /\ message[1] = 3 => command.name = "PING"
          /\ message[1] = 9 => command.name = "ATTACK"
          /\ command.name = "ATTACK" =>
                extractAttackData(message)[1] = command.attacker % 65536
    /\ \A message, joined :
          IsMade(message, Encode(command), joined) => Understood(message) = TakenFor(command, joined)

\* Most commands are taken for themselves, whatever follows them.
LEMMA OwnMeaning ==
    ASSUME NEW command, command.name \notin {"ATTACK", "STEP"}, NEW bytes,
           \A message : Begins(message, bytes) => Understood(message) = command
    PROVE  \A message, joined :
              IsMade(message, bytes, joined) => Understood(message) = TakenFor(command, joined)
BY DEF TakenFor, IsMade

\* Commands of one byte.
LEMMA PlainUnderstood ==
    ASSUME NEW command \in [name : {"LIST", "PING", "LOGOUT"}]
    PROVE  IsUnderstood(command)
<1>1. PICK code \in Byte :
         /\ Encode(command) = <<code>>
         /\ \/ command.name = "LIST" /\ code = 5
            \/ command.name = "PING" /\ code = 3
            \/ command.name = "LOGOUT" /\ code = 2
  <2>1. 2 \in Byte /\ 3 \in Byte /\ 5 \in Byte
    BY DEF Byte
  <2>2. command.name = "LIST" => Encode(command) = <<5>>
    BY Codes DEF Encode
  <2>3. command.name = "PING" => Encode(command) = <<3>>
    BY Codes DEF Encode
  <2>4. command.name = "LOGOUT" => Encode(command) = <<2>>
    BY Codes DEF Encode
  <2>5. command.name \in {"LIST", "PING", "LOGOUT"}
    OBVIOUS
  <2> QED BY <2>1, <2>2, <2>3, <2>4, <2>5, Zenon
<1>2. ASSUME NEW message, Begins(message, <<code>>)
      PROVE  message[1] = code
  BY <1>2 DEF Begins
<1>3. <<code>> \in Seq(Byte) \ {<<>>}
  OBVIOUS
<1>4. ASSUME NEW message, message[1] = code
      PROVE  Understood(message) = command
  <2>1. CASE command.name = "LIST"
    BY <1>1, <1>4, <2>1, UnderstoodByCode
  <2>2. CASE command.name = "PING"
    BY <1>1, <1>4, <2>2, UnderstoodByCode
  <2>3. CASE command.name = "LOGOUT"
    BY <1>1, <1>4, <2>3, UnderstoodByCode
  <2> QED BY <2>1, <2>2, <2>3
<1>5. command.name \notin {"ATTACK", "STEP"}
  BY <1>1
<1>6. \A message, joined :
         IsMade(message, <<code>>, joined) => Understood(message) = TakenFor(command, joined)
  BY <1>2, <1>4, <1>5, OwnMeaning
<1> QED BY <1>1, <1>2, <1>3, <1>6 DEF IsUnderstood

\* Logins.
LEMMA LoginUnderstood ==
    ASSUME NEW command \in [name : {"LOGIN"}, username : Text, password : Text]
    PROVE  IsUnderstood(command)
<1>1. PICK username \in Text, password \in Text :
         command = [name |-> "LOGIN", username |-> username, password |-> password]
  OBVIOUS
<1>2. 1 \in Byte
  BY DEF Byte
<1>3. PICK bytes : bytes = (((<<1>> \o username) \o <<0>>) \o password) \o <<0>>
  OBVIOUS
<1>4. Encode(command) = bytes
  BY <1>1, <1>3, Codes DEF Encode
<1>5. bytes \in Seq(Byte) \ {<<>>}
  BY <1>2, <1>3, TextMessageBytes
<1>6. ASSUME NEW message, Begins(message, bytes)
      PROVE  /\ message[1] = 1 /\ extractDataString(message, 1) = username
             /\ extractDataString(message, Len(username) + 2) = password
  BY <1>2, <1>3, <1>6, TwoTextsAreRead
<1>7. ASSUME NEW message, Begins(message, bytes)
      PROVE  message[1] = 1 /\ Understood(message) = command
  BY <1>1, <1>6, <1>7, UnderstoodByCode
<1>8. command.name = "LOGIN"
  OBVIOUS
<1>9. \A message, joined :
         IsMade(message, bytes, joined) => Understood(message) = TakenFor(command, joined)
  BY <1>7, <1>8, OwnMeaning
<1> QED BY <1>4, <1>5, <1>7, <1>8, <1>9 DEF IsUnderstood

\* Selections.
LEMMA SelectionUnderstood ==
    ASSUME NEW command \in [name : {"SELECT"}, character : Text]
    PROVE  IsUnderstood(command)
<1>1. PICK name \in Text : command = [name |-> "SELECT", character |-> name]
  OBVIOUS
<1>2. 6 \in Byte
  BY DEF Byte
<1>3. PICK bytes : bytes = (<<6>> \o name) \o <<0>>
  OBVIOUS
<1>4. Encode(command) = bytes
  BY <1>1, <1>3, Codes DEF Encode
<1>5. bytes \in Seq(Byte) \ {<<>>}
  BY <1>2, <1>3, TextMessageBytes
<1>6. ASSUME NEW message, Begins(message, bytes)
      PROVE  message[1] = 6 /\ extractDataString(message, 1) = name
  BY <1>2, <1>3, <1>6, SelectionIsRead
<1>7. ASSUME NEW message, Begins(message, bytes)
      PROVE  message[1] = 6 /\ Understood(message) = command
  BY <1>1, <1>6, <1>7, UnderstoodByCode
<1>8. command.name = "SELECT"
  OBVIOUS
<1>9. \A message, joined :
         IsMade(message, bytes, joined) => Understood(message) = TakenFor(command, joined)
  BY <1>7, <1>8, OwnMeaning
<1> QED BY <1>4, <1>5, <1>7, <1>8, <1>9 DEF IsUnderstood

\* Creations.
LEMMA CreationUnderstood ==
    ASSUME NEW command \in [name : {"CREATE"}, character : Text, vocation : Text]
    PROVE  IsUnderstood(command)
<1>1. PICK name \in Text, vocation \in Text :
         command = [name |-> "CREATE", character |-> name, vocation |-> vocation]
  OBVIOUS
<1>2. 4 \in Byte
  BY DEF Byte
<1>3. PICK bytes : bytes = (((<<4>> \o name) \o <<0>>) \o vocation) \o <<0>>
  OBVIOUS
<1>4. Encode(command) = bytes
  BY <1>1, <1>3, Codes DEF Encode
<1>5. bytes \in Seq(Byte) \ {<<>>}
  BY <1>2, <1>3, TextMessageBytes
<1>6. ASSUME NEW message, Begins(message, bytes)
      PROVE  /\ message[1] = 4 /\ extractDataString(message, 1) = name
             /\ extractDataString(message, Len(name) + 2) = vocation
  BY <1>2, <1>3, <1>6, TwoTextsAreRead
<1>7. ASSUME NEW message, Begins(message, bytes)
      PROVE  message[1] = 4 /\ Understood(message) = command
  BY <1>1, <1>6, <1>7, UnderstoodByCode
<1>8. command.name = "CREATE"
  OBVIOUS
<1>9. \A message, joined :
         IsMade(message, bytes, joined) => Understood(message) = TakenFor(command, joined)
  BY <1>7, <1>8, OwnMeaning
<1> QED BY <1>4, <1>5, <1>7, <1>8, <1>9 DEF IsUnderstood

\* Moves of the older format.
LEMMA StepUnderstood ==
    ASSUME NEW command \in [name : {"STEP"}, delta : SignedByte \X SignedByte]
    PROVE  IsUnderstood(command)
<1>1. PICK x \in SignedByte, y \in SignedByte :
         command = [name |-> "STEP", delta |-> <<x, y>>]
  OBVIOUS
<1>2. 7 \in Byte /\ Low(x) \in Byte /\ Low(y) \in Byte
  BY NumberBytes DEF Byte, SignedByte
<1>3. PICK bytes : bytes = <<7, Low(x), Low(y)>>
  OBVIOUS
<1>4. Encode(command) = bytes
  BY <1>1, <1>3, Codes DEF Encode
<1>5. bytes \in Seq(Byte) \ {<<>>} /\ Len(bytes) = 3 /\ bytes[1] = 7
  BY <1>2, <1>3
<1>6. ASSUME NEW message, Begins(message, bytes)
      PROVE  message[1] = 7
  BY <1>5, <1>6 DEF Begins
<1>7. ASSUME NEW message, NEW joined, IsMade(message, bytes, joined)
      PROVE  Understood(message) = TakenFor(command, joined)
  <2>1. PICK to : to = IF joined = <<>> THEN <<x, y>>
                       ELSE IF Len(joined) = 1 THEN Malformed
                       ELSE <<256 * Low(x) + Low(y), 256 * joined[1] + joined[2]>>
    OBVIOUS
  <2>2. extractMovementData(message) = to
    BY <1>2, <1>3, <1>7, <2>1, StepIsRead
  <2>3. message[1] = 7
    BY <1>6, <1>7 DEF IsMade
  <2>4. Understood(message) = [name |-> "MOVE", to |-> to]
    BY <2>2, <2>3, UnderstoodByCode
  <2>5. TakenFor(command, joined) = [name |-> "MOVE", to |-> to]
    BY <1>1, <2>1 DEF TakenFor
  <2> QED BY <2>4, <2>5
<1>8. command.name = "STEP"
  OBVIOUS
<1> QED BY <1>4, <1>5, <1>6, <1>7, <1>8 DEF IsUnderstood

\* Moves of the newer format.
LEMMA MoveUnderstood ==
    ASSUME NEW command \in [name : {"MOVE"}, to : Word \X Word]
    PROVE  IsUnderstood(command)
<1>1. PICK x \in Word, y \in Word : command = [name |-> "MOVE", to |-> <<x, y>>]
  OBVIOUS
<1>2. /\ 7 \in Byte /\ High(x) \in Byte /\ Low(x) \in Byte
      /\ High(y) \in Byte /\ Low(y) \in Byte
  BY NumberBytes DEF Byte, Word
<1>3. PICK bytes : bytes = <<7, High(x), Low(x), High(y), Low(y)>>
  OBVIOUS
<1>4. Encode(command) = bytes
  BY <1>1, <1>3, Codes DEF Encode
<1>5. bytes \in Seq(Byte) \ {<<>>} /\ Len(bytes) = 5 /\ bytes[1] = 7
  BY <1>2, <1>3
<1>6. ASSUME NEW message, Begins(message, bytes)
      PROVE  message[1] = 7
  BY <1>5, <1>6 DEF Begins
<1>7. ASSUME NEW message, Begins(message, bytes)
      PROVE  extractMovementData(message) = <<x, y>> /\ Len(message) # 3
  BY <1>2, <1>3, <1>7, MoveIsRead
<1>8. ASSUME NEW message, Begins(message, bytes)
      PROVE  message[1] = 7 /\ Understood(message) = command
  BY <1>1, <1>6, <1>7, <1>8, UnderstoodByCode
<1>9. command.name = "MOVE"
  OBVIOUS
<1>10. \A message, joined :
         IsMade(message, bytes, joined) => Understood(message) = TakenFor(command, joined)
  BY <1>8, <1>9, OwnMeaning
<1> QED BY <1>4, <1>5, <1>8, <1>9, <1>10 DEF IsUnderstood

\* Attacks.
LEMMA AttackUnderstood ==
    ASSUME NEW command \in [name : {"ATTACK"}, attacker : Nat, target : Nat]
    PROVE  IsUnderstood(command)
<1>1. PICK attacker \in Nat, target \in Nat :
         command = [name |-> "ATTACK", attacker |-> attacker, target |-> target]
  OBVIOUS
<1>2. /\ 1 \in Byte /\ 9 \in Byte /\ High(attacker) \in Byte /\ Low(attacker) \in Byte
      /\ High(target) \in Byte /\ Low(target) \in Byte
  BY NumberBytes DEF Byte
<1>3. PICK bytes : bytes = createAttackMessage(attacker, target, 1)
  OBVIOUS
<1>4. Encode(command) = bytes
  BY <1>1, <1>3 DEF Encode
<1>5. bytes \in Seq(Byte) \ {<<>>} /\ Len(bytes) = 6 /\ bytes[1] = 9
  BY <1>2, <1>3, Codes DEF createAttackMessage
<1>6. ASSUME NEW message, Begins(message, bytes)
      PROVE  message[1] = 9
  BY <1>5, <1>6 DEF Begins
<1>7. PICK a, b : a = attacker % 65536 /\ b = target % 65536
  OBVIOUS
<1>8. ASSUME NEW message, Begins(message, bytes)
      PROVE  extractAttackData(message) = <<a, b, 1>>
  BY <1>2, <1>3, <1>7, <1>8, AttackerIsRead
<1>9. ASSUME NEW message, NEW joined, IsMade(message, bytes, joined)
      PROVE  Understood(message) = TakenFor(command, joined)
  <2>1. Begins(message, bytes)
    BY <1>9 DEF IsMade
  <2>2. /\ message[1] = 9 /\ extractAttackData(message)[1] = a
        /\ extractAttackData(message)[2] = b
    BY <1>6, <1>8, <2>1
  <2>3. Understood(message) = [name |-> "ATTACK", attacker |-> a, target |-> b]
    BY <2>2, UnderstoodByCode
  <2>4. TakenFor(command, joined) = [name |-> "ATTACK", attacker |-> a, target |-> b]
    BY <1>1, <1>7 DEF TakenFor
  <2> QED BY <2>3, <2>4
<1>10. command.name = "ATTACK" /\ command.attacker = attacker
  BY <1>1
<1>11. ASSUME NEW message, Begins(message, bytes)
       PROVE  message[1] = 9 /\ extractAttackData(message)[1] = attacker % 65536
  BY <1>6, <1>7, <1>8, <1>11
<1> QED BY <1>4, <1>5, <1>9, <1>10, <1>11 DEF IsUnderstood

\* Every command.
LEMMA CommandsUnderstood ==
    ASSUME NEW command \in Command
    PROVE  IsUnderstood(command)
<1>1. CASE command \in [name : {"LIST", "PING", "LOGOUT"}]
  BY <1>1, PlainUnderstood
<1>2. CASE command \in [name : {"LOGIN"}, username : Text, password : Text]
  BY <1>2, LoginUnderstood
<1>3. CASE command \in [name : {"SELECT"}, character : Text]
  BY <1>3, SelectionUnderstood
<1>4. CASE command \in [name : {"CREATE"}, character : Text, vocation : Text]
  BY <1>4, CreationUnderstood
<1>5. CASE command \in [name : {"STEP"}, delta : SignedByte \X SignedByte]
  BY <1>5, StepUnderstood
<1>6. CASE command \in [name : {"MOVE"}, to : Word \X Word]
  BY <1>6, MoveUnderstood
<1>7. CASE command \in [name : {"ATTACK"}, attacker : Nat, target : Nat]
  BY <1>7, AttackUnderstood
<1> QED BY <1>1, <1>2, <1>3, <1>4, <1>5, <1>6, <1>7, Zenon DEF Command

-----------------------------------------------------------------------------
(* A conversation: the client's bytes, and where its messages begin.       *)

IsFlattening(g, items, n) ==
    g = [i \in 1 .. n |-> IF i = 1 THEN items[i] ELSE g[i - 1] \o items[i]]

\* The flattened sequence is what its items, one after the other, make.
LEMMA Flattened ==
    ASSUME NEW S, NEW n \in Nat, NEW items \in Seq(Seq(S)), Len(items) = n, NEW f,
           f[0] = <<>>, Joins(f, items, 0, n)
    PROVE  FlattenSeq(items) = f[n]
<1>1. CASE n = 0
  <2>1. items = <<>>
    BY <1>1, EmptySeq
  <2> QED BY <1>1, <2>1 DEF FlattenSeq
<1>2. CASE n # 0
  <2> DEFINE g == [i \in 1 .. n |-> f[i]]
             Step(h, i) == IF i = 1 THEN items[i] ELSE h[i - 1] \o items[i]
  <2>1. PICK one \in Nat : one = 1
    OBVIOUS
  <2>2. \A m \in 1 .. n : f[m] = f[m - 1] \o items[m]
    BY DEF Joins
  <2>3. f[1] = items[1]
    <3>1. items[1] \in Seq(S) /\ f[1] = f[0] \o items[1]
      <4>1. 1 \in 1 .. n /\ 1 - 1 = 0
        BY <1>2
      <4>2. items[1] \in Seq(S)
        BY <4>1
      <4> QED BY <2>2, <4>1, <4>2, Zenon
    <3>2. <<>> \o items[1] = items[1]
      BY <3>1, ConcatEmptySeq
    <3> QED BY <3>1, <3>2
  <2>4. \A i \in 1 .. n : g[i] = Step(g, i)
    <3> SUFFICES ASSUME NEW i \in 1 .. n
                 PROVE  g[i] = Step(g, i)
      OBVIOUS
    <3>1. CASE i = 1
      BY <2>3, <3>1
    <3>2. CASE i # 1
      <4>1. i - 1 \in 1 .. n
        BY <3>2
      <4> QED BY <2>2, <3>2, <4>1
    <3> QED BY <3>1, <3>2
  <2>5. g = [i \in 1 .. n |-> g[i]]
    OBVIOUS
  <2> HIDE DEF g, Step
  <2>6. g = [i \in 1 .. n |-> Step(g, i)]
    BY <2>4, <2>5
  <2>7. IsFlattening(g, items, n)
    BY <2>6, Zenon DEF IsFlattening, Step
  <2> DEFINE h == CHOOSE h : IsFlattening(h, items, n)
  <2>8. FlattenSeq(items) = h[n]
    BY <1>2 DEF FlattenSeq, IsFlattening
  <2>9. IsFlattening(h, items, n)
    BY <2>7
  <2> HIDE DEF h
  <2>10. h = [i \in 1 .. n |-> Step(h, i)]
    BY <2>9, Zenon DEF IsFlattening, Step
  <2>11. \A i \in 1 .. n : h[i] = Step(h, i)
    BY <2>10
  <2>12. h[one] = f[one]
    <3>1. 1 \in 1 .. n
      BY <1>2
    <3>2. h[1] = items[1]
      BY <2>11, <3>1, Zenon DEF Step
    <3> QED BY <2>1, <2>3, <3>2
  <2>13. Joins(h, items, one, n)
    <3>1. ASSUME NEW m \in one + 1 .. n
          PROVE  h[m] = h[m - 1] \o items[m]
      <4>1. m \in 1 .. n /\ m # 1
        BY <2>1
      <4> QED BY <2>11, <4>1, Zenon DEF Step
    <3> QED BY <3>1 DEF Joins
  <2>14. Joins(f, items, one, n) /\ one <= n
    <3>1. ASSUME NEW m \in one + 1 .. n
          PROVE  f[m] = f[m - 1] \o items[m]
      <4>1. m \in 1 .. n
        BY <2>1
      <4> QED BY <2>2, <4>1, Zenon
    <3>2. one <= n
      BY <1>2, <2>1
    <3>3. Joins(f, items, one, n)
      BY <3>1 DEF Joins
    <3> QED BY <3>2, <3>3
  <2>15. h[n] = f[n]
    BY <2>12, <2>13, <2>14, SameConcatenations
  <2> QED BY <2>8, <2>15
<1> QED BY <1>1, <1>2

\* What has been put together keeps its beginning.
LEMMA JoinsGrow ==
    ASSUME NEW n \in Nat, NEW items, NEW f \in [0 .. n -> Seq(Byte)], Joins(f, items, 0, n),
           \A m \in 1 .. n : items[m] \in Seq(Byte), NEW i \in 0 .. n
    PROVE  \A m \in i .. n : Begins(f[m], f[i])
<1> DEFINE Grown == {m \in i .. n : Begins(f[m], f[i])}
<1>1. i \in Grown
  BY DEF Begins
<1>2. ASSUME NEW m \in i .. n - 1, m \in Grown
      PROVE  m + 1 \in Grown
  <2>1. /\ m + 1 \in 1 .. n /\ m + 1 \in 0 + 1 .. n /\ m + 1 \in i .. n
        /\ (m + 1) - 1 = m /\ m \in 0 .. n
    OBVIOUS
  <2>2. f[m + 1] = f[m] \o items[m + 1] /\ f[m] \in Seq(Byte) /\ items[m + 1] \in Seq(Byte)
    <3>1. f[m + 1] = f[(m + 1) - 1] \o items[m + 1]
      BY <2>1, Zenon DEF Joins
    <3> QED BY <2>1, <3>1
  <2>3. Begins(f[m + 1], f[m])
    BY <2>2, BeginsWithFront
  <2>4. Begins(f[m + 1], f[i])
    BY <1>2, <2>3, BeginsShorter
  <2> QED BY <2>1, <2>4
<1>3. i \in Nat
  OBVIOUS
<1> HIDE DEF Grown
<1>4. \A m \in i .. n : m \in Grown
  BY <1>1, <1>2, <1>3, NumbersUpTo
<1> QED BY <1>4 DEF Grown

\* The client's bytes are those of its commands, one after the other, and each
\* message begins where the last one ends.
LEMMA ClientBytes ==
    ASSUME NEW wanted \in Conversations
    PROVE  \E f \in [0 .. Len(wanted) -> Seq(Byte)] :
              /\ Bytes[wanted] = f[Len(wanted)]
              /\ Joins(f, [j \in 1 .. Len(wanted) |-> Encode(wanted[j])], 0, Len(wanted))
              /\ \A i \in 1 .. Len(wanted) + 1 : Starts[wanted][i] = Len(f[i - 1])
<1> DEFINE Items(k) == [j \in 1 .. k |-> Encode(wanted[j])]
<1>1. PICK n \in Nat : n = Len(wanted) /\ \A j \in 1 .. n : Encode(wanted[j]) \in Seq(Byte)
  <2>1. wanted \in Seq(Command)
    BY ClientAssumption
  <2>2. Len(wanted) \in Nat /\ \A j \in 1 .. Len(wanted) : wanted[j] \in Command
    BY <2>1
  <2>3. \A j \in 1 .. Len(wanted) : Encode(wanted[j]) \in Seq(Byte)
    BY <2>2, CommandsUnderstood DEF IsUnderstood
  <2> QED BY <2>2, <2>3
<1>2. PICK zero \in Nat : zero = 0 /\ zero <= n
  OBVIOUS
<1>3. PICK empty \in Seq(Byte) : empty = <<>>
  <2>1. <<>> \in Seq(Byte)
    OBVIOUS
  <2> QED BY <2>1
<1>4. ASSUME NEW k \in 0 .. n
      PROVE  Items(k) \in Seq(Seq(Byte)) /\ Len(Items(k)) = k
  <2>1. \A j \in 1 .. k : Encode(wanted[j]) \in Seq(Byte)
    BY <1>1
  <2>2. k \in Nat
    OBVIOUS
  <2> QED BY <2>1, <2>2
<1>5. AllIn(Byte, Items(n), zero, n)
  <2>1. ASSUME NEW m \in zero + 1 .. n
        PROVE  Items(n)[m] \in Seq(Byte)
    <3>1. m \in 1 .. n
      BY <1>2
    <3> QED BY <1>1, <3>1
  <2> HIDE DEF Items
  <2> QED BY <2>1 DEF AllIn
<1>6. PICK f \in [zero .. n -> Seq(Byte)] : f[zero] = empty /\ Joins(f, Items(n), zero, n)
  <2> HIDE DEF Items
  <2> QED BY <1>2, <1>5, Concatenations
<1>7. f \in [0 .. n -> Seq(Byte)] /\ f[0] = <<>> /\ Joins(f, Items(n), 0, n)
  BY <1>2, <1>3, <1>6
<1>8. ASSUME NEW k \in 0 .. n
      PROVE  FlattenSeq(Items(k)) = f[k]
  <2>1. ASSUME NEW m \in 0 + 1 .. k
        PROVE  f[m] = f[m - 1] \o Items(k)[m]
    <3>1. m \in 0 + 1 .. n /\ Items(k)[m] = Items(n)[m]
      OBVIOUS
    <3> HIDE DEF Items
    <3>2. f[m] = f[m - 1] \o Items(n)[m]
      BY <1>7, <3>1, Zenon DEF Joins
    <3> QED BY <3>1, <3>2
  <2> HIDE DEF Items
  <2>2. Joins(f, Items(k), 0, k)
    BY <2>1 DEF Joins
  <2>3. k \in Nat
    OBVIOUS
  <2> QED BY <1>4, <1>7, <2>2, <2>3, Flattened
<1>9. Bytes[wanted] = f[n]
  <2>1. Bytes[wanted] = FlattenSeq(Items(n))
    BY <1>1 DEF Bytes
  <2>2. n \in 0 .. n
    OBVIOUS
  <2> HIDE DEF Items
  <2> QED BY <1>8, <2>1, <2>2
<1>10. ASSUME NEW i \in 1 .. n + 1
       PROVE  Starts[wanted][i] = Len(f[i - 1])
  <2>1. Starts[wanted][i] = Len(FlattenSeq(Items(i - 1)))
    BY <1>1 DEF Starts
  <2>2. i - 1 \in 0 .. n
    OBVIOUS
  <2> HIDE DEF Items
  <2> QED BY <1>8, <2>1, <2>2
<1> HIDE DEF Items
<1>11. Joins(f, Items(n), 0, n)
  BY <1>7
<1> QED BY <1>1, <1>7, <1>9, <1>10, <1>11, Zenon DEF Items

\* The bytes of a message stand between its beginning and the next.
LEMMA MessagePlaced ==
    ASSUME NEW wanted \in Conversations, NEW i \in 1 .. Len(wanted)
    PROVE  /\ wanted[i] \in Command /\ Bytes[wanted] \in Seq(Byte)
           /\ Placed(Encode(wanted[i]), Bytes[wanted], Starts[wanted][i], Starts[wanted][i + 1])
<1> DEFINE begin == Starts[wanted][i]
           end   == Starts[wanted][i + 1]
<1> HIDE DEF begin, end
<1>1. PICK n \in Nat : n = Len(wanted)
  <2>1. wanted \in Seq(Command)
    BY ClientAssumption
  <2> QED BY <2>1
<1>2. PICK command \in Command : command = wanted[i]
  <2>1. wanted \in Seq(Command)
    BY ClientAssumption
  <2> QED BY <2>1
<1>3. PICK items : items = [j \in 1 .. n |-> Encode(wanted[j])]
  OBVIOUS
<1>4. PICK f \in [0 .. n -> Seq(Byte)] :
              /\ Bytes[wanted] = f[n] /\ Joins(f, items, 0, n)
              /\ \A k \in 1 .. n + 1 : Starts[wanted][k] = Len(f[k - 1])
  BY <1>1, <1>3, ClientBytes
<1>5. PICK bytes \in Seq(Byte) : bytes = Encode(command)
  BY CommandsUnderstood DEF IsUnderstood
<1>6. \A m \in 1 .. n : items[m] \in Seq(Byte)
  <2>1. \A m \in 1 .. n : wanted[m] \in Command
    BY <1>1, ClientAssumption
  <2> QED BY <1>3, <2>1, CommandsUnderstood DEF IsUnderstood
<1>7. i \in 1 .. n /\ i \in 0 .. n /\ n \in i .. n /\ i - 1 \in 0 .. n /\ i \in 0 + 1 .. n
      /\ i \in 1 .. n + 1 /\ i + 1 \in 1 .. n + 1 /\ (i + 1) - 1 = i
  BY <1>1
<1>8. PICK front \in Seq(Byte) : front = f[i - 1] /\ Len(front) = begin
  BY <1>4, <1>7 DEF begin
<1>9. PICK whole \in Seq(Byte) : whole = f[i] /\ Len(whole) = end
  BY <1>4, <1>7 DEF end
<1>10. PICK all \in Seq(Byte) : all = Bytes[wanted] /\ Begins(all, whole)
  <2>1. Begins(f[n], f[i])
    BY <1>4, <1>6, <1>7, JoinsGrow
  <2>2. f[n] \in Seq(Byte)
    OBVIOUS
  <2> QED BY <1>4, <1>9, <2>1, <2>2
<1>11. whole = front \o bytes
  <2>1. f[i] = f[i - 1] \o items[i]
    BY <1>4, <1>7, Zenon DEF Joins
  <2>2. items[i] = bytes
    BY <1>2, <1>3, <1>5, <1>7
  <2> QED BY <1>8, <1>9, <2>1, <2>2
<1>12. IsConcatenation(whole, front, bytes)
  BY <1>11, Zenon DEF IsConcatenation
<1>13. Placed(bytes, all, begin, end)
  BY <1>8, <1>9, <1>10, <1>12, BehindFront, Zenon
<1> QED BY <1>2, <1>5, <1>10, <1>13 DEF begin, end

\* A part of the client's bytes from the beginning of a message to its end or
\* further is made of the bytes of the message and of what follows them.
LEMMA PartsBegin ==
    ASSUME NEW wanted \in Conversations, NEW i \in 1 .. Len(wanted), NEW stop \in Nat,
           Starts[wanted][i + 1] <= stop, stop <= Len(Bytes[wanted]),
           NEW message, IsPart(message, Bytes[wanted], Starts[wanted][i], stop),
           NEW joined, IsPart(joined, Bytes[wanted], Starts[wanted][i + 1], stop)
    PROVE  /\ wanted[i] \in Command
           /\ IsMade(message, Encode(wanted[i]), joined)
<1>1. /\ wanted[i] \in Command /\ Bytes[wanted] \in Seq(Byte)
      /\ Placed(Encode(wanted[i]), Bytes[wanted], Starts[wanted][i], Starts[wanted][i + 1])
  BY MessagePlaced, Zenon
<1>2. Encode(wanted[i]) \in Seq(Byte)
  <2>1. PICK command \in Command : command = wanted[i]
    BY <1>1, Zenon
  <2>2. Encode(command) \in Seq(Byte) \ {<<>>}
    BY CommandsUnderstood DEF IsUnderstood
  <2>3. Encode(command) \in Seq(Byte)
    BY <2>2, Zenon
  <2> QED BY <2>1, <2>3, Zenon
<1> DEFINE begin == Starts[wanted][i]
           end   == Starts[wanted][i + 1]
           bytes == Encode(wanted[i])
           all   == Bytes[wanted]
<1>3. /\ Placed(bytes, all, begin, end) /\ bytes \in Seq(Byte) /\ all \in Seq(Byte)
      /\ end <= stop /\ stop <= Len(all) /\ IsPart(message, all, begin, stop)
      /\ IsPart(joined, all, end, stop)
  BY <1>1, <1>2, Zenon
<1> HIDE DEF begin, end, bytes, all
<1>4. IsMade(message, bytes, joined)
  BY <1>3, PartIsMade
<1> QED BY <1>1, <1>4, Zenon DEF begin, end, bytes

-----------------------------------------------------------------------------
(* What the server sends.                                                  *)

\* All that a client sends is bytes.
LEMMA SentIsBytes ==
    ASSUME NEW wanted \in Conversations
    PROVE  /\ Bytes[wanted] \in Seq(Byte)
           /\ \A i \in 1 .. Len(wanted) + 1 : Starts[wanted][i] \in Nat
<1>1. PICK n \in Nat : n = Len(wanted)
  <2>1. wanted \in Seq(Command)
    BY ClientAssumption
  <2> QED BY <2>1
<1>2. PICK f \in [0 .. n -> Seq(Byte)] :
         Bytes[wanted] = f[n] /\ \A i \in 1 .. n + 1 : Starts[wanted][i] = Len(f[i - 1])
  BY <1>1, ClientBytes
<1>3. ASSUME NEW k \in 0 .. n
      PROVE  f[k] \in Seq(Byte) /\ Len(f[k]) \in Nat
  BY LenProperties
<1>4. n \in 0 .. n /\ \A i \in 1 .. n + 1 : i - 1 \in 0 .. n
  OBVIOUS
<1>5. Bytes[wanted] \in Seq(Byte)
  BY <1>2, <1>3, <1>4, Zenon
<1>6. ASSUME NEW i \in 1 .. n + 1
      PROVE  Starts[wanted][i] \in Nat
  BY <1>2, <1>3, <1>4, Zenon
<1> QED BY <1>1, <1>5, <1>6

\* A read takes some of the bytes that the server does not have yet.
LEMMA ReadTakes ==
    ASSUME conversation \in Conversations, consumed \in Nat, NEW stop \in Stops,
           NEW message, message = SubSeq(Sent, consumed + 1, stop)
    PROVE  /\ stop \in Nat /\ consumed < stop /\ stop <= Len(Sent)
           /\ message \in Seq(Byte)
<1>1. Sent \in Seq(Byte) /\ \A i \in 1 .. Len(conversation) + 1 : Start(i) \in Nat
  BY SentIsBytes DEF Sent, Start
<1>2. PICK i \in 1 .. Len(conversation) + 1, cut \in Cuts \cup {0} : stop = Start(i) + cut
  BY DEF Stops
<1>3. consumed < stop /\ stop <= Len(Sent)
  BY DEF Stops
<1>4. stop \in Nat
  <2>1. Start(i) \in Nat /\ cut \in Nat
    BY <1>1, ClientAssumption
  <2> QED BY <1>2, <2>1
<1>5. PICK all \in Seq(Byte) : all = Sent
  BY <1>1
<1>6. SubSeq(all, consumed + 1, stop) \in Seq(Byte)
  BY <1>3, <1>4, <1>5, PartItems
<1> QED BY <1>3, <1>4, <1>5, <1>6, Zenon

\* The ids of an attack are numbers.
LEMMA AttackIds ==
    ASSUME NEW message \in Seq(Byte), extractAttackData(message) # Malformed
    PROVE  extractAttackData(message)[1] \in Int /\ extractAttackData(message)[2] \in Int
<1>1. Len(message) >= 6 /\ Len(message) \in Nat
  BY DEF extractAttackData
<1>2. message[2] \in Int /\ message[3] \in Int /\ message[4] \in Int /\ message[5] \in Int
  <2>1. 2 \in 1 .. Len(message) /\ 3 \in 1 .. Len(message) /\ 4 \in 1 .. Len(message)
        /\ 5 \in 1 .. Len(message)
    BY <1>1
  <2>2. message[2] \in Byte /\ message[3] \in Byte /\ message[4] \in Byte /\ message[5] \in Byte
    BY <2>1
  <2>3. \A b \in Byte : b \in Int
    BY DEF Byte
  <2> QED BY <2>2, <2>3
<1>3. uint16(message, 1) \in Int /\ uint16(message, 3) \in Int
  BY <1>2 DEF uint16
<1>4. extractAttackData(message) = <<uint16(message, 1), uint16(message, 3), message[6]>>
  BY <1>1 DEF extractAttackData
<1> QED BY <1>3, <1>4

\* A move that is made is one to a coordinate of the map.
LEMMA WalkableTarget ==
    ASSUME NEW message, NEW to, to = extractMovementData(message), to # Malformed,
           isPositionWalkable(to[1], to[2])
    PROVE  \E x, y \in Coordinate : to = <<x, y>>
<1>1. PICK x, y : to = <<x, y>>
  BY DEF extractMovementData
<1>2. <<x, y>> \in Pixels
  BY <1>1 DEF isPositionWalkable
<1>3. PICK width, height \in Nat : width = mapWidth /\ height = mapHeight
  BY MapAssumption
<1>4. PICK limit : limit = 2^24
  OBVIOUS
<1>5. limit \in Nat
  BY <1>4
<1>6. width <= limit /\ height <= limit
  BY <1>3, <1>4, NeighbourAssumption
<1>7. x \in 0 .. width - 1 /\ y \in 0 .. height - 1
  BY <1>2, <1>3 DEF Pixels
<1>8. x \in Nat /\ x < limit /\ y \in Nat /\ y < limit
  BY <1>5, <1>6, <1>7
<1>9. x \in Coordinate /\ y \in Coordinate
  BY <1>4, <1>8 DEF Coordinate
<1> QED BY <1>1, <1>9

\* What is sent is a message.
LEMMA Posts ==
    ASSUME NEW message \in Seq(Byte) \ {<<>>}, sendDataToClient(message)
    PROVE  SocketNext
<1>1. \A b \in Byte : b \in Nat
  BY DEF Byte
<1>2. message \in Seq(Nat) /\ message # <<>>
  BY <1>1
<1>3. message \in Messages
  BY <1>2 DEF Messages
<1> QED BY <1>3 DEF SocketNext

\* The answers to a login.
LEMMA AuthenticationPosts ==
    ASSUME NEW message, handleAuthentication(message)
    PROVE  SocketNext
<1>1. 1 \in Byte /\ Account.id \in Int
  BY RowsAssumption DEF Byte
<1>2. /\ createLoginSuccess(Account.id) \in Seq(Byte) \ {<<>>}
      /\ createLoginFailure(1) \in Seq(Byte) \ {<<>>}
  BY <1>1, AnswerBytes
<1>3. \/ sendDataToClient(createLoginSuccess(Account.id))
      \/ sendDataToClient(createLoginFailure(1))
  BY DEF handleAuthentication, refuseLogin
<1> QED BY <1>2, <1>3, Posts

\* The answers in the lobby.
LEMMA SelectionPosts ==
    ASSUME NEW message, handleCharacterSelectionCommands(message)
    PROVE  SocketNext \/ UNCHANGED socketVars
<1>1. 1 \in Byte /\ 2 \in Byte /\ 0 \in Int
  BY DEF Byte
<1>2. ASSUME NEW answer, sendDataToClient(answer),
             \/ \E found \in {Characters, <<>>} : answer = createCharacterList(found)
             \/ \E code \in {1, 2} : answer = createCharacterSelectionFailure(code)
             \/ \E id \in NewIds : answer = createCharacterCreationSuccess(id)
             \/ answer = createCharacterCreationFailure(1)
      PROVE  SocketNext
  <2>1. CASE \E found \in {Characters, <<>>} : answer = createCharacterList(found)
    <3>1. PICK found \in {Characters, <<>>} : answer = createCharacterList(found)
      BY <2>1
    <3> DEFINE Row == [id : Int, name : Text, vocation : Text, level : Int,
                       place : Int \X Int \X Int]
    <3>2. found \in Seq(Row)
      <4>1. Characters \in Seq(Row)
        BY RowsAssumption
      <4> HIDE DEF Row
      <4>2. <<>> \in Seq(Row)
        OBVIOUS
      <4> QED BY <4>1, <4>2
    <3>3. PICK n \in Nat :
             /\ n = Len(found)
             /\ \A i \in 1 .. n : /\ found[i].id \in Int /\ found[i].level \in Int
                                  /\ found[i].name \in Text /\ found[i].vocation \in Text
      <4>1. \A row \in Row : /\ row.id \in Int /\ row.level \in Int
                             /\ row.name \in Text /\ row.vocation \in Text
        OBVIOUS
      <4> HIDE DEF Row
      <4>2. Len(found) \in Nat /\ \A i \in 1 .. Len(found) : found[i] \in Row
        BY <3>2
      <4> QED BY <4>1, <4>2
    <3>4. createCharacterList(found) \in Seq(Byte) \ {<<>>}
      BY <3>3, CharacterListBytes, Zenon
    <3> QED BY <1>2, <3>1, <3>4, Posts, Zenon
  <2>2. CASE \E code \in {1, 2} : answer = createCharacterSelectionFailure(code)
    BY <1>1, <1>2, <2>2, AnswerBytes, Posts
  <2>3. CASE \E id \in NewIds : answer = createCharacterCreationSuccess(id)
    BY <1>1, <1>2, <2>3, AnswerBytes, Posts, RowsAssumption
  <2>4. CASE answer = createCharacterCreationFailure(1)
    BY <1>1, <1>2, <2>4, AnswerBytes, Posts
  <2> QED BY <1>2, <2>1, <2>2, <2>3, <2>4
<1>3. ASSUME NEW chosen, enterGame(chosen)
      PROVE  UNCHANGED socketVars
  BY <1>3 DEF enterGame
<1> QED BY <1>2, <1>3 DEF handleCharacterSelectionCommands

\* The answers to moves and attacks.
LEMMA PlayerPosts ==
    ASSUME NEW message \in Seq(Byte), handlePlayerCommands(message)
    PROVE  SocketNext \/ UNCHANGED socketVars
<1>1. 0 \in Byte /\ 0 \in Int /\ 10 \in Int
  BY DEF Byte
<1>2. movementBlockedMessage \in Seq(Byte) \ {<<>>} /\ pongMessage \in Seq(Byte) \ {<<>>}
      /\ createAttackFailure(0, 0) \in Seq(Byte) \ {<<>>}
  BY <1>1, AnswerBytes
<1>3. CASE handleMovementCommands(message)
  <2> DEFINE to == extractMovementData(message)
  <2>1. CASE to # Malformed /\ isPositionWalkable(to[1], to[2])
             /\ sendDataToClient(movementConfirmedMessage(to))
    <3>1. PICK x, y \in Coordinate : to = <<x, y>>
      <4> HIDE DEF to
      <4>1. to = extractMovementData(message)
        BY DEF to
      <4> QED BY <2>1, <4>1, WalkableTarget
    <3>2. <<>> \in Text
      BY DEF Text
    <3> HIDE DEF to
    <3>3. movementConfirmedMessage(to) \in Seq(Byte) \ {<<>>}
      BY <1>1, <3>1, <3>2, FloatMessageBytes
    <3> QED BY <2>1, <3>3, Posts
  <2>2. CASE sendDataToClient(movementBlockedMessage)
    BY <1>2, <2>2, Posts
  <2> QED BY <1>3, <2>1, <2>2 DEF handleMovementCommands
<1>4. CASE handleAttackCommands(message)
  <2> DEFINE attack == extractAttackData(message)
  <2>1. CASE sendDataToClient(createAttackFailure(0, 0))
    BY <1>2, <2>1, Posts
  <2>2. CASE attack # Malformed /\ (\/ sendDataToClient(createAttackFailure(attack[1], attack[2]))
                                   \/ sendDataToClient(createAttackSuccess(attack[1], attack[2], 10)))
    <3>1. PICK attacker, target \in Int : attacker = attack[1] /\ target = attack[2]
      BY <2>2, AttackIds
    <3> HIDE DEF attack
    <3>2. /\ createAttackFailure(attacker, target) \in Seq(Byte) \ {<<>>}
          /\ createAttackSuccess(attacker, target, 10) \in Seq(Byte) \ {<<>>}
      BY <1>1, AnswerBytes
    <3> QED BY <2>2, <3>1, <3>2, Posts
  <2> QED BY <1>4, <2>1, <2>2 DEF handleAttackCommands
<1>5. CASE sendDataToClient(pongMessage)
  BY <1>2, <1>5, Posts
<1> QED BY <1>3, <1>4, <1>5 DEF handlePlayerCommands, SocketNext

-----------------------------------------------------------------------------
(* Where players stand.                                                    *)

\* The handlers leave the players where they are, or move them to clear ground,
\* or put them where the database has them.
LEMMA ReadKeepsPlace ==
    ASSUME PlaceIsClear, ReadReturns
    PROVE  PlaceIsClear'
<1>1. PICK stop \in Stops :
         LET message == SubSeq(Sent, consumed + 1, stop) IN
         \/ state = "Unauthenticated" /\ handleAuthentication(message)
         \/ state = "Authenticated" /\ handleCharacterSelectionCommands(message)
         \/ state = "InGame" /\ handlePlayerCommands(message)
  BY DEF ReadReturns
<1> DEFINE message == SubSeq(Sent, consumed + 1, stop)
<1> HIDE DEF message
<1>2. ASSUME Stay
      PROVE  PlaceIsClear'
  BY <1>2 DEF Stay, PlaceIsClear
<1>3. CASE state = "Unauthenticated" /\ handleAuthentication(message)
  BY <1>2, <1>3 DEF handleAuthentication, PlaceIsClear
<1>4. ASSUME NEW chosen, enterGame(chosen)
      PROVE  PlaceIsClear'
  BY <1>4 DEF enterGame, PlaceIsClear
<1>5. CASE state = "Authenticated" /\ handleCharacterSelectionCommands(message)
  BY <1>2, <1>4, <1>5 DEF handleCharacterSelectionCommands
<1>6. ASSUME handleMovementCommands(message)
      PROVE  PlaceIsClear'
  <2> DEFINE to == extractMovementData(message)
  <2>1. /\ UNCHANGED <<state, character>>
        /\ \/ UNCHANGED place
           \/ place' = to /\ isPositionWalkable(to[1], to[2])
    BY <1>6 DEF handleMovementCommands
  <2> HIDE DEF to
  <2>2. CASE UNCHANGED place
    BY <2>1, <2>2 DEF PlaceIsClear
  <2>3. CASE place' = to /\ isPositionWalkable(to[1], to[2])
    <3>1. to[1] \in Int /\ to[2] \in Int
      BY <2>3, MapAssumption DEF isPositionWalkable, Pixels
    <3>2. Clear(to[1], to[2])
      BY <2>3, <3>1, MapAssumption, WalkableIsClear
    <3>3. Clear(place'[1], place'[2])
      BY <2>3, <3>2
    <3> QED BY <3>3 DEF PlaceIsClear, Clear, collisionAreas, Pixels
  <2> QED BY <2>1, <2>2, <2>3
<1>7. CASE state = "InGame" /\ handlePlayerCommands(message)
  BY <1>2, <1>6, <1>7 DEF handlePlayerCommands, handleAttackCommands
<1> QED BY <1>1, <1>3, <1>5, <1>7 DEF message

\* Players stand where the database has them or on a pixel that no obstacle of the
\* map file reaches into, whatever bytes their clients send (mapmanager.cpp:42).
THEOREM PlacesAreClear == ConnectionSpec => []PlaceIsClear
<1>1. ConnectionInit => PlaceIsClear
  BY DEF ConnectionInit, PlaceIsClear
<1>2. PlaceIsClear /\ [ConnectionNext]_connectionVars => PlaceIsClear'
  <2> SUFFICES ASSUME PlaceIsClear, [ConnectionNext]_connectionVars
               PROVE  PlaceIsClear'
    OBVIOUS
  <2>1. CASE ReadReturns
    BY <2>1, ReadKeepsPlace
  <2>2. ASSUME UNCHANGED <<state, character, place>>
        PROVE  PlaceIsClear'
    BY <2>2 DEF PlaceIsClear
  <2>3. CASE HandlerSteps \/ ClientCloses
    BY <2>2, <2>3 DEF HandlerSteps, RefusalEnds, Introduce, ConfirmSelection, ReadAborted,
                      ClientCloses, Stay
  <2>4. CASE LoginTimeout \/ OtherSessionSends \/ Writing \/ UNCHANGED connectionVars
    BY <2>2, <2>4 DEF LoginTimeout, OtherSessionSends, Writing, connectionVars, sessionVars
  <2> QED BY <2>1, <2>3, <2>4 DEF ConnectionNext
<1> QED BY <1>1, <1>2, PTL DEF ConnectionSpec

-----------------------------------------------------------------------------
(* What a refused client is told.                                          *)

Refusal == [message |-> createLoginFailure(1), sent |-> 2, at |-> "over"]

\* The inductive invariant: nothing is sent before a login is answered, so that the
\* refusal is the first write of an empty socket.
RefusalInv ==
    /\ state = "Unauthenticated" /\ handler = "reading" =>
           writes = <<>> /\ queue = <<>> /\ room = SendBuffer
    /\ handler \in {"introducing", "confirming"} => state # "Unauthenticated"
    /\ handler \in {"refusing", "refused"} =>
           /\ state = "Unauthenticated"
           /\ loginTimer # "expired" => writes = <<Refusal>> /\ queue = <<>>

\* The first message, when it fits, is sent as a whole.
LEMMA FirstWrite ==
    ASSUME writes = <<>>, queue = <<>>, room = SendBuffer, isOpen,
           sendDataToClient(createLoginFailure(1))
    PROVE  writes' = <<Refusal>> /\ queue' = <<>>
<1> DEFINE answer == createLoginFailure(1)
           new == [message |-> answer, sent |-> 0, at |-> "handler"]
           left == Len(new.message) - new.sent
           now == IF left <= room THEN left ELSE room
<1>1. Len(answer) = 2
  BY DEF createLoginFailure
<1>2. new.message = answer /\ new.sent = 0
  OBVIOUS
<1> HIDE DEF answer
<1>3. left = 2
  BY <1>1, <1>2
<1> HIDE DEF left
<1>4. room > 0 /\ now = 2
  BY <1>3, SocketWritesAssumption, ConnectionAssumption
<1>5. Append(writes, new) = <<new>> /\ Len(writes) + 1 = 1 /\ <<new>>[1] = new
  OBVIOUS
<1>6. StartSend(<<new>>, 1)
  BY <1>5 DEF sendDataToClient, answer
<1>7. Transfer(<<new>>, 1) /\ queue' = <<>>
  BY <1>4, <1>6 DEF StartSend
<1> HIDE DEF new
<1>8. writes' = [<<new>> EXCEPT ![1] =
                   [message |-> new.message, sent |-> new.sent + now,
                    at |-> IF now = left THEN "over" ELSE "handler"]]
  BY <1>5, <1>7 DEF Transfer, left
<1> HIDE DEF now
<1>9. [message |-> new.message, sent |-> new.sent + now,
       at |-> IF now = left THEN "over" ELSE "handler"] = Refusal
  BY <1>2, <1>3, <1>4 DEF Refusal, answer
<1>10. writes' = <<Refusal>>
  BY <1>8, <1>9
<1> QED BY <1>7, <1>10

\* Closing keeps a write that is over, and a socket without writes.
LEMMA ClosedSocketKeeps ==
    ASSUME closeSocket
    PROVE  /\ writes = <<>> => writes' = <<>> /\ queue' = <<>> /\ room' = room
           /\ writes = <<Refusal>> => writes' = <<Refusal>> /\ queue' = <<>>
<1>1. CASE writes = <<>>
  BY <1>1 DEF closeSocket
<1>2. CASE writes = <<Refusal>>
  <2>1. Len(writes) = 1 /\ writes[1] = Refusal /\ Refusal.at = "over"
    BY <1>2 DEF Refusal
  <2>2. writes' = [n \in 1 .. 1 |-> Refusal] /\ queue' = <<>>
    BY <2>1 DEF closeSocket
  <2>3. [n \in 1 .. 1 |-> Refusal] = <<Refusal>>
    OBVIOUS
  <2> QED BY <1>2, <2>2, <2>3
<1> QED BY <1>1, <1>2

\* Handling a message keeps RefusalInv: a refusal is written to an empty stream.
LEMMA ReadKeepsRefusal ==
    ASSUME RefusalInv, ReadReturns
    PROVE  RefusalInv'
<1>1. handler = "reading" /\ isOpen
  BY DEF ReadReturns
<1>2. PICK message :
         \/ state = "Unauthenticated" /\ handleAuthentication(message)
         \/ state = "Authenticated" /\ handleCharacterSelectionCommands(message)
         \/ state = "InGame" /\ handlePlayerCommands(message)
  BY DEF ReadReturns
<1>3. CASE state = "Unauthenticated" /\ handleAuthentication(message)
  <2>1. writes = <<>> /\ queue = <<>> /\ room = SendBuffer
    BY <1>1, <1>3 DEF RefusalInv
  <2>2. CASE state' = "Authenticated" /\ Continue
    BY <2>2 DEF Continue, RefusalInv
  <2>3. CASE refuseLogin /\ Stay
    <3>1. writes' = <<Refusal>> /\ queue' = <<>>
      BY <1>1, <2>1, <2>3, FirstWrite DEF refuseLogin
    <3> QED BY <1>3, <2>3, <3>1 DEF refuseLogin, Stay, RefusalInv
  <2> QED BY <1>3, <2>2, <2>3 DEF handleAuthentication
<1>4. ASSUME state' # "Unauthenticated", handler' \notin {"refusing", "refused"}
      PROVE  RefusalInv'
  BY <1>4 DEF RefusalInv
<1>5. CASE state = "Authenticated" /\ handleCharacterSelectionCommands(message)
  BY <1>4, <1>5 DEF handleCharacterSelectionCommands, enterGame, Continue, Stay
<1>6. CASE state = "InGame" /\ handlePlayerCommands(message)
  BY <1>4, <1>6 DEF handlePlayerCommands, handleMovementCommands, handleAttackCommands,
                    Continue, Stay
<1> QED BY <1>2, <1>3, <1>5, <1>6

\* What is not a read leaves the answer to a refused login as it is.
LEMMA OthersKeepRefusal ==
    ASSUME RefusalInv,
           \/ HandlerSteps \/ ClientCloses \/ LoginTimeout \/ OtherSessionSends \/ Writing
           \/ UNCHANGED connectionVars
    PROVE  RefusalInv'
<1>1. CASE RefusalEnds
  BY <1>1, ClosedSocketKeeps DEF RefusalEnds, Stay, RefusalInv
<1>2. CASE Introduce \/ ConfirmSelection
  <2>1. state # "Unauthenticated" => RefusalInv'
    BY <1>2 DEF Introduce, ConfirmSelection, Continue, Stay, RefusalInv
  <2>2. state # "Unauthenticated"
    BY <1>2 DEF Introduce, ConfirmSelection, RefusalInv
  <2> QED BY <2>1, <2>2
<1>3. CASE ReadAborted \/ ClientCloses
  BY <1>3 DEF ReadAborted, ClientCloses, Stay, RefusalInv
<1>4. CASE LoginTimeout
  BY <1>4, ClosedSocketKeeps DEF LoginTimeout, RefusalInv
<1>5. CASE OtherSessionSends
  BY <1>5 DEF OtherSessionSends, sessionVars, RefusalInv
<1>6. CASE Writing
  <2>1. UNCHANGED <<state, handler, loginTimer>>
    BY <1>6 DEF Writing, sessionVars
  <2>2. ASSUME writes = <<>> \/ writes = <<Refusal>>, queue = <<>>
        PROVE  ClientReads
    <3>1. \A n \in 1 .. Len(writes) : writes[n].at = "over"
      BY <2>2 DEF Refusal
    <3> QED BY <1>6, <2>2, <3>1 DEF Writing, WriteSteps, ContinueWrite, SocketWritable
  <2> QED BY <2>1, <2>2 DEF RefusalInv, ClientReads
<1>7. CASE UNCHANGED connectionVars
  BY <1>7 DEF connectionVars, sessionVars, socketVars, RefusalInv
<1> QED BY <1>1, <1>2, <1>3, <1>4, <1>5, <1>6, <1>7 DEF HandlerSteps

\* A client whose login is refused is sent the whole answer, although its socket is
\* closed without waiting for the write (sessionauth.cpp:39-42).
THEOREM RefusalsAreSent == ConnectionSpec => []RefusalIsSent
<1>1. ConnectionInit => RefusalInv
  BY DEF ConnectionInit, SocketInit, RefusalInv
<1>2. RefusalInv /\ [ConnectionNext]_connectionVars => RefusalInv'
  BY ReadKeepsRefusal, OthersKeepRefusal DEF ConnectionNext
<1>3. RefusalInv => RefusalIsSent
  <2>1. Len(createLoginFailure(1)) = 2
    BY DEF createLoginFailure
  <2>2. <<Refusal>>[1] = Refusal /\ 1 \in DOMAIN <<Refusal>>
    OBVIOUS
  <2>3. Refusal.message = createLoginFailure(1) /\ Refusal.sent = 2
    BY DEF Refusal
  <2> QED BY <2>1, <2>2, <2>3 DEF RefusalInv, RefusalIsSent, ToSet
<1> QED BY <1>1, <1>2, <1>3, PTL DEF ConnectionSpec

-----------------------------------------------------------------------------
(* What is read, what is sent, and when a session falls silent.            *)

\* A session that does not read, on an open socket, last read a ping, or an attack
\* in another's name as the server reads it.
SilenceInv ==
    handler = "idle" /\ isOpen =>
        /\ state = "InGame"
        /\ \/ LastRead[1] = 3
           \/ /\ LastRead[1] = 9
              /\ extractAttackData(LastRead)[1] # character.id

\* The inductive invariant.
ConnectionInv ==
    /\ TypeOK
    /\ handler \in {"introducing", "confirming"} => state = "InGame"
    /\ SilenceInv
    /\ SocketInv

\* The columns of the character that was selected.
LEMMA SelectedCharacter ==
    ASSUME NEW chosen \in ToSet(Characters)
    PROVE  /\ chosen.id \in Int /\ chosen # NoCharacter
           /\ chosen.place[1] \in Int /\ chosen.place[2] \in Int /\ chosen.place[3] \in Int
<1> DEFINE Row == [id : Int, name : Text, vocation : Text, level : Int,
                   place : Int \X Int \X Int]
<1>1. Characters \in Seq(Row)
  BY RowsAssumption
<1>2. \A row \in Row : /\ row.id \in Int /\ row.place[1] \in Int /\ row.place[2] \in Int
                       /\ row.place[3] \in Int
  OBVIOUS
<1> HIDE DEF Row
<1>3. chosen \in Row
  BY <1>1 DEF ToSet
<1> QED BY <1>2, <1>3, RowsAssumption

\* Every step of the connection is a step of the socket, or changes nothing of it.
LEMMA ConnectionStepsSocket ==
    ASSUME ConnectionInv, [ConnectionNext]_connectionVars
    PROVE  [SocketNext]_socketVars
<1>1. CASE ReadReturns
  <2>1. PICK stop \in Stops :
           LET message == SubSeq(Sent, consumed + 1, stop) IN
           \/ handleAuthentication(message)
           \/ handleCharacterSelectionCommands(message)
           \/ handlePlayerCommands(message)
    BY <1>1 DEF ReadReturns
  <2>2. PICK message \in Seq(Byte) : message = SubSeq(Sent, consumed + 1, stop)
    <3>1. conversation \in Conversations /\ consumed \in Nat
      BY DEF ConnectionInv, TypeOK
    <3> QED BY <3>1, ReadTakes
  <2>3. \/ handleAuthentication(message)
        \/ handleCharacterSelectionCommands(message)
        \/ handlePlayerCommands(message)
    BY <2>1, <2>2
  <2> QED BY <2>3, AuthenticationPosts, SelectionPosts, PlayerPosts
<1>2. PICK x, y \in Coordinate : Neighbour.place = <<x, y>>
  BY NeighbourAssumption
<1>3. /\ Neighbour.id \in Int /\ Neighbour.name \in Text /\ 0 \in Byte
      /\ Neighbour.place[1] \in Int /\ Neighbour.place[2] \in Int
  BY <1>2, NeighbourAssumption DEF Byte, Coordinate
<1>4. createOtherPlayerInfoMessage(Neighbour.id, Neighbour.name, Neighbour.place, 0)
        \in Seq(Byte) \ {<<>>}
  BY <1>2, <1>3, FloatMessageBytes
<1>5. createPositionUpdateMessage(Neighbour.id, Neighbour.place[1], Neighbour.place[2])
        \in Seq(Byte) \ {<<>>}
  BY <1>3, AnswerBytes
<1>6. CASE Introduce
  BY <1>4, <1>6, Posts DEF Introduce
<1>7. CASE ConfirmSelection
  <2>1. character \in ToSet(Characters)
    BY <1>7 DEF ConfirmSelection, ConnectionInv, TypeOK
  <2>2. createCharacterSelectionSuccess(character.id, character.place[1],
            character.place[2], character.place[3]) \in Seq(Byte) \ {<<>>}
    BY <1>3, <2>1, SelectedCharacter, AnswerBytes
  <2> QED BY <1>7, <2>2, Posts DEF ConfirmSelection
<1>8. CASE OtherSessionSends
  BY <1>4, <1>5, <1>8, Posts DEF OtherSessionSends
<1>9. CASE RefusalEnds \/ ReadAborted \/ ClientCloses \/ LoginTimeout
  BY <1>9 DEF RefusalEnds, ReadAborted, ClientCloses, LoginTimeout, SocketNext
<1>10. CASE Writing
  BY <1>10 DEF Writing, SocketNext
<1>11. CASE UNCHANGED connectionVars
  BY <1>11 DEF connectionVars
<1> QED BY <1>1, <1>6, <1>7, <1>8, <1>9, <1>10, <1>11 DEF ConnectionNext, HandlerSteps

\* What a read makes of the session's variables.
LEMMA ReadKeepsTypes ==
    ASSUME ConnectionInv, ReadReturns
    PROVE  /\ conversation' = conversation /\ updates' = updates
           /\ begun' = consumed /\ consumed' \in 0 .. Len(Sent) /\ consumed \in 0 .. consumed'
           /\ state' \in {"Unauthenticated", "Authenticated", "InGame"}
           /\ loginTimer' \in {"running", "cancelled", "expired"}
           /\ character' \in ToSet(Characters) \cup {NoCharacter}
           /\ state' = "InGame" <=> character' # NoCharacter
           /\ place' \in Int \X Int
           /\ handler' \in {"reading", "introducing", "confirming", "refusing", "idle"}
           /\ handler' \in {"introducing", "confirming"} => state' = "InGame"
<1>1. /\ conversation \in Conversations /\ consumed \in Nat
      /\ state \in {"Unauthenticated", "Authenticated", "InGame"}
      /\ loginTimer \in {"running", "cancelled", "expired"}
      /\ character \in ToSet(Characters) \cup {NoCharacter}
      /\ state = "InGame" <=> character # NoCharacter
      /\ place \in Int \X Int
  BY DEF ConnectionInv, TypeOK
<1>2. PICK stop \in Stops :
         LET message == SubSeq(Sent, consumed + 1, stop) IN
         /\ begun' = consumed /\ consumed' = stop
         /\ \/ state = "Unauthenticated" /\ handleAuthentication(message)
            \/ state = "Authenticated" /\ handleCharacterSelectionCommands(message)
            \/ state = "InGame" /\ handlePlayerCommands(message)
  BY DEF ReadReturns
<1>3. conversation' = conversation /\ updates' = updates
  BY DEF ReadReturns
<1> DEFINE message == SubSeq(Sent, consumed + 1, stop)
<1> HIDE DEF message
<1>4. begun' = consumed /\ consumed' \in 0 .. Len(Sent) /\ consumed \in 0 .. consumed'
  <2>1. stop \in Nat /\ consumed < stop /\ stop <= Len(Sent)
    BY <1>1, ReadTakes
  <2>2. Len(Sent) \in Nat
    BY <1>1, SentIsBytes, LenProperties DEF Sent
  <2> QED BY <1>1, <1>2, <2>1, <2>2
<1> DEFINE Kept == /\ state' \in {"Unauthenticated", "Authenticated", "InGame"}
                   /\ loginTimer' \in {"running", "cancelled", "expired"}
                   /\ character' \in ToSet(Characters) \cup {NoCharacter}
                   /\ state' = "InGame" <=> character' # NoCharacter
                   /\ place' \in Int \X Int
                   /\ handler' \in {"reading", "introducing", "confirming", "refusing", "idle"}
                   /\ handler' \in {"introducing", "confirming"} => state' = "InGame"
<1> SUFFICES Kept
  BY <1>3, <1>4
<1> HIDE DEF Kept
<1>5. ASSUME Stay, handler' \in {"reading", "refusing", "idle"}
      PROVE  Kept
  BY <1>1, <1>5 DEF Stay, Kept
<1>6. CASE state = "Unauthenticated" /\ handleAuthentication(message)
  <2>1. CASE Stay /\ refuseLogin
    BY <1>5, <2>1 DEF refuseLogin
  <2>2. CASE /\ state' = "Authenticated" /\ loginTimer' = "cancelled" /\ Continue
             /\ UNCHANGED <<character, place>>
    BY <1>1, <1>6, <2>2 DEF Continue, Kept
  <2> QED BY <1>6, <2>1, <2>2 DEF handleAuthentication
<1>7. ASSUME NEW chosen \in ToSet(Characters), enterGame(chosen)
      PROVE  Kept
  <2>1. handler' \in {"introducing", "confirming"}
    <3>1. \E alone : handler' = IF alone THEN "confirming" ELSE "introducing"
      BY <1>7, Zenon DEF enterGame
    <3> QED BY <3>1
  <2>2. /\ state' = "InGame" /\ character' = chosen /\ UNCHANGED loginTimer
        /\ place' = <<chosen.place[1], chosen.place[2]>>
    BY <1>7, Zenon DEF enterGame
  <2>3. chosen # NoCharacter /\ place' \in Int \X Int
    BY <1>7, <2>2, SelectedCharacter
  <2> QED BY <1>1, <1>7, <2>1, <2>2, <2>3 DEF Kept
<1>8. CASE state = "Authenticated" /\ handleCharacterSelectionCommands(message)
  <2>1. ASSUME NEW name, NEW chosen \in getCharacterInfo(name), enterGame(chosen)
        PROVE  Kept
    <3>1. chosen \in ToSet(Characters)
      BY DEF getCharacterInfo
    <3> QED BY <1>7, <2>1, <3>1
  <2>2. CASE Continue /\ Stay
    BY <1>5, <2>2 DEF Continue
  <2> QED BY <1>8, <2>1, <2>2 DEF handleCharacterSelectionCommands
<1>9. ASSUME state = "InGame", handleMovementCommands(message)
      PROVE  Kept
  <2> DEFINE to == extractMovementData(message)
  <2>1. /\ UNCHANGED <<state, loginTimer, character>> /\ handler' = "reading"
        /\ \/ UNCHANGED place
           \/ place' = to /\ to # Malformed /\ isPositionWalkable(to[1], to[2])
    BY <1>9 DEF handleMovementCommands, Continue
  <2>2. place' \in Int \X Int
    <3>1. UNCHANGED place => place' \in Int \X Int
      BY <1>1
    <3>2. CASE place' = to /\ to # Malformed /\ isPositionWalkable(to[1], to[2])
      <4>1. PICK t : t = to /\ t = extractMovementData(message)
        OBVIOUS
      <4> HIDE DEF to
      <4>2. PICK x, y \in Coordinate : to = <<x, y>>
        BY <3>2, <4>1, WalkableTarget
      <4> QED BY <3>2, <4>2 DEF Coordinate
    <3> HIDE DEF to
    <3> QED BY <2>1, <3>1, <3>2
  <2> HIDE DEF to
  <2> QED BY <1>1, <1>9, <2>1, <2>2 DEF Kept
<1>10. CASE state = "InGame" /\ handlePlayerCommands(message)
  <2>1. CASE Stay /\ handler' \in {"reading", "idle"}
    BY <1>5, <2>1
  <2>2. handleMovementCommands(message) \/ (Stay /\ handler' \in {"reading", "idle"})
    BY <1>10 DEF handlePlayerCommands, handleAttackCommands, Continue
  <2> QED BY <1>9, <1>10, <2>1, <2>2
<1> QED BY <1>2, <1>6, <1>8, <1>10 DEF message

\* A read falls silent for a reason.
LEMMA ReadKeepsSilence ==
    ASSUME ReadReturns
    PROVE  SilenceInv'
<1>1. PICK message :
         /\ LastRead' = message
         /\ \/ state = "Unauthenticated" /\ handleAuthentication(message)
            \/ state = "Authenticated" /\ handleCharacterSelectionCommands(message)
            \/ state = "InGame" /\ handlePlayerCommands(message)
  <2>1. PICK stop \in Stops :
           LET message == SubSeq(Sent, consumed + 1, stop) IN
           /\ begun' = consumed /\ consumed' = stop
           /\ \/ state = "Unauthenticated" /\ handleAuthentication(message)
              \/ state = "Authenticated" /\ handleCharacterSelectionCommands(message)
              \/ state = "InGame" /\ handlePlayerCommands(message)
    BY DEF ReadReturns
  <2>2. LastRead' = SubSeq(Sent, consumed + 1, stop)
    BY <2>1 DEF ReadReturns, LastRead, Sent
  <2> QED BY <2>1, <2>2, Zenon
<1>2. ASSUME handler' # "idle"
      PROVE  SilenceInv'
  BY <1>2 DEF SilenceInv
<1>3. CASE state = "Unauthenticated" /\ handleAuthentication(message)
  BY <1>2, <1>3 DEF handleAuthentication, refuseLogin, Continue
<1>4. CASE state = "Authenticated" /\ handleCharacterSelectionCommands(message)
  <2>1. ASSUME NEW chosen, enterGame(chosen)
        PROVE  handler' # "idle"
    <3>1. \E alone : handler' = IF alone THEN "confirming" ELSE "introducing"
      BY <2>1, Zenon DEF enterGame
    <3> QED BY <3>1
  <2>2. handler' # "idle"
    BY <1>4, <2>1 DEF handleCharacterSelectionCommands, Continue
  <2> QED BY <1>2, <2>2
<1>5. CASE state = "InGame" /\ handlePlayerCommands(message)
  <2>1. CASE closeSocket
    BY <2>1 DEF closeSocket, SilenceInv
  <2>2. CASE message[1] = 3 /\ Stay
    BY <1>1, <1>5, <2>2 DEF Stay, SilenceInv
  <2>3. CASE message[1] = 9 /\ extractAttackData(message)[1] # character.id /\ Stay
    BY <1>1, <1>5, <2>3 DEF Stay, SilenceInv
  <2>4. CASE handler' = "reading"
    BY <1>2, <2>4
  <2> QED BY <1>5, <2>1, <2>2, <2>3, <2>4, Codes
          DEF handlePlayerCommands, handleMovementCommands, handleAttackCommands, Continue,
              extractCommandFromMessage
<1> QED BY <1>1, <1>3, <1>4, <1>5

\* Whatever the threads do, the invariant holds.
LEMMA ConnectionKeeps ==
    ASSUME ConnectionInv, [ConnectionNext]_connectionVars
    PROVE  ConnectionInv' /\ [Stream!Next]_<<Posted, last, overlapped /\ filled>>
<1>1. SocketInv' /\ [Stream!Next]_<<Posted, last, overlapped /\ filled>>
  BY ConnectionStepsSocket, SocketStep DEF ConnectionInv
<1> SUFFICES ConnectionInv'
  BY <1>1
<1>2. SocketTypeOK'
  BY <1>1 DEF SocketInv
<1>3. CASE ReadReturns
  <2>1. SilenceInv'
    BY <1>3, ReadKeepsSilence
  <2>2. TypeOK' /\ (handler' \in {"introducing", "confirming"} => state' = "InGame")
    <3>1. conversation \in Conversations /\ updates \in 0 .. MaxUpdates
      BY DEF ConnectionInv, TypeOK
    <3>2. Sent' = Sent
      BY <1>3 DEF ReadReturns, Sent
    <3> QED BY <1>2, <1>3, <3>1, <3>2, ReadKeepsTypes DEF TypeOK
  <2> QED BY <1>1, <2>1, <2>2 DEF ConnectionInv
<1>4. ASSUME Stay, UNCHANGED <<conversation, begun, consumed, updates>>,
             handler' \in {"reading", "introducing", "confirming", "refusing", "refused", "idle"},
             handler' \in {"introducing", "confirming"} => state = "InGame",
             SilenceInv'
      PROVE  ConnectionInv'
  BY <1>1, <1>2, <1>4 DEF ConnectionInv, TypeOK, Stay, Sent
<1>5. CASE Introduce \/ ConfirmSelection
  BY <1>4, <1>5 DEF Introduce, ConfirmSelection, Continue, SilenceInv, ConnectionInv
<1>6. CASE RefusalEnds \/ ReadAborted \/ ClientCloses
  <2>1. isOpen' = FALSE
    <3>1. CASE ReadAborted
      BY <3>1, <1>2 DEF ReadAborted, socketVars, ConnectionInv, TypeOK, SocketTypeOK
    <3> QED BY <1>6, <3>1 DEF RefusalEnds, ClientCloses, closeSocket
  <2> QED BY <1>4, <1>6, <2>1 DEF RefusalEnds, ReadAborted, ClientCloses, SilenceInv
<1>7. CASE LoginTimeout
  <2>1. SilenceInv'
    BY <1>7 DEF LoginTimeout, closeSocket, SilenceInv
  <2> QED BY <1>1, <1>2, <1>7, <2>1 DEF LoginTimeout, ConnectionInv, TypeOK, Sent
<1>8. ASSUME UNCHANGED <<conversation, sessionVars>>, isOpen' => isOpen, updates' \in 0 .. MaxUpdates
      PROVE  ConnectionInv'
  <2>1. /\ UNCHANGED <<conversation, begun, consumed, state, loginTimer, character, place, handler>>
        /\ Sent' = Sent /\ LastRead' = LastRead
    BY <1>8 DEF sessionVars, Sent, LastRead
  <2>2. SilenceInv'
    BY <1>8, <2>1 DEF ConnectionInv, SilenceInv
  <2> QED BY <1>1, <1>2, <1>8, <2>1, <2>2 DEF ConnectionInv, TypeOK
<1>9. CASE OtherSessionSends
  <2>1. updates \in 0 .. MaxUpdates /\ updates < MaxUpdates /\ updates' = updates + 1
    BY <1>9 DEF OtherSessionSends, ConnectionInv, TypeOK
  <2>2. updates' \in 0 .. MaxUpdates
    BY <2>1, NeighbourAssumption
  <2>3. UNCHANGED isOpen
    BY <1>9 DEF OtherSessionSends, sendDataToClient
  <2> QED BY <1>8, <1>9, <2>2, <2>3 DEF OtherSessionSends
<1>10. CASE Writing
  <2>1. UNCHANGED isOpen
    BY <1>10 DEF Writing, WriteSteps, ContinueWrite, SocketWritable, ClientReads
  <2> QED BY <1>8, <1>10, <2>1 DEF Writing, ConnectionInv, TypeOK
<1>11. CASE UNCHANGED connectionVars
  BY <1>8, <1>11 DEF connectionVars, socketVars, ConnectionInv, TypeOK
<1> QED BY <1>1, <1>3, <1>5, <1>6, <1>7, <1>9, <1>10, <1>11 DEF ConnectionNext, HandlerSteps

\* Before the first byte.
LEMMA ConnectionStarts ==
    ASSUME ConnectionInit
    PROVE  ConnectionInv /\ Stream!Init
<1>1. SocketInv /\ Stream!Init
  BY SocketInitInv DEF ConnectionInit
<1>2. conversation \in Conversations
  BY DEF ConnectionInit
<1>3. Len(Sent) \in Nat
  BY <1>2, SentIsBytes, LenProperties DEF Sent
<1>4. TypeOK
  BY <1>1, <1>2, <1>3, NeighbourAssumption DEF ConnectionInit, SocketInv, TypeOK
<1> QED BY <1>1, <1>4 DEF ConnectionInit, ConnectionInv, SilenceInv

\* What was read last, when it began where message i begins and went as far as the
\* end of it or further.
LEMMA LastReadBegins ==
    ASSUME TypeOK, NEW i \in 1 .. Len(conversation), WholeRead(i)
    PROVE  /\ conversation[i] \in Command /\ IsUnderstood(conversation[i])
           /\ IsMade(LastRead, Encode(conversation[i]),
                     SubSeq(Sent, Start(i + 1) + 1, consumed))
<1>1. conversation \in Conversations /\ consumed \in Nat /\ consumed <= Len(Bytes[conversation])
  BY SentIsBytes, LenProperties DEF TypeOK, Sent
<1>2. Starts[conversation][i + 1] <= consumed
  <2>1. i + 1 \in 1 .. Len(conversation) + 1
    OBVIOUS
  <2>2. Starts[conversation][i + 1] \in Nat
    BY <1>1, <2>1, SentIsBytes
  <2> QED BY <1>1, <2>2 DEF WholeRead, Start
<1>3. IsPart(LastRead, Bytes[conversation], Starts[conversation][i], consumed)
  BY DEF WholeRead, Start, IsPart, LastRead, Sent
<1>4. PICK joined : /\ joined = SubSeq(Sent, Start(i + 1) + 1, consumed)
                    /\ IsPart(joined, Bytes[conversation], Starts[conversation][i + 1], consumed)
  BY DEF Start, IsPart, Sent
<1>5. conversation[i] \in Command /\ IsMade(LastRead, Encode(conversation[i]), joined)
  BY <1>1, <1>2, <1>3, <1>4, PartsBegin, Zenon
<1> QED BY <1>4, <1>5, CommandsUnderstood, Zenon

\* What a message that begins with a command is taken for.
LEMMA BeginsUnderstood ==
    ASSUME NEW command, IsUnderstood(command), NEW message, Begins(message, Encode(command))
    PROVE  /\ message[1] = 3 => command.name = "PING"
           /\ message[1] = 9 => command.name = "ATTACK"
           /\ command.name = "ATTACK" =>
                 extractAttackData(message)[1] = command.attacker % 65536
BY DEF IsUnderstood

\* What a message becomes with what is joined to it.
LEMMA MadeUnderstood ==
    ASSUME NEW command, IsUnderstood(command), NEW message, NEW joined,
           IsMade(message, Encode(command), joined)
    PROVE  Understood(message) = TakenFor(command, joined)
BY DEF IsUnderstood

\* Every read that begins with a whole message is taken for what the client said, with
\* the ids of an attack modulo 2^16 and the deltas of a step for a place or for a part
\* of one, as TakenFor has it: whatever else TCP joined to it (session.cpp:86), for
\* every conversation and every way to cut it into reads.
THEOREM MessagesAreUnderstood == ConnectionSpec => []WholeReadsDecode
<1>1. ConnectionInit => ConnectionInv
  BY ConnectionStarts
<1>2. ConnectionInv /\ [ConnectionNext]_connectionVars => ConnectionInv'
  BY ConnectionKeeps
<1>3. ConnectionInv => WholeReadsDecode
  <2> SUFFICES ASSUME TypeOK, NEW i \in 1 .. Len(conversation), WholeRead(i)
               PROVE  Understood(LastRead) =
                         TakenFor(conversation[i], SubSeq(Sent, Start(i + 1) + 1, consumed))
    BY DEF WholeReadsDecode, ConnectionInv
  <2>1. /\ IsUnderstood(conversation[i])
        /\ IsMade(LastRead, Encode(conversation[i]), SubSeq(Sent, Start(i + 1) + 1, consumed))
    BY LastReadBegins, Zenon
  <2> QED BY <2>1, MadeUnderstood, Zenon
<1> QED BY <1>1, <1>2, <1>3, PTL DEF ConnectionSpec

\* A session in the game that has stopped reading from an open socket was sent a
\* ping, an attack in another's name, or a part of a message (session.cpp:347-351,
\* sessionattack.cpp:17-22), or its player has an id of more than 16 bits.
THEOREM SilencesAreExplained == ConnectionSpec => []SilenceIsExplained
<1>1. ConnectionInit => ConnectionInv
  BY ConnectionStarts
<1>2. ConnectionInv /\ [ConnectionNext]_connectionVars => ConnectionInv'
  BY ConnectionKeeps
<1>3. ConnectionInv => SilenceIsExplained
  <2> SUFFICES ASSUME ConnectionInv, handler = "idle", isOpen,
                      NEW i \in 1 .. Len(conversation), WholeRead(i)
               PROVE  \/ conversation[i].name = "PING"
                      \/ /\ conversation[i].name = "ATTACK"
                         /\ \/ conversation[i].attacker # character.id
                            \/ character.id >= 65536
    BY DEF SilenceIsExplained
  <2>1. PICK command \in Command : command = conversation[i] /\ IsUnderstood(command)
                                   /\ Begins(LastRead, Encode(command))
    BY LastReadBegins, Zenon DEF ConnectionInv, IsMade
  <2>2. /\ LastRead[1] = 3 => command.name = "PING"
        /\ LastRead[1] = 9 => command.name = "ATTACK"
        /\ command.name = "ATTACK" =>
              extractAttackData(LastRead)[1] = command.attacker % 65536
    BY <2>1, BeginsUnderstood
  <2>3. command.name = "PING" \/
        (command.name = "ATTACK" /\ command.attacker % 65536 # character.id)
    BY <2>2 DEF ConnectionInv, SilenceInv
  <2>4. ASSUME command.name = "ATTACK", command.attacker % 65536 # character.id,
               command.attacker = character.id
        PROVE  character.id >= 65536
    <3>1. command.attacker \in Nat
      BY <2>4 DEF Command
    <3>2. PICK id \in Nat : id = command.attacker
      BY <3>1
    <3>3. id < 65536 => id % 65536 = id
      BY <3>2
    <3> QED BY <2>4, <3>2, <3>3
  <2> QED BY <2>1, <2>3, <2>4
<1> QED BY <1>1, <1>2, <1>3, PTL DEF ConnectionSpec

\* The state of a connection is always well formed: what was read lies within what
\* the client sent, and a session has a character exactly when it is in the game.
THEOREM ConnectionTypes == ConnectionSpec => []TypeOK
<1>1. ConnectionInit => ConnectionInv
  BY ConnectionStarts
<1>2. ConnectionInv /\ [ConnectionNext]_connectionVars => ConnectionInv'
  BY ConnectionKeeps
<1>3. ConnectionInv => TypeOK
  BY DEF ConnectionInv
<1> QED BY <1>1, <1>2, <1>3, PTL DEF ConnectionSpec

\* The sessions' calls of sendDataToClient (session.cpp:391), whatever the clients
\* send, are a stream: whole messages in order, unless a write was started while
\* another waited for room.
THEOREM ConnectionIsAStream == ConnectionSpec => ImplementsMessageStream
<1>1. ConnectionInit => ConnectionInv /\ Stream!Init
  BY ConnectionStarts
<1>2. ConnectionInv /\ [ConnectionNext]_connectionVars
        => ConnectionInv' /\ [Stream!Next]_<<Posted, last, overlapped /\ filled>>
  BY ConnectionKeeps
<1> QED BY <1>1, <1>2, PTL
        DEF ConnectionSpec, ImplementsMessageStream, Stream!Spec, Stream!vars

\* A connection does nothing with its socket that SocketWrites does not allow.
THEOREM ConnectionIsASocket == ConnectionSpec => SocketSpec
<1>1. ConnectionInit => ConnectionInv /\ SocketInit
  BY ConnectionStarts DEF ConnectionInit
<1>2. ConnectionInv /\ [ConnectionNext]_connectionVars => ConnectionInv' /\ [SocketNext]_socketVars
  BY ConnectionKeeps, ConnectionStepsSocket
<1> QED BY <1>1, <1>2, PTL DEF ConnectionSpec, SocketSpec
=============================================================================
