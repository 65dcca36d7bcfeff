--------------------------- MODULE ProtocolProofs ---------------------------
(***************************************************************************)
(* What the decoders give for messages that were put together as the       *)
(* protocol asks for, also when more bytes follow in the same read.        *)
(***************************************************************************)
EXTENDS Protocol, SequenceTheorems, WellFoundedInduction, TLAPS

\* Induction: a set with zero and with the successors of its members has all
\* natural numbers.
LEMMA AllNumbers ==
  ASSUME NEW S, 0 \in S, \A n \in Nat : n \in S => n + 1 \in S
  PROVE  \A n \in Nat : n \in S
<1> DEFINE Less == OpToRel(<, Nat)
           Others == Nat \ S
<1>1. IsWellFoundedOn(Less, Nat)
  BY NatLessThanWellFounded
<1>2. \A m, n \in Nat : m < n => <<m, n>> \in Less
  BY DEF OpToRel
<1> HIDE DEF Less
<1>3. SUFFICES ASSUME Others # {}
               PROVE  FALSE
  OBVIOUS
<1>4. Others \subseteq Nat
  OBVIOUS
<1> HIDE DEF Others
<1>5. PICK n \in Others : \A m \in Others : <<m, n>> \notin Less
  BY <1>1, <1>3, <1>4, WFMin
<1>6. n \in Nat /\ n # 0 /\ n \notin S
  BY <1>5 DEF Others
<1>7. n - 1 \in Nat /\ n - 1 < n /\ (n - 1) + 1 = n
  BY <1>6
<1>8. n - 1 \in S
  BY <1>2, <1>5, <1>6, <1>7 DEF Others
<1> QED BY <1>6, <1>7, <1>8

\* The same from one number up to another.
LEMMA NumbersUpTo ==
  ASSUME NEW m \in Nat, NEW n \in Nat, NEW S, m \in S,
         \A k \in m .. n - 1 : k \in S => k + 1 \in S
  PROVE  \A k \in m .. n : k \in S
<1> DEFINE Steps == {k \in Nat : m + k <= n => m + k \in S}
<1>1. 0 \in Steps
  OBVIOUS
<1>2. ASSUME NEW k \in Nat, k \in Steps
      PROVE  k + 1 \in Steps
  <2>1. CASE m + k + 1 <= n
    <3>1. m + k \in m .. n - 1 /\ m + k \in S
      BY <1>2, <2>1
    <3>2. m + k + 1 \in S /\ m + k + 1 = m + (k + 1)
      BY <3>1
    <3> QED BY <3>2
  <2>2. CASE ~(m + k + 1 <= n)
    BY <2>2
  <2> QED BY <2>1, <2>2
<1> HIDE DEF Steps
<1>3. \A k \in Nat : k \in Steps
  BY <1>1, <1>2, AllNumbers
<1>4. ASSUME NEW k \in m .. n
      PROVE  k \in S
  <2>1. k - m \in Nat /\ m + (k - m) = k
    OBVIOUS
  <2>2. k - m \in Steps
    BY <1>3, <2>1
  <2> QED BY <2>1, <2>2 DEF Steps
<1> QED BY <1>4

-----------------------------------------------------------------------------
(* Numbers as bytes.                                                       *)

\* An integer has a quotient and a remainder byte.
LEMMA QuotientAndByte ==
  ASSUME NEW n \in Int
  PROVE  \E q, r \in Int : /\ q = n \div 256 /\ r = n % 256
                           /\ n = 256 * q + r /\ 0 <= r /\ r <= 255
<1>1. PICK q \in Int : q = n \div 256
  OBVIOUS
<1>2. n % 256 = n - 256 * q /\ n % 256 >= 0 /\ n % 256 <= 255 /\ n % 256 \in Int
  BY <1>1
<1> QED BY <1>1, <1>2

\* A remainder is recognised by its range.
LEMMA Remainder ==
  ASSUME NEW n \in Int, NEW q \in Int, NEW r \in Int,
         0 <= r, r <= 65535, n = 65536 * q + r
  PROVE  n % 65536 = r
OBVIOUS

\* Two bytes keep a number modulo 2^16.
LEMMA TwoBytesWrap ==
  ASSUME NEW n \in Int, NEW word, word = n % 65536
  PROVE  High(n) \in Byte /\ Low(n) \in Byte /\ High(n) * 256 + Low(n) = word
<1>1. PICK q, r \in Int : /\ q = n \div 256 /\ r = n % 256
                          /\ n = 256 * q + r /\ 0 <= r /\ r <= 255
  BY QuotientAndByte
<1>2. PICK p, s \in Int : s = q % 256 /\ q = 256 * p + s /\ 0 <= s /\ s <= 255
  BY QuotientAndByte
<1>3. /\ s * 256 + r \in Int /\ 0 <= s * 256 + r /\ s * 256 + r <= 65535
      /\ n = 65536 * p + (s * 256 + r)
  BY <1>1, <1>2
<1>4. n % 65536 = s * 256 + r
  BY <1>3, Remainder
<1>5. High(n) = s /\ Low(n) = r
  BY <1>1, <1>2 DEF High, Low
<1>6. s \in Byte /\ r \in Byte
  BY <1>1, <1>2 DEF Byte
<1> QED BY <1>4, <1>5, <1>6

\* Exactly the numbers of 16 bits are their own remainders.
LEMMA WordsWrapNothing ==
  ASSUME NEW n \in Int
  PROVE  n % 65536 = n <=> 0 <= n /\ n <= 65535
<1>1. ASSUME 0 <= n, n <= 65535
      PROVE  n % 65536 = n
  BY <1>1, n = 65536 * 0 + n, Remainder
<1>2. n % 65536 >= 0 /\ n % 65536 <= 65535
  OBVIOUS
<1> QED BY <1>1, <1>2

\* The code of an attack.
LEMMA AttackCode == ProtocolCommand.ATTACK = 9
BY DEF ProtocolCommand

\* What a read returns begins with the bytes of a message; others may follow.
Begins(message, front) ==
    /\ message \in Seq(Byte) /\ front \in Seq(Byte) /\ Len(front) <= Len(message)
    /\ \A i \in 1 .. Len(front) : message[i] = front[i]

\* A move of the newer format is read as it was sent, also when a read joins
\* the next message to it (movementprotocol.cpp:24).
THEOREM MoveIsRead ==
  ASSUME NEW x \in Word, NEW y \in Word, NEW command \in Byte,
         NEW message, Begins(message, <<command, High(x), Low(x), High(y), Low(y)>>)
  PROVE  extractMovementData(message) = <<x, y>> /\ Len(message) # 3
<1>1. /\ High(x) \in Byte /\ Low(x) \in Byte /\ High(x) * 256 + Low(x) = x
      /\ High(y) \in Byte /\ Low(y) \in Byte /\ High(y) * 256 + Low(y) = y
  <2>1. x \in Int /\ y \in Int /\ x % 65536 = x /\ y % 65536 = y
    BY WordsWrapNothing DEF Word
  <2> QED BY <2>1, TwoBytesWrap
<1>2. /\ message[2] = High(x) /\ message[3] = Low(x)
      /\ message[4] = High(y) /\ message[5] = Low(y)
  BY <1>1 DEF Begins
<1>3. Len(message) # 3 /\ Len(message) >= 5
  BY <1>1 DEF Begins
<1>4. uint16(message, 1) = x /\ uint16(message, 3) = y
  BY <1>1, <1>2 DEF uint16
<1> QED BY <1>3, <1>4 DEF extractMovementData

\* The attacker of an attack is the player's id modulo 2^16: the comparison with
\* the id of the session fails for every larger id (attackprotocol.cpp:22,
\* sessionattack.cpp:17).
THEOREM AttackerIsRead ==
  ASSUME NEW attacker \in Int, NEW target \in Int, NEW type \in Byte,
         NEW message, Begins(message, createAttackMessage(attacker, target, type))
  PROVE  /\ extractAttackData(message) = <<attacker % 65536, target % 65536, type>>
         /\ attacker % 65536 = attacker <=> 0 <= attacker /\ attacker <= 65535
<1>1. PICK a, b : a = attacker % 65536 /\ b = target % 65536
  OBVIOUS
<1>2. /\ High(attacker) \in Byte /\ Low(attacker) \in Byte
      /\ High(attacker) * 256 + Low(attacker) = a
      /\ High(target) \in Byte /\ Low(target) \in Byte
      /\ High(target) * 256 + Low(target) = b
  BY <1>1, TwoBytesWrap
<1>3. PICK c \in Byte : c = ProtocolCommand.ATTACK
  BY AttackCode, 9 \in Byte DEF Byte
<1>4. Begins(message, <<c, High(attacker), Low(attacker), High(target), Low(target), type>>)
  BY <1>3 DEF createAttackMessage
<1>5. /\ message[2] = High(attacker) /\ message[3] = Low(attacker)
      /\ message[4] = High(target) /\ message[5] = Low(target)
      /\ message[6] = type
  BY <1>2, <1>3, <1>4 DEF Begins
<1>6. ~(Len(message) < 6)
  BY <1>4 DEF Begins
<1>7. uint16(message, 1) = a /\ uint16(message, 3) = b
  BY <1>2, <1>5 DEF uint16
<1>8. extractAttackData(message) = <<a, b, type>>
  BY <1>5, <1>6, <1>7 DEF extractAttackData
<1>9. attacker % 65536 = attacker <=> 0 <= attacker /\ attacker <= 65535
  BY WordsWrapNothing
<1> QED BY <1>1, <1>8, <1>9

\* A concatenation has the items of both.
LEMMA Concatenation ==
  ASSUME NEW S, NEW s \in Seq(S), NEW u \in Seq(S)
  PROVE  /\ s \o u \in Seq(S) /\ Len(s \o u) = Len(s) + Len(u)
         /\ \A i \in 1 .. Len(s) : (s \o u)[i] = s[i]
         /\ \A i \in 1 .. Len(u) : (s \o u)[Len(s) + i] = u[i]
OBVIOUS

\* A text is read from any position of a message where it stands with a zero
\* behind it, whatever stands before and after.
LEMMA TextAt ==
  ASSUME NEW name \in Text, NEW message \in Seq(Byte), NEW start \in Nat,
         start + Len(name) < Len(message), message[start + Len(name) + 1] = 0,
         \A i \in 1 .. Len(name) : message[start + i] = name[i]
  PROVE  extractDataString(message, start) = name
<1> DEFINE n == Len(name)
<1>1. n \in Nat /\ name \in Seq(Byte) /\ \A i \in 1 .. n : name[i] # 0
  BY DEF Text, Byte
<1>2. Len(message) \in Nat /\ start + n < Len(message) /\ ~(start >= Len(message))
  BY <1>1
<1> DEFINE Ends(k) == start + k = Len(message) \/ message[start + k + 1] = 0
           Chosen(m) == Ends(m) /\ \A k \in 0 .. m - 1 : ~Ends(k)
<1>3. Ends(n)
  OBVIOUS
<1>4. ASSUME NEW k \in 0 .. n - 1
      PROVE  ~Ends(k)
  <2>1. k + 1 \in 1 .. n /\ start + (k + 1) = start + k + 1 /\ start + k # Len(message)
    BY <1>1, <1>2
  <2>2. message[start + k + 1] = name[k + 1]
    BY <2>1
  <2> QED BY <1>1, <2>1, <2>2
<1> HIDE DEF Ends
<1>5. Chosen(n)
  BY <1>3, <1>4
<1>6. ASSUME NEW m \in Nat, Chosen(m)
      PROVE  m = n
  <2>1. CASE m < n
    BY <1>1, <1>4, <1>6, <2>1
  <2>2. CASE n < m
    BY <1>1, <1>3, <1>6, <2>2
  <2> QED BY <1>1, <2>1, <2>2
<1>7. (CHOOSE m \in 0 .. Len(message) - start : Chosen(m)) = n
  <2>1. n \in 0 .. Len(message) - start
    BY <1>1, <1>2
  <2>2. \A m \in 0 .. Len(message) - start : Chosen(m) => m = n
    BY <1>2, <1>6
  <2> HIDE DEF Chosen
  <2> QED BY <1>5, <2>1, <2>2
<1>8. extractDataString(message, start) = SubSeq(message, start + 1, start + n)
  <2>1. extractDataString(message, start)
          = SubSeq(message, start + 1,
                   start + (CHOOSE m \in 0 .. Len(message) - start : Chosen(m)))
    BY <1>2 DEF extractDataString, Ends
  <2> HIDE DEF Chosen
  <2> QED BY <1>7, <2>1, Zenon
<1>9. SubSeq(message, start + 1, start + n) = name
  <2>1. /\ SubSeq(message, start + 1, start + n) \in Seq(Byte)
        /\ Len(SubSeq(message, start + 1, start + n)) = n
        /\ \A i \in 1 .. n : SubSeq(message, start + 1, start + n)[i] = message[start + i]
    BY <1>1, <1>2
  <2> QED BY <1>1, <2>1
<1> QED BY <1>8, <1>9

\* Putting bytes behind others.
LEMMA BeginsWithFront ==
  ASSUME NEW front \in Seq(Byte), NEW back \in Seq(Byte)
  PROVE  Begins(front \o back, front)
<1>1. /\ front \o back \in Seq(Byte) /\ Len(front \o back) = Len(front) + Len(back)
      /\ \A i \in 1 .. Len(front) : (front \o back)[i] = front[i]
  BY Concatenation
<1>2. Len(front) \in Nat /\ Len(back) \in Nat
  OBVIOUS
<1> QED BY <1>1, <1>2 DEF Begins

\* What begins with a longer front begins with a shorter.
LEMMA BeginsShorter ==
  ASSUME NEW message, NEW front, NEW shorter, Begins(message, front), Begins(front, shorter)
  PROVE  Begins(message, shorter)
BY DEF Begins

\* The items of a part of a sequence.
LEMMA PartItems ==
  ASSUME NEW all \in Seq(Byte), NEW begin \in Nat, NEW stop \in Nat, begin <= stop,
         stop <= Len(all)
  PROVE  /\ SubSeq(all, begin + 1, stop) \in Seq(Byte)
         /\ Len(SubSeq(all, begin + 1, stop)) = stop - begin
         /\ \A k \in 1 .. stop - begin : SubSeq(all, begin + 1, stop)[k] = all[begin + k]
<1>1. \A k \in begin + 1 .. stop : all[k] \in Byte
  OBVIOUS
<1>2. PICK part : part = SubSeq(all, begin + 1, stop)
  OBVIOUS
<1>3. /\ part \in Seq(Byte)
      /\ Len(part) = IF begin + 1 <= stop THEN stop - (begin + 1) + 1 ELSE 0
      /\ \A k \in 1 .. stop - (begin + 1) + 1 : part[k] = all[(begin + 1) + k - 1]
  BY <1>1, <1>2, SubSeqProperties
<1>4. Len(part) = stop - begin
  BY <1>3
<1>5. ASSUME NEW k \in 1 .. stop - begin
      PROVE  part[k] = all[begin + k]
  <2>1. k \in 1 .. stop - (begin + 1) + 1 /\ (begin + 1) + k - 1 = begin + k
    OBVIOUS
  <2> QED BY <1>3, <2>1
<1> QED BY <1>2, <1>3, <1>4, <1>5

\* A front and what follows it, and what lies behind the first begin bytes, up to stop.
IsConcatenation(whole, front, bytes) == whole = front \o bytes
IsPart(part, all, begin, stop) == part = SubSeq(all, begin + 1, stop)

\* The bytes stand behind the first begin of all, and end with number end.
Placed(bytes, all, begin, end) ==
    /\ begin \in Nat /\ end = begin + Len(bytes) /\ end <= Len(all)
    /\ \A k \in 1 .. Len(bytes) : all[begin + k] = bytes[k]

\* What follows a front stands behind it.
LEMMA BehindFront ==
  ASSUME NEW all \in Seq(Byte), NEW front \in Seq(Byte), NEW bytes \in Seq(Byte),
         NEW whole, IsConcatenation(whole, front, bytes), Begins(all, whole)
  PROVE  Placed(bytes, all, Len(front), Len(whole))
<1>1. PICK begin, length \in Nat : begin = Len(front) /\ length = Len(bytes)
  OBVIOUS
<1>2. Len(whole) = begin + length /\ \A k \in 1 .. length : whole[begin + k] = bytes[k]
  BY <1>1, Concatenation DEF IsConcatenation
<1>3. begin + length <= Len(all) /\ \A k \in 1 .. begin + length : all[k] = whole[k]
  BY <1>2 DEF Begins
<1>4. ASSUME NEW k \in 1 .. length
      PROVE  all[begin + k] = bytes[k]
  <2>1. begin + k \in 1 .. begin + length
    OBVIOUS
  <2>2. all[begin + k] = whole[begin + k]
    BY <1>3, <2>1, Zenon
  <2> QED BY <1>2, <2>2, Zenon
<1> QED BY <1>1, <1>2, <1>3, <1>4 DEF Placed

\* A part that begins where bytes stand begins with them.
LEMMA PartBegins ==
  ASSUME NEW all \in Seq(Byte), NEW bytes \in Seq(Byte), NEW begin, NEW end,
         Placed(bytes, all, begin, end),
         NEW stop \in Nat, end <= stop, stop <= Len(all),
         NEW part, IsPart(part, all, begin, stop)
  PROVE  Begins(part, bytes) /\ (stop = end => part = bytes)
<1>1. PICK length \in Nat : length = Len(bytes)
  OBVIOUS
<1>2. begin \in Nat /\ end = begin + length /\ \A k \in 1 .. length : all[begin + k] = bytes[k]
  BY <1>1 DEF Placed
<1>3. begin <= stop
  BY <1>2
<1>4. /\ part \in Seq(Byte) /\ Len(part) = stop - begin
      /\ \A k \in 1 .. stop - begin : part[k] = all[begin + k]
  BY <1>2, <1>3, PartItems DEF IsPart
<1>5. ASSUME NEW k \in 1 .. length
      PROVE  part[k] = bytes[k]
  <2>1. k \in 1 .. stop - begin
    BY <1>2
  <2>2. part[k] = all[begin + k]
    BY <1>4, <2>1, Zenon
  <2> QED BY <1>2, <2>2, Zenon
<1>6. Begins(part, bytes)
  <2>1. length <= Len(part)
    BY <1>2, <1>4
  <2> QED BY <1>1, <1>4, <1>5, <2>1 DEF Begins
<1>7. ASSUME stop = end
      PROVE  part = bytes
  <2>1. Len(part) = length
    BY <1>2, <1>4, <1>7
  <2> QED BY <1>1, <1>4, <1>5, <2>1
<1> QED BY <1>6, <1>7

\* A name or a password is read as it was sent, whatever stands before it and
\* whatever follows its zero in the same read (loginprotocol.cpp:47,
\* characterprotocol.cpp:91).
THEOREM TextIsRead ==
  ASSUME NEW name \in Text, NEW head \in Seq(Byte), NEW message,
         Begins(message, (head \o name) \o << 0 >>)
  PROVE  extractDataString(message, Len(head)) = name
<1>1. name \in Seq(Byte) /\ Len(name) \in Nat /\ Len(head) \in Nat /\ message \in Seq(Byte)
  BY DEF Text, Byte, Begins
<1>2. PICK front : front = head \o name
  OBVIOUS
<1>3. PICK zero : zero = << 0 >> /\ zero \in Seq(Byte) /\ Len(zero) = 1 /\ zero[1] = 0
  <2>1. << 0 >> \in Seq(Byte) /\ Len(<< 0 >>) = 1 /\ << 0 >>[1] = 0
    BY DEF Byte
  <2> QED BY <2>1, Zenon
<1>4. /\ front \in Seq(Byte) /\ Len(front) = Len(head) + Len(name)
      /\ \A i \in 1 .. Len(name) : front[Len(head) + i] = name[i]
  BY <1>1, <1>2, Concatenation
<1>5. PICK all : all = front \o zero
  OBVIOUS
<1>6. /\ all \in Seq(Byte) /\ Len(all) = Len(front) + 1
      /\ \A i \in 1 .. Len(front) : all[i] = front[i]
      /\ all[Len(front) + 1] = 0
  BY <1>3, <1>4, <1>5, Concatenation
<1>7. Begins(message, all)
  BY <1>2, <1>3, <1>5, Zenon
<1>8. Len(all) <= Len(message) /\ \A i \in 1 .. Len(all) : message[i] = all[i]
  BY <1>7 DEF Begins
<1>9. Len(head) + Len(name) < Len(message) /\ message[Len(head) + Len(name) + 1] = 0
  BY <1>1, <1>4, <1>6, <1>8
<1>10. ASSUME NEW i \in 1 .. Len(name)
       PROVE  message[Len(head) + i] = name[i]
  <2>1. Len(head) + i \in 1 .. Len(front) /\ Len(head) + i \in 1 .. Len(all)
    BY <1>1, <1>4, <1>6
  <2> QED BY <1>4, <1>6, <1>8, <2>1
<1> QED BY <1>1, <1>9, <1>10, TextAt

\* The name of a selected character is read as it was sent
\* (characterprotocol.cpp:35).
THEOREM SelectionIsRead ==
  ASSUME NEW code \in Byte, NEW name \in Text,
         NEW message, Begins(message, (<<code>> \o name) \o << 0 >>)
  PROVE  message[1] = code /\ extractDataString(message, 1) = name
<1>1. PICK head \in Seq(Byte) : head = <<code>> /\ Len(head) = 1 /\ head[1] = code
  <2>1. <<code>> \in Seq(Byte) /\ Len(<<code>>) = 1 /\ <<code>>[1] = code
    OBVIOUS
  <2> QED BY <2>1, Zenon
<1>2. name \in Seq(Byte) /\ << 0 >> \in Seq(Byte)
  BY DEF Text, Byte
<1>3. Begins(head \o name, head) /\ head \o name \in Seq(Byte)
  BY <1>2, BeginsWithFront
<1>4. Begins((head \o name) \o << 0 >>, head \o name)
  BY <1>2, <1>3, BeginsWithFront
<1>5. Begins(message, head)
  BY <1>1, <1>3, <1>4, BeginsShorter
<1>6. message[1] = code
  BY <1>1, <1>5 DEF Begins
<1>7. extractDataString(message, Len(head)) = name
  BY <1>1, TextIsRead
<1> QED BY <1>1, <1>6, <1>7

\* Username and password of a login, or name and vocation of a new character, are
\* read as they were sent (loginprotocol.cpp:14-15, characterprotocol.cpp:55-57).
THEOREM TwoTextsAreRead ==
  ASSUME NEW code \in Byte, NEW first \in Text, NEW second \in Text, NEW message,
         Begins(message, (((<<code>> \o first) \o << 0 >>) \o second) \o << 0 >>)
  PROVE  /\ message[1] = code
         /\ extractDataString(message, 1) = first
         /\ extractDataString(message, Len(first) + 2) = second
<1>1. first \in Seq(Byte) /\ second \in Seq(Byte) /\ << 0 >> \in Seq(Byte) /\ Len(<< 0 >>) = 1
      /\ <<code>> \in Seq(Byte) /\ Len(<<code>>) = 1 /\ Len(first) \in Nat
  BY DEF Text, Byte
<1>2. PICK start : start = <<code>> \o first
  OBVIOUS
<1>3. start \in Seq(Byte) /\ Len(start) = Len(first) + 1
  BY <1>1, <1>2, Concatenation
<1>4. PICK head : head = start \o << 0 >>
  OBVIOUS
<1>5. head \in Seq(Byte) /\ Len(head) = Len(first) + 2
  BY <1>1, <1>3, <1>4, Concatenation
<1>6. PICK longer : longer = head \o second
  OBVIOUS
<1>7. longer \in Seq(Byte) /\ Begins(longer, head)
  BY <1>1, <1>5, <1>6, BeginsWithFront DEF Begins
<1>8. Begins(longer \o << 0 >>, longer)
  BY <1>1, <1>7, BeginsWithFront
<1>9. Begins(message, longer \o << 0 >>)
  BY <1>2, <1>4, <1>6, Zenon
<1>10. Begins(message, head)
  BY <1>7, <1>8, <1>9, BeginsShorter
<1>11. message[1] = code /\ extractDataString(message, 1) = first
  BY <1>2, <1>4, <1>10, SelectionIsRead
<1>12. extractDataString(message, Len(head)) = second
  BY <1>5, <1>6, <1>9, TextIsRead
<1> QED BY <1>5, <1>11, <1>12

\* A message is made of a front and of what was joined to it.
IsMade(message, front, joined) ==
    /\ Begins(message, front) /\ joined \in Seq(Byte)
    /\ Len(message) = Len(front) + Len(joined)
    /\ \A k \in 1 .. Len(joined) : message[Len(front) + k] = joined[k]

\* A part that begins where bytes stand is made of them and of what stands behind
\* them.
LEMMA PartIsMade ==
  ASSUME NEW all \in Seq(Byte), NEW bytes \in Seq(Byte), NEW begin, NEW end,
         Placed(bytes, all, begin, end),
         NEW stop \in Nat, end <= stop, stop <= Len(all),
         NEW part, IsPart(part, all, begin, stop),
         NEW joined, IsPart(joined, all, end, stop)
  PROVE  IsMade(part, bytes, joined)
<1>1. Begins(part, bytes)
  BY PartBegins
<1>2. PICK length \in Nat : length = Len(bytes)
  OBVIOUS
<1>3. begin \in Nat /\ end = begin + length
  BY <1>2 DEF Placed
<1>4. /\ Len(part) = stop - begin
      /\ \A k \in 1 .. stop - begin : part[k] = all[begin + k]
  <2>1. begin <= stop
    BY <1>3
  <2> QED BY <1>3, <2>1, PartItems DEF IsPart
<1>5. /\ joined \in Seq(Byte) /\ Len(joined) = stop - end
      /\ \A k \in 1 .. stop - end : joined[k] = all[end + k]
  <2>1. end \in Nat
    BY <1>3
  <2> QED BY <2>1, PartItems DEF IsPart
<1>6. Len(part) = length + Len(joined)
  BY <1>3, <1>4, <1>5
<1>7. ASSUME NEW k \in 1 .. stop - end
      PROVE  part[length + k] = joined[k]
  <2>1. length + k \in 1 .. stop - begin /\ begin + (length + k) = end + k
    BY <1>3
  <2>2. part[length + k] = all[begin + (length + k)]
    BY <1>4, <2>1, Zenon
  <2> QED BY <1>5, <2>1, <2>2
<1> QED BY <1>1, <1>2, <1>5, <1>6, <1>7 DEF IsMade

\* A move of the older format is read as it was sent when it is alone in its read.
\* One byte joined to it makes it unreadable; two or more make it the beginning of a
\* move of the newer format (movementprotocol.cpp:19-24).
THEOREM StepIsRead ==
  ASSUME NEW x \in SignedByte, NEW y \in SignedByte, NEW command \in Byte,
         NEW message, NEW joined, IsMade(message, <<command, Low(x), Low(y)>>, joined)
  PROVE  extractMovementData(message) =
            IF joined = <<>> THEN <<x, y>>
            ELSE IF Len(joined) = 1 THEN Malformed
            ELSE <<256 * Low(x) + Low(y), 256 * joined[1] + joined[2]>>
<1>1. ASSUME NEW n \in SignedByte, NEW byte, byte = Low(n)
      PROVE  (IF byte < 128 THEN byte ELSE byte - 256) = n
  <2>1. PICK q, r \in Int : /\ q = n \div 256 /\ r = n % 256
                            /\ n = 256 * q + r /\ 0 <= r /\ r <= 255
    BY QuotientAndByte DEF SignedByte
  <2>2. byte = r
    BY <1>1, <2>1 DEF Low
  <2> QED BY <2>1, <2>2 DEF SignedByte
<1>2. PICK a, b : a = Low(x) /\ b = Low(y) /\ a \in 0 .. 255 /\ b \in 0 .. 255
  <2>1. Low(x) \in 0 .. 255 /\ Low(y) \in 0 .. 255
    <3>1. x \in Int /\ y \in Int
      BY DEF SignedByte
    <3>2. \A n \in Int : Low(n) \in Byte
      BY TwoBytesWrap
    <3>3. Low(x) \in Byte /\ Low(y) \in Byte
      BY <3>1, <3>2, Zenon
    <3> QED BY <3>3 DEF Byte
  <2> QED BY <2>1, Zenon
<1>3. PICK front : front = <<command, a, b>>
  OBVIOUS
<1>4. Len(front) = 3 /\ front[2] = a /\ front[3] = b
  BY <1>3
<1>5. IsMade(message, front, joined)
  BY <1>2, <1>3
<1>6. PICK length \in Nat : length = Len(joined)
  BY <1>5 DEF IsMade
<1>7. /\ Len(message) = 3 + length /\ message[2] = a /\ message[3] = b
      /\ \A k \in 1 .. length : message[3 + k] = joined[k]
  BY <1>4, <1>5, <1>6 DEF IsMade, Begins
<1>8. CASE length = 0
  <2>1. joined = <<>>
    BY <1>5, <1>6, <1>8, EmptySeq DEF IsMade
  <2>2. int8(message, 1) = x
    <3>1. (IF message[2] < 128 THEN message[2] ELSE message[2] - 256) = x
      BY <1>1, <1>2, <1>7
    <3> QED BY <3>1 DEF int8
  <2>3. int8(message, 2) = y
    <3>1. (IF message[3] < 128 THEN message[3] ELSE message[3] - 256) = y
      BY <1>1, <1>2, <1>7
    <3> QED BY <3>1 DEF int8
  <2>4. Len(message) = 3
    BY <1>7, <1>8
  <2> QED BY <2>1, <2>2, <2>3, <2>4 DEF extractMovementData
<1>9. CASE length # 0
  <2>1. joined # <<>>
    BY <1>6, <1>9
  <2>2. CASE length = 1
    <3>1. Len(message) = 4
      BY <1>7, <2>2
    <3> QED BY <1>6, <2>1, <2>2, <3>1 DEF extractMovementData
  <2>3. CASE length > 1
    <3>1. Len(message) >= 5 /\ Len(message) # 3 /\ length # 1
      BY <1>7, <2>3
    <3>2. message[4] = joined[1] /\ message[5] = joined[2]
      <4>1. 1 \in 1 .. length /\ 2 \in 1 .. length
        BY <2>3
      <4>2. message[3 + 1] = joined[1] /\ message[3 + 2] = joined[2]
        BY <1>7, <4>1, Zenon
      <4> QED BY <4>2
    <3>3. joined[1] \in Int /\ joined[2] \in Int
      <4>1. joined \in Seq(Byte) /\ 1 \in 1 .. Len(joined) /\ 2 \in 1 .. Len(joined)
        BY <1>5, <1>6, <2>3 DEF IsMade
      <4>2. joined[1] \in Byte /\ joined[2] \in Byte
        BY <4>1
      <4> QED BY <4>2 DEF Byte
    <3>4. uint16(message, 1) = 256 * a + b /\ uint16(message, 3) = 256 * joined[1] + joined[2]
      BY <1>2, <1>7, <3>2, <3>3 DEF uint16
    <3> QED BY <1>2, <1>6, <2>1, <3>1, <3>4 DEF extractMovementData
  <2> QED BY <1>9, <2>2, <2>3
<1> QED BY <1>8, <1>9

-----------------------------------------------------------------------------
(* What the encoders give: bytes, and at least one.                        *)

\* The bytes of a number.
LEMMA NumberBytes ==
  ASSUME NEW n \in Int
  PROVE  High(n) \in Byte /\ Low(n) \in Byte
BY TwoBytesWrap

LEMMA FourNumberBytes ==
  ASSUME NEW n \in Int
  PROVE  FourBytes(n) \in Seq(Byte)
<1>1. n \div 65536 \in Int
  OBVIOUS
<1>2. /\ High(n \div 65536) \in Byte /\ Low(n \div 65536) \in Byte
      /\ High(n) \in Byte /\ Low(n) \in Byte
  BY <1>1, NumberBytes
<1> QED BY <1>2 DEF FourBytes

\* Powers of two up to those of a float's mantissa.
LEMMA Powers ==
  /\ \A k \in 0 .. 23 : 2^k \in Nat
  /\ \A v \in Coordinate : v # 0 => \E k \in 0 .. 23 : 2^k <= v /\ v < 2^(k + 1)
<1> DEFINE P(k) == 2^k
<1>1. /\ P(0) = 1 /\ P(1) = 2 /\ P(2) = 4 /\ P(3) = 8 /\ P(4) = 16 /\ P(5) = 32
      /\ P(6) = 64 /\ P(7) = 128 /\ P(8) = 256 /\ P(9) = 512 /\ P(10) = 1024
      /\ P(11) = 2048 /\ P(12) = 4096 /\ P(13) = 8192 /\ P(14) = 16384 /\ P(15) = 32768
      /\ P(16) = 65536 /\ P(17) = 131072 /\ P(18) = 262144 /\ P(19) = 524288
      /\ P(20) = 1048576 /\ P(21) = 2097152 /\ P(22) = 4194304 /\ P(23) = 8388608
      /\ P(24) = 16777216
  OBVIOUS
<1> HIDE DEF P
<1>3. ASSUME NEW k \in 0 .. 23
      PROVE  P(k) \in Nat
  <2>1. \/ k = 0 \/ k = 1 \/ k = 2 \/ k = 3 \/ k = 4 \/ k = 5 \/ k = 6 \/ k = 7
        \/ k = 8 \/ k = 9 \/ k = 10 \/ k = 11 \/ k = 12 \/ k = 13 \/ k = 14 \/ k = 15
        \/ k = 16 \/ k = 17 \/ k = 18 \/ k = 19 \/ k = 20 \/ k = 21 \/ k = 22 \/ k = 23
    OBVIOUS
  <2> QED BY <1>1, <2>1
<1>4. ASSUME NEW v \in Coordinate, v # 0
      PROVE  \E k \in 0 .. 23 : P(k) <= v /\ v < P(k + 1)
  <2>1. v \in Nat /\ v >= 1 /\ v < P(24)
    BY <1>1, <1>4 DEF Coordinate
  <2>2. SUFFICES ASSUME \A k \in 0 .. 23 : P(k) <= v => P(k + 1) <= v
                 PROVE  FALSE
    <3>1. \A k \in 0 .. 23 : P(k + 1) \in Nat
      BY <1>1, <1>3
    <3> QED BY <2>1, <3>1
  <2>3. \A k \in 0 .. 23 : P(k) <= v => P(k + 1) <= v
    BY <2>2
  <2>4. P(8) <= v
    BY <1>1, <2>1, <2>3
  <2>5. P(16) <= v
    BY <2>3, <2>4
  <2> QED BY <2>1, <2>3, <2>5, <1>1
<1> QED BY <1>3, <1>4 DEF P

\* Every coordinate of a map has a float.
LEMMA FloatBytes ==
  ASSUME NEW v \in Coordinate
  PROVE  Float(v) \in Seq(Byte)
<1> DEFINE e    == CHOOSE k \in 0 .. 23 : 2^k <= v /\ v < 2^(k + 1)
           bits == IF v = 0 THEN 0 ELSE (127 + e) * 2^23 + (v - 2^e) * 2^(23 - e)
           b    == FourBytes(bits)
<1>1. v \in Nat
  BY DEF Coordinate
<1>2. v # 0 => e \in 0 .. 23
  BY <1>1, Powers
<1> HIDE DEF e
<1>3. bits \in Int
  <2>1. v # 0 => 2^e \in Nat /\ 2^(23 - e) \in Nat /\ 2^23 \in Nat
    <3>1. v # 0 => e \in 0 .. 23 /\ 23 - e \in 0 .. 23 /\ 23 \in 0 .. 23
      BY <1>2
    <3> QED BY <3>1, Powers, Zenon
  <2> QED BY <1>1, <1>2, <2>1
<1>4. Float(v) = <<b[4], b[3], b[2], b[1]>>
  BY DEF Float, e
<1> HIDE DEF bits
<1>5. /\ b[1] \in Byte /\ b[2] \in Byte /\ b[3] \in Byte /\ b[4] \in Byte
  <2>1. bits \div 65536 \in Int
    BY <1>3
  <2>2. /\ High(bits \div 65536) \in Byte /\ Low(bits \div 65536) \in Byte
        /\ High(bits) \in Byte /\ Low(bits) \in Byte
    BY <1>3, <2>1, NumberBytes
  <2> QED BY <2>2 DEF FourBytes
<1> QED BY <1>4, <1>5

\* Texts are bytes.
LEMMA TextBytes ==
  ASSUME NEW text \in Text
  PROVE  text \in Seq(Byte)
BY DEF Text, Byte

\* Texts in a message.
LEMMA TextMessageBytes ==
  ASSUME NEW code \in Byte, NEW text \in Text, NEW other \in Text
  PROVE  /\ (<<code>> \o text) \o << 0 >> \in Seq(Byte) \ {<<>>}
         /\ (((<<code>> \o text) \o << 0 >>) \o other) \o << 0 >> \in Seq(Byte) \ {<<>>}
<1>1. <<code>> \in Seq(Byte) /\ << 0 >> \in Seq(Byte) /\ Len(<<code>>) = 1
  BY DEF Byte
<1>2. PICK one : one = <<code>> \o text
  OBVIOUS
<1>3. one \in Seq(Byte) /\ Len(one) \in Nat \ {0}
  BY <1>1, <1>2, TextBytes
<1>4. PICK two : two = one \o << 0 >>
  OBVIOUS
<1>5. two \in Seq(Byte) /\ Len(two) \in Nat \ {0}
  BY <1>1, <1>3, <1>4
<1>6. PICK three : three = two \o other
  OBVIOUS
<1>7. three \in Seq(Byte) /\ Len(three) \in Nat \ {0}
  BY <1>5, <1>6, TextBytes
<1>8. three \o << 0 >> \in Seq(Byte) /\ Len(three \o << 0 >>) \in Nat \ {0}
  BY <1>1, <1>7
<1>9. (<<code>> \o text) \o << 0 >> \in Seq(Byte) \ {<<>>}
  BY <1>2, <1>4, <1>5
<1>10. three \o << 0 >> \in Seq(Byte) \ {<<>>}
  BY <1>8
<1> QED BY <1>2, <1>4, <1>6, <1>9, <1>10

\* The bytes of the answers and of what other sessions send.
LEMMA AnswerBytes ==
  ASSUME NEW a \in Int, NEW b \in Int, NEW c \in Int, NEW d \in Int, NEW code \in Byte
  PROVE  /\ createLoginSuccess(a) \in Seq(Byte) \ {<<>>}
         /\ createLoginFailure(code) \in Seq(Byte) \ {<<>>}
         /\ createCharacterSelectionSuccess(a, b, c, d) \in Seq(Byte) \ {<<>>}
         /\ createCharacterSelectionFailure(code) \in Seq(Byte) \ {<<>>}
         /\ createCharacterCreationSuccess(a) \in Seq(Byte) \ {<<>>}
         /\ createCharacterCreationFailure(code) \in Seq(Byte) \ {<<>>}
         /\ createPositionUpdateMessage(a, b, c) \in Seq(Byte) \ {<<>>}
         /\ movementBlockedMessage \in Seq(Byte) \ {<<>>}
         /\ pongMessage \in Seq(Byte) \ {<<>>}
         /\ createAttackSuccess(a, b, c) \in Seq(Byte) \ {<<>>}
         /\ createAttackFailure(a, b) \in Seq(Byte) \ {<<>>}
<1>1. /\ High(a) \in Byte /\ Low(a) \in Byte /\ High(b) \in Byte /\ Low(b) \in Byte
      /\ High(c) \in Byte /\ Low(c) \in Byte /\ High(d) \in Byte /\ Low(d) \in Byte
  BY NumberBytes
<1>2. FourBytes(a) \in Seq(Byte)
  BY FourNumberBytes
<1>3. \A k \in 101 .. 112 : k \in Byte
  BY DEF Byte
<1>4. /\ createLoginSuccess(a) \in Seq(Byte) \ {<<>>}
      /\ createLoginFailure(code) \in Seq(Byte) \ {<<>>}
      /\ createCharacterSelectionFailure(code) \in Seq(Byte) \ {<<>>}
      /\ createCharacterCreationFailure(code) \in Seq(Byte) \ {<<>>}
  BY <1>1, <1>3 DEF createLoginSuccess, createLoginFailure, createCharacterSelectionFailure,
                    createCharacterCreationFailure, ProtocolCommand
<1>5. createPositionUpdateMessage(a, b, c) \in Seq(Byte) \ {<<>>}
  <2>1. 8 \in Byte
    BY DEF Byte
  <2> QED BY <1>1, <2>1 DEF createPositionUpdateMessage, ProtocolCommand
<1>6. /\ movementBlockedMessage \in Seq(Byte) \ {<<>>} /\ pongMessage \in Seq(Byte) \ {<<>>}
  BY <1>3 DEF movementBlockedMessage, pongMessage, ProtocolCommand
<1>7. /\ createAttackSuccess(a, b, c) \in Seq(Byte) \ {<<>>}
      /\ createAttackFailure(a, b) \in Seq(Byte) \ {<<>>}
  BY <1>1, <1>3 DEF createAttackSuccess, createAttackFailure, ProtocolCommand
<1>8. createCharacterCreationSuccess(a) \in Seq(Byte) \ {<<>>}
  <2>1. <<106>> \in Seq(Byte) /\ Len(<<106>>) = 1
    BY <1>3
  <2>2. <<106>> \o FourBytes(a) \in Seq(Byte) /\ Len(<<106>> \o FourBytes(a)) # 0
    BY <1>2, <2>1, Concatenation, Len(FourBytes(a)) \in Nat
  <2> QED BY <2>2 DEF createCharacterCreationSuccess, ProtocolCommand
<1>9. createCharacterSelectionSuccess(a, b, c, d) \in Seq(Byte) \ {<<>>}
  <2> DEFINE place == <<High(b), Low(b), High(c), Low(c), High(d), Low(d)>>
  <2>1. <<104>> \in Seq(Byte) /\ place \in Seq(Byte) /\ Len(place) = 6
    BY <1>1, <1>3
  <2>2. <<104>> \o FourBytes(a) \in Seq(Byte)
    BY <1>2, <2>1
  <2> HIDE DEF place
  <2>3. (<<104>> \o FourBytes(a)) \o place \in Seq(Byte)
        /\ Len((<<104>> \o FourBytes(a)) \o place) # 0
    BY <2>1, <2>2
  <2> QED BY <2>3 DEF createCharacterSelectionSuccess, ProtocolCommand, place
<1> QED BY <1>4, <1>5, <1>6, <1>7, <1>8, <1>9

\* Messages with coordinates as floats.
LEMMA FloatMessageBytes ==
  ASSUME NEW x \in Coordinate, NEW y \in Coordinate, NEW place, place = <<x, y>>,
         NEW id \in Int, NEW name \in Text, NEW state \in Byte
  PROVE  /\ movementConfirmedMessage(place) \in Seq(Byte) \ {<<>>}
         /\ createOtherPlayerInfoMessage(id, name, place, state) \in Seq(Byte) \ {<<>>}
<1>1. Floats(place) \in Seq(Byte)
  <2>1. 0 \in Coordinate
    BY DEF Coordinate
  <2>2. Float(x) \in Seq(Byte) /\ Float(y) \in Seq(Byte) /\ Float(0) \in Seq(Byte)
    BY <2>1, FloatBytes
  <2> QED BY <2>2 DEF Floats
<1>2. 108 \in Byte /\ 201 \in Byte /\ 0 \in Byte
  BY DEF Byte
<1>3. movementConfirmedMessage(place) \in Seq(Byte) \ {<<>>}
  <2>1. <<108>> \o Floats(place) \in Seq(Byte) /\ Len(<<108>> \o Floats(place)) # 0
    BY <1>1, <1>2
  <2> QED BY <2>1 DEF movementConfirmedMessage, ProtocolCommand
<1> DEFINE field == [i \in 1 .. 32 |-> IF i <= Len(name) THEN name[i] ELSE 0]
<1>4. field \in Seq(Byte)
  <2>1. \A i \in 1 .. 32 : field[i] \in Byte
    BY <1>2 DEF Text
  <2> QED BY <2>1
<1>5. createOtherPlayerInfoMessage(id, name, place, state) \in Seq(Byte) \ {<<>>}
  <2> DEFINE front == <<201>> \o FourBytes(id)
  <2>1. front \in Seq(Byte) /\ Len(front) \in Nat \ {0}
    <3>1. FourBytes(id) \in Seq(Byte)
      BY FourNumberBytes
    <3> QED BY <1>2, <3>1
  <2> HIDE DEF front, field
  <2>2. front \o field \in Seq(Byte) /\ Len(front \o field) \in Nat \ {0}
    BY <1>4, <2>1
  <2>3. (front \o field) \o Floats(place) \in Seq(Byte)
        /\ Len((front \o field) \o Floats(place)) \in Nat \ {0}
    BY <1>1, <2>2
  <2>4. ((front \o field) \o Floats(place)) \o <<state>> \in Seq(Byte)
        /\ Len(((front \o field) \o Floats(place)) \o <<state>>) # 0
    BY <2>3
  <2> QED BY <2>4 DEF createOtherPlayerInfoMessage, ProtocolCommand, front, field
<1> QED BY <1>3, <1>5

\* f[m] is what the items from + 1 .. m, one after the other, make of f[from].
Joins(f, item, from, n) == \A m \in from + 1 .. n : f[m] = f[m - 1] \o item[m]

AllIn(S, item, from, n) == \A m \in from + 1 .. n : item[m] \in Seq(S)

AtLeast(length, f, from, n) == \A m \in from .. n : Len(f[m]) >= length

\* There is such an f.
LEMMA Concatenations ==
  ASSUME NEW S, NEW from \in Nat, NEW n \in Nat, from <= n, NEW first \in Seq(S),
         NEW item, AllIn(S, item, from, n)
  PROVE  \E f \in [from .. n -> Seq(S)] :
            f[from] = first /\ Joins(f, item, from, n) /\ AtLeast(Len(first), f, from, n)
<1> USE DEF Joins, AllIn, AtLeast
<1> DEFINE Upto(f, k) ==
              f[from] = first /\ Joins(f, item, from, k) /\ AtLeast(Len(first), f, from, k)
           Can == {k \in Nat : \E f \in [from .. k -> Seq(S)] : Upto(f, k)}
<1>1. from \in Can
  <2> DEFINE f == [m \in from .. from |-> first]
  <2>1. f \in [from .. from -> Seq(S)] /\ f[from] = first
    OBVIOUS
  <2> HIDE DEF f
  <2>2. Len(first) \in Nat
    OBVIOUS
  <2>3. Upto(f, from)
    <3>1. ASSUME NEW m \in from + 1 .. from
          PROVE  FALSE
      OBVIOUS
    <3>2. ASSUME NEW m \in from .. from
          PROVE  Len(f[m]) >= Len(first)
      <4>1. m = from
        OBVIOUS
      <4> QED BY <2>1, <2>2, <4>1
    <3> QED BY <2>1, <3>1, <3>2
  <2> QED BY <2>1, <2>3
<1>2. ASSUME NEW p \in from .. n - 1, p \in Can
      PROVE  p + 1 \in Can
  <2>1. PICK g \in [from .. p -> Seq(S)] : Upto(g, p)
    BY <1>2
  <2>2. p \in Nat /\ from <= p /\ p + 1 \in from + 1 .. n
    OBVIOUS
  <2>3. PICK next : next = g[p] \o item[p + 1]
    OBVIOUS
  <2>4. next \in Seq(S) /\ Len(next) >= Len(first)
    <3>1. g[p] \in Seq(S) /\ item[p + 1] \in Seq(S) /\ Len(g[p]) >= Len(first)
      BY <2>1, <2>2
    <3>2. next \in Seq(S) /\ Len(next) = Len(g[p]) + Len(item[p + 1])
      BY <2>3, <3>1, Concatenation
    <3>3. Len(g[p]) \in Nat /\ Len(item[p + 1]) \in Nat /\ Len(first) \in Nat
      BY <3>1
    <3> QED BY <3>1, <3>2, <3>3
  <2> DEFINE f == [m \in from .. p + 1 |-> IF m = p + 1 THEN next ELSE g[m]]
  <2>5. f[p + 1] = next /\ \A m \in from .. p : f[m] = g[m]
    BY <2>2
  <2>6. f \in [from .. p + 1 -> Seq(S)]
    BY <2>2, <2>4
  <2> HIDE DEF f
  <2>7. f[from] = first
    BY <2>1, <2>2, <2>5
  <2>8. ASSUME NEW m \in from + 1 .. p + 1
        PROVE  f[m] = f[m - 1] \o item[m]
    <3>1. CASE m = p + 1
      <4>1. m - 1 = p /\ f[p] = g[p]
        BY <2>2, <2>5, <3>1
      <4> QED BY <2>3, <2>5, <3>1, <4>1
    <3>2. CASE m # p + 1
      <4>1. m \in from + 1 .. p /\ m \in from .. p /\ m - 1 \in from .. p
        BY <2>2, <3>2
      <4>2. f[m] = g[m] /\ f[m - 1] = g[m - 1] /\ g[m] = g[m - 1] \o item[m]
        BY <2>1, <2>5, <4>1
      <4> QED BY <4>2
    <3> QED BY <3>1, <3>2
  <2>9. \A m \in from .. p + 1 : Len(f[m]) >= Len(first)
    BY <2>1, <2>2, <2>4, <2>5
  <2>10. Upto(f, p + 1)
    BY <2>7, <2>8, <2>9
  <2> HIDE DEF Upto
  <2> QED BY <2>2, <2>6, <2>10
<1>3. n \in Can
  <2> HIDE DEF Can
  <2>1. n \in from .. n
    OBVIOUS
  <2> QED BY <1>1, <1>2, <2>1, NumbersUpTo
<1> QED BY <1>3, Zenon

\* There is only one.
LEMMA SameConcatenations ==
  ASSUME NEW from \in Nat, NEW n \in Nat, from <= n, NEW item, NEW f, NEW g, f[from] = g[from],
         Joins(f, item, from, n), Joins(g, item, from, n)
  PROVE  f[n] = g[n]
<1> USE DEF Joins
<1> DEFINE Same == {m \in Nat : f[m] = g[m]}
<1>1. from \in Same
  OBVIOUS
<1>2. ASSUME NEW m \in from .. n - 1, m \in Same
      PROVE  m + 1 \in Same
  <2>1. m \in Nat /\ m + 1 \in from + 1 .. n /\ (m + 1) - 1 = m /\ f[m] = g[m]
    BY <1>2
  <2>2. f[m + 1] = f[m] \o item[m + 1] /\ g[m + 1] = g[m] \o item[m + 1]
    BY <2>1
  <2>3. f[m + 1] = g[m + 1]
    BY <2>1, <2>2, Zenon
  <2>4. m + 1 \in Nat
    BY <2>1
  <2> QED BY <2>3, <2>4
<1> HIDE DEF Same
<1>3. \A m \in from .. n : m \in Same
  BY <1>1, <1>2, NumbersUpTo
<1>4. n \in from .. n
  OBVIOUS
<1> QED BY <1>3, <1>4 DEF Same

\* One character of the list.
LEMMA EntryBytes ==
  ASSUME NEW c, c.id \in Int, c.level \in Int, c.name \in Text, c.vocation \in Text
  PROVE  FourBytes(c.id) \o c.name \o << 0 >> \o c.vocation \o << 0 >> \o FourBytes(c.level)
           \in Seq(Byte)
<1>1. PICK id, level : /\ id = FourBytes(c.id) /\ level = FourBytes(c.level)
                       /\ id \in Seq(Byte) /\ level \in Seq(Byte)
  BY FourNumberBytes
<1>2. PICK name, vocation : /\ name = c.name /\ vocation = c.vocation
                            /\ name \in Seq(Byte) /\ vocation \in Seq(Byte)
  BY TextBytes
<1>3. << 0 >> \in Seq(Byte)
  BY DEF Byte
<1>4. ((((id \o name) \o << 0 >>) \o vocation) \o << 0 >>) \o level \in Seq(Byte)
  BY <1>1, <1>2, <1>3
<1> QED BY <1>1, <1>2, <1>4

\* The list of characters, of any length.
LEMMA CharacterListBytes ==
  ASSUME NEW n \in Nat, NEW characters, Len(characters) = n,
         \A i \in 1 .. n : /\ characters[i].id \in Int /\ characters[i].level \in Int
                           /\ characters[i].name \in Text /\ characters[i].vocation \in Text
  PROVE  createCharacterList(characters) \in Seq(Byte) \ {<<>>}
<1> DEFINE Entry(c) == FourBytes(c.id) \o c.name \o << 0 >> \o c.vocation \o << 0 >>
                         \o FourBytes(c.level)
           Lists(front, f) == f = [m \in 0 .. n |->
                               IF m = 0 THEN front ELSE f[m - 1] \o Entry(characters[m])]
<1>1. PICK zero \in Nat : zero = 0
  OBVIOUS
<1>2. ASSUME NEW i \in 1 .. n
      PROVE  Entry(characters[i]) \in Seq(Byte)
  BY EntryBytes
<1>3. PICK front : /\ front = <<ProtocolCommand.CHARACTER_LIST, High(n), Low(n)>>
                   /\ front \in Seq(Byte) /\ Len(front) = 3
  <2>1. High(n) \in Byte /\ Low(n) \in Byte
    BY NumberBytes
  <2>2. ProtocolCommand.CHARACTER_LIST \in Byte
    BY DEF ProtocolCommand, Byte
  <2> DEFINE three == <<ProtocolCommand.CHARACTER_LIST, High(n), Low(n)>>
  <2>3. three \in Seq(Byte) /\ Len(three) = 3
    BY <2>1, <2>2
  <2> QED BY <2>3, Zenon
<1>4. createCharacterList(characters) = (CHOOSE f : Lists(front, f))[n]
  BY <1>3 DEF createCharacterList
<1> HIDE DEF Entry
<1>5. PICK item : \A m \in zero + 1 .. n :
                     item[m] \in Seq(Byte) /\ item[m] = Entry(characters[m])
  <2> DEFINE all == [m \in 1 .. n |-> Entry(characters[m])]
  <2>1. \A m \in zero + 1 .. n : all[m] \in Seq(Byte) /\ all[m] = Entry(characters[m])
    BY <1>1, <1>2
  <2> QED BY <2>1, Zenon
<1> HIDE DEF Lists
<1>6. PICK f \in [zero .. n -> Seq(Byte)] :
              /\ f[zero] = front /\ Joins(f, item, zero, n)
              /\ AtLeast(Len(front), f, zero, n)
  <2>1. zero <= n
    BY <1>1
  <2>2. AllIn(Byte, item, zero, n)
    BY <1>5 DEF AllIn
  <2>3. /\ zero \in Nat /\ n \in Nat /\ front \in Seq(Byte)
    BY <1>3
  <2> QED BY <2>1, <2>2, <2>3, Concatenations, Zenon
<1>7. Lists(front, f)
  <2>1. ASSUME NEW m \in 0 .. n
        PROVE  f[m] = IF m = 0 THEN front ELSE f[m - 1] \o Entry(characters[m])
    <3>1. CASE m = 0
      BY <1>1, <1>6, <3>1
    <3>2. CASE m # 0
      <4>1. m \in zero + 1 .. n
        BY <1>1, <3>2
      <4> QED BY <1>5, <1>6, <3>2, <4>1 DEF Joins
    <3> QED BY <3>1, <3>2
  <2> DEFINE F(m) == IF m = 0 THEN front ELSE f[m - 1] \o Entry(characters[m])
  <2>2. f = [m \in 0 .. n |-> f[m]]
    BY <1>1, <1>6
  <2>3. \A m \in 0 .. n : f[m] = F(m)
    BY <2>1
  <2> HIDE DEF F
  <2>4. f = [m \in 0 .. n |-> F(m)]
    BY <2>2, <2>3
  <2> QED BY <2>4, Zenon DEF F, Lists
<1>8. ASSUME NEW g, Lists(front, g)
      PROVE  g[n] = f[n]
  <2> DEFINE G(m) == IF m = 0 THEN front ELSE g[m - 1] \o Entry(characters[m])
  <2>1. g = [m \in 0 .. n |-> G(m)]
    BY <1>8, Zenon DEF Lists
  <2> HIDE DEF G
  <2>2. \A m \in 0 .. n : g[m] = G(m)
    BY <2>1
  <2>3. g[zero] = front
    <3>1. 0 \in 0 .. n
      OBVIOUS
    <3> QED BY <1>1, <2>2, <3>1 DEF G
  <2>4. ASSUME NEW m \in zero + 1 .. n
        PROVE  g[m] = g[m - 1] \o item[m]
    <3>1. m \in 0 .. n /\ m # 0
      BY <1>1
    <3> QED BY <1>5, <2>2, <3>1 DEF G
  <2>5. Joins(g, item, zero, n)
    BY <2>4 DEF Joins
  <2>6. g[zero] = f[zero] /\ zero <= n
    BY <1>1, <1>6, <2>3
  <2>7. Joins(f, item, zero, n)
    BY <1>6
  <2> QED BY <2>5, <2>6, <2>7, SameConcatenations
<1>9. createCharacterList(characters) = f[n]
  <2>1. Lists(front, CHOOSE g : Lists(front, g))
    BY <1>7
  <2> QED BY <1>4, <1>8, <2>1
<1>10. f[n] \in Seq(Byte) /\ Len(f[n]) # 0
  <2>1. n \in zero .. n
    BY <1>1
  <2>2. f[n] \in Seq(Byte) /\ Len(f[n]) >= 3
    BY <1>3, <1>6, <2>1 DEF AtLeast
  <2> QED BY <2>2
<1> QED BY <1>9, <1>10
=============================================================================
