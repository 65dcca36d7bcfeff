------------------------- MODULE SocketWritesProofs -------------------------
(***************************************************************************)
(* The writes of a socket implement MessageStream, whatever the messages,  *)
(* the room between server and client, and the steps' order.               *)
(***************************************************************************)
EXTENDS SocketWrites, SequenceTheorems, TLAPS

USE SocketWritesAssumption

Over(k) == writes[k].at = "over"

\* The sends that wait are waiting, each once.
InQueue(all, line) ==
    /\ \A i \in 1 .. Len(line) : all[line[i]].at = "queue"
    /\ \A i, j \in 1 .. Len(line) : i # j => line[i] # line[j]

\* Only a send that found too little room leaves a write under way.
Waiting ==
    /\ \A k \in 1 .. Len(writes) : ~Over(k) => filled
    /\ \A k \in 1 .. Len(writes) : writes[k].sent <= Len(writes[k].message)
    /\ InQueue(writes, queue)

\* The part is the one that the last of all writes has sent last.
AtLast(all, part) ==
    IF all = <<>> THEN part = Stream!NoPart
    ELSE LET k == Len(all) IN
         \/ part # Stream!NoPart /\ part.number = k /\ part.to = all[k].sent
         \/ /\ all[k].sent = 0
            /\ k = 1 => part = Stream!NoPart
            /\ k # 1 => /\ part # Stream!NoPart
                        /\ part.number = k - 1 /\ part.to = Len(all[k - 1].message)

\* All writes but the last are over, and those that are over are complete.
Ordered(all, part) ==
    /\ \A k \in 1 .. Len(all) : k # Len(all) => all[k].at = "over"
    /\ \A k \in 1 .. Len(all) : all[k].at = "over" => all[k].sent = Len(all[k].message)
    /\ AtLast(all, part)

\* The inductive invariant: in an open socket writes are in order until one is
\* started while another waits for room.
SocketInv ==
    /\ SocketTypeOK
    /\ Waiting
    /\ isOpen /\ ~(overlapped /\ filled) => Ordered(writes, last)

-----------------------------------------------------------------------------
\* A message has a first byte.
LEMMA MessageLength ==
    ASSUME NEW message \in Messages
    PROVE  Len(message) \in Nat \ {0}
BY EmptySeq DEF Messages

\* The fields of a write.
LEMMA WriteFields ==
    ASSUME NEW write \in Write
    PROVE  /\ write.message \in Messages /\ write.sent \in Nat
           /\ write.at \in {"queue", "handler", "over"}
           /\ Len(write.message) \in Nat \ {0}
BY MessageLength DEF Write

\* A write is replaced by one of the same message.
LEMMA Replaced ==
    ASSUME NEW all \in Seq(Write), NEW n \in 1 .. Len(all), NEW write \in Write,
           NEW new, new = [all EXCEPT ![n] = write]
    PROVE  /\ new \in Seq(Write) /\ Len(new) = Len(all)
           /\ \A k \in 1 .. Len(all) : new[k] = IF k = n THEN write ELSE all[k]
BY ExceptSeq

-----------------------------------------------------------------------------
\* What sending does to the write n of all writes, and to the part sent last.
Sends(all, n) ==
    /\ writes' \in Seq(Write) /\ Len(writes') = Len(all)
    /\ \A k \in 1 .. Len(all) \ {n} : writes'[k] = all[k]
    /\ writes'[n].message = all[n].message
    /\ writes'[n].sent <= Len(all[n].message)
    /\ writes'[n].at # "over" => filled'
    /\ filled => filled'
    /\ filled' \in BOOLEAN /\ room' \in 0 .. SendBuffer /\ last' \in Part

LeavesLast(all, n) == last' = last /\ writes'[n].sent = all[n].sent

\* The part is what the write has not sent yet, or the beginning of that.
SendsPart(all, n) ==
    /\ last'.number = n /\ last'.from = all[n].sent + 1 /\ last'.to = writes'[n].sent
    /\ writes'[n].at = "over" => writes'[n].sent = Len(all[n].message)

\* A transfer sends a part, as much as there is room for.
LEMMA TransferSends ==
    ASSUME SocketTypeOK, NEW all \in Seq(Write), NEW n \in 1 .. Len(all),
           all[n].sent <= Len(all[n].message), Transfer(all, n)
    PROVE  Sends(all, n) /\ SendsPart(all, n) /\ writes'[n].at # "queue"
<1> DEFINE write == all[n]
           left  == Len(write.message) - write.sent
           now   == IF left <= room THEN left ELSE room
           after == [message |-> write.message, sent |-> write.sent + now,
                     at |-> IF now = left THEN "over" ELSE "handler"]
<1>1. write \in Write
  BY ElementOfSeq
<1>2. write.message \in Messages /\ write.sent \in Nat /\ Len(write.message) \in Nat
  BY <1>1, WriteFields
<1>3. room \in Nat /\ room <= SendBuffer /\ SendBuffer \in Nat /\ filled \in BOOLEAN
  BY DEF SocketTypeOK
<1>4. left \in Nat /\ write.sent + left = Len(write.message)
  BY <1>2
<1> HIDE DEF left
<1>5. now \in Nat /\ now <= left /\ now <= room
  BY <1>3, <1>4
<1>6. writes' = [all EXCEPT ![n] = after]
  BY DEF Transfer, left
<1>7. last' = [number |-> n, from |-> write.sent + 1, to |-> write.sent + now]
  BY DEF Transfer, left
<1>8. room' = room - now /\ filled' = (filled \/ now < left)
  BY DEF Transfer, left
<1> HIDE DEF now
<1>9. after.message = write.message /\ after.sent = write.sent + now
       /\ after.at = IF now = left THEN "over" ELSE "handler"
  OBVIOUS
<1>10. after \in Write
  BY <1>2, <1>5 DEF Write
<1>11. /\ writes' \in Seq(Write) /\ Len(writes') = Len(all)
       /\ \A k \in 1 .. Len(all) : writes'[k] = IF k = n THEN after ELSE all[k]
  BY <1>6, <1>10, Replaced
<1>12. writes'[n] = after
  BY <1>11
<1>13. write.sent + 1 \in Nat /\ write.sent + now \in Nat /\ n \in Nat
  BY <1>2, <1>5, LenProperties
<1>14. last' \in Part
  <2> DEFINE from == write.sent + 1
             to   == write.sent + now
  <2>1. last' = [number |-> n, from |-> from, to |-> to] /\ from \in Nat /\ to \in Nat
    BY <1>7, <1>13
  <2> HIDE DEF from, to
  <2> QED BY <1>13, <2>1 DEF Part
<1>15. room' \in 0 .. SendBuffer /\ filled' \in BOOLEAN /\ (filled => filled')
  BY <1>3, <1>5, <1>8
<1>16. after.at # "over" => filled'
  <2>1. now # left => now < left
    BY <1>4, <1>5
  <2>2. after.at # "over" => now # left
    BY <1>9
  <2> QED BY <1>8, <2>1, <2>2, Zenon
<1>17. after.sent <= Len(write.message) /\ (after.at = "over" => after.sent = Len(write.message))
  BY <1>2, <1>4, <1>5, <1>9
<1> HIDE DEF after
<1>18. Sends(all, n)
  BY <1>9, <1>11, <1>12, <1>14, <1>15, <1>16, <1>17 DEF Sends
<1>19. SendsPart(all, n)
  BY <1>7, <1>9, <1>12, <1>17 DEF SendsPart
<1>20. after.at # "queue"
  BY <1>9
<1> QED BY <1>12, <1>18, <1>19, <1>20

\* A send sends a part, or waits, or ends because the socket is closed.
LEMMA StartSendSends ==
    ASSUME SocketTypeOK, NEW all \in Seq(Write), NEW n \in 1 .. Len(all),
           Len(writes) <= Len(all), all[n].sent <= Len(all[n].message),
           InQueue(all, queue), all[n].at = "handler", StartSend(all, n)
    PROVE  /\ Sends(all, n)
           /\ SendsPart(all, n) \/ LeavesLast(all, n)
           /\ isOpen => SendsPart(all, n) \/ writes'[n].at # "over"
           /\ ~isOpen => LeavesLast(all, n)
           /\ queue' \in Seq(1 .. Len(all)) /\ InQueue(writes', queue')
<1>1. queue \in Seq(1 .. Len(all))
  <2>1. 1 .. Len(writes) \subseteq 1 .. Len(all)
    BY LenProperties DEF SocketTypeOK
  <2> QED BY <2>1, SeqMonotonic DEF SocketTypeOK
<1>2. \A i \in 1 .. Len(queue) : queue[i] \in 1 .. Len(all) \ {n}
  BY <1>1, ElementOfSeq DEF InQueue
<1>3. CASE /\ isOpen /\ queue = <<>> /\ room > 0
           /\ Transfer(all, n) /\ UNCHANGED queue
  BY <1>1, <1>3, TransferSends DEF InQueue
<1>4. all[n] \in Write /\ all[n].message \in Messages /\ all[n].sent \in Nat
  BY ElementOfSeq, WriteFields
<1>5. ASSUME NEW at \in {"queue", "over"}, writes' = MoveTo(all, n, at)
      PROVE  /\ writes' \in Seq(Write) /\ Len(writes') = Len(all)
             /\ \A k \in 1 .. Len(all) \ {n} : writes'[k] = all[k]
             /\ writes'[n].message = all[n].message
             /\ writes'[n].sent = all[n].sent /\ writes'[n].at = at
  <2> DEFINE after == [message |-> all[n].message, sent |-> all[n].sent, at |-> at]
  <2>1. after \in Write
    BY <1>4 DEF Write
  <2>2. writes' = [all EXCEPT ![n] = after]
    BY <1>5 DEF MoveTo
  <2>3. after.message = all[n].message /\ after.sent = all[n].sent /\ after.at = at
    OBVIOUS
  <2> HIDE DEF after
  <2> QED BY <2>1, <2>2, <2>3, Replaced
<1>6. CASE /\ isOpen
           /\ writes' = MoveTo(all, n, "queue")
           /\ queue' = Append(queue, n)
           /\ filled' = TRUE
           /\ UNCHANGED <<last, room>>
  <2>1. Sends(all, n) /\ LeavesLast(all, n) /\ writes'[n].at = "queue"
    BY <1>4, <1>5, <1>6 DEF Sends, LeavesLast, SocketTypeOK
  <2>2. /\ queue' \in Seq(1 .. Len(all)) /\ Len(queue') = Len(queue) + 1
        /\ \A i \in 1 .. Len(queue) : queue'[i] = queue[i]
        /\ queue'[Len(queue) + 1] = n
    BY <1>1, <1>6, AppendProperties
  <2>3. ASSUME NEW i \in 1 .. Len(queue)
        PROVE  writes'[queue'[i]].at = "queue"
    <3>1. queue'[i] = queue[i] /\ queue[i] \in 1 .. Len(all) \ {n}
      BY <1>2, <2>2
    <3>2. writes'[queue[i]] = all[queue[i]]
      BY <2>1, <3>1 DEF Sends
    <3> QED BY <3>1, <3>2 DEF InQueue
  <2>4. Len(queue) \in Nat
    BY <1>1, LenProperties
  <2>5. \A i \in 1 .. Len(queue') : i \in 1 .. Len(queue) \/ i = Len(queue) + 1
    BY <2>2, <2>4
  <2>6. ASSUME NEW i \in 1 .. Len(queue'), NEW j \in 1 .. Len(queue'), i # j
        PROVE  queue'[i] # queue'[j]
    BY <1>2, <2>2, <2>5, <2>6 DEF InQueue
  <2>7. \A i \in 1 .. Len(queue') : writes'[queue'[i]].at = "queue"
    BY <2>1, <2>2, <2>3, <2>5
  <2>8. InQueue(writes', queue')
    BY <2>6, <2>7 DEF InQueue
  <2> QED BY <1>6, <2>1, <2>2, <2>8
<1>7. CASE /\ ~isOpen
           /\ writes' = MoveTo(all, n, "over")
           /\ UNCHANGED <<queue, last, room, filled>>
  <2>1. Sends(all, n) /\ LeavesLast(all, n)
    BY <1>4, <1>5, <1>7 DEF Sends, LeavesLast, SocketTypeOK
  <2>2. InQueue(writes', queue')
    BY <1>2, <1>7, <2>1 DEF Sends, InQueue
  <2> QED BY <1>1, <1>7, <2>1, <2>2
<1> QED BY <1>3, <1>6, <1>7 DEF StartSend
-----------------------------------------------------------------------------
\* The messages of writes, in the order of the writes.
MessagesOf(all) == [k \in 1 .. Len(all) |-> all[k].message]

\* They are a sequence of messages, as long as that of the writes.
LEMMA SequenceOfMessages ==
    ASSUME NEW all \in Seq(Write)
    PROVE  /\ MessagesOf(all) \in Seq(Messages) /\ Len(MessagesOf(all)) = Len(all)
           /\ \A k \in 1 .. Len(all) : MessagesOf(all)[k] = all[k].message
<1> DEFINE posted == MessagesOf(all)
<1>1. Len(all) \in Nat
  BY LenProperties
<1>2. \A k \in 1 .. Len(all) : all[k].message \in Messages
  BY ElementOfSeq, WriteFields
<1>3. posted \in [1 .. Len(all) -> Messages]
  BY <1>2 DEF MessagesOf
<1>4. posted \in Seq(Messages)
  BY <1>1, <1>3, SeqDef
<1>5. Len(posted) \in Nat /\ DOMAIN posted = 1 .. Len(posted)
  BY <1>4, LenProperties
<1>6. 1 .. Len(posted) = 1 .. Len(all)
  BY <1>3, <1>5
<1>7. Len(posted) = Len(all)
  BY <1>1, <1>5, <1>6
<1> QED BY <1>4, <1>7 DEF MessagesOf

\* The last of all writes, when those before it are complete, sends the part that
\* comes next.
LEMMA NextInOrder ==
    ASSUME NEW all \in Seq(Write), NEW n \in 1 .. Len(all), n = Len(all),
           last \in Part, Ordered(all, last), Sends(all, n),
           \/ SendsPart(all, n)
           \/ LeavesLast(all, n) /\ writes'[n].at # "over"
    PROVE  /\ Ordered(writes', last')
           /\ UNCHANGED last \/ Stream!Continues(last, Posted', last')
<1>1. n \in Nat \ {0} /\ all # <<>> /\ Len(writes') = n /\ writes' # <<>>
  BY LenProperties DEF Sends
<1>2. \A k \in 1 .. n : k # n => writes'[k] = all[k]
  BY DEF Sends
<1>3. writes'[n].message = all[n].message
  BY DEF Sends
<1>4. \A k \in 1 .. n : k # n => writes'[k].at = "over"
  BY <1>2 DEF Ordered
<1>5. \A k \in 1 .. n : writes'[k].at = "over" => writes'[k].sent = Len(writes'[k].message)
  BY <1>2, <1>3 DEF Ordered, SendsPart
<1>6. CASE SendsPart(all, n)
  <2>1. last' # Stream!NoPart
    BY <1>1, <1>6 DEF SendsPart, Stream!NoPart
  <2>2. AtLast(writes', last')
    BY <1>1, <1>6, <2>1 DEF SendsPart, AtLast
  <2>3. \A k \in 1 .. n : Posted'[k] = all[k].message
    <3>1. \A k \in 1 .. n : Posted'[k] = writes'[k].message
      BY <1>1 DEF Posted
    <3> QED BY <1>2, <1>3, <3>1
  <2>4. Stream!Continues(last, Posted', last')
    <3>1. CASE last # Stream!NoPart /\ last.number = n /\ last.to = all[n].sent
      BY <1>6, <3>1 DEF SendsPart, Stream!Continues
    <3>2. CASE all[n].sent = 0 /\ n = 1 /\ last = Stream!NoPart
      BY <1>6, <3>2 DEF SendsPart, Stream!Continues, Stream!NoPart
    <3>3. CASE /\ all[n].sent = 0 /\ n # 1 /\ last # Stream!NoPart
               /\ last.number = n - 1 /\ last.to = Len(all[n - 1].message)
      <4>1. n - 1 \in 1 .. n /\ last.number + 1 = n /\ all[n].sent + 1 = 1
        BY <1>1, <3>3
      <4>2. Posted'[last.number] = all[n - 1].message
        BY <2>3, <3>3, <4>1
      <4> QED BY <1>6, <3>3, <4>1, <4>2 DEF SendsPart, Stream!Continues
    <3> QED BY <1>1, <3>1, <3>2, <3>3 DEF Ordered, AtLast
  <2> QED BY <1>1, <1>4, <1>5, <2>2, <2>4 DEF Ordered
<1>7. CASE LeavesLast(all, n) /\ writes'[n].at # "over"
  <2>1. n # 1 => n - 1 \in 1 .. n /\ n - 1 # n
    BY <1>1
  <2>2. AtLast(writes', last')
    BY <1>1, <1>2, <1>7, <2>1 DEF Ordered, AtLast, LeavesLast
  <2> QED BY <1>1, <1>4, <1>5, <1>7, <2>2 DEF Ordered, LeavesLast
<1> QED BY <1>6, <1>7
\* Messages are only added.
LEMMA PostedGrows ==
    ASSUME writes \in Seq(Write), writes' \in Seq(Write),
           Len(writes') = Len(writes) \/ Len(writes') = Len(writes) + 1,
           \A k \in 1 .. Len(writes) : writes'[k].message = writes[k].message
    PROVE  \/ Posted' = Posted
           \/ Len(Posted') = Len(Posted) + 1 /\ SubSeq(Posted', 1, Len(Posted)) = Posted
<1>1. Len(writes) \in Nat
  BY LenProperties
<1>2. /\ Posted \in Seq(Messages) /\ Len(Posted) = Len(writes)
      /\ \A k \in 1 .. Len(writes) : Posted[k] = writes[k].message
  BY SequenceOfMessages DEF Posted, MessagesOf
<1>3. /\ Posted' \in Seq(Messages) /\ Len(Posted') = Len(writes')
      /\ \A k \in 1 .. Len(writes') : Posted'[k] = writes'[k].message
  BY SequenceOfMessages DEF Posted, MessagesOf
<1>4. \A k \in 1 .. Len(writes) : k \in 1 .. Len(writes') /\ Posted'[k] = Posted[k]
  BY <1>1, <1>2, <1>3
<1>5. CASE Len(writes') = Len(writes)
  BY <1>2, <1>3, <1>4, <1>5, SeqEqual
<1>6. CASE Len(writes') = Len(writes) + 1
  <2> DEFINE front == SubSeq(Posted', 1, Len(Posted))
  <2>1. /\ front \in Seq(Messages) /\ Len(front) = Len(Posted)
        /\ \A k \in 1 .. Len(Posted) : front[k] = Posted'[k]
    BY <1>1, <1>2, <1>3, <1>4
  <2>2. front = Posted
    BY <1>2, <1>4, <2>1, SeqEqual
  <2> QED BY <1>2, <1>3, <1>6, <2>2
<1> QED BY <1>5, <1>6

\* After a send the invariant holds, and the stream has made a step.
LEMMA SendStep ==
    ASSUME SocketInv, NEW all \in Seq(Write), NEW n \in 1 .. Len(all),
           Sends(all, n),
           SendsPart(all, n) \/ LeavesLast(all, n),
           isOpen => SendsPart(all, n) \/ writes'[n].at # "over",
           ~isOpen => LeavesLast(all, n),
           queue' \in Seq(1 .. Len(all)), InQueue(writes', queue'),
           UNCHANGED isOpen, overlapped' \in BOOLEAN, overlapped => overlapped',
           \A k \in 1 .. Len(all) : k # n =>
               (all[k].at # "over" => filled) /\ all[k].sent <= Len(all[k].message),
           isOpen /\ ~(overlapped' /\ filled') => n = Len(all) /\ Ordered(all, last),
           Len(all) = Len(writes) \/ Len(all) = Len(writes) + 1,
           \A k \in 1 .. Len(writes) : all[k].message = writes[k].message
    PROVE  SocketInv' /\ Stream!Next
<1>1. /\ writes' \in Seq(Write) /\ Len(writes') = Len(all)
      /\ \A k \in 1 .. Len(all) : k # n => writes'[k] = all[k]
      /\ writes'[n].message = all[n].message
  BY DEF Sends
<1>2. SocketTypeOK'
  BY <1>1 DEF SocketInv, SocketTypeOK, Sends
<1>3. Waiting'
  BY <1>1 DEF Waiting, Sends, Over
<1>4. ASSUME isOpen, ~(overlapped' /\ filled')
      PROVE  /\ Ordered(writes', last')
             /\ UNCHANGED last \/ Stream!Continues(last, Posted', last')
  BY <1>4, NextInOrder DEF SocketInv, SocketTypeOK
<1>5. SocketInv'
  BY <1>2, <1>3, <1>4 DEF SocketInv
<1>6. \A k \in 1 .. Len(writes) : writes'[k].message = writes[k].message
  <2>1. Len(writes) \in Nat /\ Len(all) \in Nat
    BY LenProperties DEF SocketInv, SocketTypeOK
  <2> QED BY <1>1, <2>1
<1>7. \/ Posted' = Posted
      \/ Len(Posted') = Len(Posted) + 1 /\ SubSeq(Posted', 1, Len(Posted)) = Posted
  BY <1>1, <1>6, PostedGrows DEF SocketInv, SocketTypeOK
<1>8. UNCHANGED last \/ (overlapped' /\ filled') \/ Stream!Continues(last, Posted', last')
  BY <1>4 DEF LeavesLast
<1>9. overlapped /\ filled => overlapped' /\ filled'
  BY DEF Sends
<1> QED BY <1>5, <1>7, <1>8, <1>9 DEF Stream!Next

\* The first send of a message.
LEMMA SendDataStep ==
    ASSUME SocketInv, NEW message \in Messages, sendDataToClient(message)
    PROVE  SocketInv' /\ Stream!Next
<1> DEFINE new == [message |-> message, sent |-> 0, at |-> "handler"]
           all == Append(writes, new)
           n   == Len(writes) + 1
<1>1. new \in Write /\ new.message = message /\ new.sent = 0 /\ new.at = "handler"
  BY DEF Write
<1>2. writes \in Seq(Write) /\ Len(writes) \in Nat
  BY LenProperties DEF SocketInv, SocketTypeOK
<1>3. StartSend(all, n) /\ overlapped' = (overlapped \/ UnderWay # {}) /\ UNCHANGED isOpen
  BY DEF sendDataToClient
<1> HIDE DEF new
<1>4. /\ all \in Seq(Write) /\ Len(all) = n /\ all[n] = new
      /\ \A k \in 1 .. Len(writes) : all[k] = writes[k]
  BY <1>1, <1>2, AppendProperties
<1> HIDE DEF all
<1>5. n \in 1 .. Len(all) /\ \A k \in 1 .. Len(all) : k # n => k \in 1 .. Len(writes)
  BY <1>2, <1>4
<1>6. InQueue(all, queue)
  <2>1. \A i \in 1 .. Len(queue) : queue[i] \in 1 .. Len(writes)
    BY ElementOfSeq DEF SocketInv, SocketTypeOK
  <2> QED BY <1>4, <2>1 DEF SocketInv, Waiting, InQueue
<1>7. Len(message) \in Nat \ {0}
  BY MessageLength
<1>8. all[n].sent = 0 /\ all[n].at = "handler" /\ all[n].sent <= Len(all[n].message)
  BY <1>1, <1>4, <1>7
<1>9. /\ Sends(all, n)
      /\ SendsPart(all, n) \/ LeavesLast(all, n)
      /\ isOpen => SendsPart(all, n) \/ writes'[n].at # "over"
      /\ ~isOpen => LeavesLast(all, n)
      /\ queue' \in Seq(1 .. Len(all)) /\ InQueue(writes', queue')
  BY <1>2, <1>3, <1>4, <1>5, <1>6, <1>8, StartSendSends DEF SocketInv
<1>10. \A k \in 1 .. Len(all) : k # n =>
          (all[k].at # "over" => filled) /\ all[k].sent <= Len(all[k].message)
  BY <1>4, <1>5 DEF SocketInv, Waiting, Over
<1>11. ASSUME isOpen, ~(overlapped' /\ filled')
       PROVE  Ordered(all, last)
  <2>1. \A k \in 1 .. Len(writes) : writes[k].at = "over"
    <3>1. ASSUME NEW k \in 1 .. Len(writes), writes[k].at # "over"
          PROVE  filled' /\ overlapped'
      BY <1>3, <1>9, <3>1, Zenon DEF SocketInv, Waiting, Over, Sends, UnderWay
    <3> QED BY <1>11, <3>1
  <2>2. Ordered(writes, last)
    BY <1>3, <1>9, <1>11 DEF SocketInv, Sends
  <2>3. AtLast(all, last)
    <3>1. all # <<>> /\ Len(all) = n
      BY <1>2, <1>4
    <3>2. CASE writes = <<>>
      BY <1>2, <1>4, <1>8, <2>2, <3>1, <3>2 DEF Ordered, AtLast
    <3>3. CASE writes # <<>>
      <4>1. n # 1 /\ n - 1 = Len(writes) /\ n - 1 \in 1 .. Len(writes)
        BY <1>2, <3>3
      <4>2. writes[n - 1].sent = Len(writes[n - 1].message) /\ writes[n - 1].sent # 0
        BY <1>2, <2>1, <2>2, <4>1, ElementOfSeq, WriteFields DEF Ordered
      <4>3. last # Stream!NoPart /\ last.number = n - 1 /\ last.to = Len(all[n - 1].message)
        BY <1>4, <2>2, <3>3, <4>1, <4>2 DEF Ordered, AtLast
      <4> QED BY <1>8, <3>1, <4>1, <4>3 DEF AtLast
    <3> QED BY <3>2, <3>3
  <2> QED BY <1>4, <1>5, <1>8, <2>1, <2>2, <2>3 DEF Ordered
<1>12. overlapped' \in BOOLEAN /\ (overlapped => overlapped')
  BY <1>3 DEF SocketInv, SocketTypeOK
<1> QED BY <1>3, <1>4, <1>5, <1>9, <1>10, <1>11, <1>12, SendStep

\* A later send of a message.
LEMMA ContinueStep ==
    ASSUME SocketInv, NEW n \in 1 .. Len(writes), ContinueWrite(n)
    PROVE  SocketInv' /\ Stream!Next
<1>1. writes \in Seq(Write) /\ Len(writes) \in Nat
  BY LenProperties DEF SocketInv, SocketTypeOK
<1>2. writes[n].at = "handler" /\ StartSend(writes, n) /\ UNCHANGED <<isOpen, overlapped>>
  BY DEF ContinueWrite
<1>3. filled /\ InQueue(writes, queue) /\ writes[n].sent <= Len(writes[n].message)
  BY <1>2 DEF SocketInv, Waiting, Over
<1>4. /\ Sends(writes, n)
      /\ SendsPart(writes, n) \/ LeavesLast(writes, n)
      /\ isOpen => SendsPart(writes, n) \/ writes'[n].at # "over"
      /\ ~isOpen => LeavesLast(writes, n)
      /\ queue' \in Seq(1 .. Len(writes)) /\ InQueue(writes', queue')
  BY <1>1, <1>2, <1>3, StartSendSends DEF SocketInv
<1>5. \A k \in 1 .. Len(writes) : k # n =>
         (writes[k].at # "over" => filled) /\ writes[k].sent <= Len(writes[k].message)
  BY DEF SocketInv, Waiting, Over
<1>6. isOpen /\ ~(overlapped' /\ filled') => n = Len(writes) /\ Ordered(writes, last)
  BY <1>2, <1>3, <1>4 DEF SocketInv, Sends, Ordered
<1>7. overlapped' \in BOOLEAN /\ (overlapped => overlapped')
  BY <1>2 DEF SocketInv, SocketTypeOK
<1> QED BY <1>1, <1>2, <1>4, <1>5, <1>6, <1>7, SendStep

\* The first send that waits.
LEMMA WritableStep ==
    ASSUME SocketInv, SocketWritable
    PROVE  SocketInv' /\ Stream!Next
<1> DEFINE n == Head(queue)
<1>1. writes \in Seq(Write) /\ Len(writes) \in Nat /\ queue \in Seq(1 .. Len(writes))
  BY LenProperties DEF SocketInv, SocketTypeOK
<1>2. /\ isOpen /\ queue # <<>> /\ Transfer(writes, n) /\ queue' = Tail(queue)
      /\ UNCHANGED <<isOpen, overlapped>>
  BY DEF SocketWritable
<1>3. /\ n \in 1 .. Len(writes) /\ n = queue[1]
      /\ queue' \in Seq(1 .. Len(writes)) /\ Len(queue') = Len(queue) - 1
      /\ \A i \in 1 .. Len(queue') : queue'[i] = queue[i + 1]
  BY <1>1, <1>2, HeadTailProperties
<1> HIDE DEF n
<1>4. Len(queue) \in Nat \ {0}
  BY <1>1, <1>2, EmptySeq
<1>5. InQueue(writes, queue)
  BY DEF SocketInv, Waiting
<1>6. writes[n].at = "queue" /\ filled /\ writes[n].sent <= Len(writes[n].message)
  <2>1. writes[n].at = "queue"
    BY <1>3, <1>4, <1>5 DEF InQueue
  <2> QED BY <1>3, <2>1 DEF SocketInv, Waiting, Over
<1>7. Sends(writes, n) /\ SendsPart(writes, n)
  BY <1>1, <1>2, <1>3, <1>6, TransferSends DEF SocketInv
<1>8. InQueue(writes', queue')
  <2>1. \A i \in 1 .. Len(queue') : i + 1 \in 1 .. Len(queue) /\ i + 1 # 1
    BY <1>3, <1>4
  <2>2. ASSUME NEW i \in 1 .. Len(queue')
        PROVE  writes'[queue'[i]].at = "queue"
    <3>1. queue'[i] = queue[i + 1] /\ queue[i + 1] \in 1 .. Len(writes)
      BY <1>1, <1>3, <2>1, ElementOfSeq
    <3>2. queue[i + 1] # n
      BY <1>3, <1>4, <1>5, <2>1 DEF InQueue
    <3>3. writes'[queue[i + 1]] = writes[queue[i + 1]]
      BY <1>7, <3>1, <3>2 DEF Sends
    <3> QED BY <1>5, <2>1, <3>1, <3>3 DEF InQueue
  <2>3. ASSUME NEW i \in 1 .. Len(queue'), NEW j \in 1 .. Len(queue'), i # j
        PROVE  queue'[i] # queue'[j]
    <3>1. i + 1 # j + 1
      BY <1>3, <1>4, <2>3
    <3> QED BY <1>3, <1>5, <2>1, <3>1 DEF InQueue
  <2> QED BY <2>2, <2>3 DEF InQueue
<1>9. \A k \in 1 .. Len(writes) : k # n =>
         (writes[k].at # "over" => filled) /\ writes[k].sent <= Len(writes[k].message)
  BY DEF SocketInv, Waiting, Over
<1>10. isOpen /\ ~(overlapped' /\ filled') => n = Len(writes) /\ Ordered(writes, last)
  BY <1>2, <1>3, <1>6, <1>7 DEF SocketInv, Sends, Ordered
<1>11. overlapped' \in BOOLEAN /\ (overlapped => overlapped')
  BY <1>2 DEF SocketInv, SocketTypeOK
<1> QED BY <1>1, <1>2, <1>3, <1>7, <1>8, <1>9, <1>10, <1>11, SendStep

\* Closing sends nothing.
LEMMA CloseStep ==
    ASSUME SocketInv, closeSocket
    PROVE  SocketInv' /\ UNCHANGED <<Posted, last, overlapped, filled>>
<1> DEFINE Closed(k) == IF writes[k].at = "queue"
                        THEN [message |-> writes[k].message, sent |-> writes[k].sent, at |-> "over"]
                        ELSE writes[k]
<1>1. writes \in Seq(Write) /\ Len(writes) \in Nat
  BY LenProperties DEF SocketInv, SocketTypeOK
<1>2. /\ isOpen' = FALSE /\ queue' = <<>> /\ writes' = [k \in 1 .. Len(writes) |-> Closed(k)]
      /\ UNCHANGED <<last, room, filled, overlapped>>
  BY DEF closeSocket
<1>3. ASSUME NEW k \in 1 .. Len(writes)
      PROVE  /\ Closed(k) \in Write /\ Closed(k).message = writes[k].message
             /\ Closed(k).sent = writes[k].sent
             /\ Closed(k).at # "over" => writes[k].at # "over"
  <2>1. /\ writes[k] \in Write /\ writes[k].message \in Messages /\ writes[k].sent \in Nat
    BY <1>1, ElementOfSeq, WriteFields
  <2> QED BY <2>1 DEF Write
<1> HIDE DEF Closed
<1>4. writes' \in [1 .. Len(writes) -> Write]
  BY <1>2, <1>3
<1>5. writes' \in Seq(Write)
  BY <1>1, <1>4, SeqDef
<1>6. Len(writes') \in Nat /\ 1 .. Len(writes') = 1 .. Len(writes)
  BY <1>4, <1>5, LenProperties
<1>7. Len(writes') = Len(writes)
  BY <1>1, <1>6
<1>8. Posted' = Posted
  BY <1>2, <1>3, <1>7 DEF Posted
<1>9. SocketTypeOK'
  BY <1>2, <1>5, EmptySeq DEF SocketInv, SocketTypeOK
<1>10. Waiting'
  <2>1. InQueue(writes', queue')
    BY <1>2, EmptySeq DEF InQueue
  <2> QED BY <1>2, <1>3, <1>7, <2>1 DEF SocketInv, Waiting, Over
<1> QED BY <1>2, <1>8, <1>9, <1>10 DEF SocketInv

\* The client's reading makes room.
LEMMA ClientStep ==
    ASSUME SocketInv, ClientReads
    PROVE  SocketInv' /\ UNCHANGED <<Posted, last, overlapped, filled>>
BY DEF SocketInv, SocketTypeOK, Waiting, InQueue, Over, ClientReads, Posted

\* The socket of a new connection: no write, and an empty stream.
LEMMA SocketInitInv ==
    ASSUME SocketInit
    PROVE  SocketInv /\ Stream!Init
<1>1. writes = <<>> /\ Len(writes) = 0 /\ queue = <<>> /\ Len(queue) = 0
  BY EmptySeq DEF SocketInit
<1>2. last = Stream!NoPart /\ last \in Part
  BY DEF SocketInit, Part, Stream!NoPart
<1>3. SocketTypeOK
  <2>1. writes \in Seq(Write) /\ queue \in Seq(1 .. Len(writes))
    BY <1>1, EmptySeq
  <2>2. room \in 0 .. SendBuffer
    BY DEF SocketInit
  <2> QED BY <1>2, <2>1, <2>2, Zenon DEF SocketInit, SocketTypeOK
<1>4. Waiting /\ Ordered(writes, last)
  BY <1>1, <1>2 DEF Waiting, InQueue, Ordered, AtLast
<1>5. Posted = <<>>
  BY <1>1 DEF Posted
<1> QED BY <1>2, <1>3, <1>4, <1>5 DEF SocketInit, SocketInv, Stream!Init

\* Every step of the socket is a step of the stream, or changes nothing of it.
LEMMA SocketStep ==
    ASSUME SocketInv, [SocketNext]_socketVars
    PROVE  SocketInv' /\ [Stream!Next]_<<Posted, last, overlapped /\ filled>>
<1>1. CASE \E message \in Messages : sendDataToClient(message)
  BY <1>1, SendDataStep
<1>2. CASE \E n \in 1 .. Len(writes) : ContinueWrite(n)
  BY <1>2, ContinueStep
<1>3. CASE SocketWritable
  BY <1>3, WritableStep
<1>4. CASE ClientReads
  BY <1>4, ClientStep
<1>5. CASE closeSocket
  BY <1>5, CloseStep
<1>6. CASE UNCHANGED socketVars
  <2>1. /\ isOpen' = isOpen /\ writes' = writes /\ queue' = queue /\ last' = last
        /\ room' = room /\ filled' = filled /\ overlapped' = overlapped
    BY <1>6 DEF socketVars
  <2>2. Posted' = Posted /\ SocketTypeOK' /\ Waiting'
    BY <2>1 DEF SocketInv, SocketTypeOK, Waiting, InQueue, Over, Posted
  <2> QED BY <2>1, <2>2 DEF SocketInv
<1> QED BY <1>1, <1>2, <1>3, <1>4, <1>5, <1>6 DEF SocketNext, WriteSteps

\* The state of the writes is always well formed: the room is neither negative nor
\* more than there is, and only writes there are wait for it.
THEOREM SocketTypes == SocketSpec => []SocketTypeOK
<1>1. SocketInit => SocketInv
  BY SocketInitInv
<1>2. SocketInv /\ [SocketNext]_socketVars => SocketInv'
  BY SocketStep
<1>3. SocketInv => SocketTypeOK
  BY DEF SocketInv
<1> QED BY <1>1, <1>2, <1>3, PTL DEF SocketSpec

\* The messages of a session arrive whole and in order unless a write was started
\* while another waited for room (sendDataToClient, session.cpp:391).
THEOREM WritesAreAStream == SocketSpec => ImplementsMessageStream
<1>1. SocketInit => SocketInv /\ Stream!Init
  BY SocketInitInv
<1>2. SocketInv /\ [SocketNext]_socketVars
        => SocketInv' /\ [Stream!Next]_<<Posted, last, overlapped /\ filled>>
  BY SocketStep
<1> QED BY <1>1, <1>2, PTL DEF SocketSpec, ImplementsMessageStream, Stream!Spec, Stream!vars
=============================================================================
