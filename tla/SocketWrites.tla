---------------------------- MODULE SocketWrites ----------------------------
(***************************************************************************)
(* The writes on the socket of one session.  Its own handlers and those of *)
(* other sessions call sendDataToClient, which starts an async_write at    *)
(* once, without waiting for the writes that are under way.  async_write   *)
(* sends a message with as many sends as it takes: a send that is not      *)
(* complete is followed by a handler that starts the next one, and sends   *)
(* that find no room wait in the queue of the socket, first come first     *)
(* served.  Asio and TCP are modelled from how session.cpp uses them.      *)
(***************************************************************************)
EXTENDS Naturals, Sequences

CONSTANT SendBuffer     \* the bytes that fit between the server and the client

ASSUME SocketWritesAssumption == SendBuffer \in Nat

\* What the server may send.
Messages == Seq(Nat) \ {<<>>}

VARIABLES
    isOpen,         \* socket_.is_open()
    writes,         \* the async_writes, each with its bytes sent so far
    queue,          \* the numbers of the sends that wait for room
    last,           \* the last part that was sent
    room,           \* the bytes that can be sent now
    filled,         \* history: some send found too little room
    overlapped      \* history: a write was started while another was under way

socketVars == <<isOpen, writes, queue, last, room, filled, overlapped>>

\* A write is at "queue" while it waits for room, at "handler" after a send that
\* was not complete, and "over" when it has completed or failed.
Write == [message : Messages, sent : Nat, at : {"queue", "handler", "over"}]

Part == [number : Nat, from : Nat, to : Nat]

SocketTypeOK ==
    /\ isOpen \in BOOLEAN /\ filled \in BOOLEAN /\ overlapped \in BOOLEAN
    /\ writes \in Seq(Write)
    /\ queue \in Seq(1 .. Len(writes))
    /\ last \in Part
    /\ room \in 0 .. SendBuffer

SocketInit ==
    /\ isOpen = TRUE /\ writes = <<>> /\ queue = <<>>
    /\ last = [number |-> 0, from |-> 0, to |-> 0]
    /\ room = SendBuffer /\ filled = FALSE /\ overlapped = FALSE

-----------------------------------------------------------------------------

\* Faulty variant: a send does not look at the room there is.
TransferAll(all, n) ==
    LET write == all[n]
        left  == Len(write.message) - write.sent
    IN  /\ writes' = [all EXCEPT ![n] =
                         [message |-> write.message, sent |-> Len(write.message), at |-> "over"]]
        /\ last' = [number |-> n, from |-> write.sent + 1, to |-> Len(write.message)]
        /\ room' = room - left
        /\ UNCHANGED filled

\* Faulty variant: async_write_some in place of async_write, which leaves the
\* rest of the message.
TransferSome(all, n) ==
    LET write == all[n]
        left  == Len(write.message) - write.sent
        now   == IF left <= room THEN left ELSE room
    IN  /\ writes' = [all EXCEPT ![n] =
                         [message |-> write.message, sent |-> write.sent + now, at |-> "over"]]
        /\ last' = [number |-> n, from |-> write.sent + 1, to |-> write.sent + now]
        /\ room' = room - now
        /\ filled' = (filled \/ now < left)

\* Write n sends what there is room for (writes are those of all).
Transfer(all, n) ==
    LET write == all[n]
        left  == Len(write.message) - write.sent
        now   == IF left <= room THEN left ELSE room
    IN  /\ writes' = [all EXCEPT ![n] =
                         [message |-> write.message, sent |-> write.sent + now,
                          at |-> IF now = left THEN "over" ELSE "handler"]]
        /\ last' = [number |-> n, from |-> write.sent + 1, to |-> write.sent + now]
        /\ room' = room - now
        /\ filled' = (filled \/ now < left)

MoveTo(all, n, at) == [all EXCEPT ![n] = [message |-> all[n].message, sent |-> all[n].sent, at |-> at]]

\* Write n starts a send: at once when no send is waiting and there is room.
StartSend(all, n) ==
    \/ /\ isOpen /\ queue = <<>> /\ room > 0
       /\ Transfer(all, n)
       /\ UNCHANGED queue
    \/ /\ isOpen /\ (queue # <<>> \/ room = 0)
       /\ writes' = MoveTo(all, n, "queue")
       /\ queue' = Append(queue, n)
       /\ filled' = TRUE
       /\ UNCHANGED <<last, room>>
    \/ /\ ~isOpen
       /\ writes' = MoveTo(all, n, "over")
       /\ UNCHANGED <<queue, last, room, filled>>

UnderWay == {n \in 1 .. Len(writes) : writes[n].at # "over"}

sendDataToClient(message) ==
    /\ StartSend(Append(writes, [message |-> message, sent |-> 0, at |-> "handler"]),
                 Len(writes) + 1)
    /\ overlapped' = (overlapped \/ UnderWay # {})
    /\ UNCHANGED isOpen

\* async_write goes on with a message whose last send was not complete.
ContinueWrite(n) ==
    /\ n \in 1 .. Len(writes) /\ writes[n].at = "handler"
    /\ StartSend(writes, n)
    /\ UNCHANGED <<isOpen, overlapped>>

\* The socket has become writable: the first send that waits is served.
SocketWritable ==
    /\ isOpen /\ queue # <<>> /\ room > 0
    /\ Transfer(writes, Head(queue))
    /\ queue' = Tail(queue)
    /\ UNCHANGED <<isOpen, overlapped>>

\* The client reads what has been sent to it.
ClientReads ==
    /\ room < SendBuffer
    /\ room' = SendBuffer
    /\ UNCHANGED <<isOpen, writes, queue, last, filled, overlapped>>

\* Faulty variant: sends that wait are left waiting.
closeSocketOnly ==
    isOpen' = FALSE /\ UNCHANGED <<writes, queue, last, room, filled, overlapped>>

\* Sends that wait are aborted, what was sent is still delivered.
closeSocket ==
    /\ isOpen' = FALSE
    /\ queue' = <<>>
    /\ writes' = [n \in 1 .. Len(writes) |->
                     IF writes[n].at = "queue"
                     THEN [message |-> writes[n].message, sent |-> writes[n].sent, at |-> "over"]
                     ELSE writes[n]]
    /\ UNCHANGED <<last, room, filled, overlapped>>

WriteSteps == \/ \E n \in 1 .. Len(writes) : ContinueWrite(n)
              \/ SocketWritable
              \/ ClientReads

SocketNext == \/ \E message \in Messages : sendDataToClient(message)
              \/ WriteSteps
              \/ closeSocket

SocketSpec == SocketInit /\ [][SocketNext]_socketVars

-----------------------------------------------------------------------------

Posted == [n \in 1 .. Len(writes) |-> writes[n].message]

Stream == INSTANCE MessageStream WITH posted <- Posted, mixed <- overlapped /\ filled

\* A client that keeps up, or a session that never starts a write before the last
\* one has ended, gets the server's messages whole and in order: only a write that
\* is started while another waits for room may mix their bytes (session.cpp:391).
ImplementsMessageStream == Stream!Spec

\* Every write comes to an end, with all its bytes sent or with the connection
\* closed: a client that reads gets what it was sent, however writes overlap.
WritesEnd == []<>(UnderWay = {})
=============================================================================
