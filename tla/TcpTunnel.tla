------------------------------ MODULE TcpTunnel ------------------------------
(***************************************************************************)
(* The `Tunnel` future of src/src/servers/tunnel.rs: one task that moves    *)
(* messages from the pool sockets to the server (write half) and frames     *)
(* from the server to the pool sockets (read half).                         *)
(*                                                                          *)
(* A step is one call of poll_write_state or poll_read_state, so the other  *)
(* tasks, the I/O driver and the server act between any two of them.  What  *)
(* makes the future hard to get right is its wake-ups: a task that returned *)
(* Pending runs again only when something it registered a waker with fires. *)
(* `wakers` holds the sources that have this task's waker, `notified` is    *)
(* the scheduler's mark that the task must be polled again.                 *)
(*                                                                          *)
(* Messages of the sockets are the numbers 1, 2, ... in the order they are   *)
(* put on the channel; 0 stands for the keep-alive reply.                   *)
(***************************************************************************)
EXTENDS Integers, Sequences, Selection

CONSTANTS
    SOCKET_POOL_SIZE,   \* sockets in the pool
    Indices,            \* the index bytes the server puts in its frames
    MaxSent,            \* bound: messages the sockets put on the channel
    MaxFrames           \* bound: frames the server sends

ASSUME PoolAssumption == SOCKET_POOL_SIZE \in 1..255
ASSUME IndexAssumption == Indices \subseteq 0..255
ASSUME BoundAssumption == MaxSent \in Nat /\ MaxFrames \in Nat

VARIABLES
    pc,           \* "idle" between polls, "write", "read", "done" (dropped)
    notified,     \* the task is queued to be polled (again)
    spent,        \* this poll has completed an operation (cooperative budget)
    wakers,       \* sources that hold the task's waker
    write_state,  \* "Recv", "Write" or "Flush"
    message,      \* the message of Write(Some(message)), else NoMessage
    rx,           \* the channel from the sockets
    senders,      \* sockets that still hold their tun_tx
    sent,         \* messages put on the channel so far
    out_data,     \* pool messages encoded in the write buffer of io
    out_pongs,    \* keep-alive replies encoded in the write buffer of io
    wire,         \* pool messages handed to the connection
    writable,     \* the connection takes bytes
    io,           \* the connection: "open", "eof" (read side) or "broken"
    inbox,        \* frames that have arrived and are not decoded yet
    received,     \* frames the server has sent so far
    handle        \* handle[i]: what was put on the channel of socket i

taskVars == <<pc, notified, spent, wakers>>
slotVars == <<write_state, message>>
chanVars == <<rx, senders, sent>>
outVars  == <<out_data, out_pongs, wire, writable>>
inVars   == <<io, inbox, received>>
vars     == <<taskVars, slotVars, chanVars, outVars, inVars, handle>>

Pool      == 0..(SOCKET_POOL_SIZE - 1)
KeepAlive == 255
NoMessage == -1
Pong      == 0
Messages  == 1..MaxSent
Frames    == [index : Indices, id : 1..MaxFrames]
Sources   == {"rx", "ioRead", "ioWrite"}

TypeOK ==
    /\ pc \in {"idle", "write", "read", "done"}
    /\ notified \in BOOLEAN
    /\ spent \in BOOLEAN
    /\ wakers \subseteq Sources
    /\ write_state \in {"Recv", "Write", "Flush"}
    /\ message \in Messages \cup {NoMessage}
    /\ rx \in Seq(Messages)
    /\ senders \subseteq Pool
    /\ sent \in 0..MaxSent
    /\ out_data \in Seq(Messages)
    /\ out_pongs \in Nat
    /\ wire \in Seq(Messages)
    /\ writable \in BOOLEAN
    /\ io \in {"open", "eof", "broken"}
    /\ inbox \in Seq(Frames)
    /\ received \in 0..MaxFrames
    /\ handle \in [Pool -> Seq(Frames)]

\* create_tunnel: the connection is upgraded, the pool allocated, and the
\* future is awaited for the first time.
Init ==
    /\ pc = "idle" /\ notified = TRUE /\ spent = FALSE /\ wakers = {}
    /\ write_state = "Recv" /\ message = NoMessage
    /\ rx = <<>> /\ senders = Pool /\ sent = 0
    /\ out_data = <<>> /\ out_pongs = 0 /\ wire = <<>> /\ writable = TRUE
    /\ io = "open" /\ inbox = <<>> /\ received = 0
    /\ handle = [i \in Pool |-> <<>>]

------------------------------------------------------------------------------
(* Wakers *)

\* The sources in S fire: each takes the waker it holds and wakes the task.
Wake(S) ==
    /\ wakers' = wakers \ S
    /\ notified' = (notified \/ S \cap wakers # {})

\* An operation of the write half is Ready: the `while let` of poll goes on.
Progress ==
    /\ spent' = TRUE
    /\ UNCHANGED <<pc, notified, wakers>>

\* The operation is Pending and has registered the task with source s; the
\* half that is being polled ends and `next` follows.
Pending(s, next) ==
    /\ pc' = next
    /\ wakers' = wakers \cup {s}
    /\ UNCHANGED <<notified, spent>>

\* poll returns Ready(()) and create_tunnel drops the tunnel.
Stop ==
    /\ pc' = "done"
    /\ UNCHANGED <<notified, spent, wakers>>

------------------------------------------------------------------------------
(* Polling the write half: poll_write_state *)

\* The runtime polls the future.
Poll ==
    /\ pc = "idle" /\ notified
    /\ pc' = "write" /\ notified' = FALSE /\ spent' = FALSE
    /\ UNCHANGED <<wakers, slotVars, chanVars, outVars, inVars, handle>>

\* Recv: the next message of the channel.
WriteRecv ==
    /\ pc = "write" /\ write_state = "Recv" /\ rx # <<>>
    /\ message' = Head(rx) /\ rx' = Tail(rx)
    /\ write_state' = "Write"
    /\ Progress
    /\ UNCHANGED <<senders, sent, outVars, inVars, handle>>

\* Recv: the channel is empty and a socket may still send.
WriteRecvPending ==
    /\ pc = "write" /\ write_state = "Recv" /\ rx = <<>> /\ senders # {}
    /\ Pending("rx", "read")
    /\ UNCHANGED <<slotVars, chanVars, outVars, inVars, handle>>

\* Mutant: a closed channel is taken for an empty one.
WriteRecvClosedWaits ==
    /\ pc = "write" /\ write_state = "Recv" /\ rx = <<>> /\ senders = {}
    /\ Pending("rx", "read")
    /\ UNCHANGED <<slotVars, chanVars, outVars, inVars, handle>>

\* Recv: the channel is empty and every socket has gone.
WriteRecvClosed ==
    /\ pc = "write" /\ write_state = "Recv" /\ rx = <<>> /\ senders = {}
    /\ Stop
    /\ UNCHANGED <<slotVars, chanVars, outVars, inVars, handle>>

\* Write(Some(m)): take the message and encode it into the write buffer.
\* poll_ready of Framed flushes only a buffer that has reached its
\* backpressure boundary; it is empty here (BufferOnlyWhileFlushing), so
\* poll_ready is Ready(Ok) at once.
StartSend(m) ==
    /\ write_state' = "Flush" /\ message' = NoMessage
    /\ IF m = Pong
       THEN out_pongs' = out_pongs + 1 /\ UNCHANGED out_data
       ELSE out_data' = Append(out_data, m) /\ UNCHANGED out_pongs
    /\ UNCHANGED <<wire, writable>>

WriteMessage ==
    /\ pc = "write" /\ write_state = "Write"
    /\ StartSend(message)
    /\ Progress
    /\ UNCHANGED <<chanVars, inVars, handle>>

\* Mutant: the buffer is not cleared.
WriteFlushKeepsBuffer ==
    /\ pc = "write" /\ write_state = "Flush" /\ io # "broken" /\ writable
    /\ wire' = wire \o out_data
    /\ writable' \in BOOLEAN
    /\ write_state' = "Recv"
    /\ Progress
    /\ UNCHANGED <<message, out_data, out_pongs, chanVars, inVars, handle>>

\* Flush: the whole buffer goes to the connection, which may be full after it.
WriteFlush ==
    /\ pc = "write" /\ write_state = "Flush" /\ io # "broken" /\ writable
    /\ wire' = wire \o out_data
    /\ out_data' = <<>> /\ out_pongs' = 0
    /\ writable' \in BOOLEAN
    /\ write_state' = "Recv"
    /\ Progress
    /\ UNCHANGED <<message, chanVars, inVars, handle>>

\* Mutant: the wrong waker is registered.
WriteFlushPendingOnRead ==
    /\ pc = "write" /\ write_state = "Flush" /\ io # "broken" /\ ~writable
    /\ Pending("ioRead", "read")
    /\ UNCHANGED <<slotVars, chanVars, outVars, inVars, handle>>

WriteFlushPending ==
    /\ pc = "write" /\ write_state = "Flush" /\ io # "broken" /\ ~writable
    /\ Pending("ioWrite", "read")
    /\ UNCHANGED <<slotVars, chanVars, outVars, inVars, handle>>

WriteFlushError ==
    /\ pc = "write" /\ write_state = "Flush" /\ io = "broken"
    /\ Stop
    /\ UNCHANGED <<slotVars, chanVars, outVars, inVars, handle>>

\* The task has used up its cooperative budget: the channel or the connection
\* answers Pending and wakes the task at once.
WriteYield ==
    /\ pc = "write" /\ spent /\ write_state \in {"Recv", "Flush"}
    /\ pc' = "read" /\ notified' = TRUE
    /\ UNCHANGED <<spent, wakers, slotVars, chanVars, outVars, inVars, handle>>

WriteStep ==
    \/ WriteRecv \/ WriteRecvPending \/ WriteRecvClosed
    \/ WriteMessage
    \/ WriteFlush \/ WriteFlushPending \/ WriteFlushError
    \/ WriteYield

------------------------------------------------------------------------------
(* Polling the read half: poll_read_state *)

\* The next frame of io is decoded.
NextFrame ==
    /\ pc = "read" /\ inbox # <<>>
    /\ inbox' = Tail(inbox)
    /\ spent' = TRUE
    /\ UNCHANGED <<pc, notified, wakers, io, received>>

\* Mutant: the reply does not look at the write state.
ReadKeepAliveAlways ==
    /\ NextFrame
    /\ Head(inbox).index = KeepAlive
    /\ StartSend(Pong)
    /\ UNCHANGED <<chanVars, handle>>

\* A keep-alive while no message is being written: Write(Some(pong)) is set
\* and polled once, which leaves the reply in the buffer and the state Flush.
ReadKeepAlive ==
    /\ NextFrame
    /\ Head(inbox).index = KeepAlive /\ write_state = "Recv"
    /\ StartSend(Pong)
    /\ UNCHANGED <<chanVars, handle>>

\* A keep-alive while a message is being written: no reply.
ReadKeepAliveBusy ==
    /\ NextFrame
    /\ Head(inbox).index = KeepAlive /\ write_state # "Recv"
    /\ UNCHANGED <<slotVars, chanVars, outVars, handle>>

\* Mutant: once a socket has gone, a frame is decoded and forwarded to nobody.
ReadForwardWhileAll ==
    /\ NextFrame
    /\ LET frame == Head(inbox) IN
          /\ frame.index \in Pool
          /\ handle' = IF senders = Pool
                       THEN [handle EXCEPT ![frame.index] = Append(@, frame)]
                       ELSE handle
    /\ UNCHANGED <<slotVars, chanVars, outVars>>

\* A frame for a socket of the pool: `handle.0.send`, whose error (the socket
\* has gone) is ignored.
ReadForward ==
    /\ NextFrame
    /\ LET frame == Head(inbox) IN
          /\ frame.index \in Pool
          /\ handle' = IF frame.index \in senders
                       THEN [handle EXCEPT ![frame.index] = Append(@, frame)]
                       ELSE handle
    /\ UNCHANGED <<slotVars, chanVars, outVars>>

\* An index outside the pool: the frame is dropped.
ReadUnknown ==
    /\ NextFrame
    /\ Head(inbox).index \notin Pool \cup {KeepAlive}
    /\ UNCHANGED <<slotVars, chanVars, outVars, handle>>

ReadPending ==
    /\ pc = "read" /\ inbox = <<>> /\ io = "open"
    /\ Pending("ioRead", "idle")
    /\ UNCHANGED <<slotVars, chanVars, outVars, inVars, handle>>

\* poll_next yields None or an error.
ReadStop ==
    /\ pc = "read" /\ inbox = <<>> /\ io # "open"
    /\ Stop
    /\ UNCHANGED <<slotVars, chanVars, outVars, inVars, handle>>

ReadYield ==
    /\ pc = "read" /\ spent
    /\ pc' = "idle" /\ notified' = TRUE
    /\ UNCHANGED <<spent, wakers, slotVars, chanVars, outVars, inVars, handle>>

ReadStep ==
    \/ ReadKeepAlive \/ ReadKeepAliveBusy \/ ReadForward \/ ReadUnknown
    \/ ReadPending \/ ReadStop \/ ReadYield

------------------------------------------------------------------------------
(* The other tasks, the connection and the server *)

\* A socket of the pool forwards a datagram of the game: tun_tx.send.
SocketSend ==
    /\ pc # "done" /\ senders # {} /\ sent < MaxSent
    /\ sent' = sent + 1 /\ rx' = Append(rx, sent + 1)
    /\ Wake({"rx"})
    /\ UNCHANGED <<pc, spent, slotVars, senders, outVars, inVars, handle>>

\* A socket task ends; dropping the last tun_tx closes the channel.
SocketEnd(i) ==
    /\ pc # "done" /\ i \in senders
    /\ senders' = senders \ {i}
    /\ IF senders = {i} THEN Wake({"rx"}) ELSE UNCHANGED <<wakers, notified>>
    /\ UNCHANGED <<pc, spent, slotVars, rx, sent, outVars, inVars, handle>>

ServerSend(i) ==
    /\ pc # "done" /\ io = "open" /\ received < MaxFrames
    /\ received' = received + 1
    /\ inbox' = Append(inbox, [index |-> i, id |-> received + 1])
    /\ Wake({"ioRead"})
    /\ UNCHANGED <<pc, spent, slotVars, chanVars, outVars, io, handle>>

\* The server ends its side of the stream.
ServerClose ==
    /\ pc # "done" /\ io = "open"
    /\ io' = "eof"
    /\ Wake({"ioRead"})
    /\ UNCHANGED <<pc, spent, slotVars, chanVars, outVars, inbox, received,
                   handle>>

\* The connection fails; frames that are not in the read buffer are lost.
ConnectionLost ==
    /\ pc # "done" /\ io # "broken"
    /\ io' = "broken"
    /\ \E k \in 0..Len(inbox) : inbox' = SubSeq(inbox, 1, k)
    /\ Wake({"ioRead", "ioWrite"})
    /\ UNCHANGED <<pc, spent, slotVars, chanVars, outVars, received, handle>>

\* The server reads: a full connection takes bytes again.
Drain ==
    /\ pc # "done" /\ ~writable
    /\ writable' = TRUE
    /\ Wake({"ioWrite"})
    /\ UNCHANGED <<pc, spent, slotVars, chanVars, out_data, out_pongs, wire,
                   inVars, handle>>

Environment ==
    \/ SocketSend \/ (\E i \in Pool : SocketEnd(i))
    \/ (\E i \in Indices : ServerSend(i)) \/ ServerClose \/ ConnectionLost
    \/ Drain

TaskStep == Poll \/ WriteStep \/ ReadStep

Next == TaskStep \/ Environment

Spec == Init /\ [][Next]_vars

\* The runtime polls a task that is notified and a poll runs to its end; the
\* peer of a connection that is not broken reads what it is sent.
FairSpec == Spec /\ WF_vars(TaskStep) /\ WF_vars(Drain)

------------------------------------------------------------------------------
(* Properties *)

\* Pool messages between the channel's sending end and the connection.
InHand    == IF message = NoMessage THEN <<>> ELSE <<message>>
InTransit == out_data \o InHand \o rx

\* Frames for socket i that have arrived.
Incoming(i) == Selected(inbox, {frame \in Frames : frame.index = i})

Out   == INSTANCE Relay WITH Msg <- Messages, Lossy <- FALSE,
                             pending <- InTransit, delivered <- wire
In(i) == INSTANCE Relay WITH Msg <- Frames, Lossy <- FALSE,
             pending <- Incoming(i), delivered <- handle[i]
LossyIn(i) == INSTANCE Relay WITH Msg <- Frames, Lossy <- TRUE,
                  pending <- Incoming(i), delivered <- handle[i]

\* Every message a socket put on the channel is either on the connection or
\* still held, and they are in the order they were sent: answering keep-alives
\* between poll_read_state and poll_write_state loses and repeats nothing.
MessagesInOrder == wire \o InTransit = [n \in 1..sent |-> n]

\* A lossless relay from the sockets to the server.
OutboundRelay == Out!Spec

\* A relay from the server to each socket, lossless as long as that socket is
\* there, whatever becomes of the others: frames reach socket i in the order they
\* were sent, none twice, and the steps that may drop one are those after the
\* socket has gone and the failure of the connection.
InboundRelay ==
    /\ \A i \in Pool : In(i)!Init
    /\ [][\A i \in Pool :
            \/ [In(i)!Next]_(In(i)!vars)
            \/ /\ i \notin senders \/ (io # "broken" /\ io' = "broken")
               /\ LossyIn(i)!Lose]_vars

\* The tunnel implements both: no keep-alive, full connection, unknown index or end
\* of another socket makes it lose, repeat or reorder a message or a frame.
RelaysBothWays == OutboundRelay /\ InboundRelay

\* The write buffer holds one frame in state Flush and none in the others, so
\* poll_ready has nothing to flush before start_send and the buffer cannot grow.
BufferOnlyWhileFlushing ==
    Len(out_data) + out_pongs = IF write_state = "Flush" THEN 1 ELSE 0

Asleep == pc = "idle" /\ ~notified

\* A tunnel that sleeps has nothing it could do for the sockets or the server:
\* no frame to read and no end of the stream to see, and no pool message or
\* closed channel to act on unless a full connection blocks it, in which case
\* the connection will wake it.
NothingStranded ==
    Asleep => /\ inbox = <<>> /\ io = "open" /\ "ioRead" \in wakers
              /\ \/ rx = <<>> /\ out_data = <<>> /\ senders # {}
                 \/ ~writable /\ "ioWrite" \in wakers

\* What the state of the tunnel is at every step of a poll: its types, at most one
\* frame in the buffer, no message lost, repeated or out of order, and no sleep
\* with work to do.
Inv == TypeOK /\ BufferOnlyWhileFlushing /\ MessagesInOrder /\ NothingStranded

\* Every message put on the channel reaches the connection, or the tunnel ends;
\* and a keep-alive reply that was left in the buffer goes out once anything
\* wakes the tunnel.
AllSent ==
    /\ \A n \in Messages : sent >= n ~> Len(wire) >= n \/ pc = "done"
    /\ out_pongs = 1 /\ notified ~> out_pongs = 0 \/ pc = "done"

\* A tunnel whose sockets have all gone, or whose connection has ended, ends,
\* and start_tunnel_server can build the next one.
TunnelEnds == senders = {} \/ io # "open" ~> pc = "done"
------------------------------------------------------------------------------
(* What makes MessagesInOrder, BufferOnlyWhileFlushing and NothingStranded     *)
(* inductive; PooledTunnelProofs uses it.                                       *)

\* Write is the one state that holds a message.
MessageHeld == write_state = "Write" <=> message # NoMessage

\* After the write half has been polled, and until something wakes the task,
\* it waits for the channel with nothing to send, or for the connection.
WritePolled ==
    pc \in {"read", "idle"} /\ ~notified
        => \/ rx = <<>> /\ out_data = <<>> /\ senders # {} /\ "rx" \in wakers
           \/ ~writable /\ "ioWrite" \in wakers

\* After the read half has been polled, likewise, it waits for the next frame.
ReadPolled ==
    Asleep => inbox = <<>> /\ io = "open" /\ "ioRead" \in wakers

IInv ==
    /\ TypeOK
    /\ MessageHeld
    /\ BufferOnlyWhileFlushing
    /\ WritePolled
    /\ ReadPolled
==============================================================================
