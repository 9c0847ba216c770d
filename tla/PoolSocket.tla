------------------------------ MODULE PoolSocket ------------------------------
(***************************************************************************)
(* The `Socket` future of a tunnel's pool (src/src/servers/tunnel.rs, and   *)
(* the same in udp_tunnel.rs): one task between a UDP socket connected to    *)
(* the game and the two channels it shares with the tunnel.  Wakers are     *)
(* modelled as in TcpTunnel.                                                *)
(*                                                                          *)
(* Messages of the tunnel are 1, 2, ... in the order they are put on the     *)
(* socket's channel; each has LENGTH bytes, and a byte is the number of its  *)
(* message.  Datagrams of the game are 1, 2, ... in the order they arrive.   *)
(***************************************************************************)
EXTENDS Integers, Sequences

CONSTANTS
    LENGTH,        \* bytes of a message
    MaxMessages,   \* bound: messages of the tunnel
    MaxDatagrams   \* bound: datagrams of the game

ASSUME LengthAssumption == LENGTH \in Nat \ {0}
ASSUME BoundAssumption == MaxMessages \in Nat /\ MaxDatagrams \in Nat

VARIABLES
    pc,           \* "idle", "write", "read", "done"
    notified,     \* the task is queued to be polled (again)
    spent,        \* this poll has completed an operation
    wakers,       \* sources that hold the task's waker
    write_state,  \* "Recv" or "Write"
    message,      \* the bytes of Write(message) that are still to be sent
    rx,           \* the channel from the tunnel
    accepted,     \* messages put on it so far
    tunnel,       \* the tunnel is "up", or "gone": it holds neither channel
    game,         \* bytes sent to the game
    room,         \* the socket's send buffer has room
    so_error,     \* the socket holds an error (the game's port is unreachable)
    inbox,        \* datagrams of the game that wait in the socket
    arrived,      \* datagrams of the game so far
    tun           \* what was sent on tun_tx

taskVars == <<pc, notified, spent, wakers>>
slotVars == <<write_state, message>>
chanVars == <<rx, accepted, tunnel>>
sockVars == <<game, room, so_error, inbox, arrived>>
vars     == <<taskVars, slotVars, chanVars, sockVars, tun>>

Messages  == 1..MaxMessages
Datagrams == 1..MaxDatagrams

TypeOK ==
    /\ pc \in {"idle", "write", "read", "done"}
    /\ notified \in BOOLEAN /\ spent \in BOOLEAN
    /\ wakers \subseteq {"rx", "send", "recv"}
    /\ write_state \in {"Recv", "Write"}
    /\ message \in Seq(Messages) /\ Len(message) <= LENGTH
    /\ rx \in Seq(Messages) /\ accepted \in 0..MaxMessages
    /\ tunnel \in {"up", "gone"}
    /\ game \in Seq(Messages) /\ room \in BOOLEAN /\ so_error \in BOOLEAN
    /\ inbox \in Seq(Datagrams) /\ arrived \in 0..MaxDatagrams
    /\ tun \in Seq(Datagrams)

\* Socket::start: the socket is bound and connected and the task spawned.
Init ==
    /\ pc = "idle" /\ notified = TRUE /\ spent = FALSE /\ wakers = {}
    /\ write_state = "Recv" /\ message = <<>>
    /\ rx = <<>> /\ accepted = 0 /\ tunnel = "up"
    /\ game = <<>> /\ room = TRUE /\ so_error = FALSE
    /\ inbox = <<>> /\ arrived = 0
    /\ tun = <<>>

Bytes(m) == [k \in 1..LENGTH |-> m]

------------------------------------------------------------------------------
(* Wakers *)

Wake(S) ==
    /\ wakers' = wakers \ S
    /\ notified' = (notified \/ S \cap wakers # {})

Ready(next) ==
    /\ pc' = next /\ spent' = TRUE
    /\ UNCHANGED <<notified, wakers>>

Pending(s, next) ==
    /\ pc' = next
    /\ wakers' = wakers \cup {s}
    /\ UNCHANGED <<notified, spent>>

OutOfBudget(next) ==
    /\ spent
    /\ pc' = next /\ notified' = TRUE
    /\ UNCHANGED <<spent, wakers>>

Stop ==
    /\ pc' = "done"
    /\ UNCHANGED <<notified, spent, wakers>>

------------------------------------------------------------------------------
(* The write half: poll_write_state *)

Poll ==
    /\ pc = "idle" /\ notified
    /\ pc' = "write" /\ notified' = FALSE /\ spent' = FALSE
    /\ UNCHANGED <<wakers, slotVars, chanVars, sockVars, tun>>

WriteRecv ==
    /\ pc = "write" /\ write_state = "Recv" /\ rx # <<>>
    /\ write_state' = "Write" /\ message' = Bytes(Head(rx))
    /\ rx' = Tail(rx)
    /\ Ready("write")
    /\ UNCHANGED <<accepted, tunnel, sockVars, tun>>

WriteRecvPending ==
    /\ pc = "write" /\ write_state = "Recv"
    /\ \/ rx = <<>> /\ tunnel = "up" /\ Pending("rx", "read")
       \/ OutOfBudget("read")
    /\ UNCHANGED <<slotVars, chanVars, sockVars, tun>>

\* Mutant: a closed channel is taken for an empty one.
WriteRecvClosedWaits ==
    /\ pc = "write" /\ write_state = "Recv" /\ rx = <<>> /\ tunnel = "gone"
    /\ Pending("rx", "read")
    /\ UNCHANGED <<slotVars, chanVars, sockVars, tun>>

\* Mutant: the channel is closed at once when the tunnel goes.
WriteRecvClosedFull ==
    /\ pc = "write" /\ write_state = "Recv" /\ tunnel = "gone"
    /\ Stop
    /\ UNCHANGED <<slotVars, chanVars, sockVars, tun>>

\* The channel is closed once the tunnel has gone and what it held is read.
WriteRecvClosed ==
    /\ pc = "write" /\ write_state = "Recv" /\ rx = <<>> /\ tunnel = "gone"
    /\ Stop
    /\ UNCHANGED <<slotVars, chanVars, sockVars, tun>>

\* Mutant: the whole message is kept after a part of it was sent.
WriteSendAgain ==
    /\ pc = "write" /\ write_state = "Write" /\ room /\ ~so_error
    /\ \E count \in 0..Len(message) :
          /\ (count = 0 => message = <<>>)
          /\ game' = game \o SubSeq(message, 1, count)
          /\ write_state' = IF count = Len(message) THEN "Recv" ELSE "Write"
          /\ message' = IF count = Len(message) THEN <<>> ELSE message
    /\ room' \in BOOLEAN
    /\ Ready("write")
    /\ UNCHANGED <<chanVars, so_error, inbox, arrived, tun>>

\* poll_send takes `count` bytes; the rest stays in the write state.  (A UDP
\* send takes all of them; the code allows for less.)
WriteSend ==
    /\ pc = "write" /\ write_state = "Write" /\ room /\ ~so_error
    /\ \E count \in 0..Len(message) :
          /\ (count = 0 => message = <<>>)
          /\ game' = game \o SubSeq(message, 1, count)
          /\ message' = SubSeq(message, count + 1, Len(message))
          /\ write_state' = IF count = Len(message) THEN "Recv" ELSE "Write"
    /\ room' \in BOOLEAN
    /\ Ready("write")
    /\ UNCHANGED <<chanVars, so_error, inbox, arrived, tun>>

WriteSendPending ==
    /\ pc = "write" /\ write_state = "Write"
    /\ \/ ~room /\ ~so_error /\ Pending("send", "read")
       \/ OutOfBudget("read")
    /\ UNCHANGED <<slotVars, chanVars, sockVars, tun>>

WriteSendError ==
    /\ pc = "write" /\ write_state = "Write" /\ so_error
    /\ so_error' = FALSE
    /\ Stop
    /\ UNCHANGED <<slotVars, chanVars, game, room, inbox, arrived, tun>>

WriteStep ==
    \/ WriteRecv \/ WriteRecvPending \/ WriteRecvClosed
    \/ WriteSend \/ WriteSendPending \/ WriteSendError

------------------------------------------------------------------------------
(* The read half: poll_read_state *)

\* Mutant: `if let` in place of the `while let` of poll.
ReadForwardOnce ==
    /\ pc = "read" /\ inbox # <<>> /\ tunnel = "up"
    /\ inbox' = Tail(inbox) /\ tun' = Append(tun, Head(inbox))
    /\ Ready("idle")
    /\ UNCHANGED <<slotVars, chanVars, game, room, so_error, arrived>>

\* A datagram of the game is put on the tunnel's channel.
ReadForward ==
    /\ pc = "read" /\ inbox # <<>> /\ tunnel = "up"
    /\ inbox' = Tail(inbox) /\ tun' = Append(tun, Head(inbox))
    /\ Ready("read")
    /\ UNCHANGED <<slotVars, chanVars, game, room, so_error, arrived>>

\* Mutant: the error of tun_tx.send is ignored.
ReadClosedIgnored ==
    /\ pc = "read" /\ inbox # <<>> /\ tunnel = "gone"
    /\ inbox' = Tail(inbox)
    /\ Ready("read")
    /\ UNCHANGED <<slotVars, chanVars, game, room, so_error, arrived, tun>>

\* The tunnel's channel is closed: tun_tx.send fails.
ReadClosed ==
    /\ pc = "read" /\ inbox # <<>> /\ tunnel = "gone"
    /\ inbox' = Tail(inbox)
    /\ Stop
    /\ UNCHANGED <<slotVars, chanVars, game, room, so_error, arrived, tun>>

ReadError ==
    /\ pc = "read" /\ so_error
    /\ so_error' = FALSE
    /\ Stop
    /\ UNCHANGED <<slotVars, chanVars, game, room, inbox, arrived, tun>>

ReadPending ==
    /\ pc = "read"
    /\ \/ inbox = <<>> /\ Pending("recv", "idle")
       \/ OutOfBudget("idle")
    /\ UNCHANGED <<slotVars, chanVars, sockVars, tun>>

ReadStep == ReadForward \/ ReadClosed \/ ReadError \/ ReadPending

------------------------------------------------------------------------------
(* The tunnel and the game *)

\* The tunnel forwards a message: handle.0.send.
TunnelSend ==
    /\ pc # "done" /\ tunnel = "up" /\ accepted < MaxMessages
    /\ accepted' = accepted + 1 /\ rx' = Append(rx, accepted + 1)
    /\ Wake({"rx"})
    /\ UNCHANGED <<pc, spent, slotVars, tunnel, sockVars, tun>>

\* The tunnel is dropped, with its handles and its receiver.
TunnelGone ==
    /\ pc # "done" /\ tunnel = "up"
    /\ tunnel' = "gone"
    /\ Wake({"rx"})
    /\ UNCHANGED <<pc, spent, slotVars, rx, accepted, sockVars, tun>>

GameSend ==
    /\ pc # "done" /\ arrived < MaxDatagrams
    /\ arrived' = arrived + 1 /\ inbox' = Append(inbox, arrived + 1)
    /\ Wake({"recv"})
    /\ UNCHANGED <<pc, spent, slotVars, chanVars, game, room, so_error, tun>>

\* The game does not listen.  Whether the error also makes the socket readable
\* depends on the platform.
Unreachable ==
    /\ pc # "done" /\ ~so_error
    /\ so_error' = TRUE
    /\ Wake({"send"}) \/ Wake({"send", "recv"})
    /\ UNCHANGED <<pc, spent, slotVars, chanVars, game, room, inbox, arrived,
                   tun>>

Drain ==
    /\ pc # "done" /\ ~room
    /\ room' = TRUE
    /\ Wake({"send"})
    /\ UNCHANGED <<pc, spent, slotVars, chanVars, game, so_error, inbox,
                   arrived, tun>>

Environment ==
    TunnelSend \/ TunnelGone \/ GameSend \/ Unreachable \/ Drain

TaskStep == Poll \/ WriteStep \/ ReadStep

Next == TaskStep \/ Environment

Spec == Init /\ [][Next]_vars

\* A notified task is polled, a poll runs to its end, and the loopback
\* interface takes what is in the send buffer.
FairSpec == Spec /\ WF_vars(TaskStep) /\ WF_vars(Drain)

------------------------------------------------------------------------------
(* Properties *)

\* The game gets the bytes of the messages in the order the tunnel sent them,
\* however the sends cut them, and none twice: a send that takes a part leaves
\* the rest, and only the rest, to be sent before the next message.
BytesInOrder ==
    LET next == (Len(game) + Len(message)) \div LENGTH + 1 IN
    /\ (Len(game) + Len(message)) % LENGTH = 0
    /\ \A k \in DOMAIN game : game[k] = (k - 1) \div LENGTH + 1
    /\ \A k \in DOMAIN message :
            message[k] = (Len(game) + k - 1) \div LENGTH + 1
    /\ rx = [k \in 1..(accepted + 1 - next) |-> next + k - 1]

Asleep == pc = "idle" /\ ~notified

\* A socket that sleeps has no datagram to read, and no message or closed
\* channel to act on unless its send buffer is full, in which case it is woken
\* when there is room.
NothingStranded ==
    Asleep => /\ inbox = <<>> /\ "recv" \in wakers
              /\ \/ /\ write_state = "Recv" /\ rx = <<>> /\ tunnel = "up"
                    /\ "rx" \in wakers
                 \/ /\ write_state = "Write" /\ ~room /\ ~so_error
                    /\ "send" \in wakers

\* The datagrams of the game reach the tunnel's channel in order, and while
\* the task runs none is missing.
DatagramsInOrder ==
    /\ \A k \in DOMAIN tun : tun[k] = k
    /\ pc # "done" => tun \o inbox = [k \in 1..arrived |-> k]

\* What the state of a socket is at every step of a poll: its types, no sleep with
\* work to do, and no datagram lost or out of order.
Inv == TypeOK /\ NothingStranded /\ DatagramsInOrder

\* What the tunnel forwarded before it went is not thrown away with it: a socket that
\* ends has sent the game every message that it accepted, unless the socket holds an
\* error or a datagram waits that the tunnel no longer takes.
QueueIsDrained ==
    [][pc # "done" /\ pc' = "done" =>
          so_error \/ inbox # <<>> \/ Len(game) = LENGTH * accepted]_vars

\* A socket ends after its tunnel: its port becomes free for the next pool.
SocketEnds == tunnel = "gone" ~> pc = "done"
==============================================================================
