------------------------------ MODULE UdpTunnel ------------------------------
(***************************************************************************)
(* The `Tunnel` future of src/src/servers/udp_tunnel.rs, the UDP variant of *)
(* the tunnel: datagrams instead of a framed stream, a keep-alive check on  *)
(* an interval, and a send that can find the socket full after readiness    *)
(* was reported.  Wakers are modelled as in TcpTunnel.                      *)
(*                                                                          *)
(* Messages of the pool sockets are 1, 2, ... in the order they are put on   *)
(* the channel; 0 is the keep-alive reply.  Time counts KEEP_ALIVE_DELAYs.   *)
(***************************************************************************)
EXTENDS Integers, Sequences, SequencesExt, Selection

CONSTANTS
    SOCKET_POOL_SIZE,   \* sockets in the pool
    Indices,            \* index bytes of the Forward messages of the server
    MaxSent,            \* bound: messages the sockets put on the channel
    MaxDatagrams,       \* bound: datagrams that arrive
    MaxTime             \* bound: the clock

ASSUME PoolAssumption == SOCKET_POOL_SIZE \in 1..256
ASSUME IndexAssumption == Indices \subseteq 0..255
ASSUME BoundAssumption ==
    MaxSent \in Nat /\ MaxDatagrams \in Nat /\ MaxTime \in Nat

VARIABLES
    pc,              \* "idle", "write", "read", "recv", "done", or a panic
    notified,        \* the task is queued to be polled (again)
    spent,           \* this poll has completed an operation
    wakers,          \* sources that hold the task's waker
    write_state,     \* "Recv" or "Write"
    message,         \* what Write(Some(message)) holds, NoMessage for None
    rx,              \* the channel from the sockets
    senders,         \* sockets that still hold their tun_tx
    sent,            \* messages put on the channel so far
    wire,            \* pool messages sent to the server
    send_ready,      \* the runtime's cached write readiness of the socket
    room,            \* the socket's send buffer has room
    so_error,        \* the socket holds an error (server port unreachable)
    inbox,           \* the socket's receive buffer
    received,        \* datagrams that have arrived so far
    handle,          \* handle[i]: what was put on the channel of socket i
    now,             \* the clock
    last_keep_alive, \* when the last keep-alive was handled
    deadline         \* the next tick of keep_alive_interval

taskVars == <<pc, notified, spent, wakers>>
slotVars == <<write_state, message>>
chanVars == <<rx, senders, sent>>
sockVars == <<wire, send_ready, room, so_error>>
inVars   == <<inbox, received>>
timeVars == <<now, last_keep_alive, deadline>>
vars     == <<taskVars, slotVars, chanVars, sockVars, inVars, handle, timeVars>>

KEEP_ALIVE_DELAY   == 1
KEEP_ALIVE_TIMEOUT == KEEP_ALIVE_DELAY * 4

Pool      == 0..(SOCKET_POOL_SIZE - 1)
NoMessage == -1
KeepAlive == 0
Messages  == 1..MaxSent
Running   == {"idle", "write", "read", "recv"}
Ended     == {"done", "panic_message", "panic_send"}

\* A Forward message, a KeepAlive, a message of another kind, and a datagram
\* that does not deserialize.
Forwards  == [kind : {"Forward"}, index : Indices, id : 1..MaxDatagrams]
Datagrams == Forwards \cup [kind : {"KeepAlive", "Other", "Malformed"}]

TypeOK ==
    /\ pc \in Running \cup Ended
    /\ notified \in BOOLEAN /\ spent \in BOOLEAN
    /\ wakers \subseteq {"rx", "send", "recv", "timer"}
    /\ write_state \in {"Recv", "Write"}
    /\ message \in Messages \cup {NoMessage, KeepAlive}
    /\ rx \in Seq(Messages) /\ senders \subseteq Pool /\ sent \in 0..MaxSent
    /\ wire \in Seq(Messages)
    /\ send_ready \in BOOLEAN /\ room \in BOOLEAN /\ so_error \in BOOLEAN
    /\ inbox \in Seq(Datagrams) /\ received \in 0..MaxDatagrams
    /\ handle \in [Pool -> Seq(Forwards)]
    /\ now \in 0..MaxTime /\ last_keep_alive \in 0..MaxTime
    /\ deadline \in 0..(MaxTime + KEEP_ALIVE_DELAY)

\* create_tunnel, after the handshake and the allocation of the pool.
Init ==
    /\ pc = "idle" /\ notified = TRUE /\ spent = FALSE /\ wakers = {}
    /\ write_state = "Recv" /\ message = NoMessage
    /\ rx = <<>> /\ senders = Pool /\ sent = 0
    /\ wire = <<>> /\ send_ready = TRUE /\ room = TRUE /\ so_error = FALSE
    /\ inbox = <<>> /\ received = 0
    /\ handle = [i \in Pool |-> <<>>]
    /\ now = 0 /\ last_keep_alive = 0 /\ deadline = KEEP_ALIVE_DELAY

------------------------------------------------------------------------------
(* Wakers *)

Wake(S) ==
    /\ wakers' = wakers \ S
    /\ notified' = (notified \/ S \cap wakers # {})

\* An operation is Ready and polling goes on at `next`.
Ready(next) ==
    /\ pc' = next /\ spent' = TRUE
    /\ UNCHANGED <<notified, wakers>>

\* An operation is Pending, with the waker registered at source s.
Pending(s, next) ==
    /\ pc' = next
    /\ wakers' = wakers \cup {s}
    /\ UNCHANGED <<notified, spent>>

\* The cooperative budget of the poll is used up: an operation is Pending
\* and the task is woken at once.
OutOfBudget(next) ==
    /\ spent
    /\ pc' = next /\ notified' = TRUE
    /\ UNCHANGED <<spent, wakers>>

\* The future is not polled again: poll returns Ready(()) or panics.
End(how) ==
    /\ pc' = how
    /\ UNCHANGED <<notified, spent, wakers>>

------------------------------------------------------------------------------
(* poll_write_state *)

\* poll_send_ready is Pending: the message stays in the write state.
SendNotReady(m, next) ==
    /\ \/ ~send_ready /\ Pending("send", next)
       \/ OutOfBudget(next)
    /\ write_state' = "Write" /\ message' = m
    /\ UNCHANGED sockVars

\* poll_send_ready fails, as it does once the I/O driver of the runtime has shut
\* down: Stop, and the tunnel is not polled again.
SendReadyError(m) ==
    /\ End("done")
    /\ write_state' = "Write" /\ message' = m
    /\ UNCHANGED sockVars

\* poll_send_ready is Ready, the write state is Write(None): the first expect.
SendNothing(m) ==
    /\ send_ready /\ m = NoMessage
    /\ End("panic_message")
    /\ UNCHANGED <<slotVars, sockVars>>

\* Mutant: the message is not taken and the state stays Write.
SendDoneNotTaken(m, next) ==
    /\ send_ready /\ m # NoMessage /\ room /\ ~so_error
    /\ wire' = IF m = KeepAlive THEN wire ELSE Append(wire, m)
    /\ room' \in BOOLEAN
    /\ write_state' = "Write" /\ message' = m
    /\ Ready(next)
    /\ UNCHANGED <<send_ready, so_error>>

\* The message is taken and poll_send sends it.
SendDone(m, next) ==
    /\ send_ready /\ m # NoMessage /\ room /\ ~so_error
    /\ wire' = IF m = KeepAlive THEN wire ELSE Append(wire, m)
    /\ room' \in BOOLEAN
    /\ write_state' = "Recv" /\ message' = NoMessage
    /\ Ready(next)
    /\ UNCHANGED <<send_ready, so_error>>

\* The message is taken and poll_send is Pending, because the send buffer is
\* full or the budget is used up: the write state stays Write(None).
SendPending(m, next) ==
    /\ send_ready /\ m # NoMessage
    /\ write_state' = "Write" /\ message' = NoMessage
    /\ \/ /\ ~room /\ ~so_error
          /\ send_ready' = FALSE
          /\ Pending("send", next)
       \/ OutOfBudget(next) /\ UNCHANGED send_ready
    /\ UNCHANGED <<wire, room, so_error>>

\* The message is taken and poll_send reports the error: the second expect.
SendError(m) ==
    /\ send_ready /\ m # NoMessage /\ so_error
    /\ so_error' = FALSE /\ message' = NoMessage
    /\ End("panic_send")
    /\ UNCHANGED <<write_state, wire, send_ready, room>>

\* The Write(m) arm, polled once.
PollWrite(m, ready, pending) ==
    \/ SendNotReady(m, pending)
    \/ SendReadyError(m)
    \/ SendNothing(m)
    \/ SendDone(m, ready)
    \/ SendPending(m, pending)
    \/ SendError(m)

Poll ==
    /\ pc = "idle" /\ notified
    /\ pc' = "write" /\ notified' = FALSE /\ spent' = FALSE
    /\ UNCHANGED <<wakers, slotVars, chanVars, sockVars, inVars, handle,
                   timeVars>>

\* Mutant: the channel is drained down to its last message.
WriteRecvLatest ==
    /\ pc = "write" /\ write_state = "Recv" /\ rx # <<>>
    /\ message' = Last(rx) /\ rx' = <<>> /\ write_state' = "Write"
    /\ Ready("write")
    /\ UNCHANGED <<senders, sent, sockVars, inVars, handle, timeVars>>

\* Mutant: `if let` in place of the `while let` of poll.
WriteRecvOnce ==
    /\ pc = "write" /\ write_state = "Recv" /\ rx # <<>>
    /\ message' = Head(rx) /\ rx' = Tail(rx) /\ write_state' = "Write"
    /\ Ready("read")
    /\ UNCHANGED <<senders, sent, sockVars, inVars, handle, timeVars>>

WriteRecv ==
    /\ pc = "write" /\ write_state = "Recv" /\ rx # <<>>
    /\ message' = Head(rx) /\ rx' = Tail(rx) /\ write_state' = "Write"
    /\ Ready("write")
    /\ UNCHANGED <<senders, sent, sockVars, inVars, handle, timeVars>>

WriteRecvPending ==
    /\ pc = "write" /\ write_state = "Recv"
    /\ \/ rx = <<>> /\ senders # {} /\ Pending("rx", "read")
       \/ OutOfBudget("read")
    /\ UNCHANGED <<slotVars, chanVars, sockVars, inVars, handle, timeVars>>

\* Mutant: a closed channel is taken for an empty one.
WriteRecvClosedWaits ==
    /\ pc = "write" /\ write_state = "Recv" /\ rx = <<>> /\ senders = {}
    /\ Pending("rx", "read")
    /\ UNCHANGED <<slotVars, chanVars, sockVars, inVars, handle, timeVars>>

WriteRecvClosed ==
    /\ pc = "write" /\ write_state = "Recv" /\ rx = <<>> /\ senders = {}
    /\ End("done")
    /\ UNCHANGED <<slotVars, chanVars, sockVars, inVars, handle, timeVars>>

WriteMessage ==
    /\ pc = "write" /\ write_state = "Write"
    /\ PollWrite(message, "write", "read")
    /\ UNCHANGED <<chanVars, inVars, handle, timeVars>>

WriteStep == WriteRecv \/ WriteRecvPending \/ WriteRecvClosed \/ WriteMessage

------------------------------------------------------------------------------
(* poll_read_state: the keep-alive tick, then the socket *)

\* Instant::duration_since, which is zero when `earlier` is the later one.
DurationSince(instant, earlier) ==
    IF instant > earlier THEN instant - earlier ELSE 0

\* poll_tick is Ready: the deadline moves on and, as Interval does, the waker
\* is registered again only by the next poll_tick that is Pending.
CheckAlive ==
    /\ pc = "read" /\ now >= deadline
    /\ deadline' = now + KEEP_ALIVE_DELAY
    /\ wakers' = wakers \ {"timer"} /\ spent' = TRUE
    /\ pc' = IF DurationSince(last_keep_alive, now) > KEEP_ALIVE_TIMEOUT
             THEN "done" ELSE "recv"
    /\ UNCHANGED <<notified, slotVars, chanVars, sockVars, inVars, handle, now,
                   last_keep_alive>>

TickPending ==
    /\ pc = "read"
    /\ \/ now < deadline /\ Pending("timer", "recv")
       \/ OutOfBudget("recv")
    /\ UNCHANGED <<slotVars, chanVars, sockVars, inVars, handle, timeVars>>

NextDatagram ==
    /\ pc = "recv" /\ inbox # <<>>
    /\ inbox' = Tail(inbox)
    /\ UNCHANGED <<received, chanVars>>

ReadForward ==
    /\ NextDatagram
    /\ LET packet == Head(inbox) IN
          /\ packet.kind = "Forward"
          /\ handle' = IF packet.index \in Pool \cap senders
                       THEN [handle EXCEPT ![packet.index] = Append(@, packet)]
                       ELSE handle
    /\ Ready("read")
    /\ UNCHANGED <<slotVars, sockVars, timeVars>>

\* Mutant: a reply that is Pending ends the poll of the read half.
ReadKeepAliveReturns ==
    /\ NextDatagram
    /\ Head(inbox).kind = "KeepAlive"
    /\ last_keep_alive' = now
    /\ PollWrite(KeepAlive, "read", "idle")
    /\ UNCHANGED <<handle, now, deadline>>

\* The reply replaces whatever the write state holds and is polled once.
ReadKeepAlive ==
    /\ NextDatagram
    /\ Head(inbox).kind = "KeepAlive"
    /\ last_keep_alive' = now
    /\ PollWrite(KeepAlive, "read", "read")
    /\ UNCHANGED <<handle, now, deadline>>

ReadOther ==
    /\ NextDatagram
    /\ Head(inbox).kind = "Other"
    /\ Ready("read")
    /\ UNCHANGED <<slotVars, sockVars, handle, timeVars>>

ReadMalformed ==
    /\ NextDatagram
    /\ Head(inbox).kind = "Malformed"
    /\ End("done")
    /\ UNCHANGED <<slotVars, sockVars, handle, timeVars>>

\* The receive fails with the error of the socket, or poll_recv_ready does.
\* Whether the error comes before the datagrams that are waiting depends on the
\* platform.
ReadError ==
    /\ pc = "recv"
    /\ so_error' = FALSE
    /\ End("done")
    /\ UNCHANGED <<slotVars, chanVars, wire, send_ready, room, inVars, handle,
                   timeVars>>

\* Nothing to read, or the budget of the poll is used up.
ReadPending ==
    /\ pc = "recv"
    /\ \/ inbox = <<>> /\ Pending("recv", "idle")
       \/ OutOfBudget("idle")
    /\ UNCHANGED <<slotVars, chanVars, sockVars, inVars, handle, timeVars>>

ReadStep ==
    \/ CheckAlive \/ TickPending
    \/ ReadForward \/ ReadKeepAlive \/ ReadOther \/ ReadMalformed
    \/ ReadError \/ ReadPending

------------------------------------------------------------------------------
(* The other tasks, the network and the clock *)

SocketSend ==
    /\ pc \in Running /\ senders # {} /\ sent < MaxSent
    /\ sent' = sent + 1 /\ rx' = Append(rx, sent + 1)
    /\ Wake({"rx"})
    /\ UNCHANGED <<pc, spent, slotVars, senders, sockVars, inVars, handle,
                   timeVars>>

SocketEnd(i) ==
    /\ pc \in Running /\ i \in senders
    /\ senders' = senders \ {i}
    /\ IF senders = {i} THEN Wake({"rx"}) ELSE UNCHANGED <<wakers, notified>>
    /\ UNCHANGED <<pc, spent, slotVars, rx, sent, sockVars, inVars, handle,
                   timeVars>>

Arrive(datagram) ==
    /\ pc \in Running /\ received < MaxDatagrams
    /\ received' = received + 1
    /\ inbox' = Append(inbox, datagram)
    /\ Wake({"recv"})
    /\ UNCHANGED <<pc, spent, slotVars, chanVars, sockVars, handle, timeVars>>

\* The host of the server answers that the port is unreachable.  Whether the
\* error also makes the socket readable depends on the platform.
Unreachable ==
    /\ pc \in Running /\ ~so_error
    /\ so_error' = TRUE /\ send_ready' = TRUE
    /\ Wake({"send"}) \/ Wake({"send", "recv"})
    /\ UNCHANGED <<pc, spent, slotVars, chanVars, wire, room, inVars, handle,
                   timeVars>>

\* The send buffer has room again: the driver reports write readiness.
Drain ==
    /\ pc \in Running /\ ~room
    /\ room' = TRUE /\ send_ready' = TRUE
    /\ Wake({"send"})
    /\ UNCHANGED <<pc, spent, slotVars, chanVars, wire, so_error, inVars,
                   handle, timeVars>>

Tick ==
    /\ pc \in Running /\ now < MaxTime
    /\ now' = now + 1
    /\ IF now + 1 >= deadline THEN Wake({"timer"})
                              ELSE UNCHANGED <<wakers, notified>>
    /\ UNCHANGED <<pc, spent, slotVars, chanVars, sockVars, inVars, handle,
                   last_keep_alive, deadline>>

Environment ==
    \/ SocketSend \/ (\E i \in Pool : SocketEnd(i))
    \/ (\E i \in Indices :
            Arrive([kind |-> "Forward", index |-> i, id |-> received + 1]))
    \/ (\E k \in {"KeepAlive", "Other", "Malformed"} : Arrive([kind |-> k]))
    \/ Unreachable \/ Drain \/ Tick

TaskStep == Poll \/ WriteStep \/ ReadStep

Next == TaskStep \/ Environment

Spec == Init /\ [][Next]_vars

\* A notified task is polled, a poll runs to its end, the network takes what is
\* in the send buffer.
FairSpec == Spec /\ WF_vars(TaskStep) /\ WF_vars(Drain)

------------------------------------------------------------------------------
(* Properties *)

InHand == IF message \in Messages THEN <<message>> ELSE <<>>

\* Pool messages the tunnel no longer holds and has not sent.
Lost == (1..sent) \ ToSet(wire \o InHand \o rx)

\* Forwards for socket i that have arrived.
Incoming(i) == Selected(inbox, {packet \in Forwards : packet.index = i})

Out   == INSTANCE Relay WITH Msg <- Messages, Lossy <- TRUE,
                             pending <- InHand \o rx, delivered <- wire
In(i) == INSTANCE Relay WITH Msg <- Forwards, Lossy <- FALSE,
             pending <- Incoming(i), delivered <- handle[i]
LossyIn(i) == INSTANCE Relay WITH Msg <- Forwards, Lossy <- TRUE,
                  pending <- Incoming(i), delivered <- handle[i]

\* The tunnel implements a lossy relay from the sockets to the server, and one from
\* the server to each socket that drops a forward that has arrived only when that
\* socket has gone: order is kept and nothing comes out twice, whatever a
\* keep-alive reply, a full socket or the end of a budget does to the write state,
\* and whatever index a forward has.
RelaysBothWays ==
    /\ Out!Init /\ \A i \in Pool : In(i)!Init
    /\ [][/\ [Out!Next]_(Out!vars)
         /\ \A i \in Pool :
              \/ [In(i)!Next]_(In(i)!vars)
              \/ i \notin senders /\ LossyIn(i)!Lose]_vars

\* Only the message in the write state can be lost: what waits on the channel
\* is safe from the keep-alive reply and from a send that is Pending.
LosesOnlyTheMessageInHand == [][Lost' \subseteq Lost \cup {message}]_vars

Asleep == pc = "idle" /\ ~notified

\* A tunnel that sleeps has no datagram to read, and no message or closed
\* channel to act on unless the socket blocks it, in which case the socket
\* will wake it.
NothingStranded ==
    Asleep => /\ inbox = <<>> /\ "recv" \in wakers
              /\ \/ /\ write_state = "Recv" /\ rx = <<>> /\ senders # {}
                    /\ "rx" \in wakers
                 \/ /\ write_state = "Write" /\ ~send_ready
                    /\ "send" \in wakers

\* What the state of the UDP tunnel is at every step of a poll: its types, and no
\* sleep with work to do.
Inv == TypeOK /\ NothingStranded

\* Every message put on the channel is sent, lost from the write state, or left
\* behind by a tunnel that has ended.
EveryMessageSettled ==
    \A n \in Messages :
        sent >= n ~> n \in ToSet(wire) \cup Lost \/ pc \in Ended

\* A tunnel whose sockets have all gone ends.
TunnelEnds == senders = {} ~> pc \in Ended

\* udp_tunnel.rs:356 expects ("Unexpected write state without message") that a
\* write state polled on a ready socket holds a message.
WriteStateHasMessage == pc # "panic_message"

\* udp_tunnel.rs:284 says that "When this duration elapses between keep-alive
\* checks for a connection the connection is considered to be dead": a check
\* later than that after the last keep-alive stops the tunnel.
DeadConnectionStops ==
    [][CheckAlive /\ now - last_keep_alive > KEEP_ALIVE_TIMEOUT
         => pc' = "done"]_vars
==============================================================================
