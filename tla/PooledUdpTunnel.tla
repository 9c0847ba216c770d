--------------------------- MODULE PooledUdpTunnel ---------------------------
(***************************************************************************)
(* A tunnel of src/src/servers/udp_tunnel.rs and the socket of its pool,     *)
(* joined as PooledTunnel joins those of tunnel.rs: each task's sends, and   *)
(* its end, are steps of the other's environment.  The tunnel may also panic *)
(* or stop at a datagram, and may lose the message it holds.                 *)
(***************************************************************************)
EXTENDS UdpTunnel, FiniteSets

CONSTANT LENGTH     \* bytes of a message

ASSUME OneSocket == SOCKET_POOL_SIZE = 1
ASSUME MessageLength == LENGTH \in Nat \ {0}

VARIABLES
    socket_pc, socket_notified, socket_spent, socket_wakers,
    socket_write_state, socket_message, socket_rx, accepted, tunnel,
    game, socket_room, socket_error, socket_inbox, arrived, tun

S == INSTANCE PoolSocket WITH
        MaxMessages <- MaxDatagrams, MaxDatagrams <- MaxSent,
        pc <- socket_pc, notified <- socket_notified, spent <- socket_spent,
        wakers <- socket_wakers, write_state <- socket_write_state,
        message <- socket_message, rx <- socket_rx, room <- socket_room,
        so_error <- socket_error, inbox <- socket_inbox

socketVars ==
    <<socket_pc, socket_notified, socket_spent, socket_wakers, socket_write_state,
      socket_message, socket_rx, accepted, tunnel, game, socket_room,
      socket_error, socket_inbox, arrived, tun>>

pairVars == <<vars, socketVars>>

\* allocate_pool starts the socket before the tunnel is awaited.
PairInit == Init /\ S!Init

------------------------------------------------------------------------------
(* The two tasks *)

\* What a step of the tunnel does to the socket: a forward for it goes on its
\* channel, and the tunnel's end, a panic included, drops the channels.
TunnelStep ==
    /\ TaskStep
    /\ IF pc' \in Ended /\ socket_pc # "done" THEN S!TunnelGone
       ELSE IF handle' # handle THEN S!TunnelSend
       ELSE UNCHANGED socketVars

\* What a step of the socket does to the tunnel: a datagram goes on the shared
\* channel, and the socket's end drops its sender.
SocketStep ==
    /\ S!TaskStep
    /\ IF tun' # tun THEN SocketSend
       ELSE IF socket_pc' = "done" /\ pc \in Running THEN SocketEnd(0)
       ELSE UNCHANGED vars

\* The server, the network and the clock, and the game and its socket.
Outside ==
    \/ /\ \/ \E i \in Indices :
                Arrive([kind |-> "Forward", index |-> i, id |-> received + 1])
          \/ \E k \in {"KeepAlive", "Other", "Malformed"} : Arrive([kind |-> k])
          \/ Unreachable \/ Drain \/ Tick
       /\ UNCHANGED socketVars
    \/ /\ S!GameSend \/ S!Unreachable \/ S!Drain
       /\ UNCHANGED vars

PairNext == TunnelStep \/ SocketStep \/ Outside

PairSpec == PairInit /\ [][PairNext]_pairVars

------------------------------------------------------------------------------
(* Properties *)

BothRun == pc \in Running /\ socket_pc # "done"

\* Datagrams of the game that have not come to the write state yet, and all that
\* are on their way to the server.
Queued   == rx \o socket_inbox
GoingOut == InHand \o Queued

\* Forwards for the socket whose bytes the game has, and those on their way there.
Reached == [k \in 1..(Len(game) \div LENGTH) |-> handle[0][k]]
ComingIn ==
    SubSeq(handle[0], Len(Reached) + 1, Len(handle[0])) \o Incoming(0)

\* While both tasks run, the datagrams of the game that wait on the channel or in
\* the socket are its latest, without a gap; every other one is on the wire, in the
\* write state, or lost from there; no forward put on the socket's channel is
\* missing, and neither task takes the other for gone.  Both sleep only when
\* nothing is left to do for either, but for what a full send buffer holds up.
PairInv ==
    /\ BothRun =>
          /\ Queued = [k \in 1..Len(Queued) |-> arrived - Len(Queued) + k]
          /\ ToSet(wire \o GoingOut) \cup Lost = 1..arrived
          /\ accepted = Len(handle[0])
          /\ tunnel = "up" /\ senders = {0}
    /\ BothRun /\ Asleep /\ S!Asleep =>
          /\ inbox = <<>> /\ socket_inbox = <<>>
          /\ send_ready => GoingOut = <<>>
          /\ socket_room => Len(game) = LENGTH * accepted

GameToServer == INSTANCE Relay WITH
    Msg <- Messages, Lossy <- TRUE, pending <- GoingOut, delivered <- wire
ServerToGame == INSTANCE Relay WITH
    Msg <- Forwards, Lossy <- TRUE, pending <- ComingIn, delivered <- Reached

\* From end to end, the two tasks are a relay each way between the game and
\* the server, however a keep-alive reply or a full socket empties the write state:
\* what comes out is in order and is not repeated.
EndToEnd == GameToServer!Spec /\ ServerToGame!Spec
==============================================================================
