---------------------------- MODULE PooledTunnel ----------------------------
(***************************************************************************)
(* A tunnel of src/src/servers/tunnel.rs and the socket of its pool: the     *)
(* two tasks of TcpTunnel and PoolSocket with the channels they share.  The  *)
(* rest of the tunnel's pool is left out: sockets have no other state in     *)
(* common.  What TcpTunnel leaves to a socket (SocketSend, SocketEnd) and    *)
(* PoolSocket to the tunnel (TunnelSend, TunnelGone) happens here only as a  *)
(* part of the other task's step that does it, so each task has to wake the  *)
(* other.                                                                    *)
(***************************************************************************)
EXTENDS TcpTunnel, FiniteSets

CONSTANT LENGTH     \* bytes of a message

ASSUME OneSocket == SOCKET_POOL_SIZE = 1
ASSUME MessageLength == LENGTH \in Nat \ {0}

VARIABLES
    socket_pc, socket_notified, socket_spent, socket_wakers,
    socket_write_state, socket_message, socket_rx, accepted, tunnel,
    game, room, so_error, socket_inbox, arrived, tun

S == INSTANCE PoolSocket WITH
        MaxMessages <- MaxFrames, MaxDatagrams <- MaxSent,
        pc <- socket_pc, notified <- socket_notified, spent <- socket_spent,
        wakers <- socket_wakers, write_state <- socket_write_state,
        message <- socket_message, rx <- socket_rx, inbox <- socket_inbox

socketVars ==
    <<socket_pc, socket_notified, socket_spent, socket_wakers, socket_write_state,
      socket_message, socket_rx, accepted, tunnel, game, room, so_error,
      socket_inbox, arrived, tun>>

pairVars == <<vars, socketVars>>

\* allocate_pool starts the socket before the tunnel is awaited.
PairInit == Init /\ S!Init

------------------------------------------------------------------------------
(* The two tasks *)

\* What a step of the tunnel does to the socket: a frame for it goes on its
\* channel, and the tunnel's end drops the channels.
TunnelStep ==
    /\ TaskStep
    /\ IF pc' = "done" /\ socket_pc # "done" THEN S!TunnelGone
       ELSE IF handle' # handle THEN S!TunnelSend
       ELSE UNCHANGED socketVars

\* What a step of the socket does to the tunnel: a datagram goes on the shared
\* channel, and the socket's end drops its sender.
SocketStep ==
    /\ S!TaskStep
    /\ IF tun' # tun THEN SocketSend
       ELSE IF socket_pc' = "done" /\ pc # "done" THEN SocketEnd(0)
       ELSE UNCHANGED vars

\* The server and the connection, and the game and its socket.
Outside ==
    \/ /\ \/ \E i \in Indices : ServerSend(i)
          \/ ServerClose \/ ConnectionLost \/ Drain
       /\ UNCHANGED socketVars
    \/ /\ S!GameSend \/ S!Unreachable \/ S!Drain
       /\ UNCHANGED vars

PairNext == TunnelStep \/ SocketStep \/ Outside

PairSpec == PairInit /\ [][PairNext]_pairVars

\* The runtime polls both tasks when they are notified, and both peers read.
PairFairSpec ==
    /\ PairSpec
    /\ WF_pairVars(TunnelStep) /\ WF_pairVars(SocketStep)
    /\ WF_pairVars(Drain /\ UNCHANGED socketVars)
    /\ WF_pairVars(S!Drain /\ UNCHANGED vars)

------------------------------------------------------------------------------
(* Properties *)

Running == pc # "done" /\ socket_pc # "done"

\* Datagrams of the game that are on their way to the connection.
GoingOut == InTransit \o socket_inbox

\* Frames for the socket whose bytes the game has, and those on their way there.
Reached == [k \in 1..(Len(game) \div LENGTH) |-> handle[0][k]]
ComingIn ==
    SubSeq(handle[0], Len(Reached) + 1, Len(handle[0])) \o Incoming(0)

\* While both tasks run, every datagram of the game is on the connection or on
\* its way there, none of the frames put on the socket's channel is missing, and
\* neither task takes the other for gone.  Both sleep only when nothing is left
\* to do for either, but for what a connection or a socket that takes no more
\* holds up.
PairInv ==
    /\ Running =>
          /\ wire \o GoingOut = [k \in 1..arrived |-> k]
          /\ accepted = Len(handle[0])
          /\ tunnel = "up" /\ senders = {0}
    /\ Running /\ Asleep /\ S!Asleep =>
          /\ inbox = <<>> /\ socket_inbox = <<>>
          /\ writable => wire = [k \in 1..arrived |-> k]
          /\ room => Len(game) = LENGTH * accepted

GameToServer == INSTANCE Relay WITH
    Msg <- Messages, Lossy <- TRUE, pending <- GoingOut, delivered <- wire
ServerToGame == INSTANCE Relay WITH
    Msg <- Frames, Lossy <- TRUE, pending <- ComingIn, delivered <- Reached

\* From end to end, the two tasks are a relay each way between the game and
\* the server: what comes out is in order and is not repeated.
EndToEnd == GameToServer!Spec /\ ServerToGame!Spec

\* Either task ends after the other: no socket keeps its port without a tunnel,
\* and no tunnel goes on without sockets.
EndTogether ==
    /\ pc = "done" ~> socket_pc = "done"
    /\ socket_pc = "done" ~> pc = "done"
==============================================================================
