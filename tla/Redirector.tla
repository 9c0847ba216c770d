------------------------------ MODULE Redirector ------------------------------
(***************************************************************************)
(* One connection of the redirector server, handle of                       *)
(* src/src/servers/redirector.rs: packets of the game are answered, with an  *)
(* empty response unless they ask for the server instance, which is answered *)
(* with the local address and ends the connection.                          *)
(*                                                                          *)
(* Packets are what FireCodec decodes (Codec): [seq, redirect], where        *)
(* redirect says that the component and the command are the expected ones.   *)
(* A timer that is due fires before more time passes.                        *)
(***************************************************************************)
EXTENDS Integers, Sequences, SequencesExt

CONSTANTS
    REDIRECT_TIMEOUT,
    MaxPackets           \* bound: packets of the game

VARIABLES
    pc,        \* "accept", "read", "write", "done"
    result,    \* "Ok" or the RedirectError, once handle has returned
    packet,    \* the packet that is being answered
    left,      \* time left until the read times out
    asked,     \* packets the game has sent, whole
    received,  \* those of them that arrived and wait to be read
    partial,   \* the first bytes of the next packet have arrived
    closed,    \* the game has closed the connection
    sent       \* responses: [seq, redirect]

connection == <<pc, result, packet, left, sent>>
game == <<asked, received, partial, closed>>
vars == <<connection, game>>

Packets == [seq : 1..MaxPackets, redirect : BOOLEAN]
NoPacket == [seq |-> 0, redirect |-> FALSE]

TypeOK ==
    /\ pc \in {"accept", "read", "write", "done"}
    /\ result \in {"None", "Ok", "Accept", "Timeout", "Read", "Write",
                   "Aborted"}
    /\ pc = "done" <=> result # "None"
    /\ packet \in Packets \cup {NoPacket}
    /\ pc = "write" <=> packet # NoPacket
    /\ left \in 0..REDIRECT_TIMEOUT
    /\ asked \in Seq(Packets) /\ received \in Seq(Packets)
    /\ partial \in BOOLEAN /\ closed \in BOOLEAN
    /\ sent \in Seq(Packets)

Init ==
    /\ pc = "accept" /\ result = "None" /\ packet = NoPacket
    /\ left = 0
    /\ asked = <<>> /\ received = <<>> /\ partial = FALSE /\ closed = FALSE
    /\ sent = <<>>

------------------------------------------------------------------------------
(* handle *)

\* The loop asks for the next packet under a new timeout.
Await == pc' = "read" /\ left' = REDIRECT_TIMEOUT

Return(res) ==
    /\ pc' = "done" /\ result' = res /\ packet' = NoPacket
    /\ UNCHANGED left

FinishAccept ==
    /\ pc = "accept"
    /\ Await
    /\ UNCHANGED <<result, packet, sent, game>>

AcceptError ==
    /\ pc = "accept"
    /\ Return("Accept")
    /\ UNCHANGED <<sent, game>>

\* A packet was decoded: its answer is sent.
ReadPacket ==
    /\ pc = "read" /\ received # <<>>
    /\ packet' = Head(received) /\ received' = Tail(received)
    /\ pc' = "write"
    /\ UNCHANGED <<result, left, sent, asked, partial, closed>>

ReadEnd ==
    /\ pc = "read" /\ received = <<>> /\ closed /\ ~partial
    /\ Return("Ok")
    /\ UNCHANGED <<sent, game>>

\* The connection fails, or ends inside a packet.
ReadError ==
    /\ pc = "read"
    /\ Return("Read")
    /\ UNCHANGED <<sent, game>>

\* The end of the connection inside a packet.
ReadEndInside == closed /\ partial /\ received = <<>> /\ ReadError

\* Mutant: the timeout is a reason to try again.
ReadTimeoutAgain ==
    /\ pc = "read" /\ received = <<>> /\ ~closed /\ left = 0
    /\ Await
    /\ UNCHANGED <<result, packet, sent, game>>

\* The timer is that of the whole packet: its first bytes do not set it again.
ReadTimeout ==
    /\ pc = "read" /\ received = <<>> /\ ~closed /\ left = 0
    /\ Return("Timeout")
    /\ UNCHANGED <<sent, game>>

\* Mutant: a packet that was not expected is not answered.
SendEmptyNot ==
    /\ pc = "write" /\ ~packet.redirect
    /\ packet' = NoPacket /\ Await
    /\ UNCHANGED <<result, sent, game>>

\* The empty response has been flushed: the loop goes on.
SendEmpty ==
    /\ pc = "write" /\ ~packet.redirect
    /\ sent' = Append(sent, packet)
    /\ packet' = NoPacket /\ Await
    /\ UNCHANGED <<result, game>>

\* The redirect has been flushed: the loop ends.
SendRedirect ==
    /\ pc = "write" /\ packet.redirect
    /\ sent' = Append(sent, packet)
    /\ Return("Ok")
    /\ UNCHANGED <<game>>

WriteError ==
    /\ pc = "write"
    /\ Return("Write")
    /\ UNCHANGED <<sent, game>>

\* stop_server_tasks aborts the task, which is dropped at an await.
Abort ==
    /\ pc # "done"
    /\ Return("Aborted")
    /\ UNCHANGED <<sent, game>>

Handle ==
    \/ FinishAccept \/ AcceptError
    \/ ReadPacket \/ ReadEnd \/ ReadError \/ ReadTimeout
    \/ SendEmpty \/ SendRedirect \/ WriteError

------------------------------------------------------------------------------
(* The game and the clock *)

GameSendsPart ==
    /\ ~closed /\ ~partial /\ Len(asked) < MaxPackets
    /\ partial' = TRUE
    /\ UNCHANGED <<connection, asked, received, closed>>

\* All that was missing of a packet arrives.
GameSends(redirect) ==
    /\ ~closed /\ Len(asked) < MaxPackets
    /\ LET p == [seq |-> Len(asked) + 1, redirect |-> redirect] IN
          asked' = Append(asked, p) /\ received' = Append(received, p)
    /\ partial' = FALSE
    /\ UNCHANGED <<connection, closed>>

GameCloses ==
    /\ ~closed
    /\ closed' = TRUE
    /\ UNCHANGED <<connection, asked, received, partial>>

Tick ==
    /\ pc = "read" => left > 0
    /\ left' = IF pc = "read" THEN left - 1 ELSE left
    /\ UNCHANGED <<pc, result, packet, sent, game>>

\* What is owed: a read goes on when there is a packet, an end or a timer that is
\* due.  The SSL handshake and a write have no timeout: they are owed an end only
\* once the game has closed the connection.
Progress ==
    \/ ReadPacket \/ ReadEnd \/ ReadEndInside \/ ReadTimeout \/ Tick
    \/ closed /\ (FinishAccept \/ AcceptError)
    \/ closed /\ (SendEmpty \/ SendRedirect \/ WriteError)

Step ==
    /\ pc # "done"
    /\ \/ Handle \/ GameCloses \/ Tick \/ GameSendsPart
       \/ \E r \in BOOLEAN : GameSends(r)

Next == Step \/ Abort

Spec == Init /\ [][Next]_vars /\ WF_vars(Progress)

------------------------------------------------------------------------------
(* Properties *)

\* Packets are answered in the order they were asked, none is passed over, and
\* nothing follows the redirect.
AnsweredInOrder ==
    /\ IsPrefix(sent, asked)
    /\ \A k \in 1..(Len(sent) - 1) : ~sent[k].redirect
    /\ result = "Ok" /\ ~closed => sent # <<>> /\ Last(sent).redirect

\* What the state of a connection is between awaits: its types, and its answers
\* those of the packets, in order.
Inv == TypeOK /\ AnsweredInOrder

\* Only the game's silence times the connection out: every packet it sent whole has
\* been answered then.
TimesOutWhenSilent == result = "Timeout" => sent = asked /\ ~closed
==============================================================================
