------------------------------- MODULE Handshake -------------------------------
(***************************************************************************)
(* attempt_tunnel_handshake and handshake_tunnel of                         *)
(* src/src/servers/udp_tunnel.rs: the client exchanges its association token *)
(* for a tunnel id over a connected UDP socket.  Datagrams are lost,         *)
(* duplicated, delayed and reordered; the server issues a new id for every  *)
(* Initiate it receives; an attempt times out, and attempts are apart by a  *)
(* delay that doubles.                                                      *)
(*                                                                          *)
(* Time is counted in units of the caller's choice (`now`), timers are       *)
(* exact, and only the order of events within a unit is open.               *)
(***************************************************************************)
EXTENDS Integers, Sequences, SequencesExt, Selection

CONSTANTS
    MAX_HANDSHAKE_ATTEMPTS,
    HANDSHAKE_TIMEOUT,   \* time to wait for an answer
    RETRY_DELAY,         \* the first delay between attempts
    MaxIds,              \* bound: ids the server issues
    MaxInbox             \* capacity of the socket's receive buffer

ASSUME HandshakeAssumption ==
    /\ MAX_HANDSHAKE_ATTEMPTS \in Nat
    /\ HANDSHAKE_TIMEOUT \in Nat \ {0} /\ RETRY_DELAY \in Nat \ {0}
    /\ MaxIds \in Nat /\ MaxInbox \in Nat

VARIABLES
    pc,           \* "send", "recv", "sleep"; "done" and "failed" at the end
    retry_count,
    retry_delay,
    last_err,     \* the UdpTunnelError of the last attempt
    tunnel_id,    \* the result of a successful handshake, 0 before
    timer,        \* when the attempt times out, or when the sleep is over
    sent,         \* history: when each Initiate was sent or failed to be
    now,
    requests,     \* Initiates on their way to the server
    issued,       \* ids the server has issued
    answers,      \* ids of the answers on their way to the client
    inbox,        \* the receive buffer of the socket
    unreachable   \* the socket reports an error at its next operation

client == <<pc, retry_count, retry_delay, last_err, tunnel_id, timer, sent>>
network == <<requests, issued, answers>>
vars == <<client, network, now, inbox, unreachable>>

Ids == 1..MaxIds
Initiated(id) == [message |-> "Initiated", id |-> id]
\* What an issued tunnel may be sent before the client knows its id, and what
\* cannot be deserialized.
Unexpected == {[message |-> "KeepAlive", id |-> 0],
               [message |-> "Malformed", id |-> 0]}
Packets == {Initiated(id) : id \in Ids} \cup Unexpected
Errors == {"None", "HandshakeTimeout", "UnexpectedPacket", "Malformed", "Io"}

\* The delay after it was doubled n times, and the sum of the first n delays.
DelayAfter[n \in Nat] == IF n = 0 THEN RETRY_DELAY ELSE 2 * DelayAfter[n - 1]
Delays(n) == DelayAfter[n] - RETRY_DELAY
Attempts == MAX_HANDSHAKE_ATTEMPTS + 1
LongestTime == Attempts * HANDSHAKE_TIMEOUT + Delays(Attempts)

TypeOK ==
    /\ pc \in {"send", "recv", "sleep", "done", "failed"}
    /\ retry_count \in 0..Attempts
    /\ retry_delay \in {DelayAfter[n] : n \in 0..Attempts}
    /\ last_err \in Errors
    /\ tunnel_id \in 0..MaxIds
    /\ timer \in Nat /\ now \in Nat
    /\ sent \in Seq(Nat)
    /\ requests \in Nat
    /\ issued \subseteq Ids /\ answers \subseteq issued
    /\ inbox \in Seq(Packets) /\ Len(inbox) <= MaxInbox
    /\ unreachable \in BOOLEAN

Init ==
    /\ pc = "send" /\ retry_count = 0 /\ retry_delay = RETRY_DELAY
    /\ last_err = "None" /\ tunnel_id = 0
    /\ timer = 0 /\ sent = <<>> /\ now = 0
    /\ requests = 0 /\ issued = {} /\ answers = {}
    /\ inbox = <<>> /\ unreachable = FALSE

------------------------------------------------------------------------------
(* The client *)

\* The attempt failed: it is counted and the delay begins.
AttemptFails(err) ==
    /\ last_err' = err
    /\ retry_count' = retry_count + 1
    /\ timer' = now + retry_delay
    /\ pc' = "sleep"
    /\ UNCHANGED <<retry_delay, tunnel_id>>

\* handshake_tunnel sends the Initiate under a new timeout.
SendInitiate ==
    /\ pc = "send" /\ ~unreachable
    /\ pc' = "recv"
    /\ timer' = now + HANDSHAKE_TIMEOUT
    /\ sent' = Append(sent, now)
    /\ requests' = requests + 1
    /\ UNCHANGED <<retry_count, retry_delay, last_err, tunnel_id, issued, answers,
                   now, inbox, unreachable>>

SendError ==
    /\ pc = "send" /\ unreachable
    /\ AttemptFails("Io")
    /\ sent' = Append(sent, now)
    /\ unreachable' = FALSE
    /\ UNCHANGED <<network, now, inbox>>

\* Mutant: a packet that is not expected is skipped under a new timeout.
ReceiveSkips ==
    /\ pc = "recv" /\ inbox # <<>> /\ ~unreachable
    /\ inbox' = Tail(inbox)
    /\ IF Head(inbox).message = "Initiated"
          THEN /\ pc' = "done" /\ tunnel_id' = Head(inbox).id
               /\ UNCHANGED timer
          ELSE /\ timer' = now + HANDSHAKE_TIMEOUT
               /\ UNCHANGED <<pc, tunnel_id>>
    /\ UNCHANGED <<retry_count, retry_delay, last_err, sent, network, now,
                   unreachable>>

\* Mutant: the id of any packet is taken.
ReceiveAny ==
    /\ pc = "recv" /\ inbox # <<>> /\ ~unreachable
    /\ inbox' = Tail(inbox)
    /\ pc' = "done" /\ tunnel_id' = Head(inbox).id
    /\ UNCHANGED <<retry_count, retry_delay, last_err, timer, sent, network, now,
                   unreachable>>

\* One datagram is received.  An Initiated ends the handshake, whichever attempt
\* it answers; anything else fails the attempt.
Receive ==
    /\ pc = "recv" /\ inbox # <<>> /\ ~unreachable
    /\ inbox' = Tail(inbox)
    /\ \/ /\ Head(inbox).message = "Initiated"
          /\ pc' = "done" /\ tunnel_id' = Head(inbox).id
          /\ UNCHANGED <<retry_count, retry_delay, last_err, timer>>
       \/ /\ Head(inbox).message = "KeepAlive"
          /\ AttemptFails("UnexpectedPacket")
       \/ /\ Head(inbox).message = "Malformed"
          /\ AttemptFails("Malformed")
    /\ UNCHANGED <<sent, network, now, unreachable>>

RecvError ==
    /\ pc = "recv" /\ unreachable
    /\ AttemptFails("Io")
    /\ unreachable' = FALSE
    /\ UNCHANGED <<sent, network, now, inbox>>

\* Mutant: the timeout is for the sending of the Initiate only.
HandshakeTimeoutOfSend ==
    /\ pc = "recv" /\ now >= timer /\ requests > 0
    /\ inbox = <<>> /\ ~unreachable
    /\ AttemptFails("HandshakeTimeout")
    /\ UNCHANGED <<sent, network, now, inbox, unreachable>>

\* timeout polls the handshake first: what has arrived wins over the timer.
HandshakeTimeout ==
    /\ pc = "recv" /\ now >= timer
    /\ inbox = <<>> /\ ~unreachable
    /\ AttemptFails("HandshakeTimeout")
    /\ UNCHANGED <<sent, network, now, inbox, unreachable>>

\* Mutant: what was received during the delay is discarded.
SleepOverDrains ==
    /\ pc = "sleep" /\ now >= timer
    /\ retry_delay' = retry_delay * 2
    /\ pc' = IF retry_count > MAX_HANDSHAKE_ATTEMPTS THEN "failed" ELSE "send"
    /\ inbox' = <<>>
    /\ UNCHANGED <<retry_count, last_err, tunnel_id, timer, sent, network, now,
                   unreachable>>

\* The delay is over: it is doubled, and the attempts are compared.
SleepOver ==
    /\ pc = "sleep" /\ now >= timer
    /\ retry_delay' = retry_delay * 2
    /\ pc' = IF retry_count > MAX_HANDSHAKE_ATTEMPTS THEN "failed" ELSE "send"
    /\ UNCHANGED <<retry_count, last_err, tunnel_id, timer, sent, network, now,
                   inbox, unreachable>>

Client ==
    \/ SendInitiate \/ SendError \/ Receive \/ RecvError \/ HandshakeTimeout
    \/ SleepOver

------------------------------------------------------------------------------
(* The server, the network and the clock *)

ServerAnswers(id) ==
    /\ requests > 0 /\ id \notin issued
    /\ requests' \in {requests - 1, requests}
    /\ issued' = issued \cup {id} /\ answers' = answers \cup {id}
    /\ UNCHANGED <<client, now, inbox, unreachable>>

LoseRequest ==
    /\ requests > 0
    /\ requests' = requests - 1
    /\ UNCHANGED <<client, issued, answers, now, inbox, unreachable>>

\* An answer arrives, and may arrive again.
Deliver(id) ==
    /\ id \in answers /\ Len(inbox) < MaxInbox
    /\ inbox' = Append(inbox, Initiated(id))
    /\ answers' \in {answers, answers \ {id}}
    /\ UNCHANGED <<client, requests, issued, now, unreachable>>

LoseAnswer(id) ==
    /\ id \in answers
    /\ answers' = answers \ {id}
    /\ UNCHANGED <<client, requests, issued, now, inbox, unreachable>>

\* The server sends something else to a tunnel it has issued.
DeliverUnexpected(packet) ==
    /\ issued # {} /\ Len(inbox) < MaxInbox
    /\ inbox' = Append(inbox, packet)
    /\ UNCHANGED <<client, network, now, unreachable>>

\* An earlier Initiate has not reached any server.
Unreachable ==
    /\ sent # <<>> /\ ~unreachable
    /\ unreachable' = TRUE
    /\ UNCHANGED <<client, network, now, inbox>>

\* The clock does not pass a timer that is due.
Tick ==
    /\ pc \in {"recv", "sleep"} /\ now < timer
    /\ now' = now + 1
    /\ UNCHANGED <<client, network, inbox, unreachable>>

Environment ==
    \/ LoseRequest \/ Unreachable
    \/ \E id \in Ids : ServerAnswers(id) \/ Deliver(id) \/ LoseAnswer(id)
    \/ \E packet \in Unexpected : DeliverUnexpected(packet)

Next == pc \notin {"done", "failed"} /\ (Client \/ Environment \/ Tick)

Spec == Init /\ [][Next]_vars

\* The runtime polls a task whose socket or timer is ready, and time passes.
FairSpec == Spec /\ WF_vars(Client) /\ WF_vars(Tick)

------------------------------------------------------------------------------
(* Properties *)

\* The id that handshake_tunnel returns is one that the server has issued, also
\* when answers to several attempts and other packets are about.
IdWasIssued == IF pc = "done" THEN tunnel_id \in issued ELSE tunnel_id = 0

\* "Wait between attempts with exponential backoff": attempt k + 1 begins no
\* earlier than the k-th delay after attempt k began, however attempt k failed.
BacksOff ==
    \A k \in 1..(Len(sent) - 1) :
        sent[k + 1] - sent[k] >= DelayAfter[k - 1]

\* What the state of the handshake is at every step: its types, with the attempts
\* and delays that the loop can reach, an id only from the server, and attempts
\* that are apart.
Inv == TypeOK /\ IdWasIssued /\ BacksOff

\* No sequence of answers, errors and timeouts keeps attempt_tunnel_handshake
\* beyond the timeouts and delays of its attempts.
EndsInTime == now <= LongestTime

\* An answer in the socket's buffer leaves it only to end the handshake: one that
\* comes late serves the next attempt.
AnswersOf(queue) == Selected(queue, {Initiated(id) : id \in Ids})
AnswersAreUsed ==
    [][AnswersOf(inbox) # <<>> =>
          \/ IsPrefix(AnswersOf(inbox), AnswersOf(inbox'))
          \/ pc' = "done" /\ tunnel_id' = AnswersOf(inbox)[1].id]_vars

\* The handshake ends, whatever the network and the server do.
HandshakeEnds == <>(pc \in {"done", "failed"})
==============================================================================
