--------------------------- MODULE UdpTunnelProofs ---------------------------
(***************************************************************************)
(* Proofs about UdpTunnel for every pool size, every set of indices, every  *)
(* number of messages and datagrams and every length of time, and about      *)
(* PooledUdpTunnel, for which PoolSocketProofs says what its socket keeps.    *)
(***************************************************************************)
EXTENDS PooledUdpTunnel, SequenceLemmas, SequenceTheorems, TLAPS

\* The write state holds a message in Write only.
MessageHeld == write_state = "Recv" => message = NoMessage

\* While the task is not woken and its write half has been polled, that half is
\* armed: it waits for a message on an open channel, or for a socket that is not
\* ready.  A keep-alive reply polled in between leaves it so.
WritePolled ==
    pc \in {"read", "recv", "idle"} /\ ~notified =>
        \/ /\ write_state = "Recv" /\ rx = <<>> /\ senders # {}
           /\ "rx" \in wakers
        \/ /\ write_state = "Write" /\ ~send_ready
           /\ "send" \in wakers

\* While the task sleeps, it waits for a datagram.
ReadPolled == Asleep => inbox = <<>> /\ "recv" \in wakers

\* The inductive invariant.
IInv == TypeOK /\ MessageHeld /\ WritePolled /\ ReadPolled

\* The initial state satisfies the inductive invariant.
LEMMA InitIInv == Init => IInv
<1> SUFFICES ASSUME Init PROVE IInv
  OBVIOUS
<1>1. TypeOK
  <2>1. /\ <<>> \in Seq(Messages) /\ <<>> \in Seq(Datagrams)
        /\ <<>> \in Seq(Forwards)
    BY EmptySeq
  <2>2. /\ 0 \in 0..MaxSent /\ 0 \in 0..MaxDatagrams /\ 0 \in 0..MaxTime
        /\ 1 \in 0..(MaxTime + 1)
    BY BoundAssumption
  <2>3. QED
    BY <2>1, <2>2 DEF Init, TypeOK, Running, KEEP_ALIVE_DELAY
<1>2. MessageHeld /\ WritePolled /\ ReadPolled
  BY DEF Init, MessageHeld, WritePolled, ReadPolled, Asleep
<1>3. QED
  BY <1>1, <1>2 DEF IInv

\* Waking keeps the wakers and the mark within their types.
LEMMA WakeTypes ==
  ASSUME TypeOK, NEW sources, Wake(sources)
  PROVE  /\ wakers' \subseteq {"rx", "send", "recv", "timer"}
         /\ notified' \in BOOLEAN
  BY DEF TypeOK, Wake

\* A source that fires wakes a task that waits for it, and the other sources keep
\* the waker.
LEMMA WakeWakes ==
  ASSUME NEW sources, Wake(sources), NEW s
  PROVE  /\ s \in sources /\ s \in wakers => notified'
         /\ s \notin sources /\ s \in wakers => s \in wakers'
         /\ notified => notified'
  BY DEF Wake

\* Polling the Write arm once keeps the task, the write state and the socket
\* within their types.
LEMMA PollWriteTypes ==
  ASSUME TypeOK, NEW m \in Messages \cup {NoMessage, KeepAlive},
         NEW ready \in Running, NEW pending \in Running,
         PollWrite(m, ready, pending)
  PROVE  /\ pc' \in Running \cup Ended
         /\ notified' \in BOOLEAN /\ spent' \in BOOLEAN
         /\ wakers' \subseteq {"rx", "send", "recv", "timer"}
         /\ write_state' \in {"Recv", "Write"}
         /\ message' \in Messages \cup {NoMessage, KeepAlive}
         /\ wire' \in Seq(Messages)
         /\ send_ready' \in BOOLEAN /\ room' \in BOOLEAN
         /\ so_error' \in BOOLEAN
<1> USE DEF TypeOK, Running, Ended, slotVars, sockVars
<1>1. CASE SendNotReady(m, pending)
  BY <1>1 DEF SendNotReady, Pending, OutOfBudget
<1>2. CASE SendNothing(m) \/ SendReadyError(m)
  BY <1>2 DEF SendNothing, SendReadyError, End
<1>3. CASE SendDone(m, ready)
  <2>1. m # KeepAlive => m \in Messages
    BY <1>3 DEF SendDone
  <2>2. wire' \in Seq(Messages)
    BY <1>3, <2>1, AppendProperties DEF SendDone
  <2>3. QED
    BY <1>3, <2>2 DEF SendDone, Ready
<1>4. CASE SendPending(m, pending)
  BY <1>4 DEF SendPending, Pending, OutOfBudget
<1>5. CASE SendError(m)
  BY <1>5 DEF SendError, End
<1>6. QED
  BY <1>1, <1>2, <1>3, <1>4, <1>5 DEF PollWrite

\* Every step keeps the state within its types.
LEMMA StepTypeOK == TypeOK /\ [Next]_vars => TypeOK'
<1> SUFFICES ASSUME TypeOK, [Next]_vars
             PROVE  TypeOK'
  OBVIOUS
<1> USE PoolAssumption, BoundAssumption
    DEF TypeOK, Running, Ended, taskVars, slotVars, chanVars, sockVars, inVars,
        timeVars
<1>1. CASE Poll
  BY <1>1 DEF Poll
<1>2. CASE WriteRecv
  <2>1. Head(rx) \in Messages /\ rx' \in Seq(Messages)
    BY <1>2, HeadTailProperties DEF WriteRecv
  <2>2. QED
    BY <1>2, <2>1 DEF WriteRecv, Ready
<1>3. CASE WriteRecvPending \/ TickPending \/ ReadPending
  BY <1>3 DEF WriteRecvPending, TickPending, ReadPending, Pending, OutOfBudget
<1>4. CASE WriteRecvClosed \/ ReadError
  BY <1>4 DEF WriteRecvClosed, ReadError, End
<1>5. CASE WriteMessage
  <2>1. PollWrite(message, "write", "read")
    BY <1>5 DEF WriteMessage
  <2>2. /\ pc' \in Running \cup Ended
        /\ notified' \in BOOLEAN /\ spent' \in BOOLEAN
        /\ wakers' \subseteq {"rx", "send", "recv", "timer"}
        /\ write_state' \in {"Recv", "Write"}
        /\ message' \in Messages \cup {NoMessage, KeepAlive}
        /\ wire' \in Seq(Messages)
        /\ send_ready' \in BOOLEAN /\ room' \in BOOLEAN
        /\ so_error' \in BOOLEAN
    BY <2>1, PollWriteTypes
  <2>3. QED
    BY <1>5, <2>2 DEF WriteMessage
<1>6. CASE CheckAlive
  BY <1>6 DEF CheckAlive, KEEP_ALIVE_DELAY
<1>7. ASSUME NextDatagram
      PROVE  /\ Head(inbox) \in Datagrams /\ inbox' \in Seq(Datagrams)
             /\ UNCHANGED <<received, rx, senders, sent>>
  BY <1>7, HeadTailProperties DEF NextDatagram
<1>8. CASE ReadForward
  <2>1. /\ Head(inbox) \in Datagrams /\ inbox' \in Seq(Datagrams)
        /\ UNCHANGED <<received, rx, senders, sent>>
    BY <1>7, <1>8 DEF ReadForward
  <2>2. Head(inbox) \in Forwards
    BY <1>8, <2>1 DEF ReadForward, Datagrams, Forwards
  <2>3. handle' \in [Pool -> Seq(Forwards)]
    BY <1>8, <2>2, AppendProperties DEF ReadForward
  <2>4. QED
    BY <1>8, <2>1, <2>3 DEF ReadForward, Ready
<1>9. CASE ReadKeepAlive
  <2>1. /\ inbox' \in Seq(Datagrams)
        /\ UNCHANGED <<received, rx, senders, sent>>
    BY <1>7, <1>9 DEF ReadKeepAlive
  <2>2. PollWrite(KeepAlive, "read", "read")
    BY <1>9 DEF ReadKeepAlive
  <2>3. /\ pc' \in Running \cup Ended
        /\ notified' \in BOOLEAN /\ spent' \in BOOLEAN
        /\ wakers' \subseteq {"rx", "send", "recv", "timer"}
        /\ write_state' \in {"Recv", "Write"}
        /\ message' \in Messages \cup {NoMessage, KeepAlive}
        /\ wire' \in Seq(Messages)
        /\ send_ready' \in BOOLEAN /\ room' \in BOOLEAN
        /\ so_error' \in BOOLEAN
    BY <2>2, PollWriteTypes
  <2>4. QED
    BY <1>9, <2>1, <2>3 DEF ReadKeepAlive
<1>10. CASE ReadOther \/ ReadMalformed
  <2>1. /\ inbox' \in Seq(Datagrams)
        /\ UNCHANGED <<received, rx, senders, sent>>
    BY <1>7, <1>10 DEF ReadOther, ReadMalformed
  <2>2. QED
    BY <1>10, <2>1 DEF ReadOther, ReadMalformed, Ready, End
<1>11. CASE SocketSend
  <2>1. sent + 1 \in Messages /\ sent' \in 0..MaxSent
    BY <1>11 DEF SocketSend, Messages
  <2>2. rx' \in Seq(Messages)
    BY <1>11, <2>1, AppendProperties DEF SocketSend
  <2>3. QED
    BY <1>11, <2>1, <2>2, WakeTypes DEF SocketSend
<1>12. CASE \E i \in Pool : SocketEnd(i)
  <2>1. PICK i \in Pool : SocketEnd(i)
    BY <1>12
  <2>2. wakers' \subseteq {"rx", "send", "recv", "timer"}
        /\ notified' \in BOOLEAN
    BY <2>1, WakeTypes DEF SocketEnd
  <2>3. QED
    BY <2>1, <2>2 DEF SocketEnd
<1>13. ASSUME NEW d, Arrive(d), d \in Datagrams
       PROVE  TypeOK'
  <2>1. inbox' \in Seq(Datagrams)
    BY <1>13, AppendProperties DEF Arrive
  <2>2. received' \in 0..MaxDatagrams
    BY <1>13 DEF Arrive
  <2>3. QED
    BY <1>13, <2>1, <2>2, WakeTypes DEF Arrive
<1>14. CASE \E i \in Indices :
                Arrive([kind |-> "Forward", index |-> i, id |-> received + 1])
  <2>1. PICK i \in Indices :
                Arrive([kind |-> "Forward", index |-> i, id |-> received + 1])
    BY <1>14
  <2>2. received + 1 \in 1..MaxDatagrams
    BY <2>1 DEF Arrive
  <2>3. QED
    BY <1>13, <2>1, <2>2 DEF Datagrams, Forwards
<1>15. CASE \E k \in {"KeepAlive", "Other", "Malformed"} : Arrive([kind |-> k])
  BY <1>13, <1>15 DEF Datagrams
<1>16. CASE Unreachable \/ Drain
  <2>1. wakers' \subseteq {"rx", "send", "recv", "timer"}
        /\ notified' \in BOOLEAN
    BY <1>16, WakeTypes DEF Unreachable, Drain
  <2>2. QED
    BY <1>16, <2>1 DEF Unreachable, Drain
<1>17. CASE Tick
  <2>1. wakers' \subseteq {"rx", "send", "recv", "timer"}
        /\ notified' \in BOOLEAN
    BY <1>17, WakeTypes DEF Tick
  <2>2. QED
    BY <1>17, <2>1 DEF Tick
<1>18. CASE UNCHANGED vars
  BY <1>18 DEF vars
<1>19. QED
  BY <1>1, <1>2, <1>3, <1>4, <1>5, <1>6, <1>8, <1>9, <1>10, <1>11, <1>12,
     <1>14, <1>15, <1>16, <1>17, <1>18
  DEF Next, TaskStep, WriteStep, ReadStep, Environment

\* The write state holds a message in Write only.
LEMMA StepMessageHeld == MessageHeld /\ [Next]_vars => MessageHeld'
<1> SUFFICES ASSUME MessageHeld, [Next]_vars
             PROVE  MessageHeld'
  OBVIOUS
<1> USE DEF MessageHeld, slotVars
<1>1. ASSUME NEW m, NEW ready, NEW pending, PollWrite(m, ready, pending)
      PROVE  MessageHeld'
  BY <1>1
  DEF PollWrite, SendNotReady, SendReadyError, SendNothing, SendDone,
      SendPending, SendError
<1>2. CASE WriteMessage
  BY <1>1, <1>2 DEF WriteMessage
<1>3. CASE ReadKeepAlive
  BY <1>1, <1>3 DEF ReadKeepAlive
<1>4. CASE WriteRecv
  BY <1>4 DEF WriteRecv
<1>5. CASE UNCHANGED slotVars
  BY <1>5
<1>6. QED
  BY <1>2, <1>3, <1>4, <1>5
  DEF Next, TaskStep, Poll, WriteStep, WriteRecvPending, WriteRecvClosed,
      ReadStep, CheckAlive, TickPending, ReadForward, ReadOther,
      ReadMalformed, ReadError, ReadPending, Environment, SocketSend,
      SocketEnd, Arrive, Unreachable, Drain, Tick, vars

\* While the task is not woken, its write half stays armed, also through a
\* keep-alive reply that is sent, is Pending or finds the socket not ready.
LEMMA StepWritePolled == IInv /\ [Next]_vars => WritePolled'
<1> SUFFICES ASSUME IInv, [Next]_vars
             PROVE  WritePolled'
  OBVIOUS
<1> USE DEF IInv, WritePolled, Running, taskVars, slotVars, chanVars, sockVars
<1>1. CASE Poll \/ WriteRecv
  BY <1>1 DEF Poll, WriteRecv, Ready
<1>2. CASE WriteRecvPending
  BY <1>2 DEF WriteRecvPending, Pending, OutOfBudget
<1>3. CASE WriteRecvClosed \/ ReadMalformed \/ ReadError
  BY <1>3 DEF WriteRecvClosed, ReadMalformed, ReadError, End
<1>4. CASE WriteMessage
  BY <1>4
  DEF WriteMessage, PollWrite, SendNotReady, SendReadyError, SendNothing, SendDone,
      SendPending, SendError, Ready, Pending, OutOfBudget, End
<1>5. CASE ReadKeepAlive
  <2>1. pc = "recv" /\ UNCHANGED <<rx, senders>>
    BY <1>5 DEF ReadKeepAlive, NextDatagram
  <2>2. PollWrite(KeepAlive, "read", "read") /\ KeepAlive # NoMessage
    BY <1>5 DEF ReadKeepAlive, KeepAlive, NoMessage
  <2>3. CASE SendNotReady(KeepAlive, "read")
    BY <2>3 DEF SendNotReady, Pending, OutOfBudget
  <2>4. CASE SendDone(KeepAlive, "read")
    BY <2>1, <2>4 DEF SendDone, Ready
  <2>5. CASE SendPending(KeepAlive, "read")
    BY <2>5 DEF SendPending, Pending, OutOfBudget
  <2>6. CASE SendError(KeepAlive)
    BY <2>6 DEF SendError, End
  <2>7. CASE SendReadyError(KeepAlive)
    BY <2>7 DEF SendReadyError, End
  <2>8. QED
    BY <2>2, <2>3, <2>4, <2>5, <2>6, <2>7 DEF PollWrite, SendNothing
<1>6. CASE CheckAlive
  BY <1>6 DEF CheckAlive
<1>7. CASE TickPending \/ ReadPending
  BY <1>7 DEF TickPending, ReadPending, Pending, OutOfBudget
<1>8. CASE ReadForward \/ ReadOther
  BY <1>8 DEF ReadForward, ReadOther, NextDatagram, Ready
<1>9. ASSUME Wake({"rx"}), UNCHANGED <<pc, write_state, send_ready>>
      PROVE  WritePolled'
  BY <1>9, WakeWakes
<1>10. CASE SocketSend
  BY <1>9, <1>10 DEF SocketSend
<1>11. CASE \E i \in Pool : SocketEnd(i)
  <2>1. PICK i \in Pool : SocketEnd(i)
    BY <1>11
  <2>2. CASE senders = {i}
    BY <1>9, <2>1, <2>2 DEF SocketEnd
  <2>3. CASE senders # {i}
    BY <2>1, <2>3 DEF SocketEnd
  <2>4. QED
    BY <2>2, <2>3
<1>12. ASSUME NEW d, Arrive(d)
       PROVE  WritePolled'
  <2>1. /\ Wake({"recv"})
        /\ UNCHANGED <<pc, write_state, rx, senders, send_ready>>
    BY <1>12 DEF Arrive
  <2>2. QED
    BY <2>1, WakeWakes
<1>13. CASE Unreachable \/ Drain
  <2>1. PICK srcs \in {{"send"}, {"send", "recv"}} : Wake(srcs)
    BY <1>13 DEF Unreachable, Drain
  <2>2. "send" \in srcs /\ "rx" \notin srcs
    BY <2>1
  <2>3. UNCHANGED <<pc, write_state, rx, senders>>
    BY <1>13 DEF Unreachable, Drain
  <2>4. QED
    BY <2>1, <2>2, <2>3, WakeWakes
<1>14. CASE Tick
  <2>1. Wake({"timer"}) \/ UNCHANGED <<wakers, notified>>
    BY <1>14 DEF Tick
  <2>2. UNCHANGED <<pc, write_state, rx, senders, send_ready>>
    BY <1>14 DEF Tick
  <2>3. QED
    BY <2>1, <2>2, WakeWakes
<1>15. CASE UNCHANGED vars
  BY <1>15 DEF vars
<1>16. QED
  BY <1>1, <1>2, <1>3, <1>4, <1>5, <1>6, <1>7, <1>8, <1>10, <1>11, <1>12,
     <1>13, <1>14, <1>15
  DEF Next, TaskStep, WriteStep, ReadStep, Environment

\* While the task sleeps, its read half stays armed.
LEMMA StepReadPolled == IInv /\ [Next]_vars => ReadPolled'
<1> SUFFICES ASSUME IInv, [Next]_vars
             PROVE  ReadPolled'
  OBVIOUS
<1> USE DEF IInv, ReadPolled, Asleep, taskVars, inVars
<1>1. CASE ReadPending
  BY <1>1 DEF ReadPending, Pending, OutOfBudget
<1>2. TaskStep => pc' # "idle" \/ ReadPending
  BY DEF TaskStep, Poll, WriteStep, WriteRecv, WriteRecvPending,
         WriteRecvClosed, WriteMessage, ReadStep, CheckAlive, TickPending,
         ReadForward, ReadKeepAlive, ReadOther, ReadMalformed, ReadError,
         PollWrite, SendNotReady, SendReadyError, SendNothing, SendDone,
         SendPending, SendError, Ready, Pending, OutOfBudget, End
<1>3. CASE \E d : Arrive(d)
  <2>1. Wake({"recv"}) /\ pc' = pc
    BY <1>3 DEF Arrive
  <2>2. QED
    BY <2>1, WakeWakes
<1>4. CASE \/ SocketSend \/ (\E i \in Pool : SocketEnd(i))
           \/ Unreachable \/ Drain \/ Tick
  <2>1. (\E srcs : Wake(srcs)) \/ UNCHANGED <<wakers, notified>>
    BY <1>4 DEF SocketSend, SocketEnd, Unreachable, Drain, Tick
  <2>2. UNCHANGED <<pc, inbox>>
    BY <1>4 DEF SocketSend, SocketEnd, Unreachable, Drain, Tick
  <2>3. QED
    BY <2>1, <2>2, WakeWakes
<1>5. CASE UNCHANGED vars
  BY <1>5 DEF vars
<1>6. QED
  BY <1>1, <1>2, <1>3, <1>4, <1>5 DEF Next, Environment

\* The invariant is inductive.
LEMMA Invariance == Spec => []IInv
<1>1. IInv /\ [Next]_vars => IInv'
  BY StepTypeOK, StepMessageHeld, StepWritePolled, StepReadPolled DEF IInv
<1>2. QED
  BY InitIInv, <1>1, PTL DEF Spec

\* A UDP tunnel never sleeps on a datagram, a message or a closed channel it could
\* act on, whatever keep-alive replies and full sockets do to the write state.
THEOREM UdpNeverStranded == Spec => []Inv
<1>1. IInv => Inv
  <2>1. WritePolled /\ ReadPolled => NothingStranded
    BY DEF WritePolled, ReadPolled, Asleep, NothingStranded
  <2>2. QED
    BY <2>1 DEF IInv, Inv
<1>2. QED
  BY Invariance, <1>1, PTL

------------------------------------------------------------------------------
(* What can be lost *)

\* The elements of a sequence are what it has at its positions.
LEMMA ElementsOf ==
  ASSUME NEW E, NEW s \in Seq(E)
  PROVE  ToSet(s) = {s[i] : i \in 1..Len(s)}
  BY LenProperties DEF ToSet

\* An element appended to a sequence is added to them.
LEMMA ElementsOfAppend ==
  ASSUME NEW E, NEW s \in Seq(E), NEW e \in E
  PROVE  ToSet(Append(s, e)) = ToSet(s) \cup {e}
<1>1. /\ Append(s, e) \in Seq(E) /\ Len(Append(s, e)) = Len(s) + 1
      /\ \A i \in 1..Len(s) : Append(s, e)[i] = s[i]
      /\ Append(s, e)[Len(s) + 1] = e
      /\ Len(s) \in Nat
  BY AppendProperties, LenProperties
<1>2. /\ ToSet(s) = {s[i] : i \in 1..Len(s)}
      /\ ToSet(Append(s, e)) = {Append(s, e)[i] : i \in 1..(Len(s) + 1)}
  BY <1>1, ElementsOf
<1>3. 1..(Len(s) + 1) = (1..Len(s)) \cup {Len(s) + 1}
  BY <1>1
<1>4. QED
  BY <1>1, <1>2, <1>3

\* Two sequences put together have the elements of both.
LEMMA ElementsOfConcat ==
  ASSUME NEW E, NEW s \in Seq(E), NEW t \in Seq(E)
  PROVE  ToSet(s \o t) = ToSet(s) \cup ToSet(t)
<1> DEFINE c == s \o t
<1>1. /\ c \in Seq(E) /\ Len(c) = Len(s) + Len(t)
      /\ \A i \in 1..(Len(s) + Len(t)) :
            c[i] = IF i <= Len(s) THEN s[i] ELSE t[i - Len(s)]
      /\ Len(s) \in Nat /\ Len(t) \in Nat
  BY ConcatProperties, LenProperties
<1> HIDE DEF c
<1>2. /\ ToSet(s) = {s[i] : i \in 1..Len(s)}
      /\ ToSet(t) = {t[i] : i \in 1..Len(t)}
      /\ ToSet(c) = {c[i] : i \in 1..(Len(s) + Len(t))}
  BY <1>1, ElementsOf
<1>3. ASSUME NEW e \in ToSet(c)
      PROVE  e \in ToSet(s) \cup ToSet(t)
  <2>1. PICK i \in 1..(Len(s) + Len(t)) : e = c[i]
    BY <1>2, <1>3
  <2>2. CASE i <= Len(s)
    <3>1. i \in 1..Len(s) /\ e = s[i]
      BY <1>1, <2>1, <2>2
    <3>2. QED
      BY <1>2, <3>1
  <2>3. CASE i > Len(s)
    <3>1. i - Len(s) \in 1..Len(t) /\ e = t[i - Len(s)]
      BY <1>1, <2>1, <2>3
    <3>2. QED
      BY <1>2, <3>1
  <2>4. QED
    BY <1>1, <2>1, <2>2, <2>3
<1>4. ASSUME NEW e \in ToSet(s)
      PROVE  e \in ToSet(c)
  <2>1. PICK i \in 1..Len(s) : e = s[i]
    BY <1>2, <1>4
  <2>2. i \in 1..(Len(s) + Len(t)) /\ c[i] = e
    BY <1>1, <2>1
  <2>3. QED
    BY <1>2, <2>2
<1>5. ASSUME NEW e \in ToSet(t)
      PROVE  e \in ToSet(c)
  <2>1. PICK i \in 1..Len(t) : e = t[i]
    BY <1>2, <1>5
  <2>2. /\ Len(s) + i \in 1..(Len(s) + Len(t)) /\ ~(Len(s) + i <= Len(s))
        /\ (Len(s) + i) - Len(s) = i
    BY <1>1, <2>1
  <2>3. c[Len(s) + i] = e
    BY <1>1, <2>1, <2>2
  <2>4. QED
    BY <1>2, <2>2, <2>3
<1>6. QED
  BY <1>3, <1>4, <1>5 DEF c

\* A sequence has its head's element and those of its tail.
LEMMA ElementsOfTail ==
  ASSUME NEW E, NEW s \in Seq(E), s # <<>>
  PROVE  ToSet(s) = {Head(s)} \cup ToSet(Tail(s))
<1>1. Head(s) \in E /\ Tail(s) \in Seq(E)
  BY HeadTailProperties
<1>2. <<Head(s)>> \in Seq(E) /\ Len(<<Head(s)>>) = 1
      /\ <<Head(s)>>[1] = Head(s)
  BY <1>1
<1>3. ToSet(<<Head(s)>>) = {Head(s)}
  <2>1. ToSet(<<Head(s)>>) = {<<Head(s)>>[i] : i \in 1..1}
    BY <1>2, ElementsOf
  <2>2. QED
    BY <1>2, <2>1
<1> DEFINE h == <<Head(s)>>
           t == Tail(s)
<1>4. h \o t = s
  BY <1>1, <1>2, HeadThenTail
<1>5. h \in Seq(E) /\ t \in Seq(E)
  BY <1>1, <1>2
<1> HIDE DEF h, t
<1>6. ToSet(h \o t) = ToSet(h) \cup ToSet(t)
  BY <1>5, ElementsOfConcat
<1>7. QED
  BY <1>3, <1>4, <1>6 DEF h, t

\* The message in hand as a set.
Held == {message} \cap Messages

\* What the tunnel holds or has sent.
Kept == ToSet(wire) \cup Held \cup ToSet(rx)

\* The message in hand, as a sequence of one message or none.
LEMMA InHandContents ==
  ASSUME TypeOK
  PROVE  InHand \in Seq(Messages) /\ ToSet(InHand) = Held
<1>1. CASE message \in Messages
  <2>1. /\ InHand \in Seq(Messages)
        /\ Len(InHand) = 1 /\ InHand[1] = message
    BY <1>1 DEF InHand
  <2>2. ToSet(InHand) = {InHand[i] : i \in 1..Len(InHand)}
    BY <2>1, ElementsOf
  <2>3. ToSet(InHand) = {message}
    BY <2>1, <2>2
  <2>4. QED
    BY <1>1, <2>1, <2>3 DEF Held
<1>2. CASE message \notin Messages
  <2>1. InHand = <<>> /\ <<>> \in Seq(Messages) /\ Len(<<>>) = 0
    BY <1>2, EmptySeq DEF InHand
  <2>2. ToSet(<<>>) = {<<>>[i] : i \in 1..0}
    BY <2>1, ElementsOf
  <2>3. QED
    BY <1>2, <2>1, <2>2 DEF Held
<1>3. QED
  BY <1>1, <1>2

\* What is lost is what was sent on the channel and is not kept.
LEMMA LostIsNotKept == TypeOK => Lost = (1..sent) \ Kept
<1> SUFFICES ASSUME TypeOK PROVE Lost = (1..sent) \ Kept
  OBVIOUS
<1>1. wire \in Seq(Messages) /\ rx \in Seq(Messages)
  BY DEF TypeOK
<1>2. InHand \in Seq(Messages) /\ ToSet(InHand) = Held
  BY InHandContents
<1> DEFINE out == wire \o InHand
<1>3. out \in Seq(Messages) /\ ToSet(out) = ToSet(wire) \cup Held
  BY <1>1, <1>2, ConcatProperties, ElementsOfConcat
<1>4. Lost = (1..sent) \ ToSet(out \o rx)
  BY DEF Lost
<1> HIDE DEF out
<1>5. ToSet(out \o rx) = ToSet(out) \cup ToSet(rx)
  BY <1>1, <1>3, ElementsOfConcat
<1>6. QED
  BY <1>3, <1>4, <1>5 DEF Kept

\* Polling the Write arm takes nothing back that was sent.
LEMMA PollWriteKeeps ==
  ASSUME TypeOK, NEW m \in Messages \cup {NoMessage, KeepAlive},
         NEW ready, NEW pending, PollWrite(m, ready, pending)
  PROVE  ToSet(wire) \subseteq ToSet(wire')
<1>1. CASE wire' = wire
  BY <1>1
<1>2. CASE SendDone(m, ready) /\ m # KeepAlive
  <2>1. m \in Messages /\ wire' = Append(wire, m)
    BY <1>2 DEF SendDone
  <2>2. QED
    BY <2>1, ElementsOfAppend DEF TypeOK
<1>3. QED
  BY <1>1, <1>2
  DEF PollWrite, SendNotReady, SendReadyError, SendNothing, SendDone,
      SendPending, SendError,
      sockVars

\* A step keeps all that was kept but the message in hand, and what is new on the
\* channel.
LEMMA StepKeeps ==
  ASSUME IInv, [Next]_vars
  PROVE  /\ Kept \ {message} \subseteq Kept'
         /\ (1..sent') \ (1..sent) \subseteq Kept'
<1> USE DEF Kept, Held, slotVars, chanVars, sockVars
<1>1. CASE WriteRecv
  <2>1. /\ rx # <<>> /\ rx \in Seq(Messages) /\ message' = Head(rx)
        /\ rx' = Tail(rx) /\ UNCHANGED <<wire, sent>>
    BY <1>1 DEF WriteRecv, IInv, TypeOK
  <2>2. Head(rx) \in Messages /\ ToSet(rx) = {Head(rx)} \cup ToSet(Tail(rx))
    BY <2>1, HeadTailProperties, ElementsOfTail
  <2>3. QED
    BY <2>1, <2>2 DEF Messages
<1>2. CASE WriteMessage
  <2>1. UNCHANGED <<rx, sent>> /\ ToSet(wire) \subseteq ToSet(wire')
    BY <1>2, PollWriteKeeps DEF WriteMessage, IInv, TypeOK
  <2>2. QED
    BY <2>1
<1>3. CASE ReadKeepAlive
  <2>1. UNCHANGED <<rx, sent>> /\ ToSet(wire) \subseteq ToSet(wire')
    BY <1>3, PollWriteKeeps DEF ReadKeepAlive, NextDatagram, IInv
  <2>2. QED
    BY <2>1
<1>4. CASE SocketSend
  <2>1. /\ sent' = sent + 1 /\ rx' = Append(rx, sent + 1)
        /\ UNCHANGED <<wire, message>>
    BY <1>4 DEF SocketSend
  <2>2. sent \in Nat /\ sent + 1 \in Messages /\ rx \in Seq(Messages)
    BY <1>4, BoundAssumption DEF SocketSend, IInv, TypeOK, Messages
  <2>3. ToSet(rx') = ToSet(rx) \cup {sent + 1}
    BY <2>1, <2>2, ElementsOfAppend
  <2>4. (1..sent') \ (1..sent) = {sent + 1}
    BY <2>1, <2>2
  <2>5. Messages' = Messages
    BY DEF Messages
  <2>6. QED
    BY <2>1, <2>3, <2>4, <2>5
<1>5. CASE UNCHANGED <<wire, message, rx, sent>>
  BY <1>5 DEF Messages
<1>6. \/ WriteRecv \/ WriteMessage \/ ReadKeepAlive \/ SocketSend
      \/ UNCHANGED <<wire, message, rx, sent>>
      \/ ReadOther \/ ReadForward \/ ReadMalformed
  BY DEF Next, TaskStep, Poll, WriteStep, WriteRecvPending, WriteRecvClosed,
         ReadStep, CheckAlive, TickPending, ReadError, ReadPending,
         Environment, SocketEnd, Arrive, Unreachable, Drain, Tick, vars
<1>7. ReadOther \/ ReadForward \/ ReadMalformed
          => UNCHANGED <<wire, message, rx, sent>>
  BY DEF ReadOther, ReadForward, ReadMalformed, NextDatagram
<1>8. QED
  BY <1>1, <1>2, <1>3, <1>4, <1>5, <1>6, <1>7

\* The only message a UDP tunnel loses is the one in its write state: a send that
\* is Pending or a keep-alive reply costs that one and none that waits on the
\* channel.
THEOREM UdpLosesOneAtMost == Spec => LosesOnlyTheMessageInHand
<1> DEFINE Accounted == Lost = (1..sent) \ Kept
<1>1. IInv => Accounted
  BY LostIsNotKept DEF IInv
<1>2. IInv /\ Accounted /\ Accounted' /\ [Next]_vars
          => Lost' \subseteq Lost \cup {message}
  <2> SUFFICES ASSUME IInv, Accounted, Accounted', [Next]_vars
               PROVE  Lost' \subseteq Lost \cup {message}
    OBVIOUS
  <2>1. Lost = (1..sent) \ Kept /\ Lost' = (1..sent') \ Kept'
    OBVIOUS
  <2>2. QED
    BY <2>1, StepKeeps
<1> HIDE DEF Accounted
<1>3. QED
  BY <1>1, <1>2, Invariance, PTL DEF Spec, LosesOnlyTheMessageInHand

------------------------------------------------------------------------------
(* The relay from the sockets to the server *)

\* What waits to be sent: the message in hand, if it is one of a socket, and the
\* channel.
Waiting == InHand \o rx

\* Its head is the message in hand, if there is one, and the channel is the rest.
LEMMA WaitingContents ==
  ASSUME TypeOK
  PROVE  /\ Waiting \in Seq(Messages)
         /\ message \notin Messages => Waiting = rx
         /\ message \in Messages => /\ Waiting # <<>>
                                    /\ Head(Waiting) = message
                                    /\ Tail(Waiting) = rx
<1>1. rx \in Seq(Messages)
  BY DEF TypeOK
<1>2. CASE message \in Messages
  <2>1. InHand = <<message>>
    BY <1>2 DEF InHand
  <2>2. QED
    BY <1>1, <1>2, <2>1, HeadTailOfCons DEF Waiting
<1>3. CASE message \notin Messages
  <2>1. InHand = <<>>
    BY <1>3 DEF InHand
  <2>2. QED
    BY <1>1, <1>3, <2>1, ConcatEmptySeq DEF Waiting
<1>4. QED
  BY <1>2, <1>3

\* Polling the Write arm leaves what it has, sends it, or loses it.
LEMMA PollWriteOut ==
  ASSUME TypeOK, NEW ready, NEW pending,
         \/ PollWrite(message, ready, pending)
         \/ PollWrite(KeepAlive, ready, pending)
  PROVE  \/ UNCHANGED <<message, wire>>
         \/ /\ message \in Messages /\ message' = NoMessage
            /\ wire' = Append(wire, message)
         \/ message' \in {NoMessage, KeepAlive} /\ wire' = wire
  BY DEF PollWrite, SendNotReady, SendReadyError, SendNothing, SendDone,
         SendPending, SendError, slotVars, sockVars, TypeOK, NoMessage, KeepAlive, Messages

\* What a step does to what waits: one is accepted, the first is sent, the first
\* is lost, or nothing changes.
LEMMA StepWaiting ==
  ASSUME IInv, [Next]_vars
  PROVE  \/ UNCHANGED <<Waiting, wire>>
         \/ /\ sent + 1 \in Messages /\ sent' = sent + 1
            /\ Waiting' = Append(Waiting, sent + 1) /\ wire' = wire
         \/ /\ Waiting # <<>> /\ Waiting' = Tail(Waiting)
            /\ wire' \in {wire, Append(wire, Head(Waiting))}
<1> USE DEF IInv, slotVars, chanVars, sockVars
<1>1. CASE SocketSend
  <2>1. sent + 1 \in Messages
    BY <1>1, BoundAssumption DEF SocketSend, TypeOK, Messages
  <2>2. InHand \in Seq(Messages) /\ rx \in Seq(Messages)
    <3>1. message \in Messages => <<message>> \in Seq(Messages)
      OBVIOUS
    <3>2. QED
      BY <3>1, EmptySeq DEF InHand, TypeOK
  <2>3. InHand \o Append(rx, sent + 1) = Append(InHand \o rx, sent + 1)
    BY <2>1, <2>2, AppendToConcat
  <2>4. /\ InHand' = InHand /\ rx' = Append(rx, sent + 1) /\ wire' = wire
        /\ sent' = sent + 1
    BY <1>1 DEF SocketSend, InHand, Messages
  <2>5. QED
    BY <2>1, <2>3, <2>4 DEF Waiting
<1>2. CASE WriteRecv
  <2>1. /\ message \notin Messages /\ rx # <<>> /\ rx \in Seq(Messages)
        /\ message' = Head(rx) /\ rx' = Tail(rx) /\ wire' = wire
    BY <1>2 DEF WriteRecv, MessageHeld, TypeOK, Messages, NoMessage
  <2>2. Head(rx) \in Messages /\ <<Head(rx)>> \o Tail(rx) = rx
    BY <2>1, HeadTailProperties, HeadThenTail
  <2>3. InHand' = <<Head(rx)>>
    BY <2>1, <2>2 DEF InHand, Messages
  <2>4. Waiting' = rx /\ Waiting = rx
    BY <2>1, <2>2, <2>3, WaitingContents DEF Waiting
  <2>5. QED
    BY <2>1, <2>4
<1>3. ASSUME rx' = rx,
             \/ UNCHANGED <<message, wire>>
             \/ /\ message \in Messages /\ message' = NoMessage
                /\ wire' = Append(wire, message)
             \/ message' \in {NoMessage, KeepAlive} /\ wire' = wire
      PROVE  \/ UNCHANGED <<Waiting, wire>>
             \/ /\ Waiting # <<>> /\ Waiting' = Tail(Waiting)
                /\ wire' \in {wire, Append(wire, Head(Waiting))}
  <2>1. CASE UNCHANGED <<message, wire>>
    BY <1>3, <2>1 DEF Waiting, InHand, Messages
  <2>2. ASSUME message' \in {NoMessage, KeepAlive}
        PROVE  Waiting' = rx
    <3>1. InHand' = <<>>
      BY <2>2 DEF InHand, NoMessage, KeepAlive, Messages
    <3>2. <<>> \o rx = rx
      BY ConcatEmptySeq DEF TypeOK
    <3>3. QED
      BY <1>3, <3>1, <3>2 DEF Waiting
  <2>3. CASE /\ message \in Messages /\ message' = NoMessage
             /\ wire' = Append(wire, message)
    BY <2>2, <2>3, WaitingContents
  <2>4. CASE message' \in {NoMessage, KeepAlive} /\ wire' = wire
    BY <2>2, <2>4, WaitingContents
  <2>5. QED
    BY <1>3, <2>1, <2>3, <2>4
<1>4. CASE WriteMessage
  <2>1. rx' = rx /\ PollWrite(message, "write", "read")
    BY <1>4 DEF WriteMessage
  <2>2. QED
    BY <1>3, <2>1, PollWriteOut
<1>5. CASE ReadKeepAlive
  <2>1. rx' = rx /\ PollWrite(KeepAlive, "read", "read")
    BY <1>5 DEF ReadKeepAlive, NextDatagram
  <2>2. QED
    BY <1>3, <2>1, PollWriteOut
<1>6. CASE UNCHANGED <<message, rx, wire>>
  BY <1>6 DEF Waiting, InHand, Messages
<1>7. QED
  BY <1>1, <1>2, <1>4, <1>5, <1>6
  DEF Next, TaskStep, Poll, WriteStep, WriteRecvPending, WriteRecvClosed,
      ReadStep, CheckAlive, TickPending, ReadForward, ReadOther,
      ReadMalformed, ReadError, ReadPending, NextDatagram, Environment,
      SocketEnd, Arrive, Unreachable, Drain, Tick, vars

\* What a tunnel that has just been created holds.
LEMMA RelaysInit ==
  ASSUME Init
  PROVE  Out!Init /\ \A i \in Pool : In(i)!Init
<1>1. InHand \o rx = <<>> /\ wire = <<>>
  <2>1. InHand = <<>> /\ rx = <<>> /\ wire = <<>>
    BY BoundAssumption DEF Init, InHand, NoMessage, Messages
  <2>2. QED
    BY <2>1, ConcatEmptySeq, EmptySeq
<1>2. \A i \in Pool : Incoming(i) = <<>> /\ handle[i] = <<>>
  BY SelectedOfNone DEF Init, Incoming
<1> QED BY <1>1, <1>2 DEF Out!Init, In!Init

\* Seen from the sockets, each step is one of a lossy relay to the server: what is
\* sent is the oldest of the messages held, and what is lost too.
LEMMA StepOut ==
  ASSUME IInv, [Next]_vars
  PROVE  [Out!Next]_(Out!vars)
<1>1. ASSUME Waiting # <<>>, Waiting' = Tail(Waiting), wire' = wire
      PROVE  Out!Lose
  <2>1. Waiting \in Seq(Messages)
    BY WaitingContents DEF IInv
  <2>2. /\ 1 \in 1..Len(Waiting)
        /\ Waiting' = SubSeq(Waiting, 1, 0) \o SubSeq(Waiting, 2, Len(Waiting))
    BY <1>1, <2>1, WithoutFirst
  <2>3. 1 <= 1 /\ 1 - 1 = 0 /\ 1 + 1 = 2
    OBVIOUS
  <2>4. \E i, j \in 1..Len(Waiting) :
            /\ i <= j
            /\ Waiting' = SubSeq(Waiting, 1, i - 1)
                             \o SubSeq(Waiting, j + 1, Len(Waiting))
    BY <2>2, <2>3
  <2>5. QED
    BY <1>1, <2>4, Zenon DEF Out!Lose, Waiting
<1>2. ASSUME Waiting # <<>>, Waiting' = Tail(Waiting),
             wire' = Append(wire, Head(Waiting))
      PROVE  Out!Deliver
  BY <1>2 DEF Out!Deliver, Waiting
<1>3. ASSUME sent + 1 \in Messages, wire' = wire,
             Waiting' = Append(Waiting, sent + 1)
      PROVE  Out!Accept
  BY <1>3 DEF Out!Accept, Waiting
<1>4. UNCHANGED <<Waiting, wire>> => UNCHANGED Out!vars
  BY DEF Out!vars, Waiting
<1>5. QED
  BY <1>1, <1>2, <1>3, <1>4, StepWaiting DEF Out!Next

------------------------------------------------------------------------------
(* From the server to the sockets *)

\* What the next datagram does to the forwards for socket i.
LEMMA NextIncoming ==
  ASSUME TypeOK, NEW i \in Pool, NextDatagram
  PROVE  /\ Head(inbox) \in Datagrams
         /\ IF Head(inbox) \in Forwards /\ Head(inbox).index = i
            THEN /\ Incoming(i) # <<>> /\ Head(Incoming(i)) = Head(inbox)
                 /\ Incoming(i)' = Tail(Incoming(i))
            ELSE Incoming(i)' = Incoming(i)
<1> DEFINE kind == {packet \in Forwards : packet.index = i}
           rest == Selected(Tail(inbox), kind)
<1>1. /\ inbox \in Seq(Datagrams) /\ inbox # <<>> /\ inbox' = Tail(inbox)
      /\ Head(inbox) \in Datagrams /\ Tail(inbox) \in Seq(Datagrams)
  BY HeadTailProperties DEF NextDatagram, TypeOK
<1>2. Head(inbox) \in kind <=> Head(inbox) \in Forwards /\ Head(inbox).index = i
  OBVIOUS
<1>3. Incoming(i) = Selected(inbox, kind) /\ Incoming(i)' = rest
  BY <1>1 DEF Incoming
<1> HIDE DEF kind
<1>4. Selected(inbox, kind) = IF Head(inbox) \in kind THEN <<Head(inbox)>> \o rest
                                                    ELSE rest
  BY <1>1, SelectedOfCons
<1>5. rest \in Seq(Datagrams)
  BY <1>1, SelectedInSeq
<1> HIDE DEF rest
<1>6. /\ <<Head(inbox)>> \o rest # <<>> /\ Head(<<Head(inbox)>> \o rest) = Head(inbox)
      /\ Tail(<<Head(inbox)>> \o rest) = rest
  BY <1>1, <1>5, HeadTailOfCons
<1> QED BY <1>1, <1>2, <1>3, <1>4, <1>6, Zenon

\* Of the datagrams, those of kind "Forward" are the forwards.
LEMMA ForwardsAre ==
  ASSUME NEW e \in Datagrams, e.kind = "Forward"
  PROVE  e \in Forwards
  BY DEF Datagrams

\* Seen from socket i, each step is one of a relay from the server: a forward that
\* arrives is accepted, and one that is read is delivered, or lost if the socket
\* has gone.
LEMMA StepIncoming ==
  ASSUME TypeOK, [Next]_vars, NEW i \in Pool
  PROVE  \/ [In(i)!Next]_(In(i)!vars)
         \/ i \notin senders /\ LossyIn(i)!Lose
<1> DEFINE p == Incoming(i)
           kind == {packet \in Forwards : packet.index = i}
<1>1. /\ inbox \in Seq(Datagrams) /\ p \in Seq(Datagrams)
      /\ handle \in [Pool -> Seq(Forwards)]
  <2>1. inbox \in Seq(Datagrams) /\ handle \in [Pool -> Seq(Forwards)]
    BY DEF TypeOK
  <2> QED BY <2>1, SelectedInSeq DEF Incoming
<1>2. CASE ReadForward
  <2>1. NextDatagram /\ Head(inbox) \in Forwards
    <3>1. NextDatagram /\ Head(inbox).kind = "Forward"
      BY <1>2 DEF ReadForward
    <3> QED BY <3>1, NextIncoming, ForwardsAre
  <2>2. CASE Head(inbox).index = i
    <3>1. p # <<>> /\ p' = Tail(p) /\ Head(p) = Head(inbox)
      BY <2>1, <2>2, NextIncoming
    <3>2. CASE i \in senders
      <4>1. handle'[i] = Append(handle[i], Head(p))
        BY <1>1, <1>2, <2>2, <3>1, <3>2 DEF ReadForward
      <4> QED BY <3>1, <4>1 DEF In!Next, In!Deliver
    <3>3. CASE i \notin senders
      <4>1. handle' = handle
        BY <1>2, <2>2, <3>3 DEF ReadForward
      <4> HIDE DEF p
      <4>2. 1 \in 1..Len(p) /\ p' = SubSeq(p, 1, 0) \o SubSeq(p, 2, Len(p))
        BY <1>1, <3>1, WithoutFirst
      <4>3. 1 <= 1 /\ 1 - 1 = 0 /\ 1 + 1 = 2
        OBVIOUS
      <4>4. LossyIn(i)!Lose
        BY <4>1, <4>2, <4>3 DEF LossyIn!Lose, p
      <4> QED BY <3>3, <4>4
    <3> QED BY <3>2, <3>3
  <2>3. CASE Head(inbox).index # i
    <3>1. p' = p
      BY <2>1, <2>3, NextIncoming
    <3>2. handle'[i] = handle[i]
      BY <1>1, <1>2, <2>3 DEF ReadForward
    <3> QED BY <3>1, <3>2 DEF In!vars
  <2> QED BY <2>2, <2>3
<1>3. CASE ReadKeepAlive \/ ReadOther \/ ReadMalformed
  <2>1. NextDatagram /\ Head(inbox) \notin Forwards /\ handle' = handle
    BY <1>3 DEF ReadKeepAlive, ReadOther, ReadMalformed, Forwards
  <2>2. p' = p
    BY <2>1, NextIncoming
  <2> QED BY <2>1, <2>2 DEF In!vars
<1>4. ASSUME NEW e \in Datagrams, Arrive(e) PROVE [In(i)!Next]_(In(i)!vars)
  <2>1. inbox' = Append(inbox, e) /\ handle' = handle
    BY <1>4 DEF Arrive
  <2>2. p' = IF e \in kind THEN Append(p, e) ELSE p
    <3>1. p = Selected(inbox, kind) /\ p' = Selected(Append(inbox, e), kind)
      BY <2>1 DEF Incoming
    <3> HIDE DEF p, kind
    <3> QED BY <1>1, <1>4, <3>1, SelectedOfAppend
  <2>3. (\E m \in Forwards : p' = Append(p, m)) \/ p' = p
    <3>1. e \in kind => e \in Forwards
      OBVIOUS
    <3> HIDE DEF p, kind
    <3> QED BY <2>2, <3>1
  <2> QED BY <2>1, <2>3 DEF In!Next, In!Accept, In!vars
<1>5. CASE \E j \in Indices :
             Arrive([kind |-> "Forward", index |-> j, id |-> received + 1])
  <2>1. PICK j \in Indices :
               Arrive([kind |-> "Forward", index |-> j, id |-> received + 1])
    BY <1>5
  <2>2. received + 1 \in 1..MaxDatagrams
    BY <2>1, BoundAssumption DEF Arrive, TypeOK
  <2>3. [kind |-> "Forward", index |-> j, id |-> received + 1] \in Datagrams
    BY <2>2 DEF Datagrams, Forwards
  <2> QED BY <1>4, <2>1, <2>3
<1>6. CASE \E k \in {"KeepAlive", "Other", "Malformed"} : Arrive([kind |-> k])
  <2>1. PICK k \in {"KeepAlive", "Other", "Malformed"} : Arrive([kind |-> k])
    BY <1>6
  <2>2. [kind |-> k] \in Datagrams
    BY DEF Datagrams
  <2> QED BY <1>4, <2>1, <2>2
<1>7. CASE UNCHANGED <<inbox, handle>>
  BY <1>7 DEF In!vars, Incoming
<1> QED
  BY <1>2, <1>3, <1>5, <1>6, <1>7
  DEF Next, TaskStep, Poll, WriteStep, WriteRecv, WriteRecvPending,
      WriteRecvClosed, WriteMessage, ReadStep, CheckAlive, TickPending,
      ReadError, ReadPending, Environment, SocketSend, SocketEnd, Unreachable,
      Drain, Tick, vars, inVars

\* The UDP tunnel is a lossy relay from the sockets: what it sends is the oldest it
\* holds, and what it loses too; and forwards reach socket i in the order they
\* arrived, none twice and none lost while the socket is there, whatever datagrams
\* come between them.
THEOREM UdpRelaysBothWays == Spec => RelaysBothWays
<1>1. Init => Out!Init /\ \A i \in Pool : In(i)!Init
  BY RelaysInit
<1>2. IInv /\ [Next]_vars => /\ [Out!Next]_(Out!vars)
                            /\ \A i \in Pool :
                                 \/ [In(i)!Next]_(In(i)!vars)
                                 \/ i \notin senders /\ LossyIn(i)!Lose
  BY StepOut, StepIncoming DEF IInv
<1>3. QED
  BY <1>1, <1>2, Invariance, PTL DEF Spec, RelaysBothWays

------------------------------------------------------------------------------
(* Which messages the tunnel has *)

\* The channel holds the last messages that were put on it, in their order, and
\* the tunnel has no message that was not.
Numbered ==
    /\ Len(rx) <= sent
    /\ \A k \in 1..Len(rx) : rx[k] = (sent - Len(rx)) + k
    /\ Kept \subseteq 1..sent

\* Polling the Write arm puts nothing on the wire but the message in hand.
LEMMA PollWriteNew ==
  ASSUME TypeOK, NEW m \in {message, KeepAlive}, NEW ready, NEW pending,
         PollWrite(m, ready, pending)
  PROVE  /\ ToSet(wire') \subseteq ToSet(wire) \cup Held
         /\ message' \in {message, NoMessage, KeepAlive}
<1>1. message' \in {message, NoMessage, KeepAlive}
  BY DEF PollWrite, SendNotReady, SendReadyError, SendNothing, SendDone,
         SendPending, SendError, slotVars
<1>2. CASE wire' = wire
  BY <1>1, <1>2
<1>3. CASE SendDone(m, ready) /\ m # KeepAlive
  <2>1. m = message /\ m \in Messages /\ wire' = Append(wire, m)
    BY <1>3 DEF SendDone, TypeOK
  <2>2. ToSet(wire') = ToSet(wire) \cup {m}
    BY <2>1, ElementsOfAppend DEF TypeOK
  <2>3. QED
    BY <1>1, <2>1, <2>2 DEF Held
<1>4. QED
  BY <1>2, <1>3
  DEF PollWrite, SendNotReady, SendReadyError, SendNothing, SendDone,
      SendPending, SendError,
      sockVars

\* A step puts the next number on the channel, takes the first from it, or leaves
\* it, and keeps nothing that it had not.
LEMMA StepNumbered ==
  ASSUME IInv, Numbered, [Next]_vars
  PROVE  Numbered'
<1> USE DEF slotVars, chanVars, sockVars
<1>1. /\ rx \in Seq(Messages) /\ sent \in Nat /\ Len(rx) \in Nat
      /\ message \in Messages \cup {NoMessage, KeepAlive}
  BY BoundAssumption DEF IInv, TypeOK
<1>2. ASSUME UNCHANGED <<rx, sent>>, ToSet(wire') \subseteq ToSet(wire) \cup Held,
             message' \in {message, NoMessage, KeepAlive}
      PROVE  Numbered'
  <2>1. NoMessage \notin Messages /\ KeepAlive \notin Messages
    BY BoundAssumption DEF NoMessage, KeepAlive, Messages
  <2>2. Held' \subseteq Held
    BY <1>2, <2>1 DEF Held, Messages
  <2>3. Kept' \subseteq Kept
    BY <1>2, <2>2 DEF Kept
  <2>4. QED
    BY <1>2, <2>3 DEF Numbered
<1>3. CASE WriteRecv
  <2>1. /\ rx # <<>> /\ message' = Head(rx) /\ rx' = Tail(rx)
        /\ UNCHANGED <<wire, sent>>
    BY <1>3 DEF WriteRecv
  <2>2. /\ Head(rx) \in Messages /\ ToSet(rx) = {Head(rx)} \cup ToSet(Tail(rx))
        /\ Len(Tail(rx)) = Len(rx) - 1
        /\ \A k \in 1..Len(Tail(rx)) : Tail(rx)[k] = rx[k + 1]
    BY <1>1, <2>1, HeadTailProperties, ElementsOfTail
  <2>3. Kept' \subseteq Kept
    BY <2>1, <2>2 DEF Kept, Held, Messages
  <2>4. ASSUME NEW k \in 1..Len(rx')
        PROVE  rx'[k] = (sent' - Len(rx')) + k
    <3>1. k + 1 \in 1..Len(rx) /\ rx'[k] = rx[k + 1]
      BY <1>1, <2>1, <2>2
    <3>2. QED
      BY <1>1, <2>1, <2>2, <3>1 DEF Numbered
  <2>5. QED
    BY <1>1, <2>1, <2>2, <2>3, <2>4 DEF Numbered
<1>4. CASE WriteMessage
  <2>1. UNCHANGED <<rx, sent>> /\ PollWrite(message, "write", "read")
    BY <1>4 DEF WriteMessage
  <2>2. QED
    BY <1>2, <2>1, PollWriteNew DEF IInv
<1>5. CASE ReadKeepAlive
  <2>1. UNCHANGED <<rx, sent>> /\ PollWrite(KeepAlive, "read", "read")
    BY <1>5 DEF ReadKeepAlive, NextDatagram
  <2>2. QED
    BY <1>2, <2>1, PollWriteNew DEF IInv
<1>6. CASE SocketSend
  <2>1. /\ sent' = sent + 1 /\ rx' = Append(rx, sent + 1)
        /\ UNCHANGED <<wire, message>>
    BY <1>6 DEF SocketSend
  <2>2. sent + 1 \in Messages
    BY <1>1, <1>6, BoundAssumption DEF SocketSend, Messages
  <2>3. ToSet(rx') = ToSet(rx) \cup {sent + 1}
    BY <1>1, <2>1, <2>2, ElementsOfAppend
  <2>4. Kept' = Kept \cup {sent + 1}
    BY <2>1, <2>3 DEF Kept, Held, Messages
  <2>5. /\ Len(rx') = Len(rx) + 1 /\ rx'[Len(rx) + 1] = sent + 1
        /\ \A k \in 1..Len(rx) : rx'[k] = rx[k]
    BY <1>1, <2>1, <2>2, AppendProperties
  <2>6. ASSUME NEW k \in 1..Len(rx')
        PROVE  rx'[k] = (sent' - Len(rx')) + k
    <3>1. CASE k = Len(rx) + 1
      BY <1>1, <2>1, <2>5, <3>1
    <3>2. CASE k \in 1..Len(rx)
      BY <1>1, <2>1, <2>5, <3>2 DEF Numbered
    <3>3. QED
      BY <1>1, <2>5, <3>1, <3>2
  <2>7. QED
    BY <1>1, <2>1, <2>4, <2>5, <2>6 DEF Numbered
<1>7. CASE UNCHANGED <<wire, message, rx, sent>>
  BY <1>2, <1>7
<1>8. \/ WriteRecv \/ WriteMessage \/ ReadKeepAlive \/ SocketSend
      \/ UNCHANGED <<wire, message, rx, sent>>
      \/ ReadOther \/ ReadForward \/ ReadMalformed
  BY DEF Next, TaskStep, Poll, WriteStep, WriteRecvPending, WriteRecvClosed,
         ReadStep, CheckAlive, TickPending, ReadError, ReadPending,
         Environment, SocketEnd, Arrive, Unreachable, Drain, Tick, vars
<1>9. ReadOther \/ ReadForward \/ ReadMalformed
          => UNCHANGED <<wire, message, rx, sent>>
  BY DEF ReadOther, ReadForward, ReadMalformed, NextDatagram
<1>10. QED
  BY <1>3, <1>4, <1>5, <1>6, <1>7, <1>8, <1>9

\* The messages stay numbered.
LEMMA NumberedInvariance == Spec => []Numbered
<1>1. Init => Numbered
  <2> SUFFICES ASSUME Init PROVE Numbered
    OBVIOUS
  <2>1. rx = <<>> /\ wire = <<>> /\ message = NoMessage /\ sent = 0
    BY DEF Init
  <2>2. Len(<<>>) = 0 /\ <<>> \in Seq(Messages)
    BY EmptySeq
  <2>3. ToSet(<<>>) = {}
    <3>1. ToSet(<<>>) = {<<>>[i] : i \in 1..0}
      BY <2>2, ElementsOf
    <3>2. QED
      BY <3>1
  <2>4. Held = {}
    BY <2>1, BoundAssumption DEF Held, NoMessage, Messages
  <2>5. QED
    BY <2>1, <2>2, <2>3, <2>4 DEF Numbered, Kept
<1>2. QED
  BY <1>1, StepNumbered, Invariance, PTL DEF Spec

------------------------------------------------------------------------------
(* The pair *)

SP == INSTANCE PoolSocketProofs WITH
        MaxMessages <- MaxDatagrams, MaxDatagrams <- MaxSent,
        pc <- socket_pc, notified <- socket_notified, spent <- socket_spent,
        wakers <- socket_wakers, write_state <- socket_write_state,
        message <- socket_message, rx <- socket_rx, room <- socket_room,
        so_error <- socket_error, inbox <- socket_inbox

------------------------------------------------------------------------------
(* Each task of the pair is the task of its own module *)

\* Seen from the tunnel, the pair is a UdpTunnel: the socket sends or ends where
\* that module lets any socket do so.
LEMMA PairIsTunnel == PairSpec => Spec
<1>1. PairInit => Init
  BY DEF PairInit
<1>2. [PairNext]_pairVars => [Next]_vars
  <2> SUFFICES ASSUME [PairNext]_pairVars PROVE [Next]_vars
    OBVIOUS
  <2>1. CASE TunnelStep
    BY <2>1 DEF TunnelStep, Next
  <2>2. CASE SocketStep
    <3>1. 0 \in Pool
      BY OneSocket DEF Pool
    <3>2. SocketSend \/ SocketEnd(0) \/ UNCHANGED vars
      BY <2>2 DEF SocketStep
    <3>3. QED
      BY <3>1, <3>2 DEF Next, Environment
  <2>3. CASE Outside
    BY <2>3 DEF Outside, Next, Environment
  <2>4. CASE UNCHANGED pairVars
    BY <2>4 DEF pairVars
  <2>5. QED
    BY <2>1, <2>2, <2>3, <2>4 DEF PairNext
<1>3. QED
  BY <1>1, <1>2, PTL DEF PairSpec, Spec

\* The steps of the socket's task are those of PoolSocket.
LEMMA SocketTask == S!TaskStep => SP!TaskStep
<1>1. S!Poll => SP!Poll
  BY DEF S!Poll, SP!Poll, S!slotVars, SP!slotVars, S!chanVars, SP!chanVars,
         S!sockVars, SP!sockVars
<1>2. S!WriteStep => SP!WriteStep
  BY DEF S!WriteStep, SP!WriteStep, S!WriteRecv, SP!WriteRecv,
         S!WriteRecvPending, SP!WriteRecvPending, S!WriteRecvClosed,
         SP!WriteRecvClosed, S!WriteSend, SP!WriteSend, S!WriteSendPending,
         SP!WriteSendPending, S!WriteSendError, SP!WriteSendError,
         S!Ready, SP!Ready, S!Pending, SP!Pending, S!OutOfBudget,
         SP!OutOfBudget, S!Stop, SP!Stop, S!Bytes, SP!Bytes,
         S!slotVars, SP!slotVars, S!chanVars, SP!chanVars, S!sockVars,
         SP!sockVars
<1>3. S!ReadStep => SP!ReadStep
  BY DEF S!ReadStep, SP!ReadStep, S!ReadForward, SP!ReadForward,
         S!ReadClosed, SP!ReadClosed, S!ReadError, SP!ReadError,
         S!ReadPending, SP!ReadPending, S!Ready, SP!Ready, S!Pending,
         SP!Pending, S!OutOfBudget, SP!OutOfBudget, S!Stop, SP!Stop,
         S!slotVars, SP!slotVars, S!chanVars, SP!chanVars, S!sockVars,
         SP!sockVars
<1>4. QED
  BY <1>1, <1>2, <1>3 DEF S!TaskStep, SP!TaskStep

\* What the tunnel, the game and the system do to the socket is what PoolSocket
\* lets its environment do.
LEMMA SocketEnvironment ==
  S!TunnelSend \/ S!TunnelGone \/ S!GameSend \/ S!Unreachable \/ S!Drain
      => SP!Environment
  BY DEF SP!Environment, S!TunnelSend, SP!TunnelSend, S!TunnelGone,
         SP!TunnelGone, S!GameSend, SP!GameSend, S!Unreachable,
         SP!Unreachable, S!Drain, SP!Drain, S!Wake, SP!Wake,
         S!slotVars, SP!slotVars, S!chanVars, SP!chanVars, S!sockVars,
         SP!sockVars

\* Seen from the socket, the pair is a PoolSocket: the tunnel sends or goes
\* where that module lets it.
LEMMA PairIsSocket == PairSpec => SP!Spec
<1>1. PairInit => SP!Init
  BY DEF PairInit, S!Init, SP!Init
<1>2. [PairNext]_pairVars => [SP!Next]_(SP!vars)
  <2> SUFFICES ASSUME [PairNext]_pairVars PROVE [SP!Next]_(SP!vars)
    OBVIOUS
  <2>1. UNCHANGED socketVars => UNCHANGED SP!vars
    BY DEF socketVars, SP!vars, SP!taskVars, SP!slotVars, SP!chanVars,
           SP!sockVars
  <2>2. CASE TunnelStep
    BY <2>1, <2>2, SocketEnvironment DEF TunnelStep, SP!Next
  <2>3. CASE SocketStep
    BY <2>3, SocketTask DEF SocketStep, SP!Next
  <2>4. CASE Outside
    BY <2>1, <2>4, SocketEnvironment DEF Outside, SP!Next
  <2>5. CASE UNCHANGED pairVars
    BY <2>1, <2>5 DEF pairVars
  <2>6. QED
    BY <2>2, <2>3, <2>4, <2>5 DEF PairNext
<1>3. QED
  BY <1>1, <1>2, PTL DEF PairSpec, SP!Spec

------------------------------------------------------------------------------
(* How the two tasks are linked *)

\* The counts at the two ends of each channel agree, and while both tasks run
\* neither end is closed.
Linked ==
    /\ sent = Len(tun) /\ accepted = Len(handle[0])
    /\ BothRun => tunnel = "up" /\ senders = {0}

\* A step of the tunnel's task does nothing to the channel from the socket but
\* read it, and puts at most one forward on the channel of the one socket.
LEMMA TunnelTask ==
  ASSUME TypeOK, TaskStep
  PROVE  /\ pc \in Running /\ UNCHANGED <<sent, senders>>
         /\ handle' # handle =>
               Len(handle'[0]) = Len(handle[0]) + 1 /\ pc' \notin Ended
<1>1. CASE ReadForward
  <2>1. Pool = {0}
    BY OneSocket DEF Pool
  <2>2. /\ NextDatagram /\ Head(inbox).kind = "Forward"
        /\ pc = "recv" /\ pc' = "read" /\ UNCHANGED <<sent, senders>>
    BY <1>1 DEF ReadForward, NextDatagram, Ready, chanVars
  <2>3. Head(inbox) \in Forwards
    <3>1. Head(inbox) \in Datagrams
      BY <2>1, <2>2, NextIncoming
    <3>2. QED
      BY <2>2, <3>1, ForwardsAre
  <2>4. handle[0] \in Seq(Forwards) /\ handle \in [{0} -> Seq(Forwards)]
    BY <2>1 DEF TypeOK
  <2>5. \/ handle' = handle
        \/ handle' = [handle EXCEPT ![0] = Append(@, Head(inbox))]
    BY <1>1, <2>1 DEF ReadForward
  <2>6. Len(Append(handle[0], Head(inbox))) = Len(handle[0]) + 1
    BY <2>3, <2>4, AppendProperties
  <2>7. handle' # handle => handle'[0] = Append(handle[0], Head(inbox))
    BY <2>4, <2>5
  <2>8. QED
    BY <2>2, <2>6, <2>7 DEF Running, Ended
<1>2. /\ pc \in Running
      /\ ReadForward \/ handle' = handle
  BY DEF TaskStep, Poll, WriteStep, WriteRecv, WriteRecvPending,
         WriteRecvClosed, WriteMessage, ReadStep, CheckAlive, TickPending,
         ReadKeepAlive, ReadForward, ReadOther, ReadMalformed, ReadError,
         ReadPending, NextDatagram, Running
<1>3. UNCHANGED <<sent, senders>>
  BY DEF TaskStep, Poll, WriteStep, WriteRecv, WriteRecvPending,
         WriteRecvClosed, WriteMessage, ReadStep, CheckAlive, TickPending,
         ReadKeepAlive, ReadForward, ReadOther, ReadMalformed, ReadError,
         ReadPending, NextDatagram, chanVars
<1>4. QED
  BY <1>1, <1>2, <1>3

\* A step of the socket's task likewise.
LEMMA SocketTaskLink ==
  ASSUME SP!TypeOK, S!TaskStep
  PROVE  /\ socket_pc # "done" /\ UNCHANGED <<accepted, tunnel>>
         /\ tun' # tun => Len(tun') = Len(tun) + 1
<1>1. CASE S!ReadForward
  <2>1. /\ socket_inbox \in Seq(SP!Datagrams) /\ tun \in Seq(SP!Datagrams)
        /\ socket_inbox # <<>> /\ tun' = Append(tun, Head(socket_inbox))
    BY <1>1 DEF SP!TypeOK, S!ReadForward
  <2>2. Len(tun') = Len(tun) + 1
    BY <2>1, HeadTailProperties, AppendProperties
  <2>3. QED
    BY <1>1, <2>2 DEF S!ReadForward, S!chanVars
<1>2. /\ socket_pc # "done" /\ UNCHANGED <<accepted, tunnel>>
      /\ S!ReadForward \/ tun' = tun
  BY DEF S!TaskStep, S!Poll, S!WriteStep, S!WriteRecv, S!WriteRecvPending,
         S!WriteRecvClosed, S!WriteSend, S!WriteSendPending, S!WriteSendError,
         S!ReadStep, S!ReadForward, S!ReadClosed, S!ReadError, S!ReadPending,
         S!chanVars
<1>3. QED
  BY <1>1, <1>2

\* No step takes one end of a channel further than the other: a datagram or a
\* forward is on its channel in the step that hands it on.
LEMMA StepLinked ==
  ASSUME TypeOK, SP!TypeOK, Linked, [PairNext]_pairVars
  PROVE  Linked'
<1> USE DEF Linked, BothRun
<1>1. CASE TunnelStep
  <2>1. /\ pc \in Running /\ UNCHANGED <<sent, senders>>
        /\ handle' # handle =>
              Len(handle'[0]) = Len(handle[0]) + 1 /\ pc' \notin Ended
    BY <1>1, TunnelTask DEF TunnelStep
  <2>2. CASE handle' # handle
    <3>1. S!TunnelSend
      BY <1>1, <2>1, <2>2 DEF TunnelStep
    <3>2. /\ UNCHANGED <<socket_pc, tunnel, tun>> /\ accepted' = accepted + 1
      BY <3>1 DEF S!TunnelSend
    <3>3. QED
      BY <2>1, <2>2, <3>2
  <2>3. CASE handle' = handle
    <3>1. CASE pc' \in Ended /\ socket_pc # "done"
      <4>1. S!TunnelGone
        BY <1>1, <3>1 DEF TunnelStep
      <4>2. UNCHANGED <<accepted, tun>>
        BY <4>1 DEF S!TunnelGone
      <4>3. pc' \notin Running
        BY <3>1 DEF Running, Ended
      <4> QED BY <2>1, <2>3, <4>2, <4>3 DEF Running
    <3>2. CASE ~(pc' \in Ended /\ socket_pc # "done")
      <4>1. UNCHANGED socketVars
        BY <1>1, <2>3, <3>2 DEF TunnelStep
      <4> QED BY <2>1, <2>3, <4>1 DEF socketVars
    <3> QED BY <3>1, <3>2
  <2>4. QED
    BY <2>2, <2>3
<1>2. CASE SocketStep
  <2>1. /\ socket_pc # "done" /\ UNCHANGED <<accepted, tunnel>>
        /\ tun' # tun => Len(tun') = Len(tun) + 1
    BY <1>2, SocketTaskLink DEF SocketStep
  <2>2. CASE tun' # tun
    <3>1. /\ UNCHANGED <<pc, senders, handle>> /\ sent' = sent + 1
      BY <1>2, <2>2 DEF SocketStep, SocketSend
    <3>2. QED
      BY <2>1, <2>2, <3>1
  <2>3. CASE tun' = tun
    <3>1. CASE socket_pc' = "done" /\ pc \in Running
      <4>1. SocketEnd(0)
        BY <1>2, <2>3, <3>1 DEF SocketStep
      <4>2. UNCHANGED <<handle, sent>>
        BY <4>1 DEF SocketEnd
      <4> QED BY <2>1, <2>3, <3>1, <4>2
    <3>2. CASE ~(socket_pc' = "done" /\ pc \in Running)
      <4>1. UNCHANGED vars
        BY <1>2, <2>3, <3>2 DEF SocketStep
      <4> QED BY <2>1, <2>3, <4>1 DEF vars, taskVars, chanVars
    <3> QED BY <3>1, <3>2
  <2>4. QED
    BY <2>2, <2>3
<1>3. CASE Outside
  <2>1. UNCHANGED <<pc, sent, senders, handle, socket_pc, accepted, tunnel, tun>>
    BY <1>3
    DEF Outside, Arrive, Unreachable, Drain, Tick, S!GameSend, S!Unreachable,
        S!Drain, socketVars, vars, taskVars, chanVars, S!chanVars
  <2>2. QED
    BY <2>1 DEF Running
<1>4. CASE UNCHANGED pairVars
  BY <1>4 DEF pairVars, vars, taskVars, chanVars, socketVars, Running
<1>5. QED
  BY <1>1, <1>2, <1>3, <1>4 DEF PairNext

\* What each task proves of itself and what links them.
TunnelFacts == IInv /\ Numbered
SocketFacts == SP!IInv /\ SP!BytesInv

\* Each holds in every state of the pair.
LEMMA PairFacts == PairSpec => [](TunnelFacts /\ SocketFacts /\ Linked)
<1>1. PairInit => Linked
  <2> SUFFICES ASSUME PairInit PROVE Linked
    OBVIOUS
  <2>1. Pool = {0}
    BY OneSocket DEF Pool
  <2>2. Len(<<>>) = 0
    BY EmptySeq
  <2>3. QED
    BY <2>1, <2>2 DEF PairInit, Init, S!Init, Linked
<1>2. TunnelFacts /\ SocketFacts => TypeOK /\ SP!TypeOK
  BY DEF TunnelFacts, SocketFacts, IInv, SP!IInv
<1>3. TypeOK /\ SP!TypeOK /\ Linked /\ [PairNext]_pairVars => Linked'
  BY StepLinked
<1>4. PairSpec => []TunnelFacts
  BY PairIsTunnel, Invariance, NumberedInvariance, PTL DEF TunnelFacts
<1>5. SP!Spec => []SP!IInv /\ []SP!BytesInv
  BY SP!Invariance, SP!BytesInvariance, BoundAssumption, MessageLength
<1>6. PairSpec => []SocketFacts
  BY <1>5, PairIsSocket, PTL DEF SocketFacts
<1>7. QED
  BY <1>1, <1>2, <1>3, <1>4, <1>6, PTL DEF PairSpec

------------------------------------------------------------------------------
(* The pair keeps account of every datagram *)

\* The sequences that a datagram of the game goes through.
LEMMA DatagramTypes ==
  ASSUME TunnelFacts, SocketFacts
  PROVE  /\ wire \in Seq(Messages) /\ InHand \in Seq(Messages)
         /\ rx \in Seq(Messages) /\ socket_inbox \in Seq(Messages)
         /\ tun \in Seq(Messages)
         /\ sent \in Nat /\ arrived \in Nat
<1>1. wire \in Seq(Messages) /\ rx \in Seq(Messages) /\ sent \in Nat
  BY BoundAssumption DEF TunnelFacts, IInv, TypeOK
<1>2. InHand \in Seq(Messages)
  BY InHandContents DEF TunnelFacts, IInv
<1>3. /\ socket_inbox \in Seq(Messages) /\ tun \in Seq(Messages)
      /\ arrived \in Nat
  BY BoundAssumption DEF SocketFacts, SP!IInv, SP!TypeOK, SP!Datagrams, Messages
<1>4. QED
  BY <1>1, <1>2, <1>3

\* While both tasks run, what waits in the socket comes right after what it has put
\* on the tunnel's channel.
LEMMA InboxFollows ==
  ASSUME TunnelFacts, SocketFacts, Linked, BothRun
  PROVE  /\ arrived = sent + Len(socket_inbox)
         /\ \A k \in 1..Len(socket_inbox) : socket_inbox[k] = sent + k
<1> DEFINE all == tun \o socket_inbox
<1>1. all = [k \in 1..arrived |-> k]
  BY DEF SocketFacts, SP!IInv, SP!DatagramsInOrder, BothRun
<1>2. /\ tun \in Seq(Messages) /\ socket_inbox \in Seq(Messages)
      /\ arrived \in Nat /\ Len(tun) = sent
  BY DatagramTypes DEF Linked
<1>3. /\ Len(all) = sent + Len(socket_inbox)
      /\ sent \in Nat /\ Len(socket_inbox) \in Nat
      /\ \A k \in 1..Len(socket_inbox) : all[sent + k] = socket_inbox[k]
  BY <1>2
<1> HIDE DEF all
<1>4. Len(all) = arrived /\ \A k \in 1..arrived : all[k] = k
  BY <1>1, <1>2
<1>5. \A k \in 1..Len(socket_inbox) : sent + k \in 1..arrived
  BY <1>3, <1>4
<1>6. QED
  BY <1>3, <1>4, <1>5

\* So what waits on the channel and in the socket are the latest datagrams of the
\* game, in a row.
LEMMA QueuedInARow ==
  ASSUME TunnelFacts, SocketFacts, Linked, BothRun
  PROVE  Queued = [k \in 1..Len(Queued) |-> arrived - Len(Queued) + k]
<1>1. /\ rx \in Seq(Messages) /\ socket_inbox \in Seq(Messages)
      /\ sent \in Nat
  BY DatagramTypes
<1>2. /\ Queued \in Seq(Messages) /\ Len(Queued) = Len(rx) + Len(socket_inbox)
      /\ Len(rx) \in Nat /\ Len(socket_inbox) \in Nat
      /\ \A k \in 1..Len(rx) : Queued[k] = rx[k]
      /\ \A k \in 1..Len(socket_inbox) : Queued[Len(rx) + k] = socket_inbox[k]
  BY <1>1, Concatenated DEF Queued
<1>3. arrived - Len(Queued) = sent - Len(rx)
  BY <1>1, <1>2, InboxFollows
<1>4. ASSUME NEW k \in 1..Len(Queued)
      PROVE  Queued[k] = arrived - Len(Queued) + k
  <2>1. CASE k \in 1..Len(rx)
    <3>1. rx[k] = (sent - Len(rx)) + k
      BY <2>1 DEF TunnelFacts, Numbered
    <3>2. QED
      BY <1>2, <1>3, <2>1, <3>1
  <2>2. CASE k \notin 1..Len(rx)
    <3>1. k - Len(rx) \in 1..Len(socket_inbox) /\ Len(rx) + (k - Len(rx)) = k
      BY <1>2, <2>2
    <3>2. Queued[k] = sent + (k - Len(rx))
      BY <1>2, <3>1, InboxFollows
    <3>3. QED
      BY <1>1, <1>2, <1>3, <3>2
  <2>3. QED
    BY <2>1, <2>2
<1>5. Queued = [k \in 1..Len(Queued) |-> Queued[k]]
  BY <1>2, LenProperties
<1>6. QED
  BY <1>4, <1>5

\* Every datagram of the game is sent, on its way, or lost from the write state, and
\* there is no other.
LEMMA AllAccountedFor ==
  ASSUME TunnelFacts, SocketFacts, Linked, BothRun
  PROVE  ToSet(wire \o GoingOut) \cup Lost = 1..arrived
<1>1. /\ wire \in Seq(Messages) /\ InHand \in Seq(Messages)
      /\ rx \in Seq(Messages) /\ socket_inbox \in Seq(Messages)
      /\ sent \in Nat /\ arrived \in Nat
  BY DatagramTypes
<1>2. Queued \in Seq(Messages) /\ ToSet(Queued) = ToSet(rx) \cup ToSet(socket_inbox)
  BY <1>1, ConcatProperties, ElementsOfConcat DEF Queued
<1>3. /\ GoingOut \in Seq(Messages)
      /\ ToSet(GoingOut) = ToSet(InHand) \cup ToSet(Queued)
  BY <1>1, <1>2, ConcatProperties, ElementsOfConcat DEF GoingOut
<1>4. ToSet(wire \o GoingOut) = ToSet(wire) \cup ToSet(GoingOut)
  BY <1>1, <1>3, ElementsOfConcat
<1>5. ToSet(InHand) = Held /\ Lost = (1..sent) \ Kept
  BY InHandContents, LostIsNotKept DEF TunnelFacts, IInv
<1>6. ToSet(wire \o GoingOut) = Kept \cup ToSet(socket_inbox)
  BY <1>2, <1>3, <1>4, <1>5 DEF Kept
<1>7. ToSet(socket_inbox) = (1..arrived) \ (1..sent) /\ sent <= arrived
  <2>1. /\ ToSet(socket_inbox) = {socket_inbox[k] : k \in 1..Len(socket_inbox)}
        /\ Len(socket_inbox) \in Nat
    BY <1>1, ElementsOf, LenProperties
  <2>2. /\ arrived = sent + Len(socket_inbox)
        /\ \A k \in 1..Len(socket_inbox) : socket_inbox[k] = sent + k
    BY InboxFollows
  <2>3. \A k \in 1..Len(socket_inbox) : socket_inbox[k] \in (1..arrived) \ (1..sent)
    BY <1>1, <2>1, <2>2
  <2>4. ASSUME NEW m \in (1..arrived) \ (1..sent) PROVE m \in ToSet(socket_inbox)
    <3>1. m - sent \in 1..Len(socket_inbox) /\ sent + (m - sent) = m
      BY <1>1, <2>1, <2>2
    <3>2. QED
      BY <2>1, <2>2, <3>1
  <2>5. sent <= arrived
    BY <1>1, <2>1, <2>2
  <2>6. \A m \in ToSet(socket_inbox) : m \in (1..arrived) \ (1..sent)
    BY <2>1, <2>3
  <2>7. QED
    BY <2>4, <2>5, <2>6
<1>8. Kept \subseteq 1..sent
  BY DEF TunnelFacts, Numbered
<1>9. 1..sent \subseteq 1..arrived
  BY <1>1, <1>7
<1>10. QED
  BY <1>5, <1>6, <1>7, <1>8, <1>9

\* When both tasks sleep, the tunnel holds nothing unless the runtime thinks its
\* socket full, and the socket nothing unless its send buffer is.
LEMMA AsleepDone ==
  ASSUME TunnelFacts, SocketFacts, Linked, BothRun, Asleep, S!Asleep
  PROVE  /\ inbox = <<>> /\ socket_inbox = <<>>
         /\ send_ready => GoingOut = <<>>
         /\ socket_room => Len(game) = LENGTH * accepted
<1>1. inbox = <<>> /\ socket_inbox = <<>>
  BY DEF TunnelFacts, IInv, ReadPolled, SocketFacts, SP!IInv, SP!ReadPolled,
         S!Asleep, SP!Asleep
<1>2. ASSUME send_ready
      PROVE  GoingOut = <<>>
  <2>1. rx = <<>> /\ message = NoMessage
    BY <1>2 DEF TunnelFacts, IInv, WritePolled, MessageHeld, Asleep
  <2>2. InHand = <<>>
    BY <2>1, BoundAssumption DEF InHand, NoMessage, Messages
  <2>3. <<>> \o <<>> = <<>>
    BY EmptySeq, ConcatEmptySeq
  <2>4. QED
    BY <1>1, <2>1, <2>2, <2>3 DEF GoingOut, Queued
<1>3. ASSUME socket_room
      PROVE  Len(game) = LENGTH * accepted
  <2>1. socket_write_state = "Recv" /\ socket_rx = <<>>
    BY <1>3 DEF SocketFacts, SP!IInv, SP!WritePolled, S!Asleep
  <2>2. socket_message = <<>> /\ Len(game) + Len(socket_message)
                                    = LENGTH * (accepted - Len(socket_rx))
    BY <2>1 DEF SocketFacts, SP!BytesInv, SP!Counted, SP!Taken
  <2>3. Len(socket_rx) = 0 /\ Len(socket_message) = 0
    BY <2>1, <2>2, EmptySeq
  <2>4. Len(game) \in Nat /\ accepted \in Nat
    BY LenProperties, BoundAssumption
    DEF SocketFacts, SP!IInv, SP!TypeOK
  <2>5. accepted - Len(socket_rx) = accepted
        /\ Len(game) + Len(socket_message) = Len(game)
    BY <2>3, <2>4
  <2>6. QED
    BY <2>2, <2>5
<1>4. QED
  BY <1>1, <1>2, <1>3

\* Between the game and the server, the UDP tunnel and its socket lose no datagram
\* but from the write state and no forward at all while both run, leave no gap in
\* what waits, and never sleep on something the one has handed the other.
THEOREM UdpPairKeepsAccount == PairSpec => []PairInv
<1>1. TunnelFacts /\ SocketFacts /\ Linked => PairInv
  <2> SUFFICES ASSUME TunnelFacts, SocketFacts, Linked PROVE PairInv
    OBVIOUS
  <2>1. BothRun => /\ Queued = [k \in 1..Len(Queued) |-> arrived - Len(Queued) + k]
                   /\ ToSet(wire \o GoingOut) \cup Lost = 1..arrived
                   /\ accepted = Len(handle[0])
                   /\ tunnel = "up" /\ senders = {0}
    BY QueuedInARow, AllAccountedFor DEF Linked
  <2>2. QED
    BY <2>1, AsleepDone DEF PairInv
<1>2. QED
  BY <1>1, PairFacts, PTL

------------------------------------------------------------------------------
(* From the game to the server *)

\* What is on its way out: what the tunnel has, and behind it what waits in the
\* socket.
InboxBehind ==
    /\ GoingOut = Waiting \o socket_inbox
    /\ Waiting \in Seq(Messages) /\ socket_inbox \in Seq(Messages)

\* The two tasks' invariants give it.
LEMMA GoingOutIs ==
  ASSUME TunnelFacts, SocketFacts
  PROVE  InboxBehind
<1>1. /\ InHand \in Seq(Messages) /\ rx \in Seq(Messages)
      /\ socket_inbox \in Seq(Messages)
  BY DatagramTypes
<1>2. InHand \o (rx \o socket_inbox) = (InHand \o rx) \o socket_inbox
  BY <1>1, ConcatAssociative
<1>3. Waiting \in Seq(Messages)
  BY <1>1, ConcatProperties DEF Waiting
<1>4. QED
  BY <1>1, <1>2, <1>3 DEF InboxBehind, GoingOut, Queued, Waiting

\* A datagram that the socket puts on the channel is the next of those the tunnel
\* counts, and goes from the front of one queue to the end of the other.
LEMMA DatagramMoves ==
  ASSUME TunnelFacts, SocketFacts, Linked, S!ReadForward, SocketSend
  PROVE  UNCHANGED <<GoingOut, wire>>
<1>1. /\ socket_inbox # <<>> /\ socket_inbox' = Tail(socket_inbox) /\ BothRun
  BY DEF S!ReadForward, SocketSend, BothRun
<1>2. /\ rx \in Seq(Messages) /\ socket_inbox \in Seq(Messages) /\ sent \in Nat
  BY DatagramTypes
<1>3. Head(socket_inbox) = sent + 1
  <2>1. 1 \in 1..Len(socket_inbox) /\ Head(socket_inbox) = socket_inbox[1]
    BY <1>1, <1>2
  <2> QED BY <1>1, <2>1, InboxFollows
<1>4. /\ rx' = Append(rx, sent + 1) /\ InHand' = InHand /\ wire' = wire
  BY DEF SocketSend, slotVars, sockVars, InHand, Messages
<1>5. Append(rx, Head(socket_inbox)) \o Tail(socket_inbox) = rx \o socket_inbox
  BY <1>1, <1>2, HeadMoves
<1> QED BY <1>1, <1>3, <1>4, <1>5 DEF GoingOut, Queued

\* Each step takes the datagrams of the game on their way from the game to the
\* server: one arrives, the first is sent, or one is lost, from the write state or
\* with a socket that finds the tunnel gone.
LEMMA StepGoingOut ==
  ASSUME TunnelFacts, SocketFacts, Linked, InboxBehind, InboxBehind',
         [PairNext]_pairVars
  PROVE  [GameToServer!Next]_(GameToServer!vars)
<1> DEFINE p == Waiting
           q == socket_inbox
<1>1. p \in Seq(Messages) /\ q \in Seq(Messages)
  BY DEF InboxBehind
<1>2. GoingOut = p \o q /\ GoingOut' = p' \o q'
  BY DEF InboxBehind
<1>3. UNCHANGED <<p, q, wire>> => UNCHANGED GameToServer!vars
  BY <1>2 DEF GameToServer!vars
<1>4. CASE TunnelStep
  <2>1. TaskStep /\ IInv /\ TypeOK
    BY <1>4 DEF TunnelStep, TunnelFacts, IInv
  <2>2. q' = q
    BY <1>4 DEF TunnelStep, S!TunnelGone, S!TunnelSend, socketVars, S!sockVars
  <2>3. sent' # sent + 1
    <3>1. sent \in Nat
      BY DatagramTypes
    <3> QED BY <2>1, <3>1, TunnelTask
  <2>4. \/ UNCHANGED <<p, wire>>
        \/ p # <<>> /\ p' = Tail(p) /\ wire' \in {wire, Append(wire, Head(p))}
    <3>1. [Next]_vars
      BY <2>1 DEF Next
    <3> HIDE DEF p
    <3> QED BY <2>1, <2>3, <3>1, StepWaiting DEF p
  <2>5. ASSUME p # <<>>, p' = Tail(p)
        PROVE  /\ GoingOut # <<>> /\ Head(GoingOut) = Head(p)
               /\ GoingOut' = Tail(GoingOut)
    <3> HIDE DEF p, q
    <3>1. /\ p \o q # <<>> /\ Head(p \o q) = Head(p)
          /\ Tail(p \o q) = Tail(p) \o q
      BY <1>1, <2>5, FrontLeaves
    <3> QED BY <1>2, <2>2, <2>5, <3>1
  <2>6. CASE p # <<>> /\ p' = Tail(p) /\ wire' = Append(wire, Head(p))
    <3>1. GameToServer!Deliver
      BY <2>5, <2>6 DEF GameToServer!Deliver
    <3> QED BY <3>1 DEF GameToServer!Next
  <2>7. CASE p # <<>> /\ p' = Tail(p) /\ wire' = wire
    <3> DEFINE r == GoingOut
    <3>1. r \in Seq(Messages) /\ r # <<>> /\ r' = Tail(r)
      BY <1>1, <1>2, <2>5, <2>7, ConcatProperties
    <3> HIDE DEF r
    <3>2. 1 \in 1..Len(r) /\ r' = SubSeq(r, 1, 0) \o SubSeq(r, 2, Len(r))
      BY <3>1, WithoutFirst
    <3>3. 1 <= 1 /\ 1 - 1 = 0 /\ 1 + 1 = 2
      OBVIOUS
    <3>4. \E i, j \in 1..Len(r) :
             i <= j /\ r' = SubSeq(r, 1, i - 1) \o SubSeq(r, j + 1, Len(r))
      BY <3>2, <3>3
    <3>5. GameToServer!Lose
      BY <2>7, <3>4, Zenon DEF GameToServer!Lose, r
    <3> QED BY <3>5 DEF GameToServer!Next
  <2> QED BY <1>3, <2>2, <2>4, <2>6, <2>7
<1>5. CASE SocketStep
  <2>1. S!TaskStep
    BY <1>5 DEF SocketStep
  <2>2. \/ S!ReadForward
        \/ tun' = tun /\ q # <<>> /\ q' = Tail(q)
        \/ tun' = tun /\ q' = q
    BY <2>1
    DEF S!TaskStep, S!Poll, S!WriteStep, S!WriteRecv, S!WriteRecvPending,
        S!WriteRecvClosed, S!WriteSend, S!WriteSendPending, S!WriteSendError,
        S!ReadStep, S!ReadForward, S!ReadClosed, S!ReadError, S!ReadPending,
        S!sockVars
  <2>3. CASE S!ReadForward
    <3>1. tun' # tun
      <4>1. /\ tun' = Append(tun, Head(q)) /\ q # <<>>
            /\ tun \in Seq(Messages) /\ Head(q) \in Messages
        BY <1>1, <2>3, DatagramTypes, HeadTailProperties DEF S!ReadForward
      <4>2. Len(tun') = Len(tun) + 1 /\ Len(tun) \in Nat
        BY <4>1, AppendProperties
      <4> QED BY <4>2
    <3>2. SocketSend
      BY <1>5, <3>1 DEF SocketStep
    <3>3. UNCHANGED <<GoingOut, wire>>
      BY <2>3, <3>2, DatagramMoves
    <3> QED BY <3>3 DEF GameToServer!vars
  <2>4. CASE tun' = tun
    <3>1. UNCHANGED <<p, wire>>
      BY <1>5, <2>4
      DEF SocketStep, SocketEnd, vars, slotVars, chanVars, sockVars, Waiting,
          InHand, Messages
    <3>2. CASE q # <<>> /\ q' = Tail(q)
      <4> DEFINE k == Len(p) + 1
                 r == p \o q
      <4>1. /\ k \in 1..Len(r) /\ k <= k
            /\ p \o Tail(q) = SubSeq(r, 1, k - 1) \o SubSeq(r, k + 1, Len(r))
        <5>1. /\ 1 \in 1..Len(q)
              /\ SubSeq(q, 1, 1 - 1) \o SubSeq(q, 1 + 1, Len(q)) = Tail(q)
          <6>1. 1 - 1 = 0 /\ 1 + 1 = 2
            OBVIOUS
          <6> QED BY <1>1, <3>2, <6>1, WithoutFirst
        <5>2. 1 <= 1 /\ Len(p) \in Nat
          BY <1>1
        <5>3. k <= k
          BY <5>2
        <5> HIDE DEF p, q
        <5>4. /\ k \in 1..Len(r)
              /\ p \o (SubSeq(q, 1, 1 - 1) \o SubSeq(q, 1 + 1, Len(q)))
                   = SubSeq(r, 1, k - 1) \o SubSeq(r, k + 1, Len(r))
          BY <1>1, <5>1, <5>2, LossBehind
        <5> QED BY <5>1, <5>3, <5>4
      <4>2. GoingOut = r /\ GoingOut' = p \o Tail(q)
        BY <1>2, <3>1, <3>2
      <4> HIDE DEF k, r, p, q
      <4>3. GameToServer!Lose
        BY <3>1, <4>1, <4>2, Zenon DEF GameToServer!Lose
      <4> QED BY <4>3 DEF GameToServer!Next
    <3> QED BY <1>3, <2>2, <2>3, <3>1, <3>2
  <2> QED BY <2>2, <2>3, <2>4
<1>6. CASE Outside
  <2>1. UNCHANGED <<p, wire>>
    BY <1>6
    DEF Outside, Arrive, Unreachable, Drain, Tick, vars, slotVars, chanVars,
        sockVars, Waiting, InHand, Messages
  <2>2. S!GameSend \/ q' = q
    BY <1>6 DEF Outside, socketVars, S!Unreachable, S!Drain
  <2>3. CASE S!GameSend
    <3>1. q' = Append(q, arrived + 1) /\ arrived < MaxSent
      BY <2>3 DEF S!GameSend
    <3>2. arrived + 1 \in Messages
      BY <3>1, DatagramTypes, BoundAssumption DEF Messages
    <3>3. p \o Append(q, arrived + 1) = Append(p \o q, arrived + 1)
      BY <1>1, <3>2, AppendToConcat
    <3>4. GoingOut' = Append(GoingOut, arrived + 1)
      BY <1>2, <2>1, <3>1, <3>3
    <3>5. GameToServer!Accept
      BY <2>1, <3>2, <3>4 DEF GameToServer!Accept
    <3> QED BY <3>5 DEF GameToServer!Next
  <2> QED BY <1>3, <2>1, <2>2, <2>3
<1>7. CASE UNCHANGED pairVars
  <2>1. UNCHANGED <<p, q, wire>>
    BY <1>7
    DEF pairVars, vars, slotVars, chanVars, sockVars, socketVars, Waiting,
        InHand, Messages
  <2> QED BY <1>3, <2>1
<1> QED BY <1>4, <1>5, <1>6, <1>7 DEF PairNext

------------------------------------------------------------------------------
(* From the server to the game *)

\* The forwards whose bytes the game has are the first that were put on the channel.
ReachedFirst ==
    /\ handle[0] \in Seq(Datagrams) /\ Incoming(0) \in Seq(Datagrams)
    /\ Reached \in Seq(Datagrams) /\ Len(Reached) = Len(game) \div LENGTH
    /\ Len(Reached) \in 0..Len(handle[0])
    /\ \A k \in 1..Len(Reached) : Reached[k] = handle[0][k]
    /\ ComingIn = StillToCome(handle[0], Len(Reached), Incoming(0))

\* The socket's bytes and the link between the tasks give it.
LEMMA ReachedTypes ==
  ASSUME TunnelFacts, SocketFacts, Linked
  PROVE  ReachedFirst
<1> DEFINE n == Len(game) \div LENGTH
<1>1. 0 \in Pool
  BY OneSocket DEF Pool
<1>2. handle[0] \in Seq(Datagrams) /\ Incoming(0) \in Seq(Datagrams)
  <2>1. inbox \in Seq(Datagrams) /\ handle[0] \in Seq(Forwards)
    BY <1>1 DEF TunnelFacts, IInv, TypeOK
  <2>2. Forwards \subseteq Datagrams
    BY DEF Datagrams
  <2>3. Incoming(0) \in Seq(Datagrams)
    BY <2>1, SelectedInSeq DEF Incoming
  <2>4. handle[0] \in Seq(Datagrams)
    BY <2>1, <2>2
  <2> QED BY <2>3, <2>4
<1>3. n \in 0..Len(handle[0])
  <2>1. SP!TypeOK /\ SP!BytesInv
    BY DEF SocketFacts, SP!IInv
  <2>2. n \in 0..accepted
    BY <2>1, MessageLength, BoundAssumption, SP!WholeMessages
  <2> QED BY <2>2 DEF Linked
<1>4. Reached = [k \in 1..n |-> handle[0][k]]
  BY DEF Reached
<1> HIDE DEF n
<1>5. \A k \in 1..n : handle[0][k] \in Datagrams
  BY <1>2, <1>3, ElementOfSeq
<1>6. /\ Reached \in Seq(Datagrams) /\ Len(Reached) = n
      /\ \A k \in 1..n : Reached[k] = handle[0][k]
  BY <1>3, <1>4, <1>5
<1> QED BY <1>2, <1>3, <1>6 DEF ReachedFirst, ComingIn, StillToCome, n

\* While the game's bytes stay, a forward that arrives goes behind those on their
\* way, one that is put on the channel stays where it was among them, and one that
\* is lost is lost from them.
LEMMA TunnelComingIn ==
  ASSUME TunnelFacts, ReachedFirst, ReachedFirst', UNCHANGED game, [Next]_vars
  PROVE  [ServerToGame!Next]_(ServerToGame!vars)
<1> DEFINE h == handle[0]
           p == Incoming(0)
           n == Len(Reached)
<1>1. /\ h \in Seq(Datagrams) /\ p \in Seq(Datagrams) /\ n \in 0..Len(h) /\ n \in Nat
      /\ Reached \in Seq(Datagrams) /\ \A k \in 1..n : Reached[k] = h[k]
      /\ ComingIn = StillToCome(h, n, p)
  BY DEF ReachedFirst
<1>2. /\ Reached' \in Seq(Datagrams) /\ Len(Reached') = n
      /\ \A k \in 1..n : Reached'[k] = h'[k]
      /\ ComingIn' = StillToCome(h', n, p')
  <2>1. Len(Reached') = n
    BY DEF ReachedFirst
  <2>2. /\ Reached' \in Seq(Datagrams)
        /\ \A k \in 1..Len(Reached') : Reached'[k] = h'[k]
        /\ ComingIn' = StillToCome(h', Len(Reached'), p')
    BY DEF ReachedFirst, StillToCome
  <2> QED BY <2>1, <2>2
<1>3. ASSUME \A k \in 1..n : h'[k] = h[k] PROVE Reached' = Reached
  BY <1>1, <1>2, <1>3, SeqEqual
<1>4. [In(0)!Next]_(In(0)!vars) \/ LossyIn(0)!Lose
  <2>1. 0 \in Pool
    BY OneSocket DEF Pool
  <2> QED BY <2>1, StepIncoming DEF TunnelFacts, IInv
<1>5. CASE In(0)!Accept
  <2>1. h' = h /\ \E m \in Forwards : p' = Append(p, m)
    BY <1>5 DEF In!Accept
  <2>2. PICK m \in Forwards : p' = Append(p, m)
    BY <2>1
  <2>3. ComingIn' = Append(ComingIn, m) /\ Reached' = Reached
    <3>1. StillToCome(h, n, Append(p, m)) = Append(StillToCome(h, n, p), m)
      <4>1. /\ h \in Seq(Datagrams) /\ p \in Seq(Datagrams) /\ n \in 0..Len(h)
            /\ m \in Datagrams
        BY <1>1 DEF Datagrams
      <4> HIDE DEF h, p, n
      <4> QED BY <4>1, JoinsQueue
    <3> QED BY <1>1, <1>2, <1>3, <2>1, <2>2, <3>1
  <2>4. ServerToGame!Accept
    BY <2>3 DEF ServerToGame!Accept
  <2> QED BY <2>4 DEF ServerToGame!Next
<1>6. CASE In(0)!Deliver
  <2>1. p # <<>> /\ h' = Append(h, Head(p)) /\ p' = Tail(p)
    BY <1>6 DEF In!Deliver
  <2>2. /\ StillToCome(Append(h, Head(p)), n, Tail(p)) = StillToCome(h, n, p)
        /\ \A k \in 1..n : Append(h, Head(p))[k] = h[k]
    BY <1>1, <2>1, MovesOn
  <2>3. ComingIn' = ComingIn /\ Reached' = Reached
    BY <1>1, <1>2, <1>3, <2>1, <2>2
  <2> QED BY <2>3 DEF ServerToGame!vars
<1>7. CASE LossyIn(0)!Lose
  <2>1. h' = h
    BY <1>7 DEF LossyIn!Lose
  <2>2. PICK i \in 1..Len(p), j \in 1..Len(p) :
          /\ i <= j
          /\ p' = SubSeq(p, 1, i - 1) \o SubSeq(p, j + 1, Len(p))
    BY <1>7 DEF LossyIn!Lose
  <2>3. ComingIn' = StillToCome(h, n, p') /\ Reached' = Reached
    BY <1>1, <1>2, <1>3, <2>1
  <2>4. \E a, b \in 1..Len(ComingIn) :
           /\ a <= b
           /\ ComingIn' = SubSeq(ComingIn, 1, a - 1)
                             \o SubSeq(ComingIn, b + 1, Len(ComingIn))
    <3> DEFINE c == ComingIn
    <3>1. /\ h \in Seq(Datagrams) /\ p \in Seq(Datagrams) /\ n \in 0..Len(h)
          /\ c = StillToCome(h, n, p)
      BY <1>1
    <3>2. ComingIn' = StillToCome(h, n, SubSeq(p, 1, i - 1)
                                          \o SubSeq(p, j + 1, Len(p)))
      BY <2>2, <2>3
    <3>3. i \in 1..Len(p) /\ j \in 1..Len(p) /\ i <= j
      BY <2>2
    <3> HIDE DEF h, p, n, c
    <3>4. \E a, b \in 1..Len(c) :
             /\ a <= b
             /\ StillToCome(h, n, SubSeq(p, 1, i - 1) \o SubSeq(p, j + 1, Len(p)))
                  = SubSeq(c, 1, a - 1) \o SubSeq(c, b + 1, Len(c))
      BY <3>1, <3>3, LostOnTheWay, Zenon
    <3> QED BY <3>2, <3>4 DEF c
  <2>5. ServerToGame!Lose
    BY <2>3, <2>4, Zenon DEF ServerToGame!Lose
  <2> QED BY <2>5 DEF ServerToGame!Next
<1>8. CASE UNCHANGED In(0)!vars
  <2>1. h' = h /\ p' = p
    BY <1>8 DEF In!vars
  <2>2. ComingIn' = ComingIn /\ Reached' = Reached
    BY <1>1, <1>2, <1>3, <2>1
  <2> QED BY <2>2 DEF ServerToGame!vars
<1> QED BY <1>4, <1>5, <1>6, <1>7, <1>8 DEF In!Next, In!Lose

\* A send that completes a forward delivers the first of those on their way.
LEMMA SocketComingIn ==
  ASSUME SocketFacts, ReachedFirst, ReachedFirst',
         S!WriteSend, UNCHANGED <<handle, inbox>>
  PROVE  [ServerToGame!Next]_(ServerToGame!vars)
<1> DEFINE h == handle[0]
           p == Incoming(0)
           n == Len(Reached)
           m == Len(Reached')
<1>1. /\ h \in Seq(Datagrams) /\ p \in Seq(Datagrams) /\ n \in 0..Len(h) /\ n \in Nat
      /\ Reached \in Seq(Datagrams) /\ \A k \in 1..n : Reached[k] = h[k]
      /\ ComingIn = StillToCome(h, n, p) /\ n = Len(game) \div LENGTH
  BY DEF ReachedFirst
<1>2. h' = h /\ p' = p
  BY DEF Incoming
<1>3. /\ m \in 0..Len(h) /\ Reached' \in Seq(Datagrams)
      /\ \A k \in 1..m : Reached'[k] = h[k]
      /\ ComingIn' = StillToCome(h, m, p)
      /\ m = Len(game') \div LENGTH
  <2>1. /\ m \in 0..Len(h') /\ Reached' \in Seq(Datagrams)
        /\ \A k \in 1..m : Reached'[k] = h'[k]
        /\ ComingIn' = StillToCome(h', m, p')
        /\ m = Len(game') \div LENGTH
    BY DEF ReachedFirst, StillToCome
  <2> QED BY <1>2, <2>1
<1>4. m \in {n, n + 1}
  <2>1. SP!TypeOK /\ SP!WriteSend
    BY DEF SocketFacts, SP!IInv, S!WriteSend, SP!WriteSend, S!Ready, SP!Ready,
           S!chanVars, SP!chanVars
  <2>2. Len(game') \div LENGTH \in {Len(game) \div LENGTH, (Len(game) \div LENGTH) + 1}
    BY <2>1, MessageLength, BoundAssumption, SP!SendCompletes
  <2> QED BY <1>1, <1>3, <2>2
<1>5. CASE m = n
  <2>1. Reached' = Reached
    BY <1>1, <1>3, <1>5, SeqEqual
  <2>2. ComingIn' = ComingIn
    BY <1>1, <1>3, <1>5
  <2> QED BY <2>1, <2>2 DEF ServerToGame!vars
<1>6. CASE m = n + 1
  <2>1. n \in 0..(Len(h) - 1)
    BY <1>1, <1>3, <1>6
  <2>2. /\ ComingIn # <<>> /\ Reached' = Append(Reached, Head(ComingIn))
        /\ ComingIn' = Tail(ComingIn)
    <3> DEFINE c == Reached
               d == Reached'
    <3>1. /\ h \in Seq(Datagrams) /\ p \in Seq(Datagrams)
          /\ c \in Seq(Datagrams) /\ Len(c) = n /\ \A k \in 1..n : c[k] = h[k]
      BY <1>1
    <3>2. /\ d \in Seq(Datagrams) /\ Len(d) = n + 1
          /\ \A k \in 1..(n + 1) : d[k] = h[k]
      BY <1>3, <1>6
    <3> HIDE DEF h, p, n, c, d
    <3>3. /\ StillToCome(h, n, p) # <<>>
          /\ Head(StillToCome(h, n, p)) = h[n + 1]
          /\ StillToCome(h, n + 1, p) = Tail(StillToCome(h, n, p))
      BY <2>1, <3>1, ComesNext
    <3>4. d = Append(c, h[n + 1])
      BY <2>1, <3>1, <3>2, OneMore
    <3> QED BY <1>1, <1>3, <1>6, <3>3, <3>4 DEF c, d
  <2>3. ServerToGame!Deliver
    BY <2>2 DEF ServerToGame!Deliver
  <2> QED BY <2>3 DEF ServerToGame!Next
<1> QED BY <1>4, <1>5, <1>6

\* Each step takes the forwards for the socket on their way from the connection to
\* the game.
LEMMA StepComingIn ==
  ASSUME TunnelFacts, SocketFacts, ReachedFirst, ReachedFirst', [PairNext]_pairVars
  PROVE  [ServerToGame!Next]_(ServerToGame!vars)
<1>1. ASSUME UNCHANGED game, [Next]_vars
      PROVE  [ServerToGame!Next]_(ServerToGame!vars)
  BY <1>1, TunnelComingIn
<1>2. CASE TunnelStep
  <2>1. [Next]_vars /\ UNCHANGED game
    BY <1>2 DEF TunnelStep, Next, S!TunnelGone, S!TunnelSend, S!sockVars, socketVars
  <2> QED BY <1>1, <2>1
<1>3. CASE SocketStep
  <2>1. S!TaskStep
    BY <1>3 DEF SocketStep
  <2>2. 0 \in Pool
    BY OneSocket DEF Pool
  <2>3. SocketSend \/ SocketEnd(0) \/ UNCHANGED vars
    BY <1>3 DEF SocketStep
  <2>4. [Next]_vars /\ UNCHANGED <<handle, inbox>>
    BY <2>2, <2>3 DEF Next, Environment, SocketSend, SocketEnd, vars, inVars
  <2>5. S!WriteSend \/ UNCHANGED game
    BY <2>1
    DEF S!TaskStep, S!Poll, S!WriteStep, S!WriteRecv, S!WriteRecvPending,
        S!WriteRecvClosed, S!WriteSendPending, S!WriteSendError,
        S!ReadStep, S!ReadForward, S!ReadClosed, S!ReadError, S!ReadPending,
        S!sockVars
  <2> QED BY <1>1, <2>4, <2>5, SocketComingIn
<1>4. CASE Outside
  <2>1. [Next]_vars /\ UNCHANGED game
    BY <1>4
    DEF Outside, Next, Environment, socketVars, S!GameSend, S!Unreachable, S!Drain
  <2> QED BY <1>1, <2>1
<1>5. CASE UNCHANGED pairVars
  <2>1. UNCHANGED vars /\ UNCHANGED game
    BY <1>5 DEF pairVars, socketVars
  <2> QED BY <1>1, <2>1
<1> QED BY <1>2, <1>3, <1>4, <1>5 DEF PairNext

\* From end to end, the UDP tunnel, its socket and the channels between them are a
\* lossy relay each way between the game and the server: what comes out is in order
\* and not repeated, however the polls interleave, whatever keep-alive replies and
\* full sockets take from the write state, and however either task ends.
THEOREM UdpRelaysEndToEnd == PairSpec => EndToEnd
<1> DEFINE Facts == /\ TunnelFacts /\ SocketFacts /\ Linked
                    /\ InboxBehind /\ ReachedFirst
<1>1. PairInit => GameToServer!Init /\ ServerToGame!Init
  <2> SUFFICES ASSUME PairInit PROVE GameToServer!Init /\ ServerToGame!Init
    OBVIOUS
  <2>1. /\ InHand = <<>> /\ rx = <<>> /\ wire = <<>>
        /\ inbox = <<>> /\ socket_inbox = <<>> /\ game = <<>>
    BY BoundAssumption DEF PairInit, Init, S!Init, InHand, NoMessage, Messages
  <2>2. handle[0] = <<>>
    <3>1. 0 \in Pool
      BY OneSocket DEF Pool
    <3> QED BY <3>1 DEF PairInit, Init
  <2>3. <<>> \o <<>> = <<>>
    BY EmptySeq, ConcatEmptySeq
  <2>4. GameToServer!Init
    BY <2>1, <2>3 DEF GameToServer!Init, GoingOut, Queued
  <2>5. Incoming(0) = <<>>
    BY <2>1, SelectedOfNone DEF Incoming
  <2>6. Len(game) = 0 /\ 0 \div LENGTH = 0
    BY <2>1, MessageLength, Z3
  <2>7. Reached = <<>>
    BY <2>6 DEF Reached
  <2>8. ComingIn = <<>>
    <3>1. SubSeq(<<>>, 0 + 1, 0) = <<>> /\ Len(<<>>) = 0
      OBVIOUS
    <3> QED BY <2>2, <2>3, <2>5, <2>7, <3>1 DEF ComingIn
  <2> QED BY <2>4, <2>7, <2>8 DEF ServerToGame!Init
<1>2. Facts /\ Facts' /\ [PairNext]_pairVars
        => /\ [GameToServer!Next]_(GameToServer!vars)
           /\ [ServerToGame!Next]_(ServerToGame!vars)
  BY StepGoingOut, StepComingIn
<1>3. PairSpec => []Facts
  BY PairFacts, GoingOutIs, ReachedTypes, PTL
<1> HIDE DEF Facts
<1>4. QED
  BY <1>1, <1>2, <1>3, PTL DEF PairSpec, EndToEnd, GameToServer!Spec, ServerToGame!Spec
==============================================================================
