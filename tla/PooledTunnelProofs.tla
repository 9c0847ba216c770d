-------------------------- MODULE PooledTunnelProofs --------------------------
(***************************************************************************)
(* Proofs about TcpTunnel, for every pool size, every set of indices and     *)
(* every number of messages and frames, and about PooledTunnel.  A behaviour *)
(* of the pair is one of TcpTunnel and one of PoolSocket, so what is proved  *)
(* here of the one and in PoolSocketProofs of the other holds of the pair;   *)
(* what is left is how the two are linked.                                   *)
(***************************************************************************)
EXTENDS PooledTunnel, SequenceLemmas, SequenceTheorems, TLAPS

------------------------------------------------------------------------------
(* The tunnel alone *)

\* The initial state satisfies the inductive invariant.
LEMMA InitIInv == Init => IInv
  BY PoolAssumption, BoundAssumption
  DEF Init, IInv, TypeOK, MessageHeld, BufferOnlyWhileFlushing, WritePolled,
      ReadPolled, Asleep, NoMessage, Messages, Frames, Pool, Sources

\* Encoding a message keeps the write buffer a sequence of messages.
LEMMA StartSendTypes ==
  ASSUME TypeOK, NEW m \in Messages \cup {Pong}, StartSend(m)
  PROVE  /\ out_data' \in Seq(Messages)
         /\ out_pongs' \in Nat
         /\ write_state' = "Flush" /\ message' = NoMessage
         /\ UNCHANGED <<wire, writable>>
<1>1. CASE m = Pong
  BY <1>1 DEF StartSend, TypeOK
<1>2. CASE m # Pong
  <2>1. m \in Messages /\ out_data' = Append(out_data, m)
    BY <1>2 DEF StartSend
  <2>2. out_data' \in Seq(Messages)
    BY <2>1, AppendProperties DEF TypeOK
  <2>3. QED
    BY <1>2, <2>2 DEF StartSend, TypeOK
<1>3. QED
  BY <1>1, <1>2

\* Decoding takes one frame off the read side and leaves frames there.
LEMMA NextFrameTypes ==
  ASSUME TypeOK, NextFrame
  PROVE  /\ Head(inbox) \in Frames
         /\ inbox' \in Seq(Frames)
         /\ spent' = TRUE
         /\ UNCHANGED <<pc, notified, wakers, io, received>>
  BY HeadTailProperties DEF NextFrame, TypeOK

\* Waking a set of sources keeps the wakers and the mark within their types.
LEMMA WakeTypes ==
  ASSUME TypeOK, NEW sources, Wake(sources)
  PROVE  wakers' \subseteq Sources /\ notified' \in BOOLEAN
  BY DEF TypeOK, Wake

\* Every step keeps the state within its types.
LEMMA StepTypeOK == IInv /\ [Next]_vars => TypeOK'
<1> SUFFICES ASSUME IInv, [Next]_vars
             PROVE  TypeOK'
  OBVIOUS
<1> USE PoolAssumption, IndexAssumption, BoundAssumption
    DEF IInv, TypeOK, MessageHeld, Messages, NoMessage, Frames, Sources,
        taskVars, slotVars, chanVars, outVars, inVars
<1>1. CASE Poll
  BY <1>1 DEF Poll
<1>2. CASE WriteRecv
  BY <1>2, HeadTailProperties DEF WriteRecv, Progress
<1>3. CASE WriteRecvPending \/ WriteFlushPending \/ ReadPending
  <2>1. CASE WriteRecvPending
    BY <2>1 DEF WriteRecvPending, Pending
  <2>2. CASE WriteFlushPending
    BY <2>2 DEF WriteFlushPending, Pending
  <2>3. CASE ReadPending
    BY <2>3 DEF ReadPending, Pending
  <2>4. QED
    BY <1>3, <2>1, <2>2, <2>3
<1>4. CASE WriteRecvClosed \/ WriteFlushError \/ ReadStop
  <2>1. CASE WriteRecvClosed
    BY <2>1 DEF WriteRecvClosed, Stop
  <2>2. CASE WriteFlushError
    BY <2>2 DEF WriteFlushError, Stop
  <2>3. CASE ReadStop
    BY <2>3 DEF ReadStop, Stop
  <2>4. QED
    BY <1>4, <2>1, <2>2, <2>3
<1>5. CASE WriteMessage
  <2>1. message \in Messages \cup {Pong}
    BY <1>5 DEF WriteMessage
  <2>2. /\ out_data' \in Seq(Messages) /\ out_pongs' \in Nat
        /\ write_state' = "Flush" /\ message' = NoMessage
        /\ UNCHANGED <<wire, writable>>
    BY <1>5, <2>1, StartSendTypes DEF WriteMessage
  <2>3. QED
    BY <1>5, <2>2 DEF WriteMessage, Progress
<1>6. CASE WriteFlush
  BY <1>6, ConcatProperties, EmptySeq DEF WriteFlush, Progress
<1>7. CASE WriteYield \/ ReadYield
  <2>1. CASE WriteYield
    BY <2>1 DEF WriteYield
  <2>2. CASE ReadYield
    BY <2>2 DEF ReadYield
  <2>3. QED
    BY <1>7, <2>1, <2>2
<1>8. CASE ReadKeepAlive
  <2>1. /\ out_data' \in Seq(Messages) /\ out_pongs' \in Nat
        /\ write_state' = "Flush" /\ message' = NoMessage
        /\ UNCHANGED <<wire, writable>>
    BY <1>8, StartSendTypes DEF ReadKeepAlive
  <2>2. /\ inbox' \in Seq(Frames) /\ spent' = TRUE
        /\ UNCHANGED <<pc, notified, wakers, io, received>>
    BY <1>8, NextFrameTypes DEF ReadKeepAlive
  <2>3. QED
    BY <1>8, <2>1, <2>2 DEF ReadKeepAlive
<1>9. CASE ReadKeepAliveBusy \/ ReadUnknown
  <2>1. /\ inbox' \in Seq(Frames) /\ spent' = TRUE
        /\ UNCHANGED <<pc, notified, wakers, io, received>>
    BY <1>9, NextFrameTypes DEF ReadKeepAliveBusy, ReadUnknown
  <2>2. CASE ReadKeepAliveBusy
    BY <2>1, <2>2 DEF ReadKeepAliveBusy
  <2>3. CASE ReadUnknown
    BY <2>1, <2>3 DEF ReadUnknown
  <2>4. QED
    BY <1>9, <2>2, <2>3
<1>10. CASE ReadForward
  <2>1. /\ Head(inbox) \in Frames /\ inbox' \in Seq(Frames) /\ spent' = TRUE
        /\ UNCHANGED <<pc, notified, wakers, io, received>>
    BY <1>10, NextFrameTypes DEF ReadForward
  <2>2. handle' \in [Pool -> Seq(Frames)]
    BY <1>10, <2>1, AppendProperties DEF ReadForward
  <2>3. QED
    BY <1>10, <2>1, <2>2 DEF ReadForward
<1>11. CASE SocketSend
  <2>1. sent + 1 \in Messages /\ sent' = sent + 1
    BY <1>11 DEF SocketSend
  <2>2. rx' \in Seq(Messages)
    BY <1>11, <2>1, AppendProperties DEF SocketSend
  <2>3. wakers' \subseteq Sources /\ notified' \in BOOLEAN
    BY <1>11, WakeTypes DEF SocketSend
  <2>4. sent' \in 0..MaxSent
    BY <1>11, <2>1 DEF SocketSend
  <2>5. QED
    BY <1>11, <2>2, <2>3, <2>4 DEF SocketSend
<1>12. CASE \E i \in Pool : SocketEnd(i)
  <2>1. PICK i \in Pool : SocketEnd(i)
    BY <1>12
  <2>2. senders' \subseteq Pool
    BY <2>1 DEF SocketEnd
  <2>3. wakers' \subseteq Sources /\ notified' \in BOOLEAN
    <3>1. CASE senders = {i}
      BY <2>1, <3>1, WakeTypes DEF SocketEnd
    <3>2. CASE senders # {i}
      BY <2>1, <3>2 DEF SocketEnd
    <3>3. QED
      BY <3>1, <3>2
  <2>4. UNCHANGED <<pc, spent, slotVars, rx, sent, outVars, inVars, handle>>
    BY <2>1 DEF SocketEnd
  <2>5. QED
    BY <2>2, <2>3, <2>4
<1>13. CASE \E i \in Indices : ServerSend(i)
  <2>1. PICK i \in Indices : ServerSend(i)
    BY <1>13
  <2>2. [index |-> i, id |-> received + 1] \in Frames
    BY <2>1 DEF ServerSend
  <2>3. inbox' \in Seq(Frames)
    BY <2>1, <2>2, AppendProperties DEF ServerSend
  <2>4. received' \in 0..MaxFrames
    BY <2>1 DEF ServerSend
  <2>5. wakers' \subseteq Sources /\ notified' \in BOOLEAN
    BY <2>1, WakeTypes DEF ServerSend
  <2>6. UNCHANGED <<pc, spent, slotVars, chanVars, outVars, io, handle>>
    BY <2>1 DEF ServerSend
  <2>7. QED
    BY <2>3, <2>4, <2>5, <2>6
<1>14. CASE ServerClose
  <2>1. wakers' \subseteq Sources /\ notified' \in BOOLEAN
    BY <1>14, WakeTypes DEF ServerClose
  <2>2. /\ io' = "eof"
        /\ UNCHANGED <<pc, spent, slotVars, chanVars, outVars, inbox, received,
                       handle>>
    BY <1>14 DEF ServerClose
  <2>3. QED
    BY <2>1, <2>2
<1>15. CASE Drain
  <2>1. wakers' \subseteq Sources /\ notified' \in BOOLEAN
    BY <1>15, WakeTypes DEF Drain
  <2>2. /\ writable' = TRUE
        /\ UNCHANGED <<pc, spent, slotVars, chanVars, out_data, out_pongs, wire,
                       inVars, handle>>
    BY <1>15 DEF Drain
  <2>3. QED
    BY <2>1, <2>2
<1>16. CASE ConnectionLost
  <2>1. PICK k \in 0..Len(inbox) : inbox' = SubSeq(inbox, 1, k)
    BY <1>16 DEF ConnectionLost
  <2>2. \A j \in 1..k : inbox[j] \in Frames
    <3>1. Len(inbox) \in Nat /\ 1..k \subseteq 1..Len(inbox)
      BY LenProperties
    <3>2. QED
      BY <3>1, ElementOfSeq
  <2>3. inbox' \in Seq(Frames)
    <3>1. k \in Int
      BY LenProperties
    <3>2. QED
      BY <2>1, <2>2, <3>1, SubSeqProperties
  <2>4. wakers' \subseteq Sources /\ notified' \in BOOLEAN
    BY <1>16, WakeTypes DEF ConnectionLost
  <2>5. /\ io' = "broken"
        /\ UNCHANGED <<pc, spent, slotVars, chanVars, outVars, received, handle>>
    BY <1>16 DEF ConnectionLost
  <2>6. QED
    BY <2>3, <2>4, <2>5
<1>17. CASE UNCHANGED vars
  BY <1>17 DEF vars
<1>18. QED
  BY <1>1, <1>2, <1>3, <1>4, <1>5, <1>6, <1>7, <1>8, <1>9, <1>10, <1>11,
     <1>12, <1>13, <1>14, <1>15, <1>16, <1>17
  DEF Next, TaskStep, WriteStep, ReadStep, Environment

\* A message is held exactly in state Write.
LEMMA StepMessageHeld == IInv /\ [Next]_vars => MessageHeld'
<1> SUFFICES ASSUME IInv, [Next]_vars
             PROVE  MessageHeld'
  OBVIOUS
<1> USE DEF IInv, MessageHeld, slotVars
<1>1. CASE WriteRecv
  <2>1. Head(rx) \in Messages
    BY <1>1, HeadTailProperties DEF WriteRecv, TypeOK
  <2>2. QED
    BY <1>1, <2>1, BoundAssumption DEF WriteRecv, Messages, NoMessage
<1>2. CASE WriteMessage \/ ReadKeepAlive
  BY <1>2 DEF WriteMessage, ReadKeepAlive, StartSend
<1>3. CASE WriteFlush
  BY <1>3 DEF WriteFlush
<1>4. CASE UNCHANGED slotVars
  BY <1>4
<1>5. QED
  BY <1>1, <1>2, <1>3, <1>4
  DEF Next, TaskStep, Poll, WriteStep, WriteRecvPending, WriteRecvClosed,
      WriteFlushPending, WriteFlushError, WriteYield, ReadStep,
      ReadKeepAliveBusy, ReadForward, ReadUnknown, ReadPending, ReadStop,
      ReadYield, Environment, SocketSend, SocketEnd, ServerSend, ServerClose,
      ConnectionLost, Drain, vars

\* The write buffer is empty before start_send and after a flush.
LEMMA StepBuffer == IInv /\ [Next]_vars => BufferOnlyWhileFlushing'
<1> SUFFICES ASSUME IInv, [Next]_vars
             PROVE  BufferOnlyWhileFlushing'
  OBVIOUS
<1> USE DEF IInv, BufferOnlyWhileFlushing, slotVars, outVars
<1>1. ASSUME NEW m \in Messages \cup {Pong}, StartSend(m),
             write_state # "Flush"
      PROVE  BufferOnlyWhileFlushing'
  <2>1. Len(out_data) \in Nat /\ out_pongs \in Nat
    BY LenProperties DEF TypeOK
  <2>2. Len(out_data) = 0 /\ out_pongs = 0
    BY <1>1, <2>1
  <2>3. CASE m = Pong
    BY <1>1, <2>2, <2>3 DEF StartSend
  <2>4. CASE m # Pong
    <3>1. Len(Append(out_data, m)) = 1
      BY <1>1, <2>2, <2>4, AppendProperties DEF TypeOK
    <3>2. QED
      BY <1>1, <2>2, <2>4, <3>1 DEF StartSend
  <2>5. QED
    BY <2>3, <2>4
<1>2. CASE WriteMessage
  BY <1>1, <1>2 DEF WriteMessage, TypeOK, MessageHeld
<1>3. CASE ReadKeepAlive
  BY <1>1, <1>3 DEF ReadKeepAlive
<1>4. CASE WriteFlush
  <2>1. Len(<<>>) = 0
    BY EmptySeq
  <2>2. QED
    BY <1>4, <2>1 DEF WriteFlush
<1>5. CASE WriteRecv
  BY <1>5 DEF WriteRecv
<1>6. CASE UNCHANGED <<write_state, out_data, out_pongs>>
  BY <1>6
<1>7. QED
  BY <1>2, <1>3, <1>4, <1>5, <1>6
  DEF Next, TaskStep, Poll, WriteStep, WriteRecvPending, WriteRecvClosed,
      WriteFlushPending, WriteFlushError, WriteYield, ReadStep,
      ReadKeepAliveBusy, ReadForward, ReadUnknown, ReadPending, ReadStop,
      ReadYield, Environment, SocketSend, SocketEnd, ServerSend, ServerClose,
      ConnectionLost, Drain, vars

\* A source that holds the waker wakes the task when it fires, and a source
\* that does not fire keeps the waker.
LEMMA WakeWakes ==
  ASSUME NEW sources, Wake(sources), NEW s
  PROVE  /\ s \in sources /\ s \in wakers => notified'
         /\ s \notin sources /\ s \in wakers => s \in wakers'
         /\ notified => notified'
  BY DEF Wake

\* While the task is not woken, its write half stays armed.
LEMMA StepWritePolled == IInv /\ [Next]_vars => WritePolled'
<1> SUFFICES ASSUME IInv, [Next]_vars
             PROVE  WritePolled'
  OBVIOUS
<1> USE DEF IInv, WritePolled, taskVars, slotVars, chanVars, outVars
<1>1. CASE Poll
  BY <1>1 DEF Poll
<1>2. CASE WriteRecv \/ WriteMessage \/ WriteFlush
  BY <1>2 DEF WriteRecv, WriteMessage, WriteFlush, Progress
<1>3. CASE WriteRecvPending
  <2>1. out_data = <<>>
    <3>1. Len(out_data) \in Nat /\ out_pongs \in Nat
      BY LenProperties DEF TypeOK
    <3>2. Len(out_data) = 0
      BY <1>3, <3>1 DEF WriteRecvPending, BufferOnlyWhileFlushing
    <3>3. QED
      BY <3>2, EmptySeq DEF TypeOK
  <2>2. QED
    BY <1>3, <2>1 DEF WriteRecvPending, Pending
<1>4. CASE WriteFlushPending
  BY <1>4 DEF WriteFlushPending, Pending
<1>5. CASE WriteRecvClosed \/ WriteFlushError \/ ReadStop
  BY <1>5 DEF WriteRecvClosed, WriteFlushError, ReadStop, Stop
<1>6. CASE WriteYield \/ ReadYield
  BY <1>6 DEF WriteYield, ReadYield
<1>7. CASE ReadKeepAlive
  BY <1>7 DEF ReadKeepAlive, NextFrame, StartSend
<1>8. CASE ReadKeepAliveBusy \/ ReadForward \/ ReadUnknown
  BY <1>8 DEF ReadKeepAliveBusy, ReadForward, ReadUnknown, NextFrame
<1>9. CASE ReadPending
  BY <1>9 DEF ReadPending, Pending
<1>10. ASSUME Wake({"rx"}), UNCHANGED <<pc, out_data, writable>>
       PROVE  WritePolled'
  <2>1. SUFFICES ASSUME pc \in {"read", "idle"}, ~notified'
                 PROVE  ~writable /\ "ioWrite" \in wakers'
    BY <1>10
  <2>2. ~notified /\ "rx" \notin wakers
    BY <1>10, <2>1, WakeWakes
  <2>3. ~writable /\ "ioWrite" \in wakers
    BY <2>1, <2>2
  <2>4. QED
    BY <1>10, <2>3, WakeWakes
<1>11. CASE SocketSend
  BY <1>10, <1>11 DEF SocketSend
<1>12. CASE \E i \in Pool : SocketEnd(i)
  <2>1. PICK i \in Pool : SocketEnd(i)
    BY <1>12
  <2>2. CASE senders = {i}
    BY <1>10, <2>1, <2>2 DEF SocketEnd
  <2>3. CASE senders # {i}
    BY <2>1, <2>3 DEF SocketEnd
  <2>4. QED
    BY <2>2, <2>3
<1>13. CASE \E i \in Indices : ServerSend(i)
  <2>1. /\ Wake({"ioRead"})
        /\ UNCHANGED <<pc, rx, senders, out_data, writable>>
    BY <1>13 DEF ServerSend
  <2>2. QED
    BY <2>1, WakeWakes
<1>14. CASE ServerClose \/ ConnectionLost \/ Drain
  <2>1. CASE ServerClose
    BY <2>1 DEF ServerClose, Wake
  <2>2. CASE ConnectionLost
    BY <2>2 DEF ConnectionLost, Wake
  <2>3. CASE Drain
    BY <2>3 DEF Drain, Wake
  <2>4. QED
    BY <1>14, <2>1, <2>2, <2>3
<1>15. CASE UNCHANGED vars
  BY <1>15 DEF vars
<1>16. QED
  BY <1>1, <1>2, <1>3, <1>4, <1>5, <1>6, <1>7, <1>8, <1>9, <1>11, <1>12,
     <1>13, <1>14, <1>15
  DEF Next, TaskStep, WriteStep, ReadStep, Environment

\* While the task is not woken, its read half stays armed.
LEMMA StepReadPolled == IInv /\ [Next]_vars => ReadPolled'
<1> SUFFICES ASSUME IInv, [Next]_vars
             PROVE  ReadPolled'
  OBVIOUS
<1> USE DEF IInv, ReadPolled, Asleep, taskVars, inVars
<1>1. CASE TaskStep /\ pc' # "idle"
  BY <1>1
<1>2. CASE ReadPending
  BY <1>2 DEF ReadPending, Pending
<1>3. CASE ReadYield
  BY <1>3 DEF ReadYield
<1>4. CASE SocketSend \/ ServerClose \/ ConnectionLost \/ Drain
  <2>1. CASE SocketSend
    BY <2>1 DEF SocketSend, Wake
  <2>2. CASE ServerClose
    BY <2>2 DEF ServerClose, Wake
  <2>3. CASE ConnectionLost
    BY <2>3 DEF ConnectionLost, Wake
  <2>4. CASE Drain
    BY <2>4 DEF Drain, Wake
  <2>5. QED
    BY <1>4, <2>1, <2>2, <2>3, <2>4
<1>5. CASE \E i \in Pool : SocketEnd(i)
  BY <1>5 DEF SocketEnd, Wake
<1>6. CASE \E i \in Indices : ServerSend(i)
  BY <1>6 DEF ServerSend, Wake
<1>7. CASE UNCHANGED vars
  BY <1>7 DEF vars
<1>8. TaskStep => pc' # "idle" \/ ReadPending \/ ReadYield
  BY DEF TaskStep, Poll, WriteStep, WriteRecv, WriteRecvPending,
         WriteRecvClosed, WriteMessage, WriteFlush, WriteFlushPending,
         WriteFlushError, WriteYield, ReadStep, ReadKeepAlive,
         ReadKeepAliveBusy, ReadForward, ReadUnknown, ReadStop, NextFrame,
         Progress, Pending, Stop
<1>9. QED
  BY <1>1, <1>2, <1>3, <1>4, <1>5, <1>6, <1>7, <1>8 DEF Next, Environment

\* The invariant is inductive.
LEMMA Invariance == Spec => []IInv
<1>1. IInv /\ [Next]_vars => IInv'
  BY StepTypeOK, StepMessageHeld, StepBuffer, StepWritePolled, StepReadPolled
  DEF IInv
<1>2. QED
  BY InitIInv, <1>1, PTL DEF Spec

\* A tunnel never sleeps on work it could do: every arrival that poll_write_state
\* or poll_read_state can act on finds its waker registered.
LEMMA NeverStranded == IInv => NothingStranded
  BY DEF IInv, WritePolled, ReadPolled, Asleep, NothingStranded

------------------------------------------------------------------------------
(* The relay from the sockets to the server *)

\* In state Recv or Write nothing is in the write buffer, in Flush at most one
\* message is.
LEMMA BufferContents ==
  ASSUME IInv
  PROVE  /\ write_state # "Flush" => out_data = <<>>
         /\ write_state = "Flush" =>
                out_data = <<>> \/ \E m \in Messages : out_data = <<m>>
<1>1. /\ out_data \in Seq(Messages) /\ Len(out_data) \in Nat
      /\ out_pongs \in Nat
  BY LenProperties DEF IInv, TypeOK
<1>2. Len(out_data) + out_pongs = IF write_state = "Flush" THEN 1 ELSE 0
  BY DEF IInv, BufferOnlyWhileFlushing
<1> DEFINE n == IF write_state = "Flush" THEN 1 ELSE 0
<1>3. \A a, b \in Nat : a + b = n => a = 0 \/ (a = 1 /\ write_state = "Flush")
  OBVIOUS
<1> HIDE DEF n
<1>4. Len(out_data) = 0 \/ (Len(out_data) = 1 /\ write_state = "Flush")
  <2>1. Len(out_data) + out_pongs = n
    BY <1>2 DEF n
  <2>2. QED
    BY <1>1, <1>3, <2>1
<1>5. CASE Len(out_data) = 0
  BY <1>1, <1>5, EmptyByLen
<1>6. CASE Len(out_data) = 1 /\ write_state = "Flush"
  BY <1>1, <1>6, Singleton
<1>7. QED
  BY <1>4, <1>5, <1>6

\* The message in hand and the messages in transit are sequences of messages.
LEMMA TransitTypes ==
  ASSUME IInv
  PROVE  /\ out_data \in Seq(Messages) /\ InHand \in Seq(Messages)
         /\ out_data \o InHand \in Seq(Messages)
         /\ InTransit \in Seq(Messages)
<1>1. out_data \in Seq(Messages) /\ rx \in Seq(Messages)
  BY DEF IInv, TypeOK
<1>2. InHand \in Seq(Messages)
  <2>1. CASE message = NoMessage
    BY <2>1, EmptySeq DEF InHand
  <2>2. CASE message \in Messages
    <3>1. <<message>> \in Seq(Messages)
      BY <2>2
    <3>2. QED
      BY <2>2, <3>1, EmptySeq DEF InHand
  <2>3. QED
    BY <2>1, <2>2 DEF IInv, TypeOK
<1>3. QED
  BY <1>1, <1>2, ConcatProperties DEF InTransit

\* What a step does to the messages in transit: one is accepted, the oldest is
\* delivered, or nothing changes.
LEMMA StepTransit ==
  ASSUME IInv, [Next]_vars
  PROVE  \/ /\ sent + 1 \in Messages /\ sent' = sent + 1
            /\ InTransit' = Append(InTransit, sent + 1) /\ wire' = wire
         \/ /\ InTransit # <<>> /\ sent' = sent
            /\ wire' = Append(wire, Head(InTransit))
            /\ InTransit' = Tail(InTransit)
         \/ UNCHANGED <<InTransit, wire, sent>>
<1> USE DEF slotVars, chanVars, outVars
<1>1. CASE SocketSend
  <2>1. sent + 1 \in Messages
    BY <1>1, BoundAssumption DEF SocketSend, IInv, TypeOK, Messages
  <2>2. rx \in Seq(Messages)
    BY DEF IInv, TypeOK
  <2>3. InTransit' = (out_data \o InHand) \o Append(rx, sent + 1)
    BY <1>1 DEF SocketSend, InTransit, InHand
  <2>4. InTransit' = Append(InTransit, sent + 1)
    BY <2>1, <2>2, <2>3, TransitTypes, AppendToConcat DEF InTransit
  <2>5. QED
    BY <1>1, <2>1, <2>4 DEF SocketSend
<1>2. CASE WriteRecv
  <2>1. /\ out_data = <<>> /\ InHand = <<>>
        /\ rx \in Seq(Messages) /\ rx # <<>>
    BY <1>2, BufferContents DEF WriteRecv, IInv, TypeOK, MessageHeld, InHand
  <2>2. Head(rx) \in Messages
    BY <2>1, HeadTailProperties
  <2>3. InHand' = <<Head(rx)>> /\ rx' = Tail(rx) /\ out_data' = <<>>
    BY <1>2, <2>1, <2>2, BoundAssumption
    DEF WriteRecv, InHand, Messages, NoMessage
  <2>4. (<<>> \o <<>>) \o rx = rx
    BY <2>1, ConcatEmptySeq, EmptySeq
  <2>5. (<<>> \o <<Head(rx)>>) \o Tail(rx) = rx
    <3>1. <<Head(rx)>> \in Seq(Messages)
      BY <2>2
    <3>2. <<>> \o <<Head(rx)>> = <<Head(rx)>>
      BY <3>1, ConcatEmptySeq
    <3>3. QED
      BY <2>1, <3>2, HeadThenTail
  <2>6. InTransit' = InTransit
    BY <2>1, <2>3, <2>4, <2>5 DEF InTransit
  <2>7. QED
    BY <1>2, <2>6 DEF WriteRecv
<1>3. CASE WriteMessage
  <2>1. /\ out_data = <<>> /\ message \in Messages
        /\ InHand = <<message>>
    BY <1>3, BufferContents DEF WriteMessage, IInv, TypeOK, MessageHeld, InHand
  <2>2. InHand' = <<>>
    BY <1>3 DEF WriteMessage, StartSend, InHand
  <2>3. message # Pong
    BY <2>1, BoundAssumption DEF Messages, Pong
  <2>4. out_data' = Append(<<>>, message) /\ rx' = rx
    BY <1>3, <2>1, <2>3 DEF WriteMessage, StartSend
  <2>5. Append(<<>>, message) = <<message>>
    OBVIOUS
  <2>6. <<message>> \in Seq(Messages)
    BY <2>1
  <2>7. <<>> \o <<message>> = <<message>> /\ <<message>> \o <<>> = <<message>>
    BY <2>6, ConcatEmptySeq
  <2>8. InTransit' = InTransit
    BY <2>1, <2>2, <2>4, <2>5, <2>7 DEF InTransit
  <2>9. QED
    BY <1>3, <2>8 DEF WriteMessage, StartSend
<1>4. CASE WriteFlush
  <2>1. /\ InHand = <<>> /\ InHand' = <<>> /\ rx \in Seq(Messages)
        /\ wire \in Seq(Messages)
    BY <1>4 DEF WriteFlush, IInv, TypeOK, MessageHeld, InHand
  <2>2. InTransit' = rx
    <3>1. InTransit' = (<<>> \o <<>>) \o rx
      BY <1>4, <2>1 DEF WriteFlush, InTransit
    <3>2. QED
      BY <2>1, <3>1, ConcatEmptySeq, EmptySeq
  <2>3. CASE out_data = <<>>
    <3>1. InTransit = rx
      BY <2>1, <2>3, ConcatEmptySeq, EmptySeq DEF InTransit
    <3>2. wire' = wire
      BY <1>4, <2>1, <2>3, ConcatEmptySeq DEF WriteFlush
    <3>3. QED
      BY <1>4, <2>2, <3>1, <3>2 DEF WriteFlush
  <2>4. ASSUME NEW m \in Messages, out_data = <<m>>
        PROVE  /\ InTransit # <<>>
               /\ wire' = Append(wire, Head(InTransit))
               /\ InTransit' = Tail(InTransit)
    <3>1. <<m>> \in Seq(Messages)
      BY <2>4
    <3>2. InTransit = <<m>> \o rx
      BY <2>1, <2>4, <3>1, ConcatEmptySeq DEF InTransit
    <3>3. InTransit # <<>> /\ Head(InTransit) = m /\ Tail(InTransit) = rx
      BY <2>1, <2>4, <3>2, HeadTailOfCons
    <3>4. wire' = Append(wire, m)
      BY <1>4, <2>1, <2>4, AppendIsConcat DEF WriteFlush
    <3>5. QED
      BY <2>2, <3>3, <3>4
  <2>5. write_state = "Flush" /\ sent' = sent
    BY <1>4 DEF WriteFlush
  <2>6. QED
    BY <2>3, <2>4, <2>5, BufferContents
<1>5. CASE ReadKeepAlive
  <2>1. message = NoMessage /\ message' = NoMessage
    BY <1>5 DEF ReadKeepAlive, StartSend, IInv, MessageHeld
  <2>2. UNCHANGED <<out_data, rx, wire, sent>>
    BY <1>5 DEF ReadKeepAlive, StartSend, Pong
  <2>3. QED
    BY <2>1, <2>2 DEF InTransit, InHand
<1>6. CASE UNCHANGED <<out_data, message, rx, wire, sent>>
  BY <1>6 DEF InTransit, InHand
<1>7. QED
  BY <1>1, <1>2, <1>3, <1>4, <1>5, <1>6
  DEF Next, TaskStep, Poll, WriteStep, WriteRecvPending, WriteRecvClosed,
      WriteFlushPending, WriteFlushError, WriteYield, ReadStep,
      ReadKeepAliveBusy, ReadForward, ReadUnknown, ReadPending, ReadStop,
      ReadYield, Environment, SocketEnd, ServerSend, ServerClose,
      ConnectionLost, Drain, vars

\* The tunnel implements a lossless relay from the sockets to the server:
\* a flush delivers the oldest message of those in transit, and nothing but a
\* socket's send adds one.
LEMMA OutboundRelayHolds == Spec => OutboundRelay
<1>1. Init => Out!Init
  <2>1. SUFFICES ASSUME Init PROVE InTransit = <<>> /\ wire = <<>>
    BY DEF Out!Init
  <2>2. out_data = <<>> /\ InHand = <<>> /\ rx = <<>> /\ wire = <<>>
    BY <2>1 DEF Init, InHand
  <2>3. QED
    BY <2>2, ConcatEmptySeq, EmptySeq DEF InTransit
<1>2. IInv /\ [Next]_vars => [Out!Next]_(Out!vars)
  BY StepTransit DEF Out!Next, Out!Accept, Out!Deliver, Out!Lose, Out!vars
<1>3. QED
  BY <1>1, <1>2, Invariance, PTL DEF Spec, OutboundRelay, Out!Spec

\* No step loses, repeats or reorders a message.
LEMMA StepMessagesInOrder ==
  ASSUME IInv, MessagesInOrder, [Next]_vars
  PROVE  MessagesInOrder'
<1>1. /\ wire \in Seq(Messages) /\ InTransit \in Seq(Messages)
      /\ sent \in Nat
  BY TransitTypes, BoundAssumption DEF IInv, TypeOK
<1>2. CASE /\ sent + 1 \in Messages /\ sent' = sent + 1
           /\ InTransit' = Append(InTransit, sent + 1) /\ wire' = wire
  <2>1. wire \o Append(InTransit, sent + 1)
            = Append(wire \o InTransit, sent + 1)
    BY <1>1, <1>2, AppendToConcat
  <2>2. wire' \o InTransit' = [n \in 1..(sent + 1) |-> n]
    BY <1>1, <1>2, <2>1, CountUp DEF MessagesInOrder
  <2>3. QED
    BY <1>2, <2>2 DEF MessagesInOrder
<1>3. CASE /\ InTransit # <<>> /\ sent' = sent
           /\ wire' = Append(wire, Head(InTransit))
           /\ InTransit' = Tail(InTransit)
  <2>1. wire' \o InTransit' = wire \o InTransit
    BY <1>1, <1>3, HeadMoves
  <2>2. QED
    BY <1>3, <2>1 DEF MessagesInOrder
<1>4. CASE UNCHANGED <<InTransit, wire, sent>>
  BY <1>4 DEF MessagesInOrder
<1>5. QED
  BY <1>2, <1>3, <1>4, StepTransit

\* Every message a socket sent is on the connection or held, in the order sent,
\* whatever keep-alive replies poll_read_state writes in between.
LEMMA InOrderInvariance == Spec => []MessagesInOrder
<1>1. Init => MessagesInOrder
  <2>1. SUFFICES ASSUME Init PROVE MessagesInOrder
    OBVIOUS
  <2>2. /\ out_data = <<>> /\ InHand = <<>> /\ rx = <<>> /\ wire = <<>>
        /\ sent = 0
    BY <2>1 DEF Init, InHand
  <2>3. wire \o InTransit = <<>>
    BY <2>2, ConcatEmptySeq, EmptySeq DEF InTransit
  <2>4. <<>> = [n \in 1..0 |-> n]
    OBVIOUS
  <2>5. QED
    BY <2>2, <2>3, <2>4 DEF MessagesInOrder
<1>2. IInv /\ MessagesInOrder /\ [Next]_vars => MessagesInOrder'
  BY StepMessagesInOrder
<1>3. QED
  BY <1>1, <1>2, Invariance, PTL DEF Spec

\* poll_ready never has a frame to flush before start_send, the write buffer never
\* holds more than one frame, every message a socket sent is on the connection or
\* held, in the order sent, all of the state keeps its types, and the tunnel never
\* sleeps on work it could do.
THEOREM InOrderAndAwake == Spec => []Inv
<1>1. IInv /\ MessagesInOrder => Inv
  BY NeverStranded DEF IInv, Inv
<1>2. QED
  BY <1>1, Invariance, InOrderInvariance, PTL

------------------------------------------------------------------------------
(* From the server to the sockets *)

\* The frames that have arrived for a socket are frames of the server.
LEMMA IncomingTypes ==
  ASSUME IInv, NEW i \in Pool
  PROVE  inbox \in Seq(Frames) /\ Incoming(i) \in Seq(Frames)
<1>1. inbox \in Seq(Frames)
  BY DEF IInv, TypeOK
<1> QED BY <1>1, SelectedInSeq DEF Incoming

\* What the next frame that is decoded does to those for socket i.
LEMMA NextIncoming ==
  ASSUME IInv, NEW i \in Pool, NextFrame
  PROVE  IF Head(inbox).index = i
         THEN /\ Incoming(i) # <<>> /\ Head(Incoming(i)) = Head(inbox)
              /\ Incoming(i)' = Tail(Incoming(i))
         ELSE Incoming(i)' = Incoming(i)
<1> DEFINE kind == {frame \in Frames : frame.index = i}
           rest == Selected(Tail(inbox), kind)
<1>1. /\ inbox \in Seq(Frames) /\ inbox # <<>> /\ inbox' = Tail(inbox)
      /\ Head(inbox) \in Frames /\ Tail(inbox) \in Seq(Frames)
  BY IncomingTypes, HeadTailProperties DEF NextFrame
<1>2. Head(inbox) \in kind <=> Head(inbox).index = i
  BY <1>1
<1>3. Incoming(i) = Selected(inbox, kind) /\ Incoming(i)' = rest
  BY <1>1 DEF Incoming
<1> HIDE DEF kind
<1>4. Selected(inbox, kind) = IF Head(inbox) \in kind THEN <<Head(inbox)>> \o rest
                                                    ELSE rest
  BY <1>1, SelectedOfCons
<1>5. rest \in Seq(Frames)
  BY <1>1, SelectedInSeq
<1> HIDE DEF rest
<1>6. /\ <<Head(inbox)>> \o rest # <<>> /\ Head(<<Head(inbox)>> \o rest) = Head(inbox)
      /\ Tail(<<Head(inbox)>> \o rest) = rest
  BY <1>1, <1>5, HeadTailOfCons
<1> QED BY <1>2, <1>3, <1>4, <1>6, Zenon

\* A step of the relay to socket i: without loss, or with it where the socket has
\* gone or the connection fails.
InStep(i) ==
    \/ [In(i)!Next]_(In(i)!vars)
    \/ /\ i \notin senders \/ (io # "broken" /\ io' = "broken")
       /\ LossyIn(i)!Lose

\* Seen from socket i, each step is one of a relay: a frame that arrives is
\* accepted, one that is decoded is delivered, or lost if the socket has gone,
\* and a connection that breaks loses the last of them.
LEMMA StepIncoming ==
  ASSUME IInv, [Next]_vars, NEW i \in Pool
  PROVE  InStep(i)
<1> DEFINE p == Incoming(i)
           kind == {frame \in Frames : frame.index = i}
<1>1. inbox \in Seq(Frames) /\ p \in Seq(Frames) /\ handle \in [Pool -> Seq(Frames)]
  BY IncomingTypes DEF IInv, TypeOK
<1>2. CASE ReadForward
  <2>1. NextFrame
    BY <1>2 DEF ReadForward
  <2>2. CASE Head(inbox).index = i
    <3>1. p # <<>> /\ p' = Tail(p) /\ Head(p) = Head(inbox)
      BY <2>1, <2>2, NextIncoming
    <3>2. CASE i \in senders
      <4>1. handle'[i] = Append(handle[i], Head(p))
        BY <1>1, <1>2, <2>2, <3>1, <3>2 DEF ReadForward
      <4> QED BY <3>1, <4>1 DEF In!Next, In!Deliver, InStep
    <3>3. CASE i \notin senders
      <4>1. handle' = handle
        BY <1>2, <2>2, <3>3 DEF ReadForward
      <4> HIDE DEF p
      <4>2. 1 \in 1..Len(p) /\ p' = SubSeq(p, 1, 0) \o SubSeq(p, 2, Len(p))
        BY <1>1, <3>1, WithoutFirst
      <4>3. 1 <= 1 /\ 1 - 1 = 0 /\ 1 + 1 = 2
        OBVIOUS
      <4>4. LossyIn(i)!Lose
        BY <4>1, <4>2, <4>3 DEF LossyIn!Lose, p
      <4> QED BY <3>3, <4>4 DEF InStep
    <3> QED BY <3>2, <3>3
  <2>3. CASE Head(inbox).index # i
    <3>1. p' = p
      BY <2>1, <2>3, NextIncoming
    <3>2. handle'[i] = handle[i]
      BY <1>1, <1>2, <2>3 DEF ReadForward
    <3> QED BY <3>1, <3>2 DEF In!vars, InStep
  <2> QED BY <2>2, <2>3
<1>3. CASE ReadKeepAlive \/ ReadKeepAliveBusy \/ ReadUnknown
  <2>1. NextFrame /\ Head(inbox).index # i /\ handle' = handle
    BY <1>3, PoolAssumption
    DEF ReadKeepAlive, ReadKeepAliveBusy, ReadUnknown, Pool, KeepAlive
  <2>2. p' = p
    BY <2>1, NextIncoming
  <2> QED BY <2>1, <2>2 DEF In!vars, InStep
<1>4. ASSUME NEW j \in Indices, ServerSend(j) PROVE InStep(i)
  <2> DEFINE e == [index |-> j, id |-> received + 1]
  <2>1. e \in Frames /\ inbox' = Append(inbox, e) /\ handle' = handle
    BY <1>4, BoundAssumption DEF ServerSend, Frames, IInv, TypeOK
  <2> HIDE DEF e
  <2>2. p' = IF e \in kind THEN Append(p, e) ELSE p
    <3>1. p = Selected(inbox, kind) /\ p' = Selected(Append(inbox, e), kind)
      BY <2>1 DEF Incoming
    <3> HIDE DEF p, kind
    <3> QED BY <1>1, <2>1, <3>1, SelectedOfAppend
  <2>3. (\E m \in Frames : p' = Append(p, m)) \/ p' = p
    <3> HIDE DEF p, kind
    <3> QED BY <2>1, <2>2
  <2> QED BY <2>1, <2>3 DEF In!Next, In!Accept, In!vars, InStep
<1>5. CASE ConnectionLost
  <2>1. PICK k \in 0..Len(inbox) : inbox' = SubSeq(inbox, 1, k)
    BY <1>5 DEF ConnectionLost
  <2>2. handle' = handle /\ io # "broken" /\ io' = "broken"
    BY <1>5 DEF ConnectionLost
  <2>3. PICK m \in 0..Len(p) : p' = SubSeq(p, 1, m)
    <3>1. p = Selected(inbox, kind) /\ p' = Selected(SubSeq(inbox, 1, k), kind)
      BY <2>1 DEF Incoming
    <3> HIDE DEF p, kind
    <3> QED BY <1>1, <3>1, SelectedOfPrefix
  <2> HIDE DEF p
  <2>4. Len(p) \in Nat
    BY <1>1
  <2>5. CASE m = Len(p)
    <3>1. p' = p
      BY <1>1, <2>3, <2>5, SubSeqFull
    <3> QED BY <2>2, <3>1 DEF In!vars, p, InStep
  <2>6. CASE m # Len(p)
    <3>1. /\ m + 1 \in 1..Len(p) /\ Len(p) \in 1..Len(p) /\ m + 1 <= Len(p)
          /\ (m + 1) - 1 = m
      BY <2>3, <2>4, <2>6
    <3>2. p' = SubSeq(p, 1, m) \o SubSeq(p, Len(p) + 1, Len(p))
      BY <1>1, <2>3, WithoutRest
    <3>3. LossyIn(i)!Lose
      BY <2>2, <3>1, <3>2 DEF LossyIn!Lose, p
    <3> QED BY <2>2, <3>3 DEF InStep
  <2> QED BY <2>5, <2>6
<1>6. CASE UNCHANGED <<inbox, handle>>
  BY <1>6 DEF In!vars, Incoming, InStep
<1> QED
  BY <1>2, <1>3, <1>4, <1>5, <1>6
  DEF Next, TaskStep, Poll, WriteStep, WriteRecv, WriteRecvPending,
      WriteRecvClosed, WriteMessage, WriteFlush, WriteFlushPending,
      WriteFlushError, WriteYield, ReadStep, ReadPending, ReadStop, ReadYield,
      Environment, SocketSend, SocketEnd, ServerClose, Drain, vars, inVars

\* Frames reach socket i in the order the server sent them, none twice, and none
\* is lost while the socket is there and the connection does not fail, whatever
\* comes between them: frames for other sockets and for none, keep-alives and the
\* end of other sockets.
LEMMA InboundRelayHolds == Spec => InboundRelay
<1>1. Init => \A i \in Pool : In(i)!Init
  <2> SUFFICES ASSUME Init, NEW i \in Pool
               PROVE  Incoming(i) = <<>> /\ handle[i] = <<>>
    BY DEF In!Init
  <2> QED BY SelectedOfNone DEF Init, Incoming
<1>2. IInv /\ [Next]_vars => \A i \in Pool : InStep(i)
  BY StepIncoming
<1>3. QED
  BY <1>1, <1>2, Invariance, PTL DEF Spec, InboundRelay, InStep

\* The tunnel is a relay both ways, whatever the keep-alives, the connection and the
\* ends of sockets do in between.
THEOREM TcpRelaysBothWays == Spec => RelaysBothWays
  BY OutboundRelayHolds, InboundRelayHolds DEF RelaysBothWays

------------------------------------------------------------------------------
(* The pair *)

SP == INSTANCE PoolSocketProofs WITH
        MaxMessages <- MaxFrames, MaxDatagrams <- MaxSent,
        pc <- socket_pc, notified <- socket_notified, spent <- socket_spent,
        wakers <- socket_wakers, write_state <- socket_write_state,
        message <- socket_message, rx <- socket_rx, inbox <- socket_inbox

------------------------------------------------------------------------------
(* Each task of the pair is the task of its own module *)

\* Seen from the tunnel, the pair is a TcpTunnel: the socket sends or ends where
\* that module lets any socket do so.
LEMMA PairIsTunnel == PairSpec => Spec
<1>1. PairInit => Init
  BY DEF PairInit
<1>2. [PairNext]_pairVars => [Next]_vars
  <2> SUFFICES ASSUME [PairNext]_pairVars PROVE [Next]_vars
    OBVIOUS
  <2>1. CASE TunnelStep
    BY <2>1 DEF TunnelStep, Next
  <2>2. CASE SocketStep
    <3>1. 0 \in Pool
      BY OneSocket DEF Pool
    <3>2. SocketSend \/ SocketEnd(0) \/ UNCHANGED vars
      BY <2>2 DEF SocketStep
    <3>3. QED
      BY <3>1, <3>2 DEF Next, Environment
  <2>3. CASE Outside
    BY <2>3 DEF Outside, Next, Environment
  <2>4. CASE UNCHANGED pairVars
    BY <2>4 DEF pairVars
  <2>5. QED
    BY <2>1, <2>2, <2>3, <2>4 DEF PairNext
<1>3. QED
  BY <1>1, <1>2, PTL DEF PairSpec, Spec

\* The steps of the socket's task are those of PoolSocket.
LEMMA SocketTask == S!TaskStep => SP!TaskStep
<1>1. S!Poll => SP!Poll
  BY DEF S!Poll, SP!Poll, S!slotVars, SP!slotVars, S!chanVars, SP!chanVars,
         S!sockVars, SP!sockVars
<1>2. S!WriteStep => SP!WriteStep
  BY DEF S!WriteStep, SP!WriteStep, S!WriteRecv, SP!WriteRecv,
         S!WriteRecvPending, SP!WriteRecvPending, S!WriteRecvClosed,
         SP!WriteRecvClosed, S!WriteSend, SP!WriteSend, S!WriteSendPending,
         SP!WriteSendPending, S!WriteSendError, SP!WriteSendError,
         S!Ready, SP!Ready, S!Pending, SP!Pending, S!OutOfBudget,
         SP!OutOfBudget, S!Stop, SP!Stop, S!Bytes, SP!Bytes,
         S!slotVars, SP!slotVars, S!chanVars, SP!chanVars, S!sockVars,
         SP!sockVars
<1>3. S!ReadStep => SP!ReadStep
  BY DEF S!ReadStep, SP!ReadStep, S!ReadForward, SP!ReadForward,
         S!ReadClosed, SP!ReadClosed, S!ReadError, SP!ReadError,
         S!ReadPending, SP!ReadPending, S!Ready, SP!Ready, S!Pending,
         SP!Pending, S!OutOfBudget, SP!OutOfBudget, S!Stop, SP!Stop,
         S!slotVars, SP!slotVars, S!chanVars, SP!chanVars, S!sockVars,
         SP!sockVars
<1>4. QED
  BY <1>1, <1>2, <1>3 DEF S!TaskStep, SP!TaskStep

\* What the tunnel, the game and the system do to the socket is what PoolSocket
\* lets its environment do.
LEMMA SocketEnvironment ==
  S!TunnelSend \/ S!TunnelGone \/ S!GameSend \/ S!Unreachable \/ S!Drain
      => SP!Environment
  BY DEF SP!Environment, S!TunnelSend, SP!TunnelSend, S!TunnelGone,
         SP!TunnelGone, S!GameSend, SP!GameSend, S!Unreachable,
         SP!Unreachable, S!Drain, SP!Drain, S!Wake, SP!Wake,
         S!slotVars, SP!slotVars, S!chanVars, SP!chanVars, S!sockVars,
         SP!sockVars

\* Seen from the socket, the pair is a PoolSocket: the tunnel sends or goes
\* where that module lets it.
LEMMA PairIsSocket == PairSpec => SP!Spec
<1>1. PairInit => SP!Init
  BY DEF PairInit, S!Init, SP!Init
<1>2. [PairNext]_pairVars => [SP!Next]_(SP!vars)
  <2> SUFFICES ASSUME [PairNext]_pairVars PROVE [SP!Next]_(SP!vars)
    OBVIOUS
  <2>1. UNCHANGED socketVars => UNCHANGED SP!vars
    BY DEF socketVars, SP!vars, SP!taskVars, SP!slotVars, SP!chanVars,
           SP!sockVars
  <2>2. CASE TunnelStep
    BY <2>1, <2>2, SocketEnvironment DEF TunnelStep, SP!Next
  <2>3. CASE SocketStep
    BY <2>3, SocketTask DEF SocketStep, SP!Next
  <2>4. CASE Outside
    BY <2>1, <2>4, SocketEnvironment DEF Outside, SP!Next
  <2>5. CASE UNCHANGED pairVars
    BY <2>1, <2>5 DEF pairVars
  <2>6. QED
    BY <2>2, <2>3, <2>4, <2>5 DEF PairNext
<1>3. QED
  BY <1>1, <1>2, PTL DEF PairSpec, SP!Spec

------------------------------------------------------------------------------
(* How the two tasks are linked *)

\* The write half of a tunnel that has been polled holds no message: it goes on
\* from Write at once.
NotInWrite == pc \in {"read", "idle"} => write_state # "Write"

\* Every step keeps that.
LEMMA StepNotInWrite == NotInWrite /\ [Next]_vars => NotInWrite'
  BY DEF NotInWrite, Next, TaskStep, Poll, WriteStep, WriteRecv,
         WriteRecvPending, WriteRecvClosed, WriteMessage, WriteFlush,
         WriteFlushPending, WriteFlushError, WriteYield, ReadStep,
         ReadKeepAlive, ReadKeepAliveBusy, ReadForward, ReadUnknown,
         ReadPending, ReadStop, ReadYield, NextFrame, StartSend, Progress,
         Pending, Stop, Environment, SocketSend, SocketEnd, ServerSend,
         ServerClose, ConnectionLost, Drain, vars, taskVars, slotVars

\* The counts at the two ends of each channel agree, and while both tasks run
\* neither end is closed.
Linked ==
    /\ sent = Len(tun) /\ accepted = Len(handle[0])
    /\ Running => tunnel = "up" /\ senders = {0}

\* A step of the tunnel's task does nothing to the channel from the sockets but
\* read it, and puts at most one frame on the channel of the one socket.
LEMMA TunnelTask ==
  ASSUME TypeOK, TaskStep
  PROVE  /\ pc # "done" /\ UNCHANGED <<sent, senders>>
         /\ handle' # handle =>
               Len(handle'[0]) = Len(handle[0]) + 1 /\ pc' # "done"
<1>1. CASE ReadForward
  <2>1. Pool = {0}
    BY OneSocket DEF Pool
  <2>2. /\ Head(inbox) \in Frames /\ handle[0] \in Seq(Frames)
        /\ handle \in [{0} -> Seq(Frames)]
    BY <1>1, <2>1, NextFrameTypes DEF ReadForward, TypeOK
  <2>3. Head(inbox).index = 0
    BY <1>1, <2>1 DEF ReadForward
  <2>4. \/ handle' = handle
        \/ handle' = [handle EXCEPT ![0] = Append(@, Head(inbox))]
    BY <1>1, <2>3 DEF ReadForward
  <2>5. Len(Append(handle[0], Head(inbox))) = Len(handle[0]) + 1
    BY <2>2, AppendProperties
  <2>6. handle' # handle => handle'[0] = Append(handle[0], Head(inbox))
    BY <2>2, <2>4
  <2>7. QED
    BY <1>1, <2>5, <2>6 DEF ReadForward, NextFrame, chanVars
<1>2. TaskStep => /\ pc # "done" /\ UNCHANGED <<sent, senders>>
                  /\ ReadForward \/ handle' = handle
  BY DEF TaskStep, Poll, WriteStep, WriteRecv, WriteRecvPending,
         WriteRecvClosed, WriteMessage, WriteFlush, WriteFlushPending,
         WriteFlushError, WriteYield, ReadStep, ReadKeepAlive,
         ReadKeepAliveBusy, ReadForward, ReadUnknown, ReadPending, ReadStop,
         ReadYield, NextFrame, chanVars
<1>3. QED
  BY <1>1, <1>2

\* A step of the socket's task likewise.
LEMMA SocketTaskLink ==
  ASSUME SP!TypeOK, S!TaskStep
  PROVE  /\ socket_pc # "done" /\ UNCHANGED <<accepted, tunnel>>
         /\ tun' # tun => Len(tun') = Len(tun) + 1
<1>1. CASE S!ReadForward
  <2>1. /\ socket_inbox \in Seq(SP!Datagrams) /\ tun \in Seq(SP!Datagrams)
        /\ socket_inbox # <<>> /\ tun' = Append(tun, Head(socket_inbox))
    BY <1>1 DEF SP!TypeOK, S!ReadForward
  <2>2. Len(tun') = Len(tun) + 1
    BY <2>1, HeadTailProperties, AppendProperties
  <2>3. QED
    BY <1>1, <2>2 DEF S!ReadForward, S!chanVars
<1>2. /\ socket_pc # "done" /\ UNCHANGED <<accepted, tunnel>>
      /\ S!ReadForward \/ tun' = tun
  BY DEF S!TaskStep, S!Poll, S!WriteStep, S!WriteRecv, S!WriteRecvPending,
         S!WriteRecvClosed, S!WriteSend, S!WriteSendPending, S!WriteSendError,
         S!ReadStep, S!ReadForward, S!ReadClosed, S!ReadError, S!ReadPending,
         S!chanVars
<1>3. QED
  BY <1>1, <1>2

\* No step takes one end of a channel further than the other: a datagram or a
\* frame is on its channel in the step that forwards it.
LEMMA StepLinked ==
  ASSUME TypeOK, SP!TypeOK, Linked, [PairNext]_pairVars
  PROVE  Linked'
<1> USE DEF Linked, Running
<1>1. CASE TunnelStep
  <2>1. /\ pc # "done" /\ UNCHANGED <<sent, senders>>
        /\ handle' # handle =>
              Len(handle'[0]) = Len(handle[0]) + 1 /\ pc' # "done"
    BY <1>1, TunnelTask DEF TunnelStep
  <2>2. CASE handle' # handle
    <3>1. S!TunnelSend
      BY <1>1, <2>1, <2>2 DEF TunnelStep
    <3>2. /\ UNCHANGED <<socket_pc, tunnel, tun>> /\ accepted' = accepted + 1
      BY <3>1 DEF S!TunnelSend
    <3>3. QED
      BY <2>1, <2>2, <3>2
  <2>3. CASE handle' = handle
    <3>1. CASE pc' = "done" /\ socket_pc # "done"
      <4>1. S!TunnelGone
        BY <1>1, <3>1 DEF TunnelStep
      <4>2. UNCHANGED <<accepted, tun>>
        BY <4>1 DEF S!TunnelGone
      <4> QED BY <2>1, <2>3, <3>1, <4>2
    <3>2. CASE ~(pc' = "done" /\ socket_pc # "done")
      <4>1. UNCHANGED socketVars
        BY <1>1, <2>3, <3>2 DEF TunnelStep
      <4> QED BY <2>1, <2>3, <4>1 DEF socketVars
    <3> QED BY <3>1, <3>2
  <2>4. QED
    BY <2>2, <2>3
<1>2. CASE SocketStep
  <2>1. /\ socket_pc # "done" /\ UNCHANGED <<accepted, tunnel>>
        /\ tun' # tun => Len(tun') = Len(tun) + 1
    BY <1>2, SocketTaskLink DEF SocketStep
  <2>2. CASE tun' # tun
    <3>1. /\ UNCHANGED <<pc, senders, handle>> /\ sent' = sent + 1
      BY <1>2, <2>2 DEF SocketStep, SocketSend
    <3>2. QED
      BY <2>1, <2>2, <3>1
  <2>3. CASE tun' = tun
    <3>1. CASE socket_pc' = "done" /\ pc # "done"
      <4>1. SocketEnd(0)
        BY <1>2, <2>3, <3>1 DEF SocketStep
      <4>2. UNCHANGED <<handle, sent>>
        BY <4>1 DEF SocketEnd
      <4> QED BY <2>1, <2>3, <3>1, <4>2
    <3>2. CASE ~(socket_pc' = "done" /\ pc # "done")
      <4>1. UNCHANGED vars
        BY <1>2, <2>3, <3>2 DEF SocketStep
      <4> QED BY <2>1, <2>3, <4>1 DEF vars, taskVars, chanVars
    <3> QED BY <3>1, <3>2
  <2>4. QED
    BY <2>2, <2>3
<1>3. CASE Outside
  <2>1. UNCHANGED <<pc, sent, senders, handle, socket_pc, accepted, tunnel, tun>>
    BY <1>3
    DEF Outside, ServerSend, ServerClose, ConnectionLost, Drain, S!GameSend,
        S!Unreachable, S!Drain, socketVars, vars, taskVars, chanVars,
        S!chanVars
  <2>2. QED
    BY <2>1
<1>4. CASE UNCHANGED pairVars
  BY <1>4 DEF pairVars, vars, taskVars, chanVars, socketVars
<1>5. QED
  BY <1>1, <1>2, <1>3, <1>4 DEF PairNext

\* The two tasks stay linked.
LEMMA LinkedInvariance == PairSpec => []Linked
<1>1. PairInit => Linked
  <2> SUFFICES ASSUME PairInit PROVE Linked
    OBVIOUS
  <2>1. Pool = {0}
    BY OneSocket DEF Pool
  <2>2. Len(<<>>) = 0
    BY EmptySeq
  <2>3. QED
    BY <2>1, <2>2 DEF PairInit, Init, S!Init, Linked
<1>2. IInv => TypeOK
  BY DEF IInv
<1>3. SP!IInv => SP!TypeOK
  BY DEF SP!IInv
<1>4. TypeOK /\ SP!TypeOK /\ Linked /\ [PairNext]_pairVars => Linked'
  BY StepLinked
<1>5. SP!Spec => []SP!IInv
  BY SP!Invariance, BoundAssumption, MessageLength
<1>6. QED
  BY <1>1, <1>2, <1>3, <1>4, <1>5, PairIsTunnel, PairIsSocket, Invariance,
     PTL DEF PairSpec

------------------------------------------------------------------------------
(* From end to end *)

\* What each task proves of itself and what links them.
TunnelFacts == IInv /\ MessagesInOrder /\ NotInWrite
SocketFacts == SP!IInv /\ SP!BytesInv

\* All of it holds throughout a behaviour of the pair.
LEMMA PairFacts == PairSpec => [](TunnelFacts /\ SocketFacts /\ Linked)
<1>1. Init => NotInWrite
  BY DEF Init, NotInWrite
<1>2. Spec => []NotInWrite
  BY <1>1, StepNotInWrite, PTL DEF Spec
<1>3. SP!Spec => []SP!IInv /\ []SP!BytesInv
  BY SP!Invariance, SP!BytesInvariance, BoundAssumption, MessageLength
<1>4. QED
  BY <1>2, <1>3, PairIsTunnel, PairIsSocket, Invariance, InOrderInvariance,
     LinkedInvariance, PTL DEF TunnelFacts, SocketFacts

\* The sequences that a datagram of the game goes through.
LEMMA DatagramTypes ==
  ASSUME TunnelFacts, SocketFacts
  PROVE  /\ wire \in Seq(Messages) /\ InTransit \in Seq(Messages)
         /\ socket_inbox \in Seq(Messages) /\ tun \in Seq(Messages)
         /\ sent \in Nat
<1>1. wire \in Seq(Messages) /\ sent \in Nat
  BY BoundAssumption DEF TunnelFacts, IInv, TypeOK
<1>2. InTransit \in Seq(Messages)
  BY TransitTypes DEF TunnelFacts
<1>3. socket_inbox \in Seq(Messages) /\ tun \in Seq(Messages)
  BY DEF SocketFacts, SP!IInv, SP!TypeOK, SP!Datagrams, Messages
<1>4. QED
  BY <1>1, <1>2, <1>3

\* While both tasks run, what the tunnel holds and sent is what the socket put on
\* the channel, so the datagrams are in order from the game to the connection.
LEMMA DatagramsEndToEnd ==
  ASSUME TunnelFacts, SocketFacts, Linked, Running
  PROVE  wire \o GoingOut = [k \in 1..arrived |-> k]
<1>1. tun \o socket_inbox = [k \in 1..arrived |-> k]
  BY DEF SocketFacts, SP!IInv, SP!DatagramsInOrder, Running
<1>2. tun = [n \in 1..sent |-> n]
  <2>1. DOMAIN tun = 1..sent /\ tun = [n \in DOMAIN tun |-> tun[n]]
    BY DatagramTypes, LenProperties DEF Linked
  <2>2. \A n \in DOMAIN tun : tun[n] = n
    BY DEF SocketFacts, SP!IInv, SP!DatagramsInOrder
  <2>3. QED
    BY <2>1, <2>2
<1>3. wire \o InTransit = tun
  BY <1>2 DEF TunnelFacts, MessagesInOrder
<1>4. wire \o (InTransit \o socket_inbox) = (wire \o InTransit) \o socket_inbox
  <2>1. /\ wire \in Seq(Messages) /\ InTransit \in Seq(Messages)
        /\ socket_inbox \in Seq(Messages)
    BY DatagramTypes
  <2>2. QED
    BY <2>1, ConcatAssociative
<1>5. QED
  BY <1>1, <1>3, <1>4 DEF GoingOut

\* When both tasks sleep, the tunnel holds nothing unless the connection takes no
\* bytes, and the socket nothing unless its send buffer is full.
LEMMA AsleepDone ==
  ASSUME TunnelFacts, SocketFacts, Linked, Running, Asleep, S!Asleep
  PROVE  /\ inbox = <<>> /\ socket_inbox = <<>>
         /\ writable => wire = [k \in 1..arrived |-> k]
         /\ room => Len(game) = LENGTH * accepted
<1>1. inbox = <<>> /\ socket_inbox = <<>>
  BY DEF TunnelFacts, IInv, ReadPolled, SocketFacts, SP!IInv, SP!ReadPolled,
         S!Asleep, SP!Asleep
<1>2. ASSUME writable
      PROVE  wire = [k \in 1..arrived |-> k]
  <2>1. rx = <<>> /\ out_data = <<>>
    BY <1>2 DEF TunnelFacts, IInv, WritePolled, Asleep
  <2>2. InHand = <<>>
    BY DEF TunnelFacts, IInv, MessageHeld, NotInWrite, Asleep, InHand
  <2>3. GoingOut = <<>>
    <3>1. <<>> \o <<>> = <<>>
      BY EmptySeq, ConcatEmptySeq
    <3>2. QED
      BY <1>1, <2>1, <2>2, <3>1 DEF GoingOut, InTransit
  <2>4. wire \o <<>> = wire
    BY DatagramTypes, ConcatEmptySeq
  <2>5. QED
    BY <2>3, <2>4, DatagramsEndToEnd
<1>3. ASSUME room
      PROVE  Len(game) = LENGTH * accepted
  <2>1. socket_write_state = "Recv" /\ socket_rx = <<>>
    BY <1>3 DEF SocketFacts, SP!IInv, SP!WritePolled, S!Asleep
  <2>2. socket_message = <<>> /\ Len(game) + Len(socket_message)
                                    = LENGTH * (accepted - Len(socket_rx))
    BY <2>1 DEF SocketFacts, SP!BytesInv, SP!Counted, SP!Taken
  <2>3. Len(socket_rx) = 0 /\ Len(socket_message) = 0
    BY <2>1, <2>2, EmptySeq
  <2>4. Len(game) \in Nat /\ accepted \in Nat
    BY LenProperties, BoundAssumption
    DEF SocketFacts, SP!IInv, SP!TypeOK
  <2>5. accepted - Len(socket_rx) = accepted
        /\ Len(game) + Len(socket_message) = Len(game)
    BY <2>3, <2>4
  <2>6. QED
    BY <2>2, <2>5
<1>4. QED
  BY <1>1, <1>2, <1>3

\* Between the game and the server, the two futures and the channels they share
\* lose, repeat and reorder no datagram and no frame while both run, and neither
\* sleeps on something the other has handed it.
THEOREM PairKeepsEverything == PairSpec => []PairInv
<1>1. TunnelFacts /\ SocketFacts /\ Linked => PairInv
  <2> SUFFICES ASSUME TunnelFacts, SocketFacts, Linked PROVE PairInv
    OBVIOUS
  <2>1. Running => /\ wire \o GoingOut = [k \in 1..arrived |-> k]
                   /\ accepted = Len(handle[0])
                   /\ tunnel = "up" /\ senders = {0}
    BY DatagramsEndToEnd DEF Linked
  <2>2. QED
    BY <2>1, AsleepDone DEF PairInv
<1>2. QED
  BY <1>1, PairFacts, PTL

\* A datagram that the socket puts on the channel is the next of those the tunnel
\* counts, and goes from the front of one queue to the end of the other.
LEMMA DatagramMoves ==
  ASSUME TunnelFacts, SocketFacts, SocketFacts', Linked,
         S!ReadForward, SocketSend
  PROVE  UNCHANGED <<GoingOut, wire>>
<1>1. /\ socket_inbox # <<>> /\ socket_inbox' = Tail(socket_inbox)
      /\ tun' = Append(tun, Head(socket_inbox))
  BY DEF S!ReadForward
<1>2. /\ Head(socket_inbox) \in Messages /\ Tail(socket_inbox) \in Seq(Messages)
      /\ tun \in Seq(Messages) /\ InTransit \in Seq(Messages)
      /\ socket_inbox \in Seq(Messages) /\ sent \in Nat
  BY <1>1, DatagramTypes, HeadTailProperties
<1>3. /\ tun' \in Seq(Messages) /\ Len(tun') = Len(tun) + 1
      /\ tun'[Len(tun) + 1] = Head(socket_inbox)
  BY <1>1, <1>2, AppendProperties
<1>4. \A k \in DOMAIN tun' : tun'[k] = k
  BY DEF SocketFacts, SP!IInv, SP!DatagramsInOrder
<1>5. Head(socket_inbox) = sent + 1
  <2>1. Len(tun) + 1 \in DOMAIN tun' /\ sent = Len(tun)
    BY <1>2, <1>3 DEF Linked
  <2> QED BY <1>3, <1>4, <2>1
<1>6. InTransit' = Append(InTransit, sent + 1) /\ wire' = wire
  <2>1. out_data' = out_data /\ message' = message /\ rx' = Append(rx, sent + 1)
        /\ wire' = wire
    BY DEF SocketSend, outVars, slotVars
  <2>2. rx \in Seq(Messages) /\ out_data \o InHand \in Seq(Messages)
    BY TransitTypes DEF TunnelFacts, IInv, TypeOK
  <2>3. sent + 1 \in Messages
    BY <1>2, <1>5
  <2>4. (out_data \o InHand) \o Append(rx, sent + 1)
           = Append((out_data \o InHand) \o rx, sent + 1)
    BY <2>2, <2>3, AppendToConcat
  <2> QED BY <2>1, <2>4 DEF InTransit, InHand
<1>7. Append(InTransit, Head(socket_inbox)) \o Tail(socket_inbox)
        = InTransit \o socket_inbox
  BY <1>1, <1>2, HeadMoves
<1> QED BY <1>1, <1>5, <1>6, <1>7 DEF GoingOut

\* Each step takes the datagrams of the game on their way from the game to the
\* connection: one arrives, the first is flushed, or one is lost with a socket that
\* finds the tunnel gone.
LEMMA StepGoingOut ==
  ASSUME TunnelFacts, SocketFacts, SocketFacts', Linked, [PairNext]_pairVars
  PROVE  [GameToServer!Next]_(GameToServer!vars)
<1> DEFINE p == InTransit
           q == socket_inbox
<1>1. p \in Seq(Messages) /\ q \in Seq(Messages) /\ wire \in Seq(Messages)
  BY DatagramTypes
<1>2. ASSUME UNCHANGED <<InTransit, wire, socket_inbox>>
      PROVE  UNCHANGED GameToServer!vars
  BY <1>2 DEF GameToServer!vars, GoingOut
<1>3. CASE TunnelStep
  <2>1. TaskStep /\ IInv /\ TypeOK
    BY <1>3 DEF TunnelStep, TunnelFacts, IInv
  <2>2. socket_inbox' = socket_inbox
    BY <1>3 DEF TunnelStep, S!TunnelGone, S!TunnelSend, socketVars, S!sockVars
  <2>3. UNCHANGED sent /\ sent # sent + 1
    <3>1. sent \in Nat
      BY DatagramTypes
    <3> QED BY <2>1, <3>1, TunnelTask
  <2>4. \/ /\ p # <<>> /\ wire' = Append(wire, Head(p)) /\ p' = Tail(p)
        \/ UNCHANGED <<p, wire>>
    <3>1. [Next]_vars
      BY <2>1 DEF Next
    <3> HIDE DEF p
    <3> QED BY <2>1, <2>3, <3>1, StepTransit DEF p
  <2>5. CASE p # <<>> /\ wire' = Append(wire, Head(p)) /\ p' = Tail(p)
    <3>1. /\ p \o q # <<>> /\ Head(p \o q) = Head(p)
          /\ Tail(p \o q) = Tail(p) \o q
      BY <1>1, <2>5, FrontLeaves
    <3>2. GameToServer!Deliver
      BY <2>2, <2>5, <3>1 DEF GameToServer!Deliver, GoingOut
    <3> QED BY <3>2 DEF GameToServer!Next
  <2> QED BY <1>2, <2>2, <2>4, <2>5
<1>4. CASE SocketStep
  <2>1. S!TaskStep
    BY <1>4 DEF SocketStep
  <2>2. \/ S!ReadForward
        \/ tun' = tun /\ socket_inbox # <<>> /\ socket_inbox' = Tail(socket_inbox)
        \/ tun' = tun /\ socket_inbox' = socket_inbox
    BY <2>1
    DEF S!TaskStep, S!Poll, S!WriteStep, S!WriteRecv, S!WriteRecvPending,
        S!WriteRecvClosed, S!WriteSend, S!WriteSendPending, S!WriteSendError,
        S!ReadStep, S!ReadForward, S!ReadClosed, S!ReadError, S!ReadPending,
        S!sockVars
  <2>3. CASE S!ReadForward
    <3>1. tun' # tun
      <4>1. /\ tun' = Append(tun, Head(socket_inbox)) /\ socket_inbox # <<>>
            /\ tun \in Seq(Messages) /\ Head(socket_inbox) \in Messages
        BY <1>1, <2>3, DatagramTypes, HeadTailProperties DEF S!ReadForward
      <4>2. Len(tun') = Len(tun) + 1 /\ Len(tun) \in Nat
        BY <4>1, AppendProperties
      <4> QED BY <4>2
    <3>2. SocketSend
      BY <1>4, <3>1 DEF SocketStep
    <3>3. UNCHANGED <<GoingOut, wire>>
      BY <2>3, <3>2, DatagramMoves
    <3> QED BY <3>3 DEF GameToServer!vars
  <2>4. CASE tun' = tun
    <3>1. UNCHANGED <<p, wire>>
      BY <1>4, <2>4
      DEF SocketStep, SocketEnd, vars, slotVars, chanVars, outVars, InTransit, InHand
    <3>2. CASE socket_inbox # <<>> /\ socket_inbox' = Tail(socket_inbox)
      <4>1. /\ 1 \in 1..Len(q)
            /\ SubSeq(q, 1, 1 - 1) \o SubSeq(q, 1 + 1, Len(q)) = Tail(q)
        <5>1. 1 - 1 = 0 /\ 1 + 1 = 2
          OBVIOUS
        <5> QED BY <1>1, <3>2, <5>1, WithoutFirst
      <4> DEFINE k == Len(p) + 1
                 r == p \o q
      <4>2. /\ k \in 1..Len(r)
            /\ p \o Tail(q) = SubSeq(r, 1, k - 1) \o SubSeq(r, k + 1, Len(r))
        <5>1. 1 <= 1
          OBVIOUS
        <5> QED BY <1>1, <4>1, <5>1, LossBehind
      <4>3. k <= k
        <5>1. Len(p) \in Nat
          BY <1>1
        <5> QED BY <5>1
      <4>4. GoingOut = r /\ GoingOut' = p \o Tail(q)
        BY <3>1, <3>2 DEF GoingOut
      <4> HIDE DEF k, r, p, q
      <4>5. GameToServer!Lose
        BY <3>1, <4>2, <4>3, <4>4, Zenon DEF GameToServer!Lose
      <4> QED BY <4>5 DEF GameToServer!Next
    <3>3. CASE socket_inbox' = socket_inbox
      BY <1>2, <3>1, <3>3
    <3> QED BY <2>2, <2>3, <3>2, <3>3
  <2> QED BY <2>2, <2>3, <2>4
<1>5. CASE Outside
  <2>1. UNCHANGED <<p, wire>>
    BY <1>5
    DEF Outside, ServerSend, ServerClose, ConnectionLost, Drain, vars, slotVars,
        chanVars, outVars, InTransit, InHand
  <2>2. \/ S!GameSend
        \/ socket_inbox' = socket_inbox
    BY <1>5
    DEF Outside, socketVars, S!Unreachable, S!Drain
  <2>3. CASE S!GameSend
    <3>1. q' = Append(q, arrived + 1) /\ arrived < MaxSent
      BY <2>3 DEF S!GameSend
    <3>2. arrived + 1 \in Messages
      <4>1. arrived \in Nat
        BY BoundAssumption DEF SocketFacts, SP!IInv, SP!TypeOK
      <4> QED BY <3>1, <4>1, BoundAssumption DEF Messages
    <3>3. p \o Append(q, arrived + 1) = Append(p \o q, arrived + 1)
      BY <1>1, <3>2, AppendToConcat
    <3>4. GoingOut' = Append(GoingOut, arrived + 1)
      BY <2>1, <3>1, <3>3 DEF GoingOut
    <3>5. GameToServer!Accept
      BY <2>1, <3>2, <3>4 DEF GameToServer!Accept
    <3> QED BY <3>5 DEF GameToServer!Next
  <2> QED BY <1>2, <2>1, <2>2, <2>3
<1>6. CASE UNCHANGED pairVars
  <2>1. UNCHANGED <<p, wire, socket_inbox>>
    BY <1>6 DEF pairVars, vars, slotVars, chanVars, outVars, socketVars, InTransit, InHand
  <2> QED BY <1>2, <2>1
<1> QED BY <1>3, <1>4, <1>5, <1>6 DEF PairNext

\* The frames whose bytes the game has are the first that were put on the channel.
ReachedFirst ==
    /\ handle[0] \in Seq(Frames) /\ Incoming(0) \in Seq(Frames)
    /\ Reached \in Seq(Frames) /\ Len(Reached) = Len(game) \div LENGTH
    /\ Len(Reached) \in 0..Len(handle[0])
    /\ \A k \in 1..Len(Reached) : Reached[k] = handle[0][k]
    /\ ComingIn = StillToCome(handle[0], Len(Reached), Incoming(0))

\* The socket's bytes and the link between the tasks give it.
LEMMA ReachedTypes ==
  ASSUME TunnelFacts, SocketFacts, Linked
  PROVE  ReachedFirst
<1> DEFINE n == Len(game) \div LENGTH
<1>1. 0 \in Pool
  BY OneSocket DEF Pool
<1>2. handle[0] \in Seq(Frames) /\ Incoming(0) \in Seq(Frames)
  BY <1>1, IncomingTypes DEF TunnelFacts, IInv, TypeOK
<1>3. n \in 0..Len(handle[0])
  <2>1. SP!TypeOK /\ SP!BytesInv
    BY DEF SocketFacts, SP!IInv
  <2>2. n \in 0..accepted
    BY <2>1, MessageLength, BoundAssumption, SP!WholeMessages
  <2> QED BY <2>2 DEF Linked
<1>4. Reached = [k \in 1..n |-> handle[0][k]]
  BY DEF Reached
<1> HIDE DEF n
<1>5. \A k \in 1..n : handle[0][k] \in Frames
  BY <1>2, <1>3, ElementOfSeq
<1>6. /\ Reached \in Seq(Frames) /\ Len(Reached) = n
      /\ \A k \in 1..n : Reached[k] = handle[0][k]
  BY <1>3, <1>4, <1>5
<1> QED BY <1>2, <1>3, <1>6 DEF ReachedFirst, ComingIn, StillToCome, n

\* While the game's bytes stay, a frame that arrives goes behind those on their
\* way, one that is put on the channel stays where it was among them, and one that
\* is lost is lost from them.
LEMMA TunnelComingIn ==
  ASSUME TunnelFacts, ReachedFirst, ReachedFirst', UNCHANGED game, [Next]_vars
  PROVE  [ServerToGame!Next]_(ServerToGame!vars)
<1> DEFINE h == handle[0]
           p == Incoming(0)
           n == Len(Reached)
<1>1. /\ h \in Seq(Frames) /\ p \in Seq(Frames) /\ n \in 0..Len(h) /\ n \in Nat
      /\ Reached \in Seq(Frames) /\ \A k \in 1..n : Reached[k] = h[k]
      /\ ComingIn = StillToCome(h, n, p)
  BY DEF ReachedFirst
<1>2. /\ Reached' \in Seq(Frames) /\ Len(Reached') = n
      /\ \A k \in 1..n : Reached'[k] = h'[k]
      /\ ComingIn' = StillToCome(h', n, p')
  <2>1. Len(Reached') = n
    BY DEF ReachedFirst
  <2>2. /\ Reached' \in Seq(Frames)
        /\ \A k \in 1..Len(Reached') : Reached'[k] = h'[k]
        /\ ComingIn' = StillToCome(h', Len(Reached'), p')
    BY DEF ReachedFirst, StillToCome
  <2> QED BY <2>1, <2>2
<1>3. ASSUME \A k \in 1..n : h'[k] = h[k] PROVE Reached' = Reached
  BY <1>1, <1>2, <1>3, SeqEqual
<1>4. [In(0)!Next]_(In(0)!vars) \/ LossyIn(0)!Lose
  <2>1. 0 \in Pool
    BY OneSocket DEF Pool
  <2> QED BY <2>1, StepIncoming DEF TunnelFacts, InStep
<1>5. CASE In(0)!Accept
  <2>1. h' = h /\ \E m \in Frames : p' = Append(p, m)
    BY <1>5 DEF In!Accept
  <2>2. PICK m \in Frames : p' = Append(p, m)
    BY <2>1
  <2>3. ComingIn' = Append(ComingIn, m) /\ Reached' = Reached
    <3>1. StillToCome(h, n, Append(p, m)) = Append(StillToCome(h, n, p), m)
      <4>1. h \in Seq(Frames) /\ p \in Seq(Frames) /\ n \in 0..Len(h)
        BY <1>1
      <4> HIDE DEF h, p, n
      <4> QED BY <4>1, JoinsQueue
    <3> QED BY <1>1, <1>2, <1>3, <2>1, <2>2, <3>1
  <2>4. ServerToGame!Accept
    BY <2>3 DEF ServerToGame!Accept
  <2> QED BY <2>4 DEF ServerToGame!Next
<1>6. CASE In(0)!Deliver
  <2>1. p # <<>> /\ h' = Append(h, Head(p)) /\ p' = Tail(p)
    BY <1>6 DEF In!Deliver
  <2>2. /\ StillToCome(Append(h, Head(p)), n, Tail(p)) = StillToCome(h, n, p)
        /\ \A k \in 1..n : Append(h, Head(p))[k] = h[k]
    BY <1>1, <2>1, MovesOn
  <2>3. ComingIn' = ComingIn /\ Reached' = Reached
    BY <1>1, <1>2, <1>3, <2>1, <2>2
  <2> QED BY <2>3 DEF ServerToGame!vars
<1>7. CASE LossyIn(0)!Lose
  <2>1. h' = h
    BY <1>7 DEF LossyIn!Lose
  <2>2. PICK i \in 1..Len(p), j \in 1..Len(p) :
          /\ i <= j
          /\ p' = SubSeq(p, 1, i - 1) \o SubSeq(p, j + 1, Len(p))
    BY <1>7 DEF LossyIn!Lose
  <2>3. ComingIn' = StillToCome(h, n, p') /\ Reached' = Reached
    BY <1>1, <1>2, <1>3, <2>1
  <2>4. \E a, b \in 1..Len(ComingIn) :
           /\ a <= b
           /\ ComingIn' = SubSeq(ComingIn, 1, a - 1)
                             \o SubSeq(ComingIn, b + 1, Len(ComingIn))
    <3> DEFINE c == ComingIn
    <3>1. /\ h \in Seq(Frames) /\ p \in Seq(Frames) /\ n \in 0..Len(h)
          /\ c = StillToCome(h, n, p)
      BY <1>1
    <3>2. ComingIn' = StillToCome(h, n, SubSeq(p, 1, i - 1)
                                          \o SubSeq(p, j + 1, Len(p)))
      BY <2>2, <2>3
    <3> HIDE DEF h, p, n, c
    <3>3. \E a, b \in 1..Len(c) :
             /\ a <= b
             /\ StillToCome(h, n, SubSeq(p, 1, i - 1) \o SubSeq(p, j + 1, Len(p)))
                  = SubSeq(c, 1, a - 1) \o SubSeq(c, b + 1, Len(c))
      BY <2>2, <3>1, LostOnTheWay
    <3> QED BY <3>2, <3>3 DEF c
  <2>5. ServerToGame!Lose
    BY <2>3, <2>4, Zenon DEF ServerToGame!Lose
  <2> QED BY <2>5 DEF ServerToGame!Next
<1>8. CASE UNCHANGED In(0)!vars
  <2>1. h' = h /\ p' = p
    BY <1>8 DEF In!vars
  <2>2. ComingIn' = ComingIn /\ Reached' = Reached
    BY <1>1, <1>2, <1>3, <2>1
  <2> QED BY <2>2 DEF ServerToGame!vars
<1> QED BY <1>4, <1>5, <1>6, <1>7, <1>8 DEF In!Next, In!Lose

\* A send that completes a frame delivers the first of those on their way.
LEMMA SocketComingIn ==
  ASSUME SocketFacts, ReachedFirst, ReachedFirst',
         S!WriteSend, UNCHANGED <<handle, inbox>>
  PROVE  [ServerToGame!Next]_(ServerToGame!vars)
<1> DEFINE h == handle[0]
           p == Incoming(0)
           n == Len(Reached)
           m == Len(Reached')
<1>1. /\ h \in Seq(Frames) /\ p \in Seq(Frames) /\ n \in 0..Len(h) /\ n \in Nat
      /\ Reached \in Seq(Frames) /\ \A k \in 1..n : Reached[k] = h[k]
      /\ ComingIn = StillToCome(h, n, p) /\ n = Len(game) \div LENGTH
  BY DEF ReachedFirst
<1>2. h' = h /\ p' = p
  BY DEF Incoming
<1>3. /\ m \in 0..Len(h) /\ Reached' \in Seq(Frames)
      /\ \A k \in 1..m : Reached'[k] = h[k]
      /\ ComingIn' = StillToCome(h, m, p)
      /\ m = Len(game') \div LENGTH
  <2>1. /\ m \in 0..Len(h') /\ Reached' \in Seq(Frames)
        /\ \A k \in 1..m : Reached'[k] = h'[k]
        /\ ComingIn' = StillToCome(h', m, p')
        /\ m = Len(game') \div LENGTH
    BY DEF ReachedFirst, StillToCome
  <2> QED BY <1>2, <2>1
<1>4. m \in {n, n + 1}
  <2>1. SP!TypeOK /\ SP!WriteSend
    BY DEF SocketFacts, SP!IInv, S!WriteSend, SP!WriteSend, S!Ready, SP!Ready,
           S!chanVars, SP!chanVars
  <2>2. Len(game') \div LENGTH \in {Len(game) \div LENGTH, (Len(game) \div LENGTH) + 1}
    BY <2>1, MessageLength, BoundAssumption, SP!SendCompletes
  <2> QED BY <1>1, <1>3, <2>2
<1>5. CASE m = n
  <2>1. Reached' = Reached
    BY <1>1, <1>3, <1>5, SeqEqual
  <2>2. ComingIn' = ComingIn
    BY <1>1, <1>3, <1>5
  <2> QED BY <2>1, <2>2 DEF ServerToGame!vars
<1>6. CASE m = n + 1
  <2>1. n \in 0..(Len(h) - 1)
    BY <1>1, <1>3, <1>6
  <2>2. /\ ComingIn # <<>> /\ Reached' = Append(Reached, Head(ComingIn))
        /\ ComingIn' = Tail(ComingIn)
    <3> DEFINE c == Reached
               d == Reached'
    <3>1. /\ h \in Seq(Frames) /\ p \in Seq(Frames)
          /\ c \in Seq(Frames) /\ Len(c) = n /\ \A k \in 1..n : c[k] = h[k]
      BY <1>1
    <3>2. /\ d \in Seq(Frames) /\ Len(d) = n + 1
          /\ \A k \in 1..(n + 1) : d[k] = h[k]
      BY <1>3, <1>6
    <3> HIDE DEF h, p, n, c, d
    <3>3. /\ StillToCome(h, n, p) # <<>>
          /\ Head(StillToCome(h, n, p)) = h[n + 1]
          /\ StillToCome(h, n + 1, p) = Tail(StillToCome(h, n, p))
      BY <2>1, <3>1, ComesNext
    <3>4. d = Append(c, h[n + 1])
      BY <2>1, <3>1, <3>2, OneMore
    <3> QED BY <1>1, <1>3, <1>6, <3>3, <3>4 DEF c, d
  <2>3. ServerToGame!Deliver
    BY <2>2 DEF ServerToGame!Deliver
  <2> QED BY <2>3 DEF ServerToGame!Next
<1> QED BY <1>4, <1>5, <1>6

\* Each step takes the frames for the socket on their way from the connection to
\* the game.
LEMMA StepComingIn ==
  ASSUME TunnelFacts, SocketFacts, ReachedFirst, ReachedFirst', [PairNext]_pairVars
  PROVE  [ServerToGame!Next]_(ServerToGame!vars)
<1>1. ASSUME UNCHANGED game, [Next]_vars
      PROVE  [ServerToGame!Next]_(ServerToGame!vars)
  BY <1>1, TunnelComingIn
<1>2. CASE TunnelStep
  <2>1. [Next]_vars /\ UNCHANGED game
    BY <1>2 DEF TunnelStep, Next, S!TunnelGone, S!TunnelSend, S!sockVars, socketVars
  <2> QED BY <1>1, <2>1
<1>3. CASE SocketStep
  <2>1. S!TaskStep
    BY <1>3 DEF SocketStep
  <2>2. 0 \in Pool
    BY OneSocket DEF Pool
  <2>3. SocketSend \/ SocketEnd(0) \/ UNCHANGED vars
    BY <1>3 DEF SocketStep
  <2>4. [Next]_vars /\ UNCHANGED <<handle, inbox>>
    BY <2>2, <2>3 DEF Next, Environment, SocketSend, SocketEnd, vars, inVars
  <2>5. S!WriteSend \/ UNCHANGED game
    BY <2>1
    DEF S!TaskStep, S!Poll, S!WriteStep, S!WriteRecv, S!WriteRecvPending,
        S!WriteRecvClosed, S!WriteSendPending, S!WriteSendError,
        S!ReadStep, S!ReadForward, S!ReadClosed, S!ReadError, S!ReadPending,
        S!sockVars
  <2> QED BY <1>1, <2>4, <2>5, SocketComingIn
<1>4. CASE Outside
  <2>1. [Next]_vars /\ UNCHANGED game
    BY <1>4
    DEF Outside, Next, Environment, socketVars, S!GameSend, S!Unreachable, S!Drain
  <2> QED BY <1>1, <2>1
<1>5. CASE UNCHANGED pairVars
  <2>1. UNCHANGED vars /\ UNCHANGED game
    BY <1>5 DEF pairVars, socketVars
  <2> QED BY <1>1, <2>1
<1> QED BY <1>2, <1>3, <1>4, <1>5 DEF PairNext

\* From end to end, the two tasks, the channels between them and the two sockets
\* are a lossy relay each way between the game and the server: what comes out is
\* in order and not repeated, however the polls of the tasks interleave and
\* whichever of them ends first, for any number of messages of any length.
THEOREM RelaysEndToEnd == PairSpec => EndToEnd
<1> DEFINE Facts == TunnelFacts /\ SocketFacts /\ Linked /\ ReachedFirst
<1>1. PairInit => GameToServer!Init /\ ServerToGame!Init
  <2> SUFFICES ASSUME PairInit PROVE GameToServer!Init /\ ServerToGame!Init
    OBVIOUS
  <2>1. /\ out_data = <<>> /\ InHand = <<>> /\ rx = <<>> /\ wire = <<>>
        /\ inbox = <<>> /\ socket_inbox = <<>> /\ game = <<>>
    BY DEF PairInit, Init, S!Init, InHand
  <2>2. handle[0] = <<>>
    <3>1. 0 \in Pool
      BY OneSocket DEF Pool
    <3> QED BY <3>1 DEF PairInit, Init
  <2>3. <<>> \o <<>> = <<>>
    BY EmptySeq, ConcatEmptySeq
  <2>4. GameToServer!Init
    BY <2>1, <2>3 DEF GameToServer!Init, GoingOut, InTransit
  <2>5. Incoming(0) = <<>>
    BY <2>1, SelectedOfNone DEF Incoming
  <2>6. Len(game) = 0 /\ 0 \div LENGTH = 0
    BY <2>1, MessageLength, Z3
  <2>7. Reached = <<>>
    BY <2>6 DEF Reached
  <2>8. ComingIn = <<>>
    <3>1. SubSeq(<<>>, 0 + 1, 0) = <<>> /\ Len(<<>>) = 0
      OBVIOUS
    <3> QED BY <2>2, <2>3, <2>5, <2>7, <3>1 DEF ComingIn
  <2> QED BY <2>4, <2>7, <2>8 DEF ServerToGame!Init
<1>2. Facts /\ Facts' /\ [PairNext]_pairVars
        => /\ [GameToServer!Next]_(GameToServer!vars)
           /\ [ServerToGame!Next]_(ServerToGame!vars)
  BY StepGoingOut, StepComingIn
<1>3. PairSpec => []Facts
  BY PairFacts, ReachedTypes, PTL
<1> HIDE DEF Facts
<1>4. QED
  BY <1>1, <1>2, <1>3, PTL DEF PairSpec, EndToEnd, GameToServer!Spec, ServerToGame!Spec
==============================================================================
