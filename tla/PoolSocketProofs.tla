--------------------------- MODULE PoolSocketProofs ---------------------------
(***************************************************************************)
(* Proofs about PoolSocket for every length of a message and every number   *)
(* of messages and datagrams.                                               *)
(***************************************************************************)
EXTENDS PoolSocket, SequenceLemmas, SequenceTheorems, TLAPS

\* While the task is not woken and its write half has been polled, that half is
\* armed: it waits for a message on an open channel, or for room in the send
\* buffer of a socket without an error.
WritePolled ==
    pc \in {"read", "idle"} /\ ~notified =>
        \/ /\ write_state = "Recv" /\ rx = <<>> /\ tunnel = "up"
           /\ "rx" \in wakers
        \/ /\ write_state = "Write" /\ ~room /\ ~so_error
           /\ "send" \in wakers

\* While the task sleeps, its read half is armed.
ReadPolled == Asleep => inbox = <<>> /\ "recv" \in wakers

\* The inductive invariant.
IInv == TypeOK /\ WritePolled /\ ReadPolled /\ DatagramsInOrder

\* The initial state satisfies the inductive invariant.
LEMMA InitIInv == Init => IInv
<1> SUFFICES ASSUME Init PROVE IInv
  OBVIOUS
<1>1. TypeOK
  <2>1. <<>> \in Seq(Messages) /\ <<>> \in Seq(Datagrams) /\ Len(<<>>) = 0
    BY EmptySeq
  <2>2. 0 <= LENGTH /\ 0 \in 0..MaxMessages /\ 0 \in 0..MaxDatagrams
    BY LengthAssumption, BoundAssumption
  <2>3. QED
    BY <2>1, <2>2 DEF Init, TypeOK
<1>2. WritePolled /\ ReadPolled
  BY DEF Init, WritePolled, ReadPolled, Asleep
<1>3. DatagramsInOrder
  <2>1. <<>> \o <<>> = <<>> /\ <<>> = [k \in 1..0 |-> k]
    BY ConcatEmptySeq, EmptySeq
  <2>2. \A k \in DOMAIN <<>> : FALSE
    OBVIOUS
  <2>3. QED
    BY <2>1, <2>2 DEF Init, DatagramsInOrder
<1>4. QED
  BY <1>1, <1>2, <1>3 DEF IInv

\* Waking keeps the wakers and the mark within their types.
LEMMA WakeTypes ==
  ASSUME TypeOK, NEW S, Wake(S)
  PROVE  wakers' \subseteq {"rx", "send", "recv"} /\ notified' \in BOOLEAN
  BY DEF TypeOK, Wake

\* The bytes of a message.
LEMMA BytesTypes ==
  ASSUME NEW m \in Messages
  PROVE  Bytes(m) \in Seq(Messages) /\ Len(Bytes(m)) = LENGTH
  BY LengthAssumption DEF Bytes

\* A send keeps a part of the message in hand and hands the rest to the socket.
LEMMA WriteSendTypes ==
  ASSUME TypeOK, WriteSend
  PROVE  /\ game' \in Seq(Messages)
         /\ message' \in Seq(Messages) /\ Len(message') <= LENGTH
<1>1. PICK count \in 0..Len(message) :
          /\ game' = game \o SubSeq(message, 1, count)
          /\ message' = SubSeq(message, count + 1, Len(message))
  BY DEF WriteSend
<1>2. /\ message \in Seq(Messages) /\ game \in Seq(Messages)
      /\ Len(message) \in Nat /\ Len(message) <= LENGTH /\ count \in Nat
      /\ count <= Len(message)
  BY <1>1, LenProperties DEF TypeOK
<1>3. \A i \in 1..Len(message) : message[i] \in Messages
  BY <1>2, ElementOfSeq
<1>4. SubSeq(message, 1, count) \in Seq(Messages)
  BY <1>2, <1>3, SubSeqProperties
<1>5. /\ message' \in Seq(Messages)
      /\ Len(message') = IF count + 1 <= Len(message)
                           THEN Len(message) - count ELSE 0
  BY <1>1, <1>2, <1>3, SubSeqProperties
<1>6. QED
  BY <1>1, <1>2, <1>4, <1>5, ConcatProperties, LengthAssumption

\* Every step keeps the state within its types.
LEMMA StepTypeOK == IInv /\ [Next]_vars => TypeOK'
<1> SUFFICES ASSUME IInv, [Next]_vars
             PROVE  TypeOK'
  OBVIOUS
<1> USE LengthAssumption, BoundAssumption
    DEF IInv, TypeOK, Messages, Datagrams, taskVars, slotVars, chanVars,
        sockVars
<1>1. CASE Poll
  BY <1>1 DEF Poll
<1>2. CASE WriteRecv
  <2>1. Head(rx) \in Messages /\ rx' \in Seq(Messages)
    BY <1>2, HeadTailProperties DEF WriteRecv
  <2>2. message' \in Seq(Messages) /\ Len(message') <= LENGTH
    <3>1. message' = Bytes(Head(rx))
      BY <1>2 DEF WriteRecv
    <3>2. Head(rx) \in Messages => Bytes(Head(rx)) \in Seq(Messages)
                                  /\ Len(Bytes(Head(rx))) = LENGTH
      BY BytesTypes
    <3>3. LENGTH <= LENGTH
      OBVIOUS
    <3>4. QED
      BY <2>1, <3>1, <3>2, <3>3
  <2>3. QED
    BY <1>2, <2>1, <2>2 DEF WriteRecv, Ready
<1>3. CASE WriteRecvPending \/ WriteSendPending \/ ReadPending
  BY <1>3 DEF WriteRecvPending, WriteSendPending, ReadPending, Pending,
              OutOfBudget
<1>4. CASE WriteRecvClosed \/ WriteSendError \/ ReadError
  BY <1>4 DEF WriteRecvClosed, WriteSendError, ReadError, Stop
<1>5. CASE WriteSend
  BY <1>5, WriteSendTypes DEF WriteSend, Ready
<1>6. CASE ReadForward
  <2>1. Head(inbox) \in Datagrams /\ inbox' \in Seq(Datagrams)
    BY <1>6, HeadTailProperties DEF ReadForward
  <2>2. tun' \in Seq(Datagrams)
    BY <1>6, <2>1, AppendProperties DEF ReadForward
  <2>3. QED
    BY <1>6, <2>1, <2>2 DEF ReadForward, Ready
<1>7. CASE ReadClosed
  <2>1. inbox' \in Seq(Datagrams)
    BY <1>7, HeadTailProperties DEF ReadClosed
  <2>2. QED
    BY <1>7, <2>1 DEF ReadClosed, Stop
<1>8. CASE TunnelSend
  <2>1. accepted + 1 \in Messages /\ accepted' \in 0..MaxMessages
    BY <1>8 DEF TunnelSend
  <2>2. rx' \in Seq(Messages)
    BY <1>8, <2>1, AppendProperties DEF TunnelSend
  <2>3. QED
    BY <1>8, <2>1, <2>2, WakeTypes DEF TunnelSend
<1>9. CASE GameSend
  <2>1. arrived + 1 \in Datagrams /\ arrived' \in 0..MaxDatagrams
    BY <1>9 DEF GameSend
  <2>2. inbox' \in Seq(Datagrams)
    BY <1>9, <2>1, AppendProperties DEF GameSend
  <2>3. QED
    BY <1>9, <2>1, <2>2, WakeTypes DEF GameSend
<1>10. CASE TunnelGone \/ Unreachable \/ Drain
  <2>1. wakers' \subseteq {"rx", "send", "recv"} /\ notified' \in BOOLEAN
    BY <1>10, WakeTypes DEF TunnelGone, Unreachable, Drain
  <2>2. QED
    BY <1>10, <2>1 DEF TunnelGone, Unreachable, Drain
<1>11. CASE UNCHANGED vars
  BY <1>11 DEF vars
<1>12. QED
  BY <1>1, <1>2, <1>3, <1>4, <1>5, <1>6, <1>7, <1>8, <1>9, <1>10, <1>11
  DEF Next, TaskStep, WriteStep, ReadStep, Environment

\* A source that fires wakes a task that waits for it, and the other sources keep
\* the waker.
LEMMA WakeWakes ==
  ASSUME NEW S, Wake(S), NEW s
  PROVE  /\ s \in S /\ s \in wakers => notified'
         /\ s \notin S /\ s \in wakers => s \in wakers'
         /\ notified => notified'
  BY DEF Wake

\* While the task is not woken, its write half stays armed.
LEMMA StepWritePolled == IInv /\ [Next]_vars => WritePolled'
<1> SUFFICES ASSUME IInv, [Next]_vars
             PROVE  WritePolled'
  OBVIOUS
<1> USE DEF IInv, WritePolled, taskVars, slotVars, chanVars, sockVars
<1>1. CASE Poll \/ WriteRecv \/ WriteSend
  BY <1>1 DEF Poll, WriteRecv, WriteSend, Ready
<1>2. CASE WriteRecvPending \/ WriteSendPending
  BY <1>2 DEF WriteRecvPending, WriteSendPending, Pending, OutOfBudget
<1>3. CASE WriteRecvClosed \/ WriteSendError \/ ReadClosed \/ ReadError
  BY <1>3 DEF WriteRecvClosed, WriteSendError, ReadClosed, ReadError, Stop
<1>4. CASE ReadForward
  BY <1>4 DEF ReadForward, Ready
<1>5. CASE ReadPending
  BY <1>5 DEF ReadPending, Pending, OutOfBudget
<1>6. CASE TunnelSend \/ TunnelGone
  <2>1. /\ Wake({"rx"})
        /\ UNCHANGED <<pc, write_state, room, so_error>>
    BY <1>6 DEF TunnelSend, TunnelGone
  <2>2. QED
    BY <2>1, WakeWakes
<1>7. CASE GameSend
  <2>1. /\ Wake({"recv"})
        /\ UNCHANGED <<pc, write_state, rx, tunnel, room, so_error>>
    BY <1>7 DEF GameSend
  <2>2. QED
    BY <2>1, WakeWakes
<1>8. CASE Unreachable \/ Drain
  <2>1. PICK S \in {{"send"}, {"send", "recv"}} : Wake(S)
    BY <1>8 DEF Unreachable, Drain
  <2>2. UNCHANGED <<pc, write_state, rx, tunnel>>
    BY <1>8 DEF Unreachable, Drain
  <2>3. "send" \in S /\ "rx" \notin S
    BY <2>1
  <2>4. QED
    BY <2>1, <2>2, <2>3, WakeWakes
<1>9. CASE UNCHANGED vars
  BY <1>9 DEF vars
<1>10. QED
  BY <1>1, <1>2, <1>3, <1>4, <1>5, <1>6, <1>7, <1>8, <1>9
  DEF Next, TaskStep, WriteStep, ReadStep, Environment

\* While the task sleeps, its read half stays armed.
LEMMA StepReadPolled == IInv /\ [Next]_vars => ReadPolled'
<1> SUFFICES ASSUME IInv, [Next]_vars
             PROVE  ReadPolled'
  OBVIOUS
<1> USE DEF IInv, ReadPolled, Asleep, taskVars, sockVars
<1>1. CASE ReadPending
  BY <1>1 DEF ReadPending, Pending, OutOfBudget
<1>2. CASE TaskStep /\ ~ReadPending
  BY <1>2
  DEF TaskStep, Poll, WriteStep, WriteRecv, WriteRecvPending, WriteRecvClosed,
      WriteSend, WriteSendPending, WriteSendError, ReadStep, ReadForward,
      ReadClosed, ReadError, Ready, Pending, OutOfBudget, Stop
<1>3. CASE GameSend
  <2>1. Wake({"recv"}) /\ pc' = pc
    BY <1>3 DEF GameSend
  <2>2. QED
    BY <2>1, WakeWakes
<1>4. CASE TunnelSend \/ TunnelGone \/ Unreachable \/ Drain
  <2>1. PICK S : Wake(S)
    BY <1>4 DEF TunnelSend, TunnelGone, Unreachable, Drain
  <2>2. UNCHANGED <<pc, inbox>>
    BY <1>4 DEF TunnelSend, TunnelGone, Unreachable, Drain
  <2>3. QED
    BY <2>1, <2>2, WakeWakes
<1>5. CASE UNCHANGED vars
  BY <1>5 DEF vars
<1>6. QED
  BY <1>1, <1>2, <1>3, <1>4, <1>5 DEF Next, Environment

\* No step of a running task loses, repeats or reorders a datagram, and one that
\* has ended forwards none.
LEMMA StepDatagramsInOrder == IInv /\ [Next]_vars => DatagramsInOrder'
<1> SUFFICES ASSUME IInv, [Next]_vars
             PROVE  DatagramsInOrder'
  OBVIOUS
<1>1. /\ tun \in Seq(Datagrams) /\ inbox \in Seq(Datagrams)
      /\ arrived \in Nat
  BY BoundAssumption DEF IInv, TypeOK
<1> USE DEF IInv, DatagramsInOrder, sockVars
<1>2. CASE ReadForward
  <2>1. Head(inbox) \in Datagrams /\ Tail(inbox) \in Seq(Datagrams)
    BY <1>1, <1>2, HeadTailProperties DEF ReadForward
  <2>2. tun' \in Seq(Datagrams) /\ inbox' \in Seq(Datagrams)
    BY <1>1, <1>2, <2>1, AppendProperties DEF ReadForward
  <2>3. tun' \o inbox' = [k \in 1..arrived |-> k]
    <3>1. Append(tun, Head(inbox)) \o Tail(inbox) = tun \o inbox
      BY <1>1, <1>2, HeadMoves DEF ReadForward
    <3>2. tun \o inbox = [k \in 1..arrived |-> k]
      BY <1>2 DEF ReadForward
    <3>3. tun' = Append(tun, Head(inbox)) /\ inbox' = Tail(inbox)
      BY <1>2 DEF ReadForward
    <3>4. QED
      BY <3>1, <3>2, <3>3
  <2>4. \A k \in DOMAIN tun' : tun'[k] = k
    <3>1. SUFFICES ASSUME NEW k \in DOMAIN tun'
                   PROVE  tun'[k] = k
      OBVIOUS
    <3>2. /\ Len(tun') \in Nat /\ Len(inbox') \in Nat
          /\ k \in 1..Len(tun')
      BY <2>2, <3>1, LenProperties
    <3>3. /\ k \in 1..(Len(tun') + Len(inbox'))
          /\ (tun' \o inbox')[k] = tun'[k]
          /\ Len(tun' \o inbox') = Len(tun') + Len(inbox')
      BY <2>2, <3>2, ConcatProperties
    <3>4. Len([j \in 1..arrived |-> j]) = arrived
      BY <1>1
    <3>5. k \in 1..arrived
      BY <1>1, <2>3, <3>3, <3>4
    <3>6. QED
      BY <2>3, <3>3, <3>5
  <2>5. arrived' = arrived
    BY <1>2 DEF ReadForward
  <2>6. QED
    BY <2>3, <2>4, <2>5
<1>3. CASE GameSend
  <2>1. arrived + 1 \in Datagrams
    BY <1>1, <1>3, BoundAssumption DEF GameSend, Datagrams
  <2>2. tun \o Append(inbox, arrived + 1) = Append(tun \o inbox, arrived + 1)
    BY <1>1, <2>1, AppendToConcat
  <2>3. pc # "done" /\ UNCHANGED <<pc, tun>>
    BY <1>3 DEF GameSend
  <2>4. tun' \o inbox' = [k \in 1..(arrived + 1) |-> k]
    BY <1>1, <1>3, <2>2, CountUp DEF GameSend
  <2>5. QED
    BY <1>3, <2>3, <2>4 DEF GameSend
<1>4. CASE ReadClosed
  BY <1>4 DEF ReadClosed, Stop
<1>5. CASE UNCHANGED <<tun, inbox, arrived>> /\ (pc = "done" => pc' = "done")
  BY <1>5
<1>6. TaskStep /\ ~ReadForward /\ ~ReadClosed =>
          UNCHANGED <<tun, inbox, arrived>> /\ pc # "done"
  BY DEF TaskStep, Poll, WriteStep, WriteRecv, WriteRecvPending,
         WriteRecvClosed, WriteSend, WriteSendPending, WriteSendError,
         ReadStep, ReadError, ReadPending
<1>7. Environment /\ ~GameSend => UNCHANGED <<tun, inbox, arrived, pc>>
  BY DEF Environment, TunnelSend, TunnelGone, Unreachable, Drain
<1>8. QED
  BY <1>2, <1>3, <1>4, <1>5, <1>6, <1>7 DEF Next, vars, taskVars

\* The invariant is inductive.
LEMMA Invariance == Spec => []IInv
<1>1. IInv /\ [Next]_vars => IInv'
  BY StepTypeOK, StepWritePolled, StepReadPolled, StepDatagramsInOrder
  DEF IInv
<1>2. QED
  BY InitIInv, <1>1, PTL DEF Spec

\* A socket never sleeps on a message, a datagram or a closed channel it could
\* act on, whatever cuts poll_send makes, and forwards every datagram of the
\* game once and in order.
THEOREM SocketNeverStranded == Spec => []Inv
<1>1. IInv => Inv
  <2>1. WritePolled /\ ReadPolled => NothingStranded
    BY DEF WritePolled, ReadPolled, Asleep, NothingStranded
  <2>2. QED
    BY <2>1 DEF IInv, Inv
<1>2. QED
  BY Invariance, <1>1, PTL
------------------------------------------------------------------------------
(* The bytes that reach the game *)

\* Of the bytes the tunnel sends, counted from 0, the message a byte is of.
Owner(position) == position \div LENGTH + 1

\* Messages that have left the channel.
Taken == accepted - Len(rx)

\* What a byte of the game or of the message in hand is, how many there are, and
\* what the channel holds.
GameBytes    == \A k \in 1..Len(game) : game[k] = Owner(k - 1)
MessageBytes == \A k \in 1..Len(message) :
                    message[k] = Owner(Len(game) + k - 1)
Counted      == /\ Len(game) + Len(message) = LENGTH * Taken
                /\ write_state = "Recv" => message = <<>>
Queued       == /\ Len(rx) <= accepted
                /\ \A k \in 1..Len(rx) : rx[k] = Taken + k

BytesInv == GameBytes /\ MessageBytes /\ Counted /\ Queued

\* A natural number is its quotient times the divisor plus its remainder.
LEMMA QuotientRemainder ==
  ASSUME NEW d \in Nat \ {0}, NEW n \in Nat
  PROVE  /\ n \div d \in Nat /\ n % d \in 0..(d - 1)
         /\ n = d * (n \div d) + (n % d)
  BY Z3

\* A larger multiple is larger by the divisor at least.
LEMMA MultiplesApart ==
  ASSUME NEW d \in Nat \ {0}, NEW a \in Nat, NEW b \in Nat, a < b
  PROVE  d * a + d <= d * b
<1>1. PICK c \in Nat : b = a + 1 + c
  <2>1. b - a - 1 \in Nat /\ b = a + 1 + (b - a - 1)
    OBVIOUS
  <2>2. QED
    BY <2>1
<1>2. d * b = d * a + d + d * c
  BY <1>1, Z3
<1>3. d * c >= 0
  BY Z3
<1>4. QED
  BY <1>2, <1>3

\* Quotient and remainder are the only ones.
LEMMA QuotientUnique ==
  ASSUME NEW d \in Nat \ {0}, NEW q \in Nat, NEW r \in 0..(d - 1)
  PROVE  (d * q + r) \div d = q /\ (d * q + r) % d = r
<1> DEFINE n  == d * q + r
           q2 == n \div d
           r2 == n % d
<1>1. d * q \in Nat
  BY Z3
<1>2. n \in Nat
  BY <1>1
<1> HIDE DEF n
<1>3. q2 \in Nat /\ r2 \in 0..(d - 1) /\ n = d * q2 + r2
  BY <1>2, QuotientRemainder
<1> HIDE DEF q2, r2
<1>4. d * q + r = d * q2 + r2
  BY <1>3 DEF n
<1>5. ~(q2 < q) /\ ~(q < q2)
  BY <1>3, <1>4, MultiplesApart
<1>6. q2 = q /\ r2 = r
  BY <1>3, <1>4, <1>5
<1>7. QED
  BY <1>6 DEF q2, r2, n

\* The lengths and counts are numbers.
LEMMA BytesTyped ==
  ASSUME TypeOK
  PROVE  /\ Len(game) \in Nat /\ Len(message) \in Nat /\ Len(rx) \in Nat
         /\ accepted \in Nat /\ LENGTH \in Nat \ {0}
         /\ game \in Seq(Messages) /\ message \in Seq(Messages)
         /\ rx \in Seq(Messages)
  BY LenProperties, LengthAssumption, BoundAssumption DEF TypeOK

\* Taking a message from the channel puts the next LENGTH bytes in hand.
LEMMA WriteRecvBytes ==
  ASSUME TypeOK, BytesInv, WriteRecv
  PROVE  BytesInv'
<1>1. /\ message = <<>> /\ Len(message) = 0 /\ rx # <<>> /\ rx' = Tail(rx)
      /\ message' = Bytes(Head(rx)) /\ write_state' = "Write"
      /\ UNCHANGED <<game, accepted>>
  BY EmptySeq DEF WriteRecv, BytesInv, Counted, sockVars
<1>2. /\ Len(rx') = Len(rx) - 1 /\ Len(rx) >= 1
      /\ \A k \in 1..Len(rx') : rx'[k] = rx[k + 1]
      /\ Head(rx) = rx[1]
  BY <1>1, BytesTyped, HeadTailProperties, EmptySeq
<1>3. Taken \in Nat /\ Taken' = Taken + 1 /\ Head(rx) = Taken + 1
  BY <1>1, <1>2, BytesTyped DEF Taken, BytesInv, Queued
<1>4. Len(message') = LENGTH
  BY <1>1, LengthAssumption DEF Bytes
<1>5. Len(game) = LENGTH * Taken
  BY <1>1, BytesTyped DEF BytesInv, Counted
<1>6. GameBytes'
  BY <1>1 DEF BytesInv, GameBytes
<1>7. MessageBytes'
  <2>1. SUFFICES ASSUME NEW k \in 1..Len(message')
                 PROVE  message'[k] = Owner(Len(game) + k - 1)
    BY <1>1 DEF MessageBytes
  <2>2. k \in 1..LENGTH /\ k - 1 \in 0..(LENGTH - 1)
    BY <1>4, <2>1, LengthAssumption
  <2>3. message'[k] = Taken + 1
    BY <1>1, <1>3, <2>2 DEF Bytes
  <2>4. (LENGTH * Taken + (k - 1)) \div LENGTH = Taken
    BY <1>3, <2>2, QuotientUnique, LengthAssumption
  <2>5. Len(game) + k - 1 = LENGTH * Taken + (k - 1)
    BY <1>5, <2>2, BytesTyped
  <2>6. QED
    BY <2>3, <2>4, <2>5 DEF Owner
<1>8. Counted'
  <2>1. LENGTH * (Taken + 1) = LENGTH * Taken + LENGTH
    BY <1>3, BytesTyped, Z3
  <2>2. QED
    BY <1>1, <1>3, <1>4, <1>5, <2>1, BytesTyped DEF Counted
<1>9. Queued'
  <2>1. \A k \in 1..Len(rx') : rx'[k] = Taken + (k + 1)
    BY <1>2, BytesTyped DEF BytesInv, Queued
  <2>2. QED
    BY <1>1, <1>2, <1>3, <2>1, BytesTyped DEF BytesInv, Queued
<1>10. QED
  BY <1>6, <1>7, <1>8, <1>9 DEF BytesInv

\* A send moves the first bytes in hand behind those the game has.
LEMMA WriteSendBytes ==
  ASSUME TypeOK, BytesInv, WriteSend
  PROVE  BytesInv'
<1>1. PICK count \in 0..Len(message) :
          /\ game' = game \o SubSeq(message, 1, count)
          /\ message' = SubSeq(message, count + 1, Len(message))
          /\ write_state' = IF count = Len(message) THEN "Recv" ELSE "Write"
  BY DEF WriteSend
<1>2. UNCHANGED <<rx, accepted>> /\ Taken' = Taken
  BY DEF WriteSend, chanVars, Taken
<1>3. count \in Nat /\ count <= Len(message)
  BY <1>1, BytesTyped
<1>4. \A i \in 1..Len(message) : message[i] \in Messages
  BY BytesTyped, ElementOfSeq
<1> DEFINE part == SubSeq(message, 1, count)
<1>5. /\ part \in Seq(Messages) /\ Len(part) = count
      /\ \A i \in 1..count : part[i] = message[i]
  BY <1>3, <1>4, BytesTyped, SubSeqProperties
<1>6. /\ Len(message') = Len(message) - count
      /\ \A i \in 1..Len(message') : message'[i] = message[count + i]
      /\ message' \in Seq(Messages)
  BY <1>1, <1>3, <1>4, BytesTyped, SubSeqProperties
<1> HIDE DEF part
<1>7. /\ Len(game') = Len(game) + count
      /\ \A i \in 1..(Len(game) + count) :
            game'[i] = IF i <= Len(game) THEN game[i] ELSE part[i - Len(game)]
  <2>1. game' = game \o part
    BY <1>1 DEF part
  <2>2. QED
    BY <1>5, <2>1, BytesTyped, ConcatProperties
<1>8. GameBytes'
  <2>1. SUFFICES ASSUME NEW i \in 1..Len(game')
                 PROVE  game'[i] = Owner(i - 1)
    BY DEF GameBytes
  <2>2. CASE i <= Len(game)
    BY <1>3, <1>7, <2>2, BytesTyped DEF BytesInv, GameBytes
  <2>3. CASE i > Len(game)
    <3>1. i - Len(game) \in 1..count
      BY <1>3, <1>7, <2>3, BytesTyped
    <3>2. game'[i] = message[i - Len(game)]
      BY <1>3, <1>5, <1>7, <2>3, <3>1, BytesTyped
    <3>3. message[i - Len(game)] = Owner(Len(game) + (i - Len(game)) - 1)
      BY <1>3, <3>1, BytesTyped DEF BytesInv, MessageBytes
    <3>4. Len(game) + (i - Len(game)) - 1 = i - 1
      BY BytesTyped
    <3>5. QED
      BY <3>2, <3>3, <3>4
  <2>4. QED
    BY <1>7, <2>2, <2>3, BytesTyped
<1>9. MessageBytes'
  <2>1. SUFFICES ASSUME NEW i \in 1..Len(message')
                 PROVE  message'[i] = Owner(Len(game') + i - 1)
    BY DEF MessageBytes
  <2>2. count + i \in 1..Len(message)
    BY <1>3, <1>6, BytesTyped
  <2>3. message[count + i] = Owner(Len(game) + (count + i) - 1)
    BY <2>2 DEF BytesInv, MessageBytes
  <2>4. Len(game) + (count + i) - 1 = Len(game') + i - 1
    BY <1>3, <1>7, BytesTyped
  <2>5. QED
    BY <1>6, <2>3, <2>4
<1>10. Counted'
  <2>1. Len(game') + Len(message') = Len(game) + Len(message)
    BY <1>3, <1>6, <1>7, BytesTyped
  <2>2. write_state' = "Recv" => message' = <<>>
    <3>1. write_state' = "Recv" => Len(message') = 0
      BY <1>1, <1>6, BytesTyped
    <3>2. QED
      BY <1>6, <3>1, EmptySeq
  <2>3. QED
    BY <1>2, <2>1, <2>2 DEF BytesInv, Counted
<1>11. Queued'
  BY <1>2 DEF BytesInv, Queued
<1>12. QED
  BY <1>8, <1>9, <1>10, <1>11 DEF BytesInv

\* A message the tunnel sends goes to the end of the channel.
LEMMA TunnelSendBytes ==
  ASSUME TypeOK, BytesInv, TunnelSend
  PROVE  BytesInv'
<1>1. /\ accepted' = accepted + 1 /\ rx' = Append(rx, accepted + 1)
      /\ UNCHANGED <<game, message, write_state>>
      /\ accepted + 1 \in Messages
  BY BytesTyped, BoundAssumption
  DEF TunnelSend, slotVars, sockVars, Messages
<1>2. /\ Len(rx') = Len(rx) + 1
      /\ \A k \in 1..Len(rx) : rx'[k] = rx[k]
      /\ rx'[Len(rx) + 1] = accepted + 1
  BY <1>1, BytesTyped, AppendProperties
<1>3. Taken' = Taken
  BY <1>1, <1>2, BytesTyped DEF Taken
<1>4. GameBytes' /\ MessageBytes' /\ Counted'
  BY <1>1, <1>3 DEF BytesInv, GameBytes, MessageBytes, Counted
<1>5. Queued'
  <2>1. SUFFICES ASSUME NEW k \in 1..Len(rx')
                 PROVE  rx'[k] = Taken + k
    BY <1>1, <1>2, <1>3, BytesTyped DEF BytesInv, Queued
  <2>2. CASE k \in 1..Len(rx)
    BY <1>2, <2>2 DEF BytesInv, Queued
  <2>3. CASE k = Len(rx) + 1
    BY <1>2, <2>3, BytesTyped DEF Taken
  <2>4. QED
    BY <1>2, <2>2, <2>3, BytesTyped
<1>6. QED
  BY <1>4, <1>5 DEF BytesInv

\* The other steps leave the messages and their bytes alone.
LEMMA StepBytes == TypeOK /\ BytesInv /\ [Next]_vars => BytesInv'
<1> SUFFICES ASSUME TypeOK, BytesInv, [Next]_vars
             PROVE  BytesInv'
  OBVIOUS
<1>1. CASE WriteRecv
  BY <1>1, WriteRecvBytes
<1>2. CASE WriteSend
  BY <1>2, WriteSendBytes
<1>3. CASE TunnelSend
  BY <1>3, TunnelSendBytes
<1>4. CASE UNCHANGED <<write_state, message, rx, accepted, game>>
  BY <1>4
  DEF BytesInv, GameBytes, MessageBytes, Counted, Queued, Taken
<1>5. \/ WriteRecv \/ WriteSend \/ TunnelSend
      \/ UNCHANGED <<write_state, message, rx, accepted, game>>
  BY DEF Next, TaskStep, Poll, WriteStep, WriteRecvPending, WriteRecvClosed,
         WriteSendPending, WriteSendError, ReadStep, ReadForward, ReadClosed,
         ReadError, ReadPending, Environment, TunnelGone, GameSend,
         Unreachable, Drain, vars, slotVars, chanVars, sockVars
<1>6. QED
  BY <1>1, <1>2, <1>3, <1>4, <1>5

\* The counts and the bytes hold in every state.
LEMMA BytesInvariance == Spec => []BytesInv
<1>1. Init => BytesInv
  <2> SUFFICES ASSUME Init PROVE BytesInv
    OBVIOUS
  <2>1. /\ message = <<>> /\ accepted = 0
        /\ Len(game) = 0 /\ Len(message) = 0 /\ Len(rx) = 0
    BY EmptySeq DEF Init
  <2>2. Taken = 0
    <3>1. accepted = 0 /\ Len(rx) = 0
      BY <2>1
    <3>2. QED
      BY <3>1 DEF Taken
  <2>3. LENGTH * 0 = 0
    BY LengthAssumption, Z3
  <2>4. QED
    BY <2>1, <2>2, <2>3
    DEF BytesInv, GameBytes, MessageBytes, Counted, Queued
<1>2. IInv => TypeOK
  BY DEF IInv
<1>3. QED
  BY <1>1, <1>2, StepBytes, Invariance, PTL DEF Spec

\* The game gets the bytes of the messages in the order the tunnel sent them,
\* none lost and none twice, however poll_send cuts a message.
THEOREM BytesReachGame == Spec => []BytesInOrder
<1>1. TypeOK /\ BytesInv => BytesInOrder
  <2> SUFFICES ASSUME TypeOK, BytesInv PROVE BytesInOrder
    OBVIOUS
  <2> DEFINE bytes == Len(game) + Len(message)
             next  == bytes \div LENGTH + 1
  <2>1. Taken \in Nat /\ bytes = LENGTH * Taken
    BY BytesTyped DEF BytesInv, Counted, Queued, Taken
  <2>2. next = Taken + 1 /\ bytes % LENGTH = 0
    <3>1. LENGTH * Taken \in Nat
      BY <2>1, BytesTyped, Z3
    <3>2. LENGTH * Taken + 0 = LENGTH * Taken /\ 0 \in 0..(LENGTH - 1)
      BY <3>1, BytesTyped
    <3>3. (LENGTH * Taken + 0) \div LENGTH = Taken
          /\ (LENGTH * Taken + 0) % LENGTH = 0
      BY <2>1, <3>2, BytesTyped, QuotientUnique
    <3>4. QED
      BY <2>1, <3>2, <3>3
  <2>3. /\ DOMAIN game = 1..Len(game) /\ DOMAIN message = 1..Len(message)
        /\ DOMAIN rx = 1..Len(rx) /\ rx = [k \in 1..Len(rx) |-> rx[k]]
    BY BytesTyped, LenProperties
  <2>4. /\ \A k \in DOMAIN game : game[k] = (k - 1) \div LENGTH + 1
        /\ \A k \in DOMAIN message :
                message[k] = (Len(game) + k - 1) \div LENGTH + 1
    BY <2>3 DEF BytesInv, GameBytes, MessageBytes, Owner
  <2>5. rx = [k \in 1..(accepted + 1 - next) |-> next + k - 1]
    <3>1. accepted + 1 - next = Len(rx)
      BY <2>1, <2>2, BytesTyped DEF Taken
    <3>2. \A k \in 1..Len(rx) : rx[k] = next + k - 1
      BY <2>1, <2>2, BytesTyped DEF BytesInv, Queued
    <3>3. QED
      BY <2>3, <3>1, <3>2
  <2>6. QED
    BY <2>2, <2>4, <2>5 DEF BytesInOrder
<1>2. IInv => TypeOK
  BY DEF IInv
<1>3. QED
  BY <1>1, <1>2, Invariance, BytesInvariance, PTL

\* A socket ends with messages of the tunnel unsent only on an error of the socket,
\* or where it has a datagram that the tunnel no longer takes, for any length and
\* number of messages.
THEOREM QueueDrained == Spec => QueueIsDrained
<1>1. TypeOK /\ BytesInv /\ [Next]_vars =>
         [pc # "done" /\ pc' = "done" =>
             so_error \/ inbox # <<>> \/ Len(game) = LENGTH * accepted]_vars
  <2> SUFFICES ASSUME TypeOK, BytesInv, Next, pc # "done", pc' = "done",
                      ~so_error, inbox = <<>>
               PROVE  Len(game) = LENGTH * accepted
    OBVIOUS
  <2>1. WriteRecvClosed
    BY DEF Next, TaskStep, WriteStep, ReadStep, Environment, Poll, WriteRecv,
           WriteRecvPending, WriteSend, WriteSendPending, WriteSendError,
           ReadForward, ReadClosed, ReadError, ReadPending, TunnelSend, TunnelGone,
           GameSend, Unreachable, Drain, Ready, Pending, OutOfBudget
  <2>2. /\ rx = <<>> /\ message = <<>>
        /\ Len(game) + Len(message) = LENGTH * Taken
    BY <2>1 DEF WriteRecvClosed, BytesInv, Counted
  <2>3. Len(message) = 0 /\ Taken = accepted
    BY <2>2, BytesTyped DEF Taken
  <2> QED BY <2>2, <2>3, BytesTyped
<1>2. IInv => TypeOK
  BY DEF IInv
<1>3. QED
  BY <1>1, <1>2, BytesInvariance, Invariance, PTL DEF Spec, QueueIsDrained

------------------------------------------------------------------------------
(* The messages that have reached the game as a whole *)

\* The messages whose bytes the game has are among those that were put on the
\* channel.
LEMMA WholeMessages ==
  ASSUME TypeOK, BytesInv
  PROVE  Len(game) \div LENGTH \in 0..accepted
<1> DEFINE n == Len(game) \div LENGTH
<1>1. /\ Len(game) \in Nat /\ Len(message) \in Nat /\ Len(rx) \in Nat
      /\ accepted \in Nat /\ LENGTH \in Nat \ {0}
  BY BytesTyped
<1>2. Len(game) + Len(message) = LENGTH * Taken /\ Len(rx) <= accepted
  BY DEF BytesInv, Counted, Queued
<1>3. Taken \in Nat /\ Taken <= accepted
  BY <1>1, <1>2 DEF Taken
<1>4. n \in Nat /\ Len(game) >= LENGTH * n
  <2>1. /\ n \in Nat /\ Len(game) % LENGTH \in 0..(LENGTH - 1)
        /\ Len(game) = LENGTH * n + (Len(game) % LENGTH)
    BY <1>1, QuotientRemainder
  <2>2. LENGTH * n \in Nat
    BY <1>1, <2>1, Z3
  <2> QED BY <1>1, <2>1, <2>2
<1> HIDE DEF n
<1>5. ~(Taken < n)
  <2> SUFFICES ASSUME Taken < n PROVE FALSE
    OBVIOUS
  <2>1. LENGTH * Taken + LENGTH <= LENGTH * n
    BY <1>1, <1>3, <1>4, MultiplesApart
  <2>2. LENGTH * Taken \in Nat /\ LENGTH * n \in Nat
    BY <1>1, <1>3, <1>4, Z3
  <2> QED BY <1>1, <1>2, <1>4, <2>1, <2>2
<1> QED BY <1>1, <1>3, <1>4, <1>5 DEF n

\* A send gives the game the bytes of one message at most, so it completes the
\* next message or none.
LEMMA SendCompletes ==
  ASSUME TypeOK, WriteSend
  PROVE  Len(game') \div LENGTH \in
            {Len(game) \div LENGTH, (Len(game) \div LENGTH) + 1}
<1>1. PICK count \in 0..Len(message) :
         game' = game \o SubSeq(message, 1, count)
  BY DEF WriteSend
<1>2. /\ game \in Seq(Messages) /\ message \in Seq(Messages)
      /\ Len(message) <= LENGTH
  BY DEF TypeOK
<1>3. Len(game) \in Nat /\ Len(message) \in Nat /\ LENGTH \in Nat \ {0}
  BY <1>2, LengthAssumption
<1>4. count \in Nat /\ count <= LENGTH
  BY <1>1, <1>2, <1>3
<1>5. Len(game') = Len(game) + count
  <2>1. /\ SubSeq(message, 1, count) \in Seq(Messages)
        /\ Len(SubSeq(message, 1, count)) = count
    BY <1>1, <1>2
  <2> QED BY <1>1, <1>2, <2>1, ConcatProperties
<1> DEFINE g == Len(game)
           q == g \div LENGTH
           d == (g + count) \div LENGTH
<1>6. /\ q \in Nat /\ g % LENGTH \in 0..(LENGTH - 1)
      /\ g = LENGTH * q + (g % LENGTH)
  BY <1>3, QuotientRemainder
<1>7. /\ d \in Nat /\ (g + count) % LENGTH \in 0..(LENGTH - 1)
      /\ g + count = LENGTH * d + ((g + count) % LENGTH)
  <2>1. g + count \in Nat
    BY <1>3, <1>4
  <2> QED BY <1>3, <2>1, QuotientRemainder
<1> DEFINE r == g % LENGTH
           s == (g + count) % LENGTH
<1>8. g \in Nat /\ r \in 0..(LENGTH - 1) /\ s \in 0..(LENGTH - 1)
      /\ g = LENGTH * q + r /\ g + count = LENGTH * d + s
  BY <1>3, <1>6, <1>7
<1> HIDE DEF g, q, d, r, s
<1>9. LENGTH * q \in Nat /\ LENGTH * d \in Nat
      /\ LENGTH * (q + 1) = LENGTH * q + LENGTH
  BY <1>3, <1>6, <1>7, Z3
<1>10. ~(d < q)
  <2> SUFFICES ASSUME d < q PROVE FALSE
    OBVIOUS
  <2>1. LENGTH * d + LENGTH <= LENGTH * q
    BY <1>3, <1>6, <1>7, MultiplesApart
  <2> QED BY <1>3, <1>4, <1>8, <1>9, <2>1
<1>11. ~(q + 1 < d)
  <2> SUFFICES ASSUME q + 1 < d PROVE FALSE
    OBVIOUS
  <2>1. LENGTH * (q + 1) + LENGTH <= LENGTH * d
    <3>1. q + 1 \in Nat
      BY <1>6
    <3>2. \A k \in Nat : k < d => LENGTH * k + LENGTH <= LENGTH * d
      BY <1>3, <1>7, MultiplesApart
    <3> QED BY <3>1, <3>2
  <2> QED BY <1>3, <1>4, <1>8, <1>9, <2>1
<1>12. d \in {q, q + 1}
  BY <1>6, <1>7, <1>10, <1>11
<1> QED BY <1>5, <1>12 DEF g, q, d
==============================================================================
