--------------------------- MODULE HandshakeProofs ---------------------------
(***************************************************************************)
(* The handshake for every number of attempts, every timeout and delay, and  *)
(* every number of ids and datagrams.                                       *)
(*                                                                          *)
(* EndsInTime and BacksOff are not inductive.  What they need is kept by the *)
(* loop: how many Initiates were sent for the attempts counted, which delay  *)
(* is next, and how much of the time the timer and the clock have used.      *)
(***************************************************************************)
EXTENDS Handshake, SequenceLemmas

\* The time that n attempts may take, with the delays behind them.
Budget(n) == n * HANDSHAKE_TIMEOUT + Delays(n)

\* Whatever claims to be an answer carries an id that the server has issued.
FromServer == {Initiated(id) : id \in issued} \cup Unexpected
InboxFromServer == inbox \in Seq(FromServer)

\* retry_count counts the attempts that are over, and tells the delay.
AttemptsAreCounted ==
    /\ Len(sent) = IF pc \in {"recv", "done"} THEN retry_count + 1 ELSE retry_count
    /\ pc = "sleep" => retry_count > 0
    /\ pc \in {"send", "recv", "done"} => retry_count <= MAX_HANDSHAKE_ATTEMPTS
    /\ retry_delay = DelayAfter[IF pc = "sleep" THEN retry_count - 1
                                                ELSE retry_count]

\* The timer is set to what the attempts so far may take at most, and the clock
\* does not pass it.
TimeIsCounted ==
    /\ pc = "send" => now <= Budget(retry_count)
    /\ pc = "recv" => now <= timer /\ timer <= Budget(retry_count) + HANDSHAKE_TIMEOUT
    /\ pc = "sleep" => now <= timer /\ timer <= Budget(retry_count)
    /\ pc \in {"done", "failed"} => now <= LongestTime

\* A delay begins when its attempt has failed, which is not before its Initiate.
LastAttemptIsApart ==
    /\ pc = "recv" => sent[Len(sent)] <= now
    /\ pc = "sleep" => sent[Len(sent)] + retry_delay <= timer
    /\ pc = "send" /\ sent # <<>> =>
          sent[Len(sent)] + DelayAfter[Len(sent) - 1] <= now

IInv ==
    /\ TypeOK /\ IdWasIssued /\ BacksOff
    /\ InboxFromServer /\ AttemptsAreCounted /\ TimeIsCounted /\ LastAttemptIsApart

------------------------------------------------------------------------------
(* The delays *)

\* The delay doubles from one attempt to the next.
LEMMA DelayDoubles ==
  /\ DelayAfter \in [Nat -> Nat]
  /\ DelayAfter[0] = RETRY_DELAY
  /\ \A n \in Nat : DelayAfter[n + 1] = 2 * DelayAfter[n]
<1> DEFINE F == [n \in Nat |-> [d \in Nat |-> 2 * d]]
           E(f) == f = [n \in Nat |-> IF n = 0 THEN RETRY_DELAY
                                               ELSE 2 * f[n - 1]]
<1>1. RETRY_DELAY \in Nat
  BY HandshakeAssumption
<1>2. F \in [Nat -> [Nat -> Nat]]
  OBVIOUS
<1>3. PICK h : Iterates(h, Nat, RETRY_DELAY, F)
  <2> HIDE DEF F
  <2> QED BY <1>1, <1>2, Recursion
<1>4. /\ h \in [Nat -> Nat] /\ h[0] = RETRY_DELAY
      /\ \A n \in Nat : h[n + 1] = 2 * h[n]
  BY <1>3 DEF Iterates
<1>5. E(h)
  <2>1. h = [n \in Nat |-> h[n]]
    BY <1>4
  <2>2. ASSUME NEW n \in Nat
        PROVE  h[n] = IF n = 0 THEN RETRY_DELAY ELSE 2 * h[n - 1]
    <3>1. CASE n # 0
      <4>1. n - 1 \in Nat /\ (n - 1) + 1 = n
        BY <3>1
      <4>2. QED
        BY <1>4, <3>1, <4>1
    <3>2. QED
      BY <1>4, <3>1
  <2>3. QED
    BY <2>1, <2>2, Zenon
<1>6. E(DelayAfter)
  <2>1. DelayAfter = CHOOSE f : E(f)
    BY DEF DelayAfter
  <2> HIDE DEF E
  <2>2. QED
    BY <1>5, <2>1, Zenon
<1> DEFINE P == {n \in Nat : DelayAfter[n] = h[n]}
<1>7. 0 \in P
  BY <1>4, <1>6
<1>8. ASSUME NEW n \in Nat, n \in P PROVE n + 1 \in P
  <2>1. n + 1 \in Nat /\ n + 1 # 0 /\ (n + 1) - 1 = n
    OBVIOUS
  <2>2. DelayAfter[n + 1] = 2 * DelayAfter[n]
    BY <1>6, <2>1
  <2>3. QED
    BY <1>4, <1>8, <2>1, <2>2
<1>9. \A n \in Nat : n \in P
  <2> HIDE DEF P
  <2> QED BY <1>7, <1>8, Induction
<1>10. DelayAfter = [n \in Nat |-> DelayAfter[n]]
  BY <1>6
<1>11. \A n \in Nat : DelayAfter[n] = h[n]
  BY <1>9
<1>12. QED
  BY <1>4, <1>10, <1>11

\* No delay is below one before it.
LEMMA DelaysGrow ==
  \A n \in Nat : \A m \in 0..n : RETRY_DELAY <= DelayAfter[m] /\ DelayAfter[m] <= DelayAfter[n]
<1> DEFINE P == {n \in Nat : \A m \in 0..n : /\ RETRY_DELAY <= DelayAfter[m]
                                             /\ DelayAfter[m] <= DelayAfter[n]}
<1>1. RETRY_DELAY \in Nat
  BY HandshakeAssumption
<1>2. 0 \in P
  BY <1>1, DelayDoubles
<1>3. ASSUME NEW n \in Nat, n \in P PROVE n + 1 \in P
  <2>1. /\ DelayAfter[n] \in Nat /\ DelayAfter[n + 1] \in Nat
        /\ DelayAfter[n + 1] = 2 * DelayAfter[n]
    BY DelayDoubles
  <2>2. DelayAfter[n] <= DelayAfter[n + 1]
    BY <2>1
  <2>3. ASSUME NEW m \in 0..(n + 1)
        PROVE  /\ RETRY_DELAY <= DelayAfter[m]
               /\ DelayAfter[m] <= DelayAfter[n + 1]
    <3>1. CASE m = n + 1
      <4>1. n \in 0..n
        OBVIOUS
      <4>2. RETRY_DELAY <= DelayAfter[n]
        BY <1>3, <4>1
      <4>3. QED
        BY <1>1, <2>1, <2>2, <3>1, <4>2
    <3>2. CASE m # n + 1
      <4>1. m \in 0..n /\ m \in Nat
        BY <3>2
      <4>2. RETRY_DELAY <= DelayAfter[m] /\ DelayAfter[m] <= DelayAfter[n]
        BY <1>3, <4>1
      <4>3. DelayAfter[m] \in Nat
        BY <4>1, DelayDoubles
      <4>4. QED
        BY <1>1, <2>1, <2>2, <4>2, <4>3
    <3>3. QED
      BY <3>1, <3>2
  <2>4. QED
    BY <2>3
<1>4. \A n \in Nat : n \in P
  <2> HIDE DEF P
  <2> QED BY <1>2, <1>3, Induction
<1>5. QED
  BY <1>4

\* An attempt more takes a timeout and a delay more.
LEMMA BudgetGrows ==
  /\ Budget(0) = 0
  /\ \A n \in Nat :
        /\ Budget(n) \in Nat
        /\ Budget(n + 1) = Budget(n) + HANDSHAKE_TIMEOUT + DelayAfter[n]
<1>1. HANDSHAKE_TIMEOUT \in Nat /\ RETRY_DELAY \in Nat
  BY HandshakeAssumption
<1>2. Budget(0) = 0
  BY <1>1, DelayDoubles DEF Budget, Delays
<1>3. ASSUME NEW n \in Nat
      PROVE  /\ Budget(n) \in Nat
             /\ Budget(n + 1) = Budget(n) + HANDSHAKE_TIMEOUT + DelayAfter[n]
  <2>1. /\ DelayAfter[n] \in Nat
        /\ DelayAfter[n + 1] = 2 * DelayAfter[n]
    BY DelayDoubles
  <2>2. RETRY_DELAY <= DelayAfter[n]
    BY DelaysGrow
  <2>3. /\ n * HANDSHAKE_TIMEOUT \in Nat
        /\ (n + 1) * HANDSHAKE_TIMEOUT = n * HANDSHAKE_TIMEOUT + HANDSHAKE_TIMEOUT
    BY <1>1
  <2> DEFINE t == n * HANDSHAKE_TIMEOUT
             u == (n + 1) * HANDSHAKE_TIMEOUT
  <2>4. t \in Nat /\ u = t + HANDSHAKE_TIMEOUT
    BY <2>3
  <2>5. /\ Budget(n) = t + (DelayAfter[n] - RETRY_DELAY)
        /\ Budget(n + 1) = u + (DelayAfter[n + 1] - RETRY_DELAY)
    BY DEF Budget, Delays
  <2> HIDE DEF t, u
  <2>6. QED
    BY <1>1, <2>1, <2>2, <2>4, <2>5
<1>4. QED
  BY <1>2, <1>3

\* What all attempts may take is the most.
LEMMA BudgetIsBounded ==
  /\ Attempts \in Nat /\ LongestTime = Budget(Attempts)
  /\ \A n \in 0..Attempts : Budget(n) <= LongestTime
<1>1. Attempts \in Nat
  BY HandshakeAssumption DEF Attempts
<1>2. LongestTime = Budget(Attempts)
  BY DEF LongestTime, Budget
<1> DEFINE P == {n \in Nat : \A m \in 0..n : Budget(m) <= Budget(n)}
<1>3. 0 \in P
  BY BudgetGrows
<1>4. ASSUME NEW n \in Nat, n \in P PROVE n + 1 \in P
  <2>1. /\ Budget(n) \in Nat /\ Budget(n + 1) \in Nat
        /\ Budget(n + 1) = Budget(n) + HANDSHAKE_TIMEOUT + DelayAfter[n]
    BY BudgetGrows
  <2>2. DelayAfter[n] \in Nat /\ HANDSHAKE_TIMEOUT \in Nat
    BY DelayDoubles, HandshakeAssumption
  <2>3. ASSUME NEW m \in 0..(n + 1) PROVE Budget(m) <= Budget(n + 1)
    <3>1. CASE m = n + 1
      BY <2>1, <3>1
    <3>2. CASE m # n + 1
      <4>1. m \in 0..n /\ m \in Nat
        BY <3>2
      <4>2. Budget(m) <= Budget(n) /\ Budget(m) \in Nat
        BY <1>4, <4>1, BudgetGrows
      <4>3. QED
        BY <2>1, <2>2, <4>2
    <3>3. QED
      BY <3>1, <3>2
  <2>4. QED
    BY <2>3
<1>5. \A n \in Nat : n \in P
  <2> HIDE DEF P
  <2> QED BY <1>3, <1>4, Induction
<1>6. QED
  BY <1>1, <1>2, <1>5

------------------------------------------------------------------------------
(* Every step keeps the invariant *)

ClientTypes ==
    /\ pc \in {"send", "recv", "sleep", "done", "failed"}
    /\ retry_count \in 0..Attempts
    /\ retry_delay \in {DelayAfter[n] : n \in 0..Attempts}
    /\ last_err \in Errors
    /\ tunnel_id \in 0..MaxIds
    /\ timer \in Nat /\ now \in Nat
    /\ sent \in Seq(Nat)

NetworkTypes ==
    /\ requests \in Nat
    /\ issued \subseteq Ids /\ answers \subseteq issued
    /\ inbox \in Seq(Packets) /\ Len(inbox) <= MaxInbox
    /\ unreachable \in BOOLEAN

\* What the client's part of the invariant is about.
ClientInv ==
    ClientTypes /\ BacksOff /\ AttemptsAreCounted /\ TimeIsCounted /\ LastAttemptIsApart

\* The invariant is the client's part, the network's, and what relates them.
LEMMA PartsOfInvariant ==
  /\ IInv <=> ClientInv /\ NetworkTypes /\ InboxFromServer /\ IdWasIssued
  /\ IInv' <=> (ClientInv /\ NetworkTypes /\ InboxFromServer /\ IdWasIssued)'
BY DEF IInv, TypeOK, ClientInv, ClientTypes, NetworkTypes

\* Nothing but the client and the clock disturbs the client's part.
LEMMA ClientStays ==
  ASSUME ClientInv, UNCHANGED <<client, now>>
  PROVE  ClientInv'
BY DEF ClientInv, ClientTypes, BacksOff, AttemptsAreCounted, TimeIsCounted,
       LastAttemptIsApart, client

\* What the assumptions say of each constant.
LEMMA Bounds ==
  /\ MAX_HANDSHAKE_ATTEMPTS \in Nat
  /\ HANDSHAKE_TIMEOUT \in Nat /\ RETRY_DELAY \in Nat
  /\ Attempts \in Nat /\ Attempts = MAX_HANDSHAKE_ATTEMPTS + 1
BY HandshakeAssumption DEF Attempts

\* An attempt that fails while its answer is awaited, for whatever reason: it
\* has taken its timeout at most, and the delay begins.
LEMMA AwaitedAttemptFails ==
  ASSUME ClientInv, pc = "recv", NEW err \in Errors, AttemptFails(err),
         UNCHANGED <<sent, now>>
  PROVE  ClientInv'
<1> DEFINE n == retry_count
           d == DelayAfter[n]
<1>1. /\ n \in Nat /\ n <= MAX_HANDSHAKE_ATTEMPTS /\ n + 1 \in 0..Attempts
      /\ n \in 0..Attempts
  BY Bounds DEF ClientInv, ClientTypes, AttemptsAreCounted
<1>2. retry_delay = d /\ d \in Nat /\ Len(sent) = n + 1
  BY <1>1, DelayDoubles DEF ClientInv, AttemptsAreCounted
<1>3. /\ now \in Nat /\ timer \in Nat /\ sent \in Seq(Nat)
      /\ now <= timer /\ timer <= Budget(n) + HANDSHAKE_TIMEOUT
      /\ sent[Len(sent)] <= now
  BY DEF ClientInv, ClientTypes, TimeIsCounted, LastAttemptIsApart
<1>4. sent[Len(sent)] \in Nat
  BY <1>1, <1>2, <1>3, ElementOfSeq
<1>5. /\ Budget(n) \in Nat
      /\ Budget(n + 1) = Budget(n) + HANDSHAKE_TIMEOUT + d
  BY <1>1, BudgetGrows
<1>6. /\ pc' = "sleep" /\ retry_count' = n + 1 /\ retry_delay' = d
      /\ timer' = now + d /\ last_err' = err /\ tunnel_id' = tunnel_id
      /\ sent' = sent /\ now' = now
  BY <1>2 DEF AttemptFails
<1>7. (n + 1) - 1 = n
  BY <1>1
<1> HIDE DEF n, d
<1>8. ClientTypes'
  <2>1. d \in {DelayAfter[k] : k \in 0..Attempts}
    BY <1>1 DEF d
  <2>2. timer' \in Nat
    BY <1>2, <1>3, <1>6
  <2>3. QED
    BY <1>1, <1>3, <1>6, <2>1, <2>2 DEF ClientInv, ClientTypes
<1>9. BacksOff'
  BY <1>6 DEF ClientInv, BacksOff
<1>10. AttemptsAreCounted'
  BY <1>1, <1>2, <1>6, <1>7 DEF AttemptsAreCounted, d
<1>11. TimeIsCounted'
  <2>1. now + d <= Budget(n + 1)
    BY Bounds, <1>2, <1>3, <1>5
  <2>2. now <= now + d
    BY <1>2, <1>3
  <2>3. QED
    BY <1>6, <2>1, <2>2 DEF TimeIsCounted, Budget, Delays
<1>12. LastAttemptIsApart'
  BY <1>2, <1>3, <1>4, <1>6 DEF LastAttemptIsApart
<1>13. QED
  BY <1>8, <1>9, <1>10, <1>11, <1>12 DEF ClientInv

\* An Initiate that is sent, or fails to be, is apart from the one before.
LEMMA InitiateIsApart ==
  ASSUME ClientInv, pc = "send", sent' = Append(sent, now)
  PROVE  /\ BacksOff'
         /\ sent' \in Seq(Nat) /\ Len(sent') = retry_count + 1
         /\ sent'[Len(sent')] = now
<1>1. /\ sent \in Seq(Nat) /\ now \in Nat /\ retry_count \in Nat
      /\ Len(sent) = retry_count
  BY Bounds DEF ClientInv, ClientTypes, AttemptsAreCounted
<1>2. /\ sent' \in Seq(Nat) /\ Len(sent') = Len(sent) + 1
      /\ \A k \in 1..Len(sent) : sent'[k] = sent[k]
      /\ sent'[Len(sent) + 1] = now
  BY <1>1, AppendProperties
<1>3. ASSUME NEW k \in 1..(Len(sent') - 1)
      PROVE  sent'[k + 1] - sent'[k] >= DelayAfter[k - 1]
  <2>1. CASE k = Len(sent)
    <3>1. sent # <<>>
      BY <1>1, <1>2, <1>3, <2>1, EmptySeq
    <3>2. sent[k] + DelayAfter[k - 1] <= now
      BY <2>1, <3>1 DEF ClientInv, LastAttemptIsApart
    <3>3. sent[k] \in Nat /\ sent'[k] = sent[k] /\ sent'[k + 1] = now
      BY <1>1, <1>2, <1>3, <2>1, ElementOfSeq
    <3>4. k - 1 \in Nat
      BY <1>3
    <3>5. DelayAfter[k - 1] \in Nat
      BY <3>4, DelayDoubles
    <3>6. QED
      BY <1>1, <3>2, <3>3, <3>5
  <2>2. CASE k # Len(sent)
    <3>1. k \in 1..(Len(sent) - 1) /\ k \in 1..Len(sent) /\ k + 1 \in 1..Len(sent)
      BY <1>1, <1>2, <1>3, <2>2
    <3>2. sent'[k] = sent[k] /\ sent'[k + 1] = sent[k + 1]
      BY <1>2, <3>1
    <3>3. sent[k + 1] - sent[k] >= DelayAfter[k - 1]
      BY <3>1 DEF ClientInv, BacksOff
    <3>4. QED
      BY <3>2, <3>3
  <2>3. QED
    BY <2>1, <2>2
<1>4. BacksOff'
  BY <1>3 DEF BacksOff
<1>5. QED
  BY <1>1, <1>2, <1>4

\* What is received came from the server, and what stays behind it too.
LEMMA HeadOfInbox ==
  ASSUME NetworkTypes, InboxFromServer, inbox # <<>>
  PROVE  /\ Head(inbox) \in FromServer
         /\ Tail(inbox) \in Seq(FromServer) /\ Tail(inbox) \in Seq(Packets)
         /\ Len(Tail(inbox)) <= MaxInbox
<1>1. Len(inbox) \in Nat \ {0} /\ Len(inbox) <= MaxInbox /\ MaxInbox \in Nat
  BY EmptySeq, HandshakeAssumption DEF NetworkTypes
<1>2. /\ Head(inbox) \in FromServer /\ Tail(inbox) \in Seq(FromServer)
      /\ Len(Tail(inbox)) = Len(inbox) - 1
  BY HeadTailProperties DEF InboxFromServer
<1>3. Tail(inbox) \in Seq(Packets)
  BY HeadTailProperties DEF NetworkTypes
<1>4. QED
  BY <1>1, <1>2, <1>3

\* The three kinds of packets are told apart by their messages.
LEMMA KindsOfPackets ==
  /\ \A id : Initiated(id).message = "Initiated" /\ Initiated(id).id = id
  /\ \A p \in Unexpected : p.message # "Initiated"
BY DEF Initiated, Unexpected

\* The steps of the loop.
LEMMA ClientStep ==
  ASSUME IInv, Client
  PROVE  IInv'
<1> USE PartsOfInvariant
<1> DEFINE n == retry_count
           d == DelayAfter[n]
<1>1. ClientInv /\ NetworkTypes /\ InboxFromServer /\ IdWasIssued
  OBVIOUS
<1>2. /\ n \in Nat /\ n \in 0..Attempts /\ now \in Nat /\ timer \in Nat
      /\ sent \in Seq(Nat) /\ Attempts \in Nat /\ HANDSHAKE_TIMEOUT \in Nat
  BY <1>1, Bounds DEF ClientInv, ClientTypes
<1>3. /\ Budget(n) \in Nat
      /\ Budget(n + 1) = Budget(n) + HANDSHAKE_TIMEOUT + d
      /\ Budget(n) <= LongestTime
      /\ d \in Nat /\ DelayAfter[n + 1] = 2 * d
  BY <1>2, BudgetGrows, BudgetIsBounded, DelayDoubles
<1>4. ASSUME SendInitiate PROVE IInv'
  <2>1. /\ pc = "send" /\ pc' = "recv" /\ timer' = now + HANDSHAKE_TIMEOUT
        /\ sent' = Append(sent, now) /\ requests' = requests + 1
        /\ UNCHANGED <<retry_count, retry_delay, last_err, tunnel_id, issued,
                       answers, now, inbox, unreachable>>
    BY <1>4 DEF SendInitiate
  <2>2. /\ BacksOff'
        /\ sent' \in Seq(Nat) /\ Len(sent') = n + 1 /\ sent'[Len(sent')] = now
    BY <1>1, <2>1, InitiateIsApart
  <2>3. ClientTypes'
    <3>1. timer' \in Nat
      BY <1>2, <2>1
    <3>2. QED
      BY <1>1, <2>1, <2>2, <3>1 DEF ClientInv, ClientTypes
  <2>4. AttemptsAreCounted'
    BY <1>1, <2>1, <2>2 DEF ClientInv, AttemptsAreCounted
  <2>5. TimeIsCounted'
    <3>1. now <= Budget(n) /\ Budget(n)' = Budget(n)
      BY <1>1, <2>1 DEF ClientInv, TimeIsCounted, Budget, Delays
    <3>2. now <= timer' /\ timer' <= Budget(n) + HANDSHAKE_TIMEOUT
      BY <1>2, <1>3, <2>1, <3>1
    <3>3. QED
      BY <2>1, <3>1, <3>2 DEF TimeIsCounted
  <2>6. LastAttemptIsApart'
    BY <1>2, <2>1, <2>2 DEF LastAttemptIsApart
  <2>7. NetworkTypes' /\ InboxFromServer' /\ IdWasIssued'
    BY <1>1, <2>1 DEF NetworkTypes, InboxFromServer, FromServer, IdWasIssued
  <2>8. QED
    BY <2>2, <2>3, <2>4, <2>5, <2>6, <2>7 DEF ClientInv
<1>5. ASSUME SendError PROVE IInv'
  <2>1. /\ pc = "send" /\ AttemptFails("Io") /\ sent' = Append(sent, now)
        /\ unreachable' = FALSE
        /\ UNCHANGED <<network, now, inbox>>
    BY <1>5 DEF SendError
  <2>2. /\ n <= MAX_HANDSHAKE_ATTEMPTS /\ retry_delay = d /\ Len(sent) = n
        /\ n + 1 \in 0..Attempts /\ (n + 1) - 1 = n
    BY <1>1, <1>2, <2>1, Bounds DEF ClientInv, AttemptsAreCounted
  <2>3. /\ pc' = "sleep" /\ retry_count' = n + 1 /\ retry_delay' = d
        /\ timer' = now + d /\ last_err' = "Io" /\ tunnel_id' = tunnel_id
        /\ now' = now
    BY <2>1, <2>2 DEF AttemptFails
  <2>4. /\ BacksOff'
        /\ sent' \in Seq(Nat) /\ Len(sent') = n + 1 /\ sent'[Len(sent')] = now
    BY <1>1, <2>1, InitiateIsApart
  <2>5. ClientTypes'
    <3>1. timer' \in Nat
      BY <1>2, <1>3, <2>3
    <3>2. "Io" \in Errors
      BY DEF Errors
    <3>3. QED
      BY <1>1, <2>2, <2>3, <2>4, <3>1, <3>2 DEF ClientInv, ClientTypes
  <2>6. AttemptsAreCounted'
    BY <1>2, <2>2, <2>3, <2>4 DEF AttemptsAreCounted
  <2>7. TimeIsCounted'
    <3>1. now <= Budget(n)
      BY <1>1, <2>1 DEF ClientInv, TimeIsCounted
    <3>2. now <= now + d /\ now + d <= Budget(n + 1)
      BY <1>2, <1>3, <3>1
    <3>3. QED
      BY <2>3, <3>2 DEF TimeIsCounted, Budget, Delays
  <2>8. LastAttemptIsApart'
    BY <1>2, <1>3, <2>3, <2>4 DEF LastAttemptIsApart
  <2>9. NetworkTypes' /\ InboxFromServer' /\ IdWasIssued'
    BY <1>1, <2>1, <2>3
       DEF NetworkTypes, InboxFromServer, FromServer, IdWasIssued, network
  <2>10. QED
    BY <2>4, <2>5, <2>6, <2>7, <2>8, <2>9 DEF ClientInv
<1>6. ASSUME Receive PROVE IInv'
  <2>1. /\ pc = "recv" /\ inbox # <<>> /\ inbox' = Tail(inbox)
        /\ UNCHANGED <<sent, network, now, unreachable>>
    BY <1>6 DEF Receive
  <2>2. NetworkTypes' /\ InboxFromServer'
    BY <1>1, <2>1, HeadOfInbox
       DEF NetworkTypes, InboxFromServer, FromServer, network
  <2>3. CASE /\ Head(inbox).message = "Initiated"
             /\ pc' = "done" /\ tunnel_id' = Head(inbox).id
             /\ UNCHANGED <<retry_count, retry_delay, last_err, timer>>
    <3>1. PICK id \in issued : Head(inbox) = Initiated(id)
      BY <1>1, <2>1, <2>3, HeadOfInbox, KindsOfPackets DEF FromServer
    <3>2. tunnel_id' = id /\ id \in issued
      BY <2>3, <3>1, KindsOfPackets
    <3>3. tunnel_id' \in 0..MaxIds
      BY <1>1, <3>2 DEF NetworkTypes, Ids
    <3>4. ClientTypes'
      BY <1>1, <2>1, <2>3, <3>3 DEF ClientInv, ClientTypes
    <3>5. AttemptsAreCounted'
      BY <1>1, <2>1, <2>3 DEF ClientInv, AttemptsAreCounted
    <3>6. TimeIsCounted'
      <4>1. now <= timer /\ timer <= Budget(n) + HANDSHAKE_TIMEOUT
        BY <1>1, <2>1 DEF ClientInv, TimeIsCounted
      <4>2. n + 1 \in 0..Attempts
        BY <1>1, <1>2, <2>1, Bounds DEF ClientInv, AttemptsAreCounted
      <4>3. Budget(n + 1) <= LongestTime
        BY <4>2, BudgetIsBounded
      <4>4. LongestTime \in Nat
        BY BudgetIsBounded, BudgetGrows
      <4>5. now <= LongestTime
        BY <1>2, <1>3, <4>1, <4>3, <4>4
      <4>6. QED
        BY <2>1, <2>3, <4>5 DEF TimeIsCounted, LongestTime, Delays
    <3>7. LastAttemptIsApart' /\ BacksOff'
      BY <1>1, <2>1, <2>3 DEF ClientInv, LastAttemptIsApart, BacksOff
    <3>8. IdWasIssued'
      BY <2>1, <2>3, <3>2 DEF IdWasIssued, network
    <3>9. QED
      BY <2>2, <3>4, <3>5, <3>6, <3>7, <3>8 DEF ClientInv
  <2>4. CASE \E err \in {"UnexpectedPacket", "Malformed"} : AttemptFails(err)
    <3>1. PICK err \in Errors : AttemptFails(err)
      BY <2>4 DEF Errors
    <3>2. ClientInv'
      BY <1>1, <2>1, <3>1, AwaitedAttemptFails
    <3>3. IdWasIssued'
      BY <1>1, <2>1, <3>1 DEF IdWasIssued, AttemptFails
    <3>4. QED
      BY <2>2, <3>2, <3>3
  <2>5. QED
    BY <1>6, <2>3, <2>4 DEF Receive
<1>7. ASSUME RecvError PROVE IInv'
  <2>1. /\ pc = "recv" /\ AttemptFails("Io") /\ "Io" \in Errors
        /\ unreachable' = FALSE
        /\ UNCHANGED <<sent, network, now, inbox>>
    BY <1>7 DEF RecvError, Errors
  <2>2. ClientInv'
    BY <1>1, <2>1, AwaitedAttemptFails
  <2>3. NetworkTypes' /\ InboxFromServer' /\ IdWasIssued'
    BY <1>1, <2>1 DEF NetworkTypes, InboxFromServer, FromServer, IdWasIssued,
                      network, AttemptFails
  <2>4. QED
    BY <2>2, <2>3
<1>8. ASSUME HandshakeTimeout PROVE IInv'
  <2>1. /\ pc = "recv" /\ AttemptFails("HandshakeTimeout")
        /\ "HandshakeTimeout" \in Errors
        /\ UNCHANGED <<sent, network, now, inbox, unreachable>>
    BY <1>8 DEF HandshakeTimeout, Errors
  <2>2. ClientInv'
    BY <1>1, <2>1, AwaitedAttemptFails
  <2>3. NetworkTypes' /\ InboxFromServer' /\ IdWasIssued'
    BY <1>1, <2>1 DEF NetworkTypes, InboxFromServer, FromServer, IdWasIssued,
                      network, AttemptFails
  <2>4. QED
    BY <2>2, <2>3
<1>9. ASSUME SleepOver PROVE IInv'
  <2>1. /\ pc = "sleep" /\ now >= timer /\ retry_delay' = retry_delay * 2
        /\ pc' = IF n > MAX_HANDSHAKE_ATTEMPTS THEN "failed" ELSE "send"
        /\ UNCHANGED <<retry_count, last_err, tunnel_id, timer, sent, network,
                       now, inbox, unreachable>>
    BY <1>9 DEF SleepOver
  <2>2. /\ n > 0 /\ n - 1 \in Nat /\ (n - 1) + 1 = n /\ Len(sent) = n
        /\ retry_delay = DelayAfter[n - 1]
    BY <1>1, <1>2, <2>1 DEF ClientInv, AttemptsAreCounted
  <2>3. DelayAfter[n - 1] \in Nat /\ d = 2 * DelayAfter[n - 1]
    BY <2>2, DelayDoubles
  <2>4. retry_delay' = d
    BY <2>1, <2>2, <2>3
  <2>5. ClientTypes'
    <3>1. d \in {DelayAfter[k] : k \in 0..Attempts}
      BY <1>2
    <3>2. QED
      BY <1>1, <2>1, <2>4, <3>1 DEF ClientInv, ClientTypes
  <2>6. AttemptsAreCounted'
    BY <1>2, <2>1, <2>2, <2>4, Bounds DEF AttemptsAreCounted
  <2>7. TimeIsCounted'
    <3>1. now <= timer /\ timer <= Budget(n)
      BY <1>1, <2>1 DEF ClientInv, TimeIsCounted
    <3>2. LongestTime \in Nat
      BY BudgetIsBounded, BudgetGrows
    <3>3. now <= Budget(n) /\ now <= LongestTime
      BY <1>2, <1>3, <3>1, <3>2
    <3>4. QED
      BY <2>1, <3>3 DEF TimeIsCounted, Budget, Delays, LongestTime
  <2>8. LastAttemptIsApart'
    <3>1. sent[Len(sent)] + retry_delay <= timer
      BY <1>1, <2>1 DEF ClientInv, LastAttemptIsApart
    <3>2. sent[Len(sent)] \in Nat
      BY <1>2, <2>2, ElementOfSeq
    <3>3. sent[Len(sent)] + DelayAfter[Len(sent) - 1] <= now
      BY <1>2, <2>1, <2>2, <2>3, <3>1, <3>2
    <3>4. QED
      BY <2>1, <3>3 DEF LastAttemptIsApart
  <2>9. BacksOff'
    BY <1>1, <2>1 DEF ClientInv, BacksOff
  <2>10. NetworkTypes' /\ InboxFromServer' /\ IdWasIssued'
    BY <1>1, <2>1 DEF NetworkTypes, InboxFromServer, FromServer, IdWasIssued,
                      network
  <2>11. QED
    BY <2>5, <2>6, <2>7, <2>8, <2>9, <2>10 DEF ClientInv
<1>10. QED
  BY <1>4, <1>5, <1>6, <1>7, <1>8, <1>9 DEF Client

\* The steps of the server, the network and the clock.
LEMMA OtherStep ==
  ASSUME IInv, Environment \/ Tick
  PROVE  IInv'
<1> USE PartsOfInvariant
<1>1. ClientInv /\ NetworkTypes /\ InboxFromServer /\ IdWasIssued
  OBVIOUS
<1>2. ASSUME LoseRequest \/ Unreachable PROVE IInv'
  <2>1. /\ UNCHANGED <<client, now>>
        /\ UNCHANGED <<issued, answers, inbox>>
        /\ requests' \in Nat /\ unreachable' \in BOOLEAN
    <3>1. requests \in Nat /\ unreachable \in BOOLEAN
      BY <1>1 DEF NetworkTypes
    <3>2. CASE LoseRequest
      <4>1. requests > 0 /\ requests' = requests - 1
        BY <3>2 DEF LoseRequest
      <4>2. requests' \in Nat
        BY <3>1, <4>1
      <4>3. QED
        BY <3>1, <3>2, <4>2 DEF LoseRequest
    <3>3. CASE Unreachable
      BY <3>1, <3>3 DEF Unreachable, network
    <3>4. QED
      BY <1>2, <3>2, <3>3
  <2>2. ClientInv'
    BY <1>1, <2>1, ClientStays
  <2>3. QED
    BY <1>1, <2>1, <2>2
       DEF NetworkTypes, InboxFromServer, FromServer, IdWasIssued, client
<1>3. ASSUME NEW id \in Ids, ServerAnswers(id) PROVE IInv'
  <2>1. /\ requests > 0 /\ requests' \in {requests - 1, requests}
        /\ issued' = issued \cup {id} /\ answers' = answers \cup {id}
        /\ UNCHANGED <<client, now, inbox, unreachable>>
    BY <1>3 DEF ServerAnswers
  <2>2. ClientInv'
    BY <1>1, <2>1, ClientStays
  <2>3. NetworkTypes'
    BY <1>1, <2>1 DEF NetworkTypes
  <2>4. InboxFromServer'
    <3>1. FromServer \subseteq FromServer'
      BY <2>1 DEF FromServer
    <3>2. Seq(FromServer) \subseteq Seq(FromServer')
      BY <3>1, SeqMonotonic
    <3>3. QED
      BY <1>1, <2>1, <3>2 DEF InboxFromServer
  <2>5. IdWasIssued'
    BY <1>1, <2>1 DEF IdWasIssued, client
  <2>6. QED
    BY <2>2, <2>3, <2>4, <2>5
<1>4. ASSUME NEW packet \in FromServer, Len(inbox) < MaxInbox,
             inbox' = Append(inbox, packet), answers' \subseteq answers,
             UNCHANGED <<client, requests, issued, now, unreachable>>
      PROVE  IInv'
  <2>1. ClientInv'
    BY <1>1, <1>4, ClientStays
  <2>2. packet \in Packets
    BY <1>1, <1>4 DEF FromServer, Packets, NetworkTypes
  <2>3. /\ inbox' \in Seq(FromServer) /\ inbox' \in Seq(Packets)
        /\ Len(inbox') = Len(inbox) + 1
    BY <1>1, <1>4, <2>2, AppendProperties DEF InboxFromServer, NetworkTypes
  <2>4. Len(inbox') <= MaxInbox
    <3>1. Len(inbox) \in Nat /\ MaxInbox \in Nat
      BY <1>1, HandshakeAssumption DEF NetworkTypes
    <3>2. QED
      BY <1>4, <2>3, <3>1
  <2>5. NetworkTypes'
    BY <1>1, <1>4, <2>3, <2>4 DEF NetworkTypes, Packets
  <2>6. InboxFromServer'
    BY <1>4, <2>3 DEF InboxFromServer, FromServer
  <2>7. IdWasIssued'
    BY <1>1, <1>4 DEF IdWasIssued, client
  <2>8. QED
    BY <2>1, <2>5, <2>6, <2>7
<1>5. ASSUME NEW id \in Ids, Deliver(id) PROVE IInv'
  <2>1. Initiated(id) \in FromServer
    BY <1>1, <1>5 DEF Deliver, NetworkTypes, FromServer
  <2>2. QED
    BY <1>4, <1>5, <2>1 DEF Deliver
<1>6. ASSUME NEW packet \in Unexpected, DeliverUnexpected(packet) PROVE IInv'
  BY <1>4, <1>6 DEF DeliverUnexpected, FromServer, network
<1>7. ASSUME NEW id \in Ids, LoseAnswer(id) PROVE IInv'
  <2>1. UNCHANGED <<client, now>>
    BY <1>7 DEF LoseAnswer
  <2>2. ClientInv'
    BY <1>1, <2>1, ClientStays
  <2>3. QED
    BY <1>1, <1>7, <2>2 DEF LoseAnswer, NetworkTypes, InboxFromServer,
                            FromServer, IdWasIssued, client
<1>8. ASSUME Tick PROVE IInv'
  <2>1. /\ pc \in {"recv", "sleep"} /\ now < timer /\ now' = now + 1
        /\ UNCHANGED <<client, network, inbox, unreachable>>
    BY <1>8 DEF Tick
  <2>2. now \in Nat /\ timer \in Nat /\ now + 1 \in Nat /\ now + 1 <= timer
    BY <1>1, <2>1 DEF ClientInv, ClientTypes
  <2>3. ClientTypes' /\ BacksOff' /\ AttemptsAreCounted'
    BY <1>1, <2>1, <2>2
       DEF ClientInv, ClientTypes, BacksOff, AttemptsAreCounted, client
  <2>4. TimeIsCounted'
    BY <1>1, <2>1, <2>2 DEF ClientInv, TimeIsCounted, client, Budget, Delays
  <2>5. LastAttemptIsApart'
    <3>1. ASSUME pc = "recv" PROVE sent[Len(sent)] <= now + 1
      <4>1. Len(sent) \in Nat \ {0} /\ sent \in Seq(Nat)
        BY <1>1, <3>1, Bounds DEF ClientInv, ClientTypes, AttemptsAreCounted
      <4>2. sent[Len(sent)] \in Nat
        BY <4>1, ElementOfSeq
      <4>3. QED
        BY <1>1, <2>2, <3>1, <4>2 DEF ClientInv, LastAttemptIsApart
    <3>2. QED
      BY <1>1, <2>1, <3>1 DEF ClientInv, LastAttemptIsApart, client
  <2>6. NetworkTypes' /\ InboxFromServer' /\ IdWasIssued'
    BY <1>1, <2>1 DEF NetworkTypes, InboxFromServer, FromServer, IdWasIssued,
                      network, client
  <2>7. QED
    BY <2>3, <2>4, <2>5, <2>6 DEF ClientInv
<1>9. QED
  BY <1>2, <1>3, <1>5, <1>6, <1>7, <1>8 DEF Environment

LEMMA Invariance == Spec => []IInv
<1>1. Init => IInv
  <2> SUFFICES ASSUME Init PROVE IInv
    OBVIOUS
  <2>1. /\ sent = <<>> /\ inbox = <<>> /\ Len(sent) = 0 /\ Len(inbox) = 0
        /\ sent \in Seq(Nat) /\ inbox \in Seq(Packets) /\ inbox \in Seq(FromServer)
    BY DEF Init
  <2>2. /\ retry_delay = DelayAfter[0] /\ DelayAfter[0] \in Nat
        /\ 0 \in 0..Attempts /\ Budget(0) = 0
    BY Bounds, DelayDoubles, BudgetGrows DEF Init
  <2>3. ClientTypes /\ AttemptsAreCounted /\ TimeIsCounted
    BY <2>1, <2>2, Bounds, HandshakeAssumption
       DEF Init, ClientTypes, AttemptsAreCounted, TimeIsCounted, Errors
  <2>4. BacksOff /\ LastAttemptIsApart
    BY <2>1 DEF Init, BacksOff, LastAttemptIsApart
  <2>5. NetworkTypes /\ InboxFromServer /\ IdWasIssued
    <3>1. Len(inbox) <= MaxInbox
      BY <2>1, HandshakeAssumption
    <3>2. /\ requests = 0 /\ issued = {} /\ answers = {} /\ unreachable = FALSE
          /\ pc = "send" /\ tunnel_id = 0
      BY DEF Init
    <3>3. QED
      BY <2>1, <3>1, <3>2 DEF NetworkTypes, InboxFromServer, IdWasIssued
  <2>6. QED
    BY <2>3, <2>4, <2>5, PartsOfInvariant DEF ClientInv
<1>2. IInv /\ [Next]_vars => IInv'
  <2> SUFFICES ASSUME IInv, [Next]_vars PROVE IInv'
    OBVIOUS
  <2>1. CASE Next
    BY <2>1, ClientStep, OtherStep DEF Next
  <2>2. CASE UNCHANGED vars
    <3>1. ClientInv'
      BY <2>2, ClientStays, PartsOfInvariant DEF vars
    <3>2. QED
      BY <2>2, <3>1, PartsOfInvariant
         DEF vars, network, client, NetworkTypes, InboxFromServer, FromServer,
             IdWasIssued
  <2>3. QED
    BY <2>1, <2>2
<1>3. QED
  BY <1>1, <1>2, PTL DEF Spec

------------------------------------------------------------------------------
(* The theorems *)

\* The loop's attempts and delays are those it can reach, the id comes from the
\* server, and attempts are apart by delays that double: of
\* attempt_tunnel_handshake with any number of attempts, whatever the network
\* loses, repeats and reorders.
THEOREM HandshakeBacksOff == Spec => []Inv
<1>1. IInv => Inv
  BY DEF IInv, Inv
<1>2. QED
  BY <1>1, Invariance, PTL

\* attempt_tunnel_handshake never takes longer than the timeouts and delays of
\* its attempts, wherever in the loop it is.
THEOREM HandshakeEndsInTime == Spec => []EndsInTime
<1>1. IInv => EndsInTime
  <2> SUFFICES ASSUME IInv PROVE now <= LongestTime
    BY DEF EndsInTime
  <2>1. ClientInv
    BY PartsOfInvariant
  <2>2. /\ now \in Nat /\ timer \in Nat /\ retry_count \in Nat
        /\ retry_count \in 0..Attempts /\ HANDSHAKE_TIMEOUT \in Nat
        /\ pc \in {"send", "recv", "sleep", "done", "failed"}
    BY <2>1, Bounds DEF ClientInv, ClientTypes
  <2>3. /\ Budget(retry_count) \in Nat /\ LongestTime \in Nat
        /\ Budget(retry_count) <= LongestTime
    BY <2>2, BudgetGrows, BudgetIsBounded
  <2>4. CASE pc = "recv"
    <3>1. retry_count + 1 \in 0..Attempts
      BY <2>1, <2>2, <2>4, Bounds DEF ClientInv, AttemptsAreCounted
    <3>2. Budget(retry_count + 1) <= LongestTime
      BY <3>1, BudgetIsBounded
    <3>3. /\ Budget(retry_count + 1)
                = Budget(retry_count) + HANDSHAKE_TIMEOUT + DelayAfter[retry_count]
          /\ DelayAfter[retry_count] \in Nat
      BY <2>2, BudgetGrows, DelayDoubles
    <3>4. now <= timer /\ timer <= Budget(retry_count) + HANDSHAKE_TIMEOUT
      BY <2>1, <2>4 DEF ClientInv, TimeIsCounted
    <3>5. QED
      BY <2>2, <2>3, <3>2, <3>3, <3>4
  <2>5. CASE pc \in {"send", "sleep"}
    <3>1. now <= Budget(retry_count)
      BY <2>1, <2>2, <2>3, <2>5 DEF ClientInv, TimeIsCounted
    <3>2. QED
      BY <2>2, <2>3, <3>1
  <2>6. CASE pc \in {"done", "failed"}
    BY <2>1, <2>6 DEF ClientInv, TimeIsCounted
  <2>7. QED
    BY <2>2, <2>4, <2>5, <2>6
<1>2. QED
  BY <1>1, Invariance, PTL

\* A sequence begins with itself, and with what it was before it grew.
LEMMA PrefixOfGrown ==
  ASSUME NEW S, NEW s \in Seq(S), NEW e \in S
  PROVE  IsPrefix(s, s) /\ IsPrefix(s, Append(s, e))
<1>1. IsPrefix(s, s)
  BY LenProperties DEF IsPrefix
<1> DEFINE t == Append(s, e)
<1>2. /\ Len(s) \in Nat /\ t \in Seq(S) /\ Len(t) = Len(s) + 1
      /\ \A k \in 1..Len(s) : t[k] = s[k]
  BY AppendProperties
<1> HIDE DEF t
<1>3. SubSeq(t, 1, Len(s)) = SubSeq(s, 1, Len(s))
  <2>1. /\ SubSeq(t, 1, Len(s)) = [k \in 1..Len(s) |-> t[k]]
        /\ SubSeq(s, 1, Len(s)) = [k \in 1..Len(s) |-> s[k]]
    BY <1>2
  <2>2. QED
    BY <1>2, <2>1
<1>4. IsPrefix(s, t)
  BY <1>2, <1>3 DEF IsPrefix
<1>5. QED
  BY <1>1, <1>4 DEF t

\* An answer that has arrived is never thrown away: it waits in the socket's
\* buffer, through failed attempts and delays, until it ends the handshake.
THEOREM AnswersWaitForTheirUse == Spec => AnswersAreUsed
<1> DEFINE Kept == IsPrefix(AnswersOf(inbox), AnswersOf(inbox'))
           Used == pc' = "done" /\ tunnel_id' = AnswersOf(inbox)[1].id
           kind == {Initiated(id) : id \in Ids}
<1>1. IInv /\ [Next]_vars => Kept \/ Used
  <2> SUFFICES ASSUME IInv, [Next]_vars PROVE Kept \/ Used
    OBVIOUS
  <2>1. NetworkTypes /\ InboxFromServer
    BY PartsOfInvariant
  <2>2. inbox \in Seq(Packets) /\ AnswersOf(inbox) \in Seq(Packets)
    BY <2>1, SelectedInSeq DEF NetworkTypes, AnswersOf
  <2>3. ASSUME inbox' = inbox PROVE Kept
    <3>1. Packets # {}
      BY DEF Packets, Unexpected
    <3>2. IsPrefix(AnswersOf(inbox), AnswersOf(inbox))
      BY <2>2, <3>1, PrefixOfGrown
    <3>3. QED
      BY <2>3, <3>2
  <2>4. ASSUME NEW packet \in Packets, inbox' = Append(inbox, packet) PROVE Kept
    <3>1. \/ AnswersOf(inbox') = AnswersOf(inbox)
          \/ AnswersOf(inbox') = Append(AnswersOf(inbox), packet)
      BY <2>2, <2>4, SelectedOfAppend DEF AnswersOf
    <3>2. /\ IsPrefix(AnswersOf(inbox), AnswersOf(inbox))
          /\ IsPrefix(AnswersOf(inbox), Append(AnswersOf(inbox), packet))
      BY <2>2, PrefixOfGrown
    <3>3. QED
      BY <3>1, <3>2
  <2>5. ASSUME Receive PROVE Kept \/ Used
    <3>1. inbox # <<>> /\ inbox' = Tail(inbox)
      BY <2>5 DEF Receive
    <3>2. AnswersOf(inbox) = IF Head(inbox) \in kind
                                THEN <<Head(inbox)>> \o AnswersOf(inbox')
                                ELSE AnswersOf(inbox')
      BY <2>2, <3>1, SelectedOfCons DEF AnswersOf
    <3>3. AnswersOf(inbox') \in Seq(Packets) /\ Head(inbox) \in Packets
      <4>1. Tail(inbox) \in Seq(Packets)
        BY <2>1, <3>1, HeadOfInbox
      <4>2. Head(inbox) \in Packets
        BY <2>2, <3>1, HeadTailProperties
      <4>3. QED
        BY <3>1, <4>1, <4>2, SelectedInSeq DEF AnswersOf
    <3>4. CASE Head(inbox) \in kind
      <4>1. AnswersOf(inbox)[1] = Head(inbox)
        BY <3>2, <3>3, <3>4
      <4>2. Head(inbox).message = "Initiated"
        BY <3>4, KindsOfPackets
      <4>3. QED
        BY <2>5, <4>1, <4>2 DEF Receive
    <3>5. CASE Head(inbox) \notin kind
      <4>1. AnswersOf(inbox') = AnswersOf(inbox)
        BY <3>2, <3>5
      <4>2. IsPrefix(AnswersOf(inbox), AnswersOf(inbox))
        BY <2>2, <3>3, PrefixOfGrown
      <4>3. QED
        BY <4>1, <4>2
    <3>6. QED
      BY <3>4, <3>5
  <2> HIDE DEF Kept, Used
  <2>6. ASSUME Client PROVE Kept \/ Used
    BY <2>3, <2>5, <2>6 DEF Client, SendInitiate, SendError, RecvError,
                            HandshakeTimeout, SleepOver
  <2>7. ASSUME Environment PROVE Kept
    <3>1. \A id \in Ids : Initiated(id) \in Packets
      BY DEF Packets
    <3>2. \A packet \in Unexpected : packet \in Packets
      BY DEF Packets
    <3>3. QED
      BY <2>3, <2>4, <2>7, <3>1, <3>2
         DEF Environment, LoseRequest, Unreachable, ServerAnswers, Deliver,
             LoseAnswer, DeliverUnexpected
  <2>8. CASE Tick \/ UNCHANGED vars
    BY <2>3, <2>8 DEF Tick, vars
  <2>9. QED
    BY <2>6, <2>7, <2>8 DEF Next
<1>2. IInv /\ [Next]_vars =>
        [AnswersOf(inbox) # <<>> => Kept \/ Used]_vars
  BY <1>1
<1>3. QED
  BY <1>2, Invariance, PTL DEF Spec, AnswersAreUsed
==============================================================================
