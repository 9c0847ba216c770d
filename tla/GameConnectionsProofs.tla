------------------------ MODULE GameConnectionsProofs ------------------------
(***************************************************************************)
(* The connections of the game for every number of packets, events and       *)
(* requests, every timeout, status and key.                                 *)
(*                                                                          *)
(* Each server's part has an invariant of its own, which the steps of the    *)
(* others leave alone: they share only the end of the game's side.           *)
(***************************************************************************)
EXTENDS GameConnections, SequenceLemmas, SequenceTheorems, TLAPS

------------------------------------------------------------------------------
(* The redirector *)

\* Packets that were answered, or are being answered.
TakenPackets == Len(sent) + (IF pc = "write" THEN 1 ELSE 0)

\* The sequence numbers of the packets are those of the game, in its order.
Numbered ==
    /\ Len(asked) <= MaxPackets
    /\ \A k \in 1..Len(asked) : asked[k].seq = k

\* The answers are those of the first packets, and only the last redirects.
Answered ==
    /\ Len(sent) <= Len(asked)
    /\ \A k \in 1..Len(sent) : sent[k] = asked[k]
    /\ \A k \in 1..(Len(sent) - 1) : ~sent[k].redirect

\* While handle runs, a packet that was sent is answered, in hand, or waits.
NothingPassedOver ==
    pc # "done" =>
        /\ TakenPackets <= Len(asked)
        /\ pc = "write" => packet = asked[TakenPackets]
        /\ Len(received) = Len(asked) - TakenPackets
        /\ \A k \in 1..Len(received) : received[k] = asked[TakenPackets + k]
        /\ \A k \in 1..Len(sent) : ~sent[k].redirect

\* How handle returned: with the redirect answered, or with nothing left to answer.
HowItEnded ==
    /\ result = "Ok" /\ ~closed => Len(sent) > 0 /\ sent[Len(sent)].redirect
    /\ result = "Timeout" => Len(sent) = Len(asked) /\ ~closed

\* The parts of it, with the types.
RedirectorInv ==
    R!TypeOK /\ Numbered /\ Answered /\ NothingPassedOver /\ HowItEnded

\* A connection of the redirector starts with nothing asked.
LEMMA RedirectorInitial == R!Init => RedirectorInv
<1> SUFFICES ASSUME R!Init PROVE RedirectorInv
  OBVIOUS
<1>1. asked = <<>> /\ received = <<>> /\ sent = <<>>
  BY DEF R!Init
<1>2. Len(asked) = 0 /\ Len(received) = 0 /\ Len(sent) = 0
  BY <1>1
<1>3. R!TypeOK
  <2>1. /\ asked \in Seq(R!Packets) /\ received \in Seq(R!Packets)
        /\ sent \in Seq(R!Packets)
    BY <1>1
  <2>2. 0 \in 0..REDIRECT_TIMEOUT
    BY RedirectAssumption
  <2> QED BY <2>1, <2>2 DEF R!Init, R!TypeOK
<1> QED
  BY <1>2, <1>3, RedirectAssumption
  DEF RedirectorInv, Numbered, Answered, NothingPassedOver, HowItEnded,
      TakenPackets, R!Init

\* A return from handle, by itself or aborted, loses at most what it has in hand.
LEMMA RedirectorReturns ==
  ASSUME RedirectorInv, NEW res, R!Return(res), UNCHANGED <<sent, R!game>>,
         res \in {"Ok", "Accept", "Timeout", "Read", "Write", "Aborted"},
         res = "Ok" => closed,
         res = "Timeout" => pc = "read" /\ received = <<>> /\ ~closed
  PROVE  RedirectorInv'
<1>1. /\ pc' = "done" /\ result' = res /\ packet' = R!NoPacket
      /\ UNCHANGED <<left, sent, asked, received, partial, closed>>
  BY DEF R!Return, R!game
<1>2. R!TypeOK'
  BY <1>1 DEF RedirectorInv, R!TypeOK
<1>3. Numbered' /\ Answered' /\ NothingPassedOver'
  BY <1>1 DEF RedirectorInv, Numbered, Answered, NothingPassedOver
<1>4. res = "Timeout" => Len(sent) = Len(asked)
  <2> SUFFICES ASSUME res = "Timeout" PROVE Len(sent) = Len(asked)
    OBVIOUS
  <2>1. /\ TakenPackets = Len(sent) /\ Len(received) = 0
        /\ Len(received) = Len(asked) - TakenPackets
        /\ Len(sent) \in Nat /\ Len(asked) \in Nat
    BY DEF RedirectorInv, NothingPassedOver, TakenPackets, R!TypeOK
  <2> QED BY <2>1
<1>5. HowItEnded'
  BY <1>1, <1>4 DEF HowItEnded
<1> QED BY <1>2, <1>3, <1>5 DEF RedirectorInv

\* An answer that is not the redirect goes behind the others, and the redirect
\* behind them all.
LEMMA RedirectorAnswers ==
  ASSUME RedirectorInv, pc = "write", sent' = Append(sent, packet),
         UNCHANGED <<asked, received, partial, closed>>,
         packet' = R!NoPacket, left' \in 0..REDIRECT_TIMEOUT,
         \/ pc' = "read" /\ result' = "None" /\ ~packet.redirect
         \/ pc' = "done" /\ result' = "Ok" /\ packet.redirect
  PROVE  RedirectorInv'
<1> DEFINE n == Len(sent)
<1>1. /\ sent \in Seq(R!Packets) /\ asked \in Seq(R!Packets)
      /\ received \in Seq(R!Packets) /\ packet \in R!Packets
      /\ n \in Nat /\ Len(asked) \in Nat
  BY DEF RedirectorInv, R!TypeOK
<1>2. /\ n + 1 <= Len(asked) /\ packet = asked[n + 1]
      /\ Len(received) = Len(asked) - (n + 1)
      /\ \A k \in 1..Len(received) : received[k] = asked[(n + 1) + k]
      /\ \A k \in 1..n : ~sent[k].redirect /\ sent[k] = asked[k]
  BY DEF RedirectorInv, NothingPassedOver, TakenPackets, Answered
<1>3. /\ sent' \in Seq(R!Packets) /\ Len(sent') = n + 1
      /\ \A k \in 1..n : sent'[k] = sent[k]
      /\ sent'[n + 1] = packet
  BY <1>1, AppendProperties
<1> HIDE DEF n
<1>4. R!TypeOK'
  BY <1>1, <1>3 DEF RedirectorInv, R!TypeOK
<1>5. Numbered'
  BY DEF RedirectorInv, Numbered
<1>6. \A k \in 1..(n + 1) : sent'[k] = asked[k]
  BY <1>1, <1>2, <1>3
<1>7. \A k \in 1..n : ~sent'[k].redirect
  BY <1>2, <1>3
<1>8. Answered'
  BY <1>1, <1>2, <1>3, <1>6, <1>7 DEF Answered
<1>9. NothingPassedOver'
  <2> SUFFICES ASSUME pc' = "read", ~packet.redirect PROVE NothingPassedOver'
    BY DEF NothingPassedOver
  <2>1. TakenPackets' = n + 1
    BY <1>1, <1>3 DEF TakenPackets
  <2>2. \A k \in 1..(n + 1) : ~sent'[k].redirect
    BY <1>1, <1>3, <1>7
  <2> QED BY <1>2, <1>3, <2>1, <2>2 DEF NothingPassedOver
<1>10. HowItEnded'
  BY <1>1, <1>3 DEF HowItEnded
<1> QED BY <1>4, <1>5, <1>8, <1>9, <1>10 DEF RedirectorInv

\* Every step of the redirector keeps its answers those of the packets.
LEMMA RedirectorStep == RedirectorInv /\ R!Next => RedirectorInv'
<1> SUFFICES ASSUME RedirectorInv, R!Next PROVE RedirectorInv'
  OBVIOUS
<1> DEFINE n == TakenPackets
<1>1. /\ sent \in Seq(R!Packets) /\ asked \in Seq(R!Packets)
      /\ received \in Seq(R!Packets) /\ Len(received) \in Nat
      /\ Len(sent) \in Nat /\ Len(asked) \in Nat /\ n \in Nat
      /\ REDIRECT_TIMEOUT \in Nat \ {0} /\ MaxPackets \in Nat \ {0}
  BY RedirectAssumption DEF RedirectorInv, R!TypeOK, TakenPackets
<1>2. CASE R!FinishAccept
  <2>1. /\ pc = "accept" /\ pc' = "read" /\ left' = REDIRECT_TIMEOUT
        /\ UNCHANGED <<result, packet, sent, asked, received, partial, closed>>
    BY <1>2 DEF R!FinishAccept, R!Await, R!game
  <2>2. R!TypeOK'
    BY <1>1, <2>1 DEF RedirectorInv, R!TypeOK
  <2> QED
    BY <2>1, <2>2
    DEF RedirectorInv, Numbered, Answered, NothingPassedOver, HowItEnded,
        TakenPackets
<1>3. CASE R!ReadPacket
  <2>1. /\ pc = "read" /\ received # <<>> /\ pc' = "write"
        /\ packet' = Head(received) /\ received' = Tail(received)
        /\ UNCHANGED <<result, left, sent, asked, partial, closed>>
    BY <1>3 DEF R!ReadPacket
  <2>2. n = Len(sent) /\ TakenPackets' = n + 1
    BY <1>1, <2>1 DEF TakenPackets
  <2> HIDE DEF n
  <2>3. /\ Head(received) \in R!Packets /\ received' \in Seq(R!Packets)
        /\ Len(received') = Len(received) - 1
        /\ \A k \in 1..Len(received') : received'[k] = received[k + 1]
        /\ Len(received) # 0 /\ Head(received) = received[1]
    BY <1>1, <2>1, HeadTailProperties, EmptySeq
  <2>4. /\ n <= Len(asked) /\ Len(received) = Len(asked) - n
        /\ \A k \in 1..Len(received) : received[k] = asked[n + k]
        /\ \A k \in 1..Len(sent) : ~sent[k].redirect
    BY <2>1 DEF RedirectorInv, NothingPassedOver, n
  <2>5. packet' = asked[n + 1]
    BY <1>1, <2>1, <2>3, <2>4
  <2>6. n + 1 <= Len(asked) /\ Len(received') = Len(asked) - (n + 1)
    BY <1>1, <2>3, <2>4
  <2>7. ASSUME NEW k \in 1..Len(received') PROVE received'[k] = asked[(n + 1) + k]
    <3>1. k + 1 \in 1..Len(received) /\ n + (k + 1) = (n + 1) + k
      BY <1>1, <2>3
    <3> QED BY <2>3, <2>4, <3>1
  <2>8. NothingPassedOver'
    BY <2>1, <2>2, <2>4, <2>5, <2>6, <2>7 DEF NothingPassedOver
  <2>9. packet' # R!NoPacket /\ packet' \in R!Packets
    BY <2>1, <2>3 DEF R!NoPacket, R!Packets
  <2>10. R!TypeOK'
    BY <2>1, <2>3, <2>9 DEF RedirectorInv, R!TypeOK
  <2>11. Numbered' /\ Answered' /\ HowItEnded'
    BY <2>1 DEF RedirectorInv, Numbered, Answered, HowItEnded
  <2> QED BY <2>8, <2>10, <2>11 DEF RedirectorInv
<1>4. CASE R!SendEmpty
  <2>1. result' = "None"
    BY <1>4 DEF R!SendEmpty, RedirectorInv, R!TypeOK
  <2> QED
    BY <1>1, <1>4, <2>1, RedirectorAnswers DEF R!SendEmpty, R!Await, R!game
<1>5. CASE R!SendRedirect
  <2>1. left' \in 0..REDIRECT_TIMEOUT
    BY <1>5 DEF R!SendRedirect, R!Return, RedirectorInv, R!TypeOK
  <2> QED
    BY <1>5, <2>1, RedirectorAnswers DEF R!SendRedirect, R!Return, R!game
<1>6. CASE R!AcceptError
  BY <1>6, RedirectorReturns DEF R!AcceptError
<1>7. CASE R!ReadEnd
  BY <1>7, RedirectorReturns DEF R!ReadEnd
<1>8. CASE R!ReadError
  BY <1>8, RedirectorReturns DEF R!ReadError
<1>9. CASE R!ReadTimeout
  BY <1>9, RedirectorReturns DEF R!ReadTimeout
<1>10. CASE R!WriteError
  BY <1>10, RedirectorReturns DEF R!WriteError
<1>11. CASE R!Abort
  BY <1>11, RedirectorReturns DEF R!Abort
<1>12. CASE R!Step /\ R!GameCloses
  <2>1. /\ pc # "done" /\ closed' = TRUE
        /\ UNCHANGED <<pc, result, packet, left, sent, asked, received, partial>>
    BY <1>12 DEF R!Step, R!GameCloses, R!connection
  <2>2. result = "None"
    BY <2>1 DEF RedirectorInv, R!TypeOK
  <2> QED
    BY <2>1, <2>2
    DEF RedirectorInv, R!TypeOK, Numbered, Answered, NothingPassedOver,
        HowItEnded, TakenPackets
<1>13. CASE R!Tick
  <2>1. /\ UNCHANGED <<pc, result, packet, sent, asked, received, partial, closed>>
        /\ left' \in 0..REDIRECT_TIMEOUT
    BY <1>1, <1>13 DEF R!Tick, R!game, RedirectorInv, R!TypeOK
  <2> QED
    BY <2>1
    DEF RedirectorInv, R!TypeOK, Numbered, Answered, NothingPassedOver,
        HowItEnded, TakenPackets
<1>14. ASSUME NEW redirect \in BOOLEAN, R!Step, R!GameSends(redirect)
       PROVE  RedirectorInv'
  <2> DEFINE p == [seq |-> Len(asked) + 1, redirect |-> redirect]
  <2>1. /\ pc # "done" /\ Len(asked) < MaxPackets /\ ~closed
        /\ asked' = Append(asked, p) /\ received' = Append(received, p)
        /\ UNCHANGED <<pc, result, packet, left, sent, closed>> /\ partial' = FALSE
    BY <1>14 DEF R!Step, R!GameSends, R!connection
  <2>2. p \in R!Packets /\ p.seq = Len(asked) + 1
    BY <1>1, <2>1 DEF R!Packets
  <2> HIDE DEF p
  <2>3. /\ asked' \in Seq(R!Packets) /\ Len(asked') = Len(asked) + 1
        /\ \A k \in 1..Len(asked) : asked'[k] = asked[k]
        /\ asked'[Len(asked) + 1] = p
    BY <1>1, <2>1, <2>2, AppendProperties
  <2>4. /\ received' \in Seq(R!Packets) /\ Len(received') = Len(received) + 1
        /\ \A k \in 1..Len(received) : received'[k] = received[k]
        /\ received'[Len(received) + 1] = p
    BY <1>1, <2>1, <2>2, AppendProperties
  <2>5. R!TypeOK'
    BY <2>1, <2>3, <2>4 DEF RedirectorInv, R!TypeOK
  <2>6. Numbered'
    BY <1>1, <2>1, <2>2, <2>3 DEF RedirectorInv, Numbered
  <2>7. Answered'
    BY <1>1, <2>1, <2>3 DEF RedirectorInv, Answered
  <2>8. result = "None" /\ HowItEnded'
    BY <2>1 DEF RedirectorInv, R!TypeOK, HowItEnded
  <2>9. n' = n
    BY <2>1 DEF TakenPackets
  <2>10. /\ n <= Len(asked) /\ (pc = "write" => packet = asked[n])
         /\ Len(received) = Len(asked) - n
         /\ \A k \in 1..Len(received) : received[k] = asked[n + k]
         /\ \A k \in 1..Len(sent) : ~sent[k].redirect
    BY <2>1 DEF RedirectorInv, NothingPassedOver
  <2>11. pc = "write" => n \in 1..Len(asked)
    BY <1>1, <2>10 DEF TakenPackets
  <2> HIDE DEF n
  <2>12. ASSUME NEW k \in 1..Len(received') PROVE received'[k] = asked'[n + k]
    <3>1. CASE k <= Len(received)
      <4>1. k \in 1..Len(received) /\ n + k \in 1..Len(asked)
        BY <1>1, <2>10, <3>1
      <4> QED BY <2>3, <2>4, <2>10, <4>1
    <3>2. CASE ~(k <= Len(received))
      <4>1. k = Len(received) + 1 /\ n + k = Len(asked) + 1
        <5>1. /\ Len(received') = Len(received) + 1
              /\ Len(received) = Len(asked) - n
              /\ k \in Int /\ k <= Len(received')
          BY <1>1, <2>4, <2>10
        <5> QED BY <1>1, <3>2, <5>1
      <4> QED BY <2>3, <2>4, <4>1
    <3> QED BY <3>1, <3>2
  <2>13. n <= Len(asked') /\ Len(received') = Len(asked') - n
    BY <1>1, <2>3, <2>4, <2>10
  <2>14. pc' = "write" => packet' = asked'[n]
    BY <2>1, <2>3, <2>10, <2>11
  <2>15. NothingPassedOver'
    BY <2>1, <2>9, <2>10, <2>12, <2>13, <2>14 DEF NothingPassedOver, n
  <2> QED BY <2>5, <2>6, <2>7, <2>8, <2>15 DEF RedirectorInv
<1>15. CASE R!GameSendsPart
  <2>1. /\ partial' = TRUE
        /\ UNCHANGED <<pc, result, packet, left, sent, asked, received, closed>>
    BY <1>15 DEF R!GameSendsPart, R!connection
  <2> QED
    BY <2>1
    DEF RedirectorInv, R!TypeOK, Numbered, Answered, NothingPassedOver,
        HowItEnded, TakenPackets
<1> QED
  BY <1>2, <1>3, <1>4, <1>5, <1>6, <1>7, <1>8, <1>9, <1>10, <1>11, <1>12, <1>13,
     <1>14, <1>15
  DEF R!Next, R!Step, R!Handle

------------------------------------------------------------------------------
(* The Blaze link *)

\* Every step of a Blaze link keeps its types.
LEMMA LinkStep == B!TypeOK /\ B!Next => B!TypeOK'
BY DEF B!TypeOK, B!Next, B!Step, B!Progress, B!Goto, B!Request, B!Upgrade,
       B!StreamError, B!CopyEnds, B!CopyError, B!Abort, B!GameCloses, B!ServerHangsUp

------------------------------------------------------------------------------
(* The HTTP proxy *)

\* One request is served at a time, the one behind those that were answered.  A
\* status is in hand only if it is the server's, and a body has arrived only behind
\* the status.
ServingInv ==
    /\ H!TypeOK
    /\ Len(answers) <= Len(http_asked)
    /\ serving \in {"url", "request", "body"} => Len(answers) < Len(http_asked)
    /\ serving \in {"request", "body"} => http_asked[H!Current]
    /\ serving = "body" =>
          status \in Statuses /\ served[H!Current] \in {status, "Failed"}
    /\ serving = "body" /\ complete => served[H!Current] = status
    /\ H!AnswersAreTheServers

\* The types of an HTTP connection, with what is in hand an index of them.
LEMMA ServingTypes ==
  ASSUME ServingInv
  PROVE  /\ Len(answers) \in Nat /\ Len(http_asked) \in Nat /\ MaxRequests \in Nat
         /\ H!Current = Len(answers) + 1 /\ Len(http_asked) <= MaxRequests
         /\ serving \in {"url", "request", "body"} => H!Current \in 1..Len(http_asked)
         /\ serving \in {"url", "request", "body"} => H!Current \in H!Requests
         /\ DOMAIN answers = 1..Len(answers)
<1>1. /\ answers \in Seq(H!Answers) /\ http_asked \in Seq(BOOLEAN)
      /\ Len(http_asked) <= MaxRequests /\ MaxRequests \in Nat
  BY StatusAssumption DEF ServingInv, H!TypeOK
<1>2. /\ Len(answers) \in Nat /\ Len(http_asked) \in Nat
      /\ DOMAIN answers = 1..Len(answers)
  BY <1>1
<1>3. serving \in {"url", "request", "body"} => Len(answers) < Len(http_asked)
  BY DEF ServingInv
<1> QED BY <1>1, <1>2, <1>3 DEF H!Current, H!Requests

\* A connection of the HTTP server starts with no request.
LEMMA ServingInitial == H!Init => ServingInv
<1> SUFFICES ASSUME H!Init PROVE ServingInv
  OBVIOUS
<1>1. answers = <<>> /\ http_asked = <<>> /\ serving = "idle"
  BY DEF H!Init
<1>2. Len(answers) = 0 /\ Len(http_asked) = 0 /\ DOMAIN answers = {}
  BY <1>1
<1>3. answers \in Seq(H!Answers) /\ http_asked \in Seq(BOOLEAN)
  BY <1>1
<1>4. served \in [H!Requests -> H!Outcomes]
  BY DEF H!Init, H!Outcomes
<1>5. H!TypeOK
  <2>1. /\ serving = "idle" /\ closed = FALSE /\ complete = FALSE /\ status = "None"
        /\ Len(http_asked) <= MaxRequests
    BY <1>2, StatusAssumption DEF H!Init
  <2> HIDE DEF H!Init
  <2> QED BY <1>3, <1>4, <2>1 DEF H!TypeOK
<1>6. H!AnswersAreTheServers
  BY <1>2 DEF H!AnswersAreTheServers
<1> QED BY <1>1, <1>2, <1>5, <1>6 DEF ServingInv

\* The answer to the request in hand goes behind the others.
LEMMA ServingAnswers ==
  ASSUME ServingInv, NEW answer \in H!Answers, H!Answer(answer),
         serving \in {"url", "request", "body"},
         \/ ~http_asked[H!Current] /\ answer = "Unavailable"
         \/ /\ http_asked[H!Current]
            /\ served[H!Current] = "Failed" /\ answer = "InternalError"
         \/ /\ http_asked[H!Current]
            /\ served[H!Current] # "Failed" /\ answer = served[H!Current]
  PROVE  ServingInv'
<1> DEFINE n == Len(answers)
<1>1. /\ answers' = Append(answers, answer) /\ serving' = "idle" /\ status' = "None"
      /\ complete' = FALSE /\ UNCHANGED <<closed, http_asked, served>>
  BY DEF H!Answer
<1>2. /\ n \in Nat /\ Len(http_asked) \in Nat /\ H!Current = n + 1
      /\ n + 1 <= Len(http_asked) /\ DOMAIN answers = 1..n
  BY ServingTypes
<1>3. answers \in Seq(H!Answers)
  BY DEF ServingInv, H!TypeOK
<1> HIDE DEF n
<1>4. /\ answers' \in Seq(H!Answers) /\ Len(answers') = n + 1
      /\ \A k \in 1..n : answers'[k] = answers[k]
      /\ answers'[n + 1] = answer /\ DOMAIN answers' = 1..(n + 1)
  BY <1>1, <1>3, AppendProperties DEF n
<1>5. ASSUME NEW k \in 1..(n + 1)
      PROVE  answers'[k] = IF ~http_asked[k] THEN "Unavailable"
                           ELSE IF served[k] = "Failed" THEN "InternalError"
                           ELSE served[k]
  <2>1. CASE k = n + 1
    BY <1>2, <1>4, <2>1
  <2>2. CASE k # n + 1
    <3>1. k \in 1..n
      BY <1>2, <2>2
    <3> QED BY <1>2, <1>4, <3>1 DEF ServingInv, H!AnswersAreTheServers
  <2> QED BY <2>1, <2>2
<1>6. H!AnswersAreTheServers'
  BY <1>1, <1>2, <1>4, <1>5 DEF H!AnswersAreTheServers
<1>7. H!TypeOK'
  BY <1>1, <1>4 DEF H!TypeOK, ServingInv
<1> QED BY <1>1, <1>2, <1>4, <1>6, <1>7 DEF ServingInv

\* Nothing but an answer changes what was answered, and what becomes of a request
\* changes only while it is in hand.
LEMMA ServingKeeps ==
  ASSUME ServingInv, UNCHANGED answers, http_asked' \in Seq(BOOLEAN),
         Len(http_asked) <= Len(http_asked'),
         \A k \in 1..Len(http_asked) : http_asked'[k] = http_asked[k],
         \A k \in 1..Len(answers) : served'[k] = served[k]
  PROVE  H!AnswersAreTheServers'
<1>1. /\ Len(answers) \in Nat /\ Len(http_asked) \in Nat /\ Len(http_asked') \in Nat
      /\ Len(answers) <= Len(http_asked) /\ DOMAIN answers = 1..Len(answers)
  BY ServingTypes DEF ServingInv
<1>2. \A k \in 1..Len(answers) : http_asked'[k] = http_asked[k]
  BY <1>1
<1> QED BY <1>1, <1>2 DEF ServingInv, H!AnswersAreTheServers

\* The client's request in hand ends, well or not.
LEMMA ServingServed ==
  ASSUME ServingInv, NEW outcome \in H!Outcomes, H!Served(outcome),
         serving \in {"request", "body"},
         serving = "body" => outcome = "Failed",
         ~(serving = "body" /\ complete)
  PROVE  ServingInv'
<1>1. /\ served' = [served EXCEPT ![H!Current] = outcome]
      /\ UNCHANGED <<serving, closed, http_asked, status, complete, answers>>
  BY DEF H!Served
<1>2. H!Current \in H!Requests /\ H!Current = Len(answers) + 1
  BY ServingTypes
<1>3. Len(answers) \in Nat /\ H!Current' = H!Current
  BY <1>1, ServingTypes DEF H!Current
<1>4. served \in [H!Requests -> H!Outcomes] /\ H!TypeOK
  BY DEF ServingInv, H!TypeOK
<1>5. served' \in [H!Requests -> H!Outcomes] /\ served'[H!Current] = outcome
  BY <1>1, <1>2, <1>4
<1>6. \A k \in 1..Len(answers) : served'[k] = served[k]
  <2> SUFFICES ASSUME NEW k \in 1..Len(answers) PROVE served'[k] = served[k]
    OBVIOUS
  <2>1. k # H!Current /\ k \in H!Requests
    <3>1. Len(answers) + 1 <= MaxRequests /\ MaxRequests \in Nat
      BY <1>2, ServingTypes DEF H!Requests
    <3> QED BY <1>2, <1>3, <3>1 DEF H!Requests
  <2> QED BY <1>1, <1>4, <2>1
<1>7. H!AnswersAreTheServers'
  <2>1. http_asked' \in Seq(BOOLEAN) /\ Len(http_asked) <= Len(http_asked')
    BY <1>1, ServingTypes DEF ServingInv, H!TypeOK
  <2> QED BY <1>1, <1>6, <2>1, ServingKeeps
<1>8. H!TypeOK'
  BY <1>1, <1>4, <1>5 DEF H!TypeOK
<1> QED BY <1>1, <1>3, <1>5, <1>7, <1>8 DEF ServingInv

\* Every step of the HTTP server keeps its answers those of the server.
LEMMA ServingStep == ServingInv /\ H!Next => ServingInv'
<1> SUFFICES ASSUME ServingInv, H!Next PROVE ServingInv'
  OBVIOUS
<1>1. /\ Len(answers) \in Nat /\ Len(http_asked) \in Nat /\ MaxRequests \in Nat
      /\ H!Current = Len(answers) + 1
      /\ serving \in {"url", "request", "body"} => H!Current \in 1..Len(http_asked)
  BY ServingTypes
<1>2. /\ http_asked \in Seq(BOOLEAN) /\ Len(http_asked) <= MaxRequests
      /\ served \in [H!Requests -> H!Outcomes] /\ answers \in Seq(H!Answers)
      /\ closed \in BOOLEAN /\ complete \in BOOLEAN
      /\ status \in Statuses \cup {"None"}
      /\ serving \in {"idle", "url", "request", "body", "ended"}
  BY DEF ServingInv, H!TypeOK
<1>3. CASE H!Take \/ H!Join \/ H!End \/ H!ConnectionError \/ H!GameCloses
  <2>1. /\ UNCHANGED <<http_asked, status, served, complete, answers>>
        /\ closed' \in BOOLEAN
    BY <1>2, <1>3 DEF H!Take, H!Join, H!End, H!ConnectionError, H!GameCloses
  <2>2. \/ serving' = "ended" \/ serving' = serving
        \/ serving = "idle" /\ serving' = "url" /\ Len(http_asked) > Len(answers)
        \/ serving = "url" /\ serving' = "request" /\ http_asked[H!Current]
    BY <1>3 DEF H!Take, H!Join, H!End, H!ConnectionError, H!GameCloses
  <2>3. H!TypeOK' /\ H!AnswersAreTheServers' /\ H!Current' = H!Current
    BY <2>1, <2>2 DEF ServingInv, H!TypeOK, H!AnswersAreTheServers, H!Current
  <2> QED BY <1>1, <2>1, <2>2, <2>3 DEF ServingInv
<1>4. CASE H!JoinError
  <2>1. "Unavailable" \in H!Answers
    BY DEF H!Answers
  <2> QED BY <1>4, <2>1, ServingAnswers DEF H!JoinError
<1>5. CASE H!RequestFailed \/ H!BodyFailed
  <2>1. "InternalError" \in H!Answers
    BY DEF H!Answers
  <2>2. http_asked[H!Current]
    BY <1>5 DEF H!RequestFailed, H!BodyFailed, ServingInv
  <2> QED BY <1>5, <2>1, <2>2, ServingAnswers DEF H!RequestFailed, H!BodyFailed
<1>6. CASE H!Pass
  <2>1. /\ status \in Statuses /\ served[H!Current] = status
        /\ http_asked[H!Current] /\ status # "Failed"
    BY <1>6, StatusAssumption DEF H!Pass, ServingInv
  <2>2. status \in H!Answers
    BY <2>1 DEF H!Answers
  <2> QED BY <1>6, <2>1, <2>2, ServingAnswers DEF H!Pass
<1>7. CASE H!Respond
  <2>1. /\ serving = "request" /\ served[H!Current] \in Statuses
        /\ status' = served[H!Current] /\ serving' = "body"
        /\ UNCHANGED <<closed, http_asked, served, complete, answers>>
    BY <1>7 DEF H!Respond
  <2>2. H!TypeOK' /\ H!AnswersAreTheServers' /\ H!Current' = H!Current
    BY <2>1 DEF ServingInv, H!TypeOK, H!AnswersAreTheServers, H!Current
  <2> QED BY <2>1, <2>2 DEF ServingInv
<1>8. CASE H!ServerAnswers
  <2>1. serving = "request"
    BY <1>8 DEF H!ServerAnswers
  <2>2. PICK outcome \in Statuses : H!Served(outcome)
    BY <1>8 DEF H!ServerAnswers
  <2>3. outcome \in H!Outcomes
    BY DEF H!Outcomes
  <2> QED BY <2>1, <2>2, <2>3, ServingServed
<1>9. CASE H!RequestFails
  <2>1. "Failed" \in H!Outcomes
    BY DEF H!Outcomes
  <2> QED BY <1>9, <2>1, ServingServed DEF H!RequestFails
<1>10. CASE H!BodyArrives
  <2>1. /\ serving = "body" /\ served[H!Current] # "Failed" /\ complete' = TRUE
        /\ UNCHANGED <<serving, closed, http_asked, status, served, answers>>
    BY <1>10 DEF H!BodyArrives
  <2>2. served[H!Current] = status
    BY <2>1 DEF ServingInv
  <2>3. H!TypeOK' /\ H!AnswersAreTheServers' /\ H!Current' = H!Current
    BY <2>1 DEF ServingInv, H!TypeOK, H!AnswersAreTheServers, H!Current
  <2> QED BY <2>1, <2>2, <2>3 DEF ServingInv
<1>11. ASSUME NEW joinable \in BOOLEAN, H!GameAsks(joinable) PROVE ServingInv'
  <2>1. /\ Len(http_asked) < MaxRequests
        /\ http_asked' = Append(http_asked, joinable)
        /\ UNCHANGED <<serving, closed, status, served, complete, answers>>
    BY <1>11 DEF H!GameAsks
  <2>2. /\ http_asked' \in Seq(BOOLEAN) /\ Len(http_asked') = Len(http_asked) + 1
        /\ \A k \in 1..Len(http_asked) : http_asked'[k] = http_asked[k]
    BY <1>2, <2>1, AppendProperties
  <2>3. Len(http_asked) <= Len(http_asked') /\ Len(http_asked') <= MaxRequests
    BY <1>1, <2>1, <2>2
  <2>4. H!AnswersAreTheServers'
    BY <2>1, <2>2, <2>3, ServingKeeps
  <2>5. H!TypeOK' /\ H!Current' = H!Current
    BY <1>2, <2>1, <2>2, <2>3 DEF H!TypeOK, H!Current
  <2>6. Len(answers) < Len(http_asked) => Len(answers) < Len(http_asked')
    BY <1>1, <2>2
  <2> QED BY <1>1, <2>1, <2>2, <2>3, <2>4, <2>5, <2>6 DEF ServingInv
<1> QED
  BY <1>3, <1>4, <1>5, <1>6, <1>7, <1>8, <1>9, <1>10, <1>11
  DEF H!Next, H!Progress, H!Handle, H!Network

------------------------------------------------------------------------------
(* The telemetry server *)

\* The stream is made of bytes and of lengths, which are numbers; a body that was
\* read is kept until its event was published.
TellingInv ==
    /\ T!TypeOK
    /\ stream \in Seq(Nat) /\ arrived \in Nat /\ consumed \in Nat
    /\ events \in Seq(T!Sendable)

\* The bits of a byte.
Bits == [0..7 -> 0..1]

\* A byte is the sum of its bits.
Byte(b) == b[0] + 2 * b[1] + 4 * b[2] + 8 * b[3] + 16 * b[4] + 32 * b[5]
             + 64 * b[6] + 128 * b[7]

\* Every byte has bits, so that what xor does to bytes follows from what it does to bits.
LEMMA BitsOfByte ==
  ASSUME NEW x \in 0..255
  PROVE  \E b \in Bits : x = Byte(b)
<1> DEFINE b0 == x % 2
           b1 == (x \div 2) % 2
           b2 == (x \div 4) % 2
           b3 == (x \div 8) % 2
           b4 == (x \div 16) % 2
           b5 == (x \div 32) % 2
           b6 == (x \div 64) % 2
           b7 == (x \div 128) % 2
           b == [i \in 0..7 |-> IF i = 0 THEN b0 ELSE IF i = 1 THEN b1
                   ELSE IF i = 2 THEN b2 ELSE IF i = 3 THEN b3 ELSE IF i = 4 THEN b4
                   ELSE IF i = 5 THEN b5 ELSE IF i = 6 THEN b6 ELSE b7]
<1>1. x = b0 + 2 * b1 + 4 * b2 + 8 * b3 + 16 * b4 + 32 * b5 + 64 * b6 + 128 * b7
  BY Z3
<1>2. /\ b0 \in 0..1 /\ b1 \in 0..1 /\ b2 \in 0..1 /\ b3 \in 0..1
      /\ b4 \in 0..1 /\ b5 \in 0..1 /\ b6 \in 0..1 /\ b7 \in 0..1
  BY Z3
<1> HIDE DEF b0, b1, b2, b3, b4, b5, b6, b7
<1>3. b \in Bits
  BY <1>2 DEF Bits
<1>4. /\ b[0] = b0 /\ b[1] = b1 /\ b[2] = b2 /\ b[3] = b3
      /\ b[4] = b4 /\ b[5] = b5 /\ b[6] = b6 /\ b[7] = b7
  OBVIOUS
<1> HIDE DEF b
<1>5. x = Byte(b)
  BY <1>1, <1>4 DEF Byte
<1> QED BY <1>3, <1>5

\* What is left of a byte without its last bits.
LEMMA Shifted ==
  ASSUME NEW b \in Bits, NEW x, x = Byte(b)
  PROVE  /\ x \in 0..255
         /\ x \div 1  = b[0] + 2 * (x \div 2)
         /\ x \div 2  = b[1] + 2 * (x \div 4)
         /\ x \div 4  = b[2] + 2 * (x \div 8)
         /\ x \div 8  = b[3] + 2 * (x \div 16)
         /\ x \div 16 = b[4] + 2 * (x \div 32)
         /\ x \div 32 = b[5] + 2 * (x \div 64)
         /\ x \div 64 = b[6] + 2 * (x \div 128)
         /\ x \div 128 = b[7]
<1> DEFINE b0 == b[0]
           b1 == b[1]
           b2 == b[2]
           b3 == b[3]
           b4 == b[4]
           b5 == b[5]
           b6 == b[6]
           b7 == b[7]
<1>1. /\ b0 \in 0..1 /\ b1 \in 0..1 /\ b2 \in 0..1 /\ b3 \in 0..1
      /\ b4 \in 0..1 /\ b5 \in 0..1 /\ b6 \in 0..1 /\ b7 \in 0..1
  BY DEF Bits
<1>2. x = b0 + 2 * b1 + 4 * b2 + 8 * b3 + 16 * b4 + 32 * b5 + 64 * b6 + 128 * b7
  BY DEF Byte
<1> HIDE DEF b0, b1, b2, b3, b4, b5, b6, b7
<1>3. /\ x \in 0..255
      /\ x \div 1  = b0 + 2 * (x \div 2)
      /\ x \div 2  = b1 + 2 * (x \div 4)
      /\ x \div 4  = b2 + 2 * (x \div 8)
      /\ x \div 8  = b3 + 2 * (x \div 16)
      /\ x \div 16 = b4 + 2 * (x \div 32)
      /\ x \div 32 = b5 + 2 * (x \div 64)
      /\ x \div 64 = b6 + 2 * (x \div 128)
      /\ x \div 128 = b7
  BY <1>1, <1>2, Z3
<1> QED BY <1>3 DEF b0, b1, b2, b3, b4, b5, b6, b7

\* Xor adds the bits of the two bytes without carrying.
LEMMA XorOfBits ==
  ASSUME NEW a \in Bits, NEW k \in Bits
  PROVE  T!Xor(Byte(a), Byte(k)) = Byte([i \in 0..7 |-> (a[i] + k[i]) % 2])
<1> DEFINE x == Byte(a)
           y == Byte(k)
           sum(n) == ((x \div n) + (y \div n)) % 2
<1>1. ASSUME NEW p \in 0..1, NEW q \in 0..1, NEW h \in Nat, NEW g \in Nat,
             NEW z, NEW w, z = p + 2 * h, w = q + 2 * g
      PROVE  (z + w) % 2 = (p + q) % 2
  BY <1>1, Z3
<1>2. \A i \in 0..7 : a[i] \in 0..1 /\ k[i] \in 0..1
  BY DEF Bits
<1>3. /\ x \in 0..255 /\ y \in 0..255
      /\ x \div 1  = a[0] + 2 * (x \div 2)   /\ y \div 1  = k[0] + 2 * (y \div 2)
      /\ x \div 2  = a[1] + 2 * (x \div 4)   /\ y \div 2  = k[1] + 2 * (y \div 4)
      /\ x \div 4  = a[2] + 2 * (x \div 8)   /\ y \div 4  = k[2] + 2 * (y \div 8)
      /\ x \div 8  = a[3] + 2 * (x \div 16)  /\ y \div 8  = k[3] + 2 * (y \div 16)
      /\ x \div 16 = a[4] + 2 * (x \div 32)  /\ y \div 16 = k[4] + 2 * (y \div 32)
      /\ x \div 32 = a[5] + 2 * (x \div 64)  /\ y \div 32 = k[5] + 2 * (y \div 64)
      /\ x \div 64 = a[6] + 2 * (x \div 128) /\ y \div 64 = k[6] + 2 * (y \div 128)
      /\ x \div 128 = a[7]                   /\ y \div 128 = k[7]
  <2>1. x = Byte(a) /\ y = Byte(k)
    OBVIOUS
  <2> HIDE DEF x, y
  <2> QED BY <2>1, Shifted
<1> HIDE DEF x, y
<1>4. /\ x \div 2 \in Nat /\ x \div 4 \in Nat /\ x \div 8 \in Nat
      /\ x \div 16 \in Nat /\ x \div 32 \in Nat /\ x \div 64 \in Nat
      /\ x \div 128 \in Nat
      /\ y \div 2 \in Nat /\ y \div 4 \in Nat /\ y \div 8 \in Nat
      /\ y \div 16 \in Nat /\ y \div 32 \in Nat /\ y \div 64 \in Nat
      /\ y \div 128 \in Nat
  BY <1>3, Z3
<1>5. ASSUME NEW n, NEW m, NEW i \in 0..7,
             x \div n = a[i] + 2 * (x \div m), y \div n = k[i] + 2 * (y \div m),
             x \div m \in Nat, y \div m \in Nat
      PROVE  sum(n) = (a[i] + k[i]) % 2
  <2> DEFINE z == x \div n
             w == y \div n
             h == x \div m
             g == y \div m
             p == a[i]
             q == k[i]
  <2>1. /\ p \in 0..1 /\ q \in 0..1 /\ h \in Nat /\ g \in Nat
        /\ z = p + 2 * h /\ w = q + 2 * g
    BY <1>2, <1>5
  <2> HIDE DEF z, w, h, g, p, q
  <2>2. (z + w) % 2 = (p + q) % 2
    BY <1>1, <2>1
  <2> QED BY <2>2 DEF z, w, p, q
<1> HIDE DEF sum
<1>6. /\ sum(1) = (a[0] + k[0]) % 2 /\ sum(2) = (a[1] + k[1]) % 2
      /\ sum(4) = (a[2] + k[2]) % 2 /\ sum(8) = (a[3] + k[3]) % 2
      /\ sum(16) = (a[4] + k[4]) % 2 /\ sum(32) = (a[5] + k[5]) % 2
      /\ sum(64) = (a[6] + k[6]) % 2 /\ sum(128) = (a[7] + k[7]) % 2
  <2>1. sum(64) = (a[6] + k[6]) % 2
    <3>1. /\ 6 \in 0..7
          /\ x \div 64 = a[6] + 2 * (x \div 128)
          /\ y \div 64 = k[6] + 2 * (y \div 128)
          /\ x \div 128 \in Nat
          /\ y \div 128 \in Nat
      BY <1>3, <1>4
    <3> QED BY <1>5, <3>1, ZenonT(40)
  <2>2. sum(32) = (a[5] + k[5]) % 2
    <3>1. /\ 5 \in 0..7
          /\ x \div 32 = a[5] + 2 * (x \div 64)
          /\ y \div 32 = k[5] + 2 * (y \div 64)
          /\ x \div 64 \in Nat
          /\ y \div 64 \in Nat
      BY <1>3, <1>4
    <3> QED BY <1>5, <3>1, ZenonT(40)
  <2>3. sum(16) = (a[4] + k[4]) % 2
    <3>1. /\ 4 \in 0..7
          /\ x \div 16 = a[4] + 2 * (x \div 32)
          /\ y \div 16 = k[4] + 2 * (y \div 32)
          /\ x \div 32 \in Nat
          /\ y \div 32 \in Nat
      BY <1>3, <1>4
    <3> QED BY <1>5, <3>1, ZenonT(40)
  <2>4. sum(8) = (a[3] + k[3]) % 2
    <3>1. /\ 3 \in 0..7
          /\ x \div 8 = a[3] + 2 * (x \div 16)
          /\ y \div 8 = k[3] + 2 * (y \div 16)
          /\ x \div 16 \in Nat
          /\ y \div 16 \in Nat
      BY <1>3, <1>4
    <3> QED BY <1>5, <3>1, ZenonT(40)
  <2>5. sum(4) = (a[2] + k[2]) % 2
    <3>1. /\ 2 \in 0..7
          /\ x \div 4 = a[2] + 2 * (x \div 8)
          /\ y \div 4 = k[2] + 2 * (y \div 8)
          /\ x \div 8 \in Nat
          /\ y \div 8 \in Nat
      BY <1>3, <1>4
    <3> QED BY <1>5, <3>1, ZenonT(40)
  <2>6. sum(2) = (a[1] + k[1]) % 2
    <3>1. /\ 1 \in 0..7
          /\ x \div 2 = a[1] + 2 * (x \div 4)
          /\ y \div 2 = k[1] + 2 * (y \div 4)
          /\ x \div 4 \in Nat
          /\ y \div 4 \in Nat
      BY <1>3, <1>4
    <3> QED BY <1>5, <3>1, ZenonT(40)
  <2>7. sum(1) = (a[0] + k[0]) % 2
    <3>1. /\ 0 \in 0..7
          /\ x \div 1 = a[0] + 2 * (x \div 2)
          /\ y \div 1 = k[0] + 2 * (y \div 2)
          /\ x \div 2 \in Nat
          /\ y \div 2 \in Nat
      BY <1>3, <1>4
    <3> QED BY <1>5, <3>1, ZenonT(40)
  <2>8. sum(128) = (a[7] + k[7]) % 2
    BY <1>3 DEF sum
  <2> QED BY <2>1, <2>2, <2>3, <2>4, <2>5, <2>6, <2>7, <2>8
<1>7. T!Xor(x, y) = 1 * sum(1) + 2 * sum(2) + 4 * sum(4) + 8 * sum(8)
                      + 16 * sum(16) + 32 * sum(32) + 64 * sum(64) + 128 * sum(128)
  BY Zenon DEF T!Xor, sum
<1>8. \A i \in 0..7 : (a[i] + k[i]) % 2 \in 0..1
  BY <1>2, Z3
<1> DEFINE r == [i \in 0..7 |-> (a[i] + k[i]) % 2]
<1>9. /\ r[0] = sum(1) /\ r[1] = sum(2) /\ r[2] = sum(4) /\ r[3] = sum(8)
      /\ r[4] = sum(16) /\ r[5] = sum(32) /\ r[6] = sum(64) /\ r[7] = sum(128)
      /\ r[0] \in 0..1
  BY <1>6, <1>8
<1> HIDE DEF r
<1>10. T!Xor(x, y) = Byte(r)
  BY <1>7, <1>9 DEF Byte
<1> QED BY <1>10 DEF x, y, r

\* The cipher undoes itself on the game's characters, whether or not the high bit
\* was set on what it made of them.
LEMMA XorUndone ==
  ASSUME NEW c \in 0..127, NEW key \in 0..127
  PROVE  /\ T!Xor(c, key) % 128 \in 0..127
         /\ T!Xor(T!Xor(c, key) % 128, key) % 128 = c
         /\ T!Xor((T!Xor(c, key) % 128) + 128, key) % 128 = c
<1>1. PICK a \in Bits : c = Byte(a)
  BY BitsOfByte
<1>2. PICK k \in Bits : key = Byte(k)
  BY BitsOfByte
<1> DEFINE r == [i \in 0..7 |-> (a[i] + k[i]) % 2]
           h == [i \in 0..7 |-> IF i = 7 THEN 1 ELSE r[i]]
<1>3. /\ \A i \in 0..7 : a[i] \in 0..1 /\ k[i] \in 0..1
      /\ a[7] = 0 /\ k[7] = 0
  <2>1. \A i \in 0..7 : a[i] \in 0..1 /\ k[i] \in 0..1
    BY DEF Bits
  <2>2. ASSUME NEW b \in Bits, Byte(b) \in 0..127 PROVE b[7] = 0
    <3>1. \A i \in 0..7 : b[i] \in 0..1
      BY DEF Bits
    <3>2. Byte(b) >= 128 * b[7]
      BY <3>1 DEF Byte
    <3>3. b[7] \in 0..1
      BY <3>1
    <3> QED BY <2>2, <3>2, <3>3
  <2> QED BY <1>1, <1>2, <2>1, <2>2
<1>4. r \in Bits /\ r[7] = 0
  <2>1. \A i \in 0..7 : (a[i] + k[i]) % 2 \in 0..1
    BY <1>3, Z3
  <2>2. (0 + 0) % 2 = 0
    BY Z3
  <2> QED BY <1>3, <2>1, <2>2 DEF Bits
<1>5. ASSUME NEW i \in 0..6 PROVE (r[i] + k[i]) % 2 = a[i] /\ h[i] = r[i]
  <2>1. ASSUME NEW p \in 0..1, NEW q \in 0..1 PROVE (((p + q) % 2) + q) % 2 = p
    BY <2>1, Z3
  <2> QED BY <1>3, <2>1
<1>6. T!Xor(c, key) = Byte(r)
  BY <1>1, <1>2, XorOfBits
<1>7. h \in Bits /\ h[7] = 1
  BY <1>4 DEF Bits
<1> HIDE DEF r, h
<1>8. \A i \in 0..7 : r[i] \in 0..1 /\ h[i] \in 0..1
  BY <1>4, <1>7 DEF Bits
<1>9. Byte(r) \in 0..127 /\ Byte(r) + 128 = Byte(h)
  BY <1>4, <1>5, <1>7, <1>8 DEF Byte
<1>10. Byte(r) % 128 = Byte(r)
  BY <1>9, Z3
<1>11. ASSUME NEW b \in Bits, \A i \in 0..6 : (b[i] + k[i]) % 2 = a[i]
       PROVE  T!Xor(Byte(b), key) % 128 = c
  <2> DEFINE d == [i \in 0..7 |-> (b[i] + k[i]) % 2]
  <2>1. T!Xor(Byte(b), key) = Byte(d)
    BY <1>2, XorOfBits
  <2>2. \A i \in 0..6 : d[i] = a[i]
    BY <1>11
  <2>3. d[7] \in 0..1
    <3>1. b[7] \in 0..1
      BY DEF Bits
    <3> QED BY <1>3, <3>1, Z3
  <2> HIDE DEF d
  <2>4. Byte(d) = c \/ Byte(d) = c + 128
    BY <1>1, <1>3, <2>2, <2>3 DEF Byte
  <2> QED BY <2>1, <2>4, Z3
<1> QED
  BY <1>4, <1>5, <1>6, <1>7, <1>9, <1>10, <1>11

\* The key of the cipher, repeated.
LEMMA KeyTypes ==
  ASSUME NEW k \in Nat \ {0}
  PROVE  T!KeyAt(k) \in 0..127
<1> DEFINE i == ((k - 1) % Len(TLM3_KEY)) + 1
<1>1. Len(TLM3_KEY) \in Nat \ {0} /\ TLM3_KEY \in Seq(0..127)
  BY TelemetryAssumption, EmptySeq
<1>2. i \in 1..Len(TLM3_KEY)
  BY <1>1
<1> HIDE DEF i
<1>3. TLM3_KEY[i] \in 0..127
  BY <1>1, <1>2, ElementOfSeq
<1> QED BY <1>3 DEF T!KeyAt, i

\* The cipher as the game sends it.
Escaped(text) ==
    [k \in DOMAIN T!XorCipher(text) |-> T!Escape(T!XorCipher(text)[k])]

\* It has no separators, and it is deciphered as it was.
LEMMA CipherUndone ==
  ASSUME NEW text \in Seq(0..127)
  PROVE  /\ Escaped(text) \in Seq(Nat)
         /\ \A k \in 1..Len(Escaped(text)) : Escaped(text)[k] # T!NEWLINE
         /\ T!XorCipher(Escaped(text)) = text
<1> DEFINE e == Escaped(text)
           c(k) == T!Xor(text[k], T!KeyAt(k)) % 128
<1>1. /\ Len(text) \in Nat /\ DOMAIN text = 1..Len(text)
      /\ \A k \in 1..Len(text) : text[k] \in 0..127 /\ T!KeyAt(k) \in 0..127
  <2>1. \A k \in 1..Len(text) : k \in Nat \ {0}
    OBVIOUS
  <2> QED BY <2>1, ElementOfSeq, KeyTypes
<1>2. T!XorCipher(text) = [k \in 1..Len(text) |-> c(k)]
  BY <1>1 DEF T!XorCipher
<1>3. e = [k \in 1..Len(text) |-> T!Escape(c(k))]
  <2> HIDE DEF c
  <2> QED BY <1>2 DEF Escaped
<1>4. ASSUME NEW k \in 1..Len(text)
      PROVE  /\ c(k) \in 0..127
             /\ T!Xor(c(k), T!KeyAt(k)) % 128 = text[k]
             /\ T!Xor(c(k) + 128, T!KeyAt(k)) % 128 = text[k]
  <2>1. text[k] \in 0..127 /\ T!KeyAt(k) \in 0..127
    BY <1>1
  <2>2. c(k) \in 0..127
    BY <2>1, XorUndone, Zenon
  <2>3. T!Xor(c(k), T!KeyAt(k)) % 128 = text[k]
    BY <2>1, XorUndone, Zenon
  <2>4. T!Xor(c(k) + 128, T!KeyAt(k)) % 128 = text[k]
    BY <2>1, XorUndone, Zenon
  <2> QED BY <2>2, <2>3, <2>4
<1>5. ASSUME NEW k \in 1..Len(text)
      PROVE  /\ T!Escape(c(k)) \in Nat /\ T!Escape(c(k)) # T!NEWLINE
             /\ T!Escape(c(k)) = c(k) \/ T!Escape(c(k)) = c(k) + 128
  <2>1. c(k) \in 0..127
    BY <1>4
  <2>2. ASSUME NEW x \in 0..127
        PROVE  /\ T!Escape(x) \in Nat /\ T!Escape(x) # T!NEWLINE
               /\ T!Escape(x) = x \/ T!Escape(x) = x + 128
    BY DEF T!Escape, T!NEWLINE, T!EQUALS
  <2> HIDE DEF c
  <2> QED BY <2>1, <2>2
<1>6. /\ e \in Seq(Nat) /\ Len(e) = Len(text) /\ DOMAIN e = 1..Len(text)
      /\ \A k \in 1..Len(text) : e[k] = T!Escape(c(k))
  <2> HIDE DEF c, e
  <2> QED BY <1>1, <1>3, <1>5
<1>7. \A k \in 1..Len(text) : T!Xor(e[k], T!KeyAt(k)) % 128 = text[k]
  <2> HIDE DEF c, e
  <2> QED BY <1>4, <1>5, <1>6
<1>8. T!XorCipher(e) = [k \in 1..Len(text) |-> text[k]]
  <2> HIDE DEF e
  <2>1. T!XorCipher(e) = [k \in 1..Len(text) |-> T!Xor(e[k], T!KeyAt(k)) % 128]
    BY <1>6 DEF T!XorCipher
  <2> QED BY <1>7, <2>1, Zenon
<1>9. [k \in 1..Len(text) |-> text[k]] = text
  BY <1>1
<1> HIDE DEF c, e
<1>10. \A k \in 1..Len(e) : e[k] # T!NEWLINE
  BY <1>5, <1>6
<1> QED BY <1>6, <1>8, <1>9, <1>10 DEF e

\* Where a byte is found first.
LEMMA FoundAt ==
  ASSUME NEW s \in Seq(Nat), NEW b, NEW i \in 1..Len(s), s[i] = b,
         \A j \in 1..(i - 1) : s[j] # b
  PROVE  T!At(s, b) = i
<1> DEFINE found == {j \in 1..Len(s) : s[j] = b}
           Least(x) == x \in found /\ \A y \in found : x =< y
<1>1. i \in found /\ \A y \in found : i =< y
  OBVIOUS
<1>2. \A x : Least(x) => x = i
  BY <1>1
<1>3. (CHOOSE x \in found : \A y \in found : x =< y) = i
  <2> HIDE DEF found
  <2> QED BY <1>1, <1>2, Zenon
<1>4. found # {}
  BY <1>1
<1> QED
  BY <1>3, <1>4, Zenon DEF T!At, T!SelectInSeq, T!Min

\* Nothing is found in an empty line: what is behind the last newline is no pair.
LEMMA FoundNowhere ==
  ASSUME NEW b
  PROVE  T!At(<<>>, b) = 0
  BY DEF T!At, T!SelectInSeq

\* A pair of the game, that can be told apart from its neighbours.
LegiblePair(pair) ==
    /\ pair \in [key : 0..255, value : Seq(0..255)]
    /\ pair.key \notin {T!NEWLINE, T!EQUALS}
    /\ IF pair.key = TLM3 THEN pair.value \in Seq(0..127)
                          ELSE T!NEWLINE \notin T!ToSet(pair.value)

\* What the game writes for a value, and for a pair.
ValueOf(pair) ==
    IF pair.key = TLM3 THEN <<0, T!DASH>> \o Escaped(pair.value) ELSE pair.value

Written(pair) == <<pair.key, T!EQUALS>> \o ValueOf(pair)

\* A line of the game is what it writes for the pair, and a newline.
LEMMA LineIsWritten ==
  ASSUME NEW pair
  PROVE  T!Line(pair) = Written(pair) \o <<T!NEWLINE>>
  BY Zenon DEF T!Line, Written, ValueOf, Escaped

\* A sequence behind two elements.
LEMMA BehindTwo ==
  ASSUME NEW x \in Nat, NEW y \in Nat, NEW s \in Seq(Nat), NEW w, w = <<x, y>> \o s
  PROVE  /\ w \in Seq(Nat) /\ Len(w) = Len(s) + 2 /\ w[1] = x /\ w[2] = y
         /\ \A k \in 1..Len(s) : w[k + 2] = s[k]
         /\ SubSeq(w, 2 + 1, Len(w)) = s
<1> DEFINE f == <<x, y>>
           r == SubSeq(w, 2 + 1, Len(w))
<1>1. f \in Seq(Nat) /\ Len(f) = 2 /\ f[1] = x /\ f[2] = y
  OBVIOUS
<1>2. w = f \o s /\ Len(s) \in Nat
  OBVIOUS
<1> HIDE DEF f
<1>3. /\ w \in Seq(Nat) /\ Len(w) = 2 + Len(s)
      /\ \A k \in 1..2 : w[k] = f[k]
      /\ \A k \in 1..Len(s) : w[2 + k] = s[k]
  BY <1>1, <1>2, ConcatProperties
<1>4. w[1] = x /\ w[2] = y
  BY <1>1, <1>3
<1>5. 2 \in 0..Len(w)
  BY <1>2, <1>3
<1>6. /\ r \in Seq(Nat) /\ Len(r) = Len(w) - 2
      /\ \A k \in 1..Len(r) : r[k] = w[2 + k]
  BY <1>3, <1>5, WithoutPrefix
<1>7. r = s
  <2> HIDE DEF r
  <2>1. Len(r) = Len(s) /\ \A k \in 1..Len(s) : r[k] = s[k]
    BY <1>2, <1>3, <1>6
  <2> QED BY <1>6, <2>1, SeqEqual
<1> HIDE DEF r
<1>8. \A k \in 1..Len(s) : w[k + 2] = s[k]
  BY <1>2, <1>3
<1> QED BY <1>2, <1>3, <1>4, <1>7, <1>8 DEF r

\* What is in front of the second element: the key, in front of the separator.
LEMMA UpToTwo ==
  ASSUME NEW w \in Seq(Nat), Len(w) >= 2
  PROVE  SubSeq(w, 1, 2 - 1) = <<w[1]>>
<1> DEFINE h == SubSeq(w, 1, 2 - 1)
<1>1. h \in Seq(Nat) /\ Len(h) = 1 /\ h[1] = w[1]
  OBVIOUS
<1> HIDE DEF h
<1>2. h = <<h[1]>>
  BY <1>1, Singleton
<1> QED BY <1>1, <1>2 DEF h

\* What the game writes for a value is bytes, and none of them ends the line.
LEMMA ValueTypes ==
  ASSUME NEW pair, LegiblePair(pair)
  PROVE  /\ ValueOf(pair) \in Seq(Nat)
         /\ \A k \in 1..Len(ValueOf(pair)) : ValueOf(pair)[k] # T!NEWLINE
<1>1. CASE pair.key = TLM3
  <2> DEFINE e == Escaped(pair.value)
             v == <<0, T!DASH>> \o e
  <2>1. e \in Seq(Nat) /\ \A k \in 1..Len(e) : e[k] # T!NEWLINE
    BY <1>1, CipherUndone DEF LegiblePair
  <2>2. T!DASH \in Nat /\ T!DASH # T!NEWLINE /\ 0 # T!NEWLINE
    BY DEF T!DASH, T!NEWLINE
  <2> HIDE DEF e
  <2>3. /\ v \in Seq(Nat) /\ Len(v) = Len(e) + 2 /\ v[1] = 0 /\ v[2] = T!DASH
        /\ \A k \in 1..Len(e) : v[k + 2] = e[k]
    BY <2>1, <2>2, BehindTwo
  <2> HIDE DEF v
  <2>4. ASSUME NEW k \in 1..Len(v) PROVE v[k] # T!NEWLINE
    <3>1. k = 1 \/ k = 2 \/ (k - 2 \in 1..Len(e) /\ (k - 2) + 2 = k)
      BY <2>1, <2>3
    <3> QED BY <2>1, <2>2, <2>3, <3>1
  <2> QED BY <1>1, <2>3, <2>4, Zenon DEF ValueOf, v, e
<1>2. CASE pair.key # TLM3
  <2>1. pair.value \in Seq(0..255) /\ 0..255 \subseteq Nat
    BY DEF LegiblePair
  <2>2. pair.value \in Seq(Nat)
    BY <2>1, SeqMonotonic
  <2>3. \A k \in 1..Len(pair.value) : pair.value[k] # T!NEWLINE
    <3>1. DOMAIN pair.value = 1..Len(pair.value)
      BY <2>2
    <3> QED BY <1>2, <3>1, Zenon DEF LegiblePair, T!ToSet
  <2> QED BY <1>2, <2>2, <2>3, Zenon DEF ValueOf
<1> QED BY <1>1, <1>2

\* What is decoded of a pair is the pair.
LEMMA PairUndone ==
  ASSUME NEW pair, LegiblePair(pair)
  PROVE  /\ Written(pair) \in Seq(Nat)
         /\ \A k \in 1..Len(Written(pair)) : Written(pair)[k] # T!NEWLINE
         /\ T!At(Written(pair), T!EQUALS) = 2
         /\ T!Pair(Written(pair)) =
              [key |-> <<pair.key>>,
               value |-> IF pair.key = TLM3 THEN T!Text(pair.value)
                                            ELSE T!Raw(pair.value)]
<1> DEFINE w == Written(pair)
           v == ValueOf(pair)
           key == pair.key
<1>1. /\ key \in Nat /\ T!EQUALS \in Nat /\ key # T!EQUALS /\ key # T!NEWLINE
      /\ T!EQUALS # T!NEWLINE
  <2>1. key \in 0..255
    BY DEF LegiblePair
  <2>2. key # T!EQUALS /\ key # T!NEWLINE
    BY Zenon DEF LegiblePair
  <2>3. T!EQUALS \in Nat /\ T!EQUALS # T!NEWLINE
    BY DEF T!EQUALS, T!NEWLINE
  <2> HIDE DEF key
  <2> QED BY <2>1, <2>2, <2>3
<1>2. v \in Seq(Nat) /\ \A k \in 1..Len(v) : v[k] # T!NEWLINE
  BY ValueTypes
<1> HIDE DEF v
<1>3. w = <<key, T!EQUALS>> \o v
  BY DEF Written, v
<1> HIDE DEF w, key
<1>4. /\ w \in Seq(Nat) /\ Len(w) = Len(v) + 2 /\ w[1] = key /\ w[2] = T!EQUALS
      /\ \A k \in 1..Len(v) : w[k + 2] = v[k]
      /\ SubSeq(w, 2 + 1, Len(w)) = v
      /\ SubSeq(w, 1, 2 - 1) = <<key>>
  <2> DEFINE equals == T!EQUALS
  <2>1. equals \in Nat /\ w = <<key, equals>> \o v
    BY <1>1, <1>3
  <2> HIDE DEF equals
  <2>2. /\ w \in Seq(Nat) /\ Len(w) = Len(v) + 2 /\ w[1] = key /\ w[2] = equals
        /\ \A k \in 1..Len(v) : w[k + 2] = v[k]
        /\ SubSeq(w, 2 + 1, Len(w)) = v
    BY <1>1, <1>2, <2>1, BehindTwo
  <2>3. SubSeq(w, 1, 2 - 1) = <<w[1]>>
    <3>1. Len(w) >= 2
      BY <1>2, <2>2
    <3> QED BY <2>2, <3>1, UpToTwo, Zenon
  <2> QED BY <2>2, <2>3, Zenon DEF equals
<1>5. ASSUME NEW k \in 1..Len(w) PROVE w[k] # T!NEWLINE
  <2>1. k = 1 \/ k = 2 \/ (k - 2 \in 1..Len(v) /\ (k - 2) + 2 = k)
    BY <1>2, <1>4
  <2> QED BY <1>1, <1>2, <1>4, <2>1
<1>6. T!At(w, T!EQUALS) = 2
  <2>1. 2 \in 1..Len(w) /\ \A j \in 1..(2 - 1) : w[j] # T!EQUALS
    BY <1>1, <1>2, <1>4
  <2> QED BY <1>4, <2>1, FoundAt
<1>7. T!Pair(w) = [key |-> <<key>>,
                   value |-> IF <<key>> = <<TLM3>> THEN T!Tlm3(v) ELSE T!Raw(v)]
  BY <1>4, <1>6, Zenon DEF T!Pair
<1>8. <<key>> = <<TLM3>> <=> key = TLM3
  OBVIOUS
<1>9. CASE key = TLM3
  <2> DEFINE e == Escaped(pair.value)
  <2>1. e \in Seq(Nat) /\ T!XorCipher(e) = pair.value
    BY <1>9, CipherUndone DEF LegiblePair, key
  <2>2. v = <<0, T!DASH>> \o e
    BY <1>9 DEF v, ValueOf, key
  <2> HIDE DEF e
  <2>3. T!DASH \in Nat /\ T!DASH # 0
    BY DEF T!DASH
  <2>4. /\ v[1] = 0 /\ v[2] = T!DASH /\ Len(v) = Len(e) + 2
        /\ SubSeq(v, 2 + 1, Len(v)) = e
    BY <2>1, <2>2, <2>3, BehindTwo
  <2>5. T!At(v, T!DASH) = 2
    <3>1. 2 \in 1..Len(v) /\ \A j \in 1..(2 - 1) : v[j] # T!DASH
      BY <2>1, <2>3, <2>4
    <3> QED BY <1>2, <2>4, <3>1, FoundAt
  <2>6. T!Tlm3(v) = T!Text(pair.value)
    <3>1. 2 # 0
      OBVIOUS
    <3> QED BY <2>1, <2>4, <2>5, <3>1, Zenon DEF T!Tlm3
  <2> QED BY <1>4, <1>5, <1>6, <1>7, <1>8, <1>9, <2>6, Zenon DEF w, key
<1>10. CASE key # TLM3
  <2>1. v = pair.value
    BY <1>10 DEF v, ValueOf, key
  <2> QED BY <1>4, <1>5, <1>6, <1>7, <1>8, <1>10, <2>1, Zenon DEF w, key
<1> QED BY <1>9, <1>10

\* c[n] is how the first n bytes are cut, and p how all of them are.
Cuts(c, body) ==
    /\ c[0] = [done |-> <<>>, line |-> <<>>]
    /\ \A n \in 1..Len(body) : c[n] = T!Cut(c[n - 1], body[n])

\* A body is cut into p: the lines that have ended, and the one that has not.
Splits(body, p) == \E c : Cuts(c, body) /\ c[Len(body)] = p

\* A body is cut in one way, so that what the recursion in the reading of an event
\* computes is known from any sequence of cuts.
LEMMA CutsOnce ==
  ASSUME NEW body \in Seq(Nat), NEW c, NEW d, Cuts(c, body), Cuts(d, body)
  PROVE  c[Len(body)] = d[Len(body)]
<1> DEFINE P == {n \in Nat : n <= Len(body) => c[n] = d[n]}
<1>1. Len(body) \in Nat
  OBVIOUS
<1>2. 0 \in P
  BY DEF Cuts
<1>3. ASSUME NEW n \in Nat, n \in P PROVE n + 1 \in P
  <2>1. SUFFICES ASSUME n + 1 <= Len(body) PROVE c[n + 1] = d[n + 1]
    OBVIOUS
  <2>2. n + 1 \in 1..Len(body) /\ (n + 1) - 1 = n /\ c[n] = d[n]
    BY <1>1, <1>3, <2>1
  <2>3. c[n + 1] = T!Cut(c[n], body[n + 1]) /\ d[n + 1] = T!Cut(d[n], body[n + 1])
    BY <2>2 DEF Cuts
  <2> QED BY <2>2, <2>3
<1>4. \A n \in Nat : n \in P
  <2> HIDE DEF P
  <2> QED BY <1>2, <1>3, Induction
<1> QED BY <1>1, <1>4

\* What Lines is, by a function that follows its recursion.
LEMMA LinesAre ==
  ASSUME NEW body \in Seq(Nat), NEW p, Splits(body, p)
  PROVE  T!Lines(body) = Append(p.done, p.line)
<1> DEFINE start == [done |-> <<>>, line |-> <<>>]
           E(f) == f = [n \in 0..Len(body) |->
                          IF n = 0 THEN start ELSE T!Cut(f[n - 1], body[n])]
<1>1. PICK c : Cuts(c, body) /\ c[Len(body)] = p
  BY Zenon DEF Splits
<1>2. Len(body) \in Nat
  OBVIOUS
<1> DEFINE g == [n \in 0..Len(body) |-> c[n]]
           f == CHOOSE f : E(f)
<1>3. T!Lines(body) = Append(f[Len(body)].done, f[Len(body)].line)
  BY Zenon DEF T!Lines
<1> HIDE DEF start
<1>4. c[0] = start /\ \A n \in 1..Len(body) : c[n] = T!Cut(c[n - 1], body[n])
  BY <1>1, Zenon DEF Cuts, start
<1>5. E(g)
  <2>1. ASSUME NEW n \in 0..Len(body)
        PROVE  g[n] = IF n = 0 THEN start ELSE T!Cut(g[n - 1], body[n])
    <3>1. CASE n = 0
      BY <1>2, <1>4, <3>1
    <3>2. CASE n # 0
      <4>1. n \in 1..Len(body) /\ n - 1 \in 0..Len(body)
        BY <1>2, <3>2
      <4>2. g[n] = c[n] /\ g[n - 1] = c[n - 1]
        BY <4>1
      <4> HIDE DEF g
      <4> QED BY <1>4, <3>2, <4>1, <4>2
    <3> QED BY <3>1, <3>2
  <2>2. g = [n \in 0..Len(body) |-> g[n]]
    OBVIOUS
  <2> HIDE DEF g
  <2> QED BY <2>1, <2>2, Zenon
<1>6. E(f)
  <2> HIDE DEF E, g
  <2> QED BY <1>5, Zenon
<1> HIDE DEF f
<1>7. Cuts(f, body)
  <2>1. f[0] = start
    BY <1>2, <1>6
  <2>2. ASSUME NEW n \in 1..Len(body) PROVE f[n] = T!Cut(f[n - 1], body[n])
    <3>1. n \in 0..Len(body) /\ n # 0
      BY <1>2
    <3> QED BY <1>6, <3>1, Zenon
  <2> QED BY <2>1, <2>2, Zenon DEF Cuts, start
<1>8. f[Len(body)] = p
  BY <1>1, <1>7, CutsOnce, Zenon
<1> QED BY <1>3, <1>8

\* Nothing is cut of an empty body.
LEMMA SplitsNothing == Splits(<<>>, [done |-> <<>>, line |-> <<>>])
<1> DEFINE start == [done |-> <<>>, line |-> <<>>]
           e == <<>>
           c == [n \in 0..0 |-> start]
<1>1. e \in Seq(Nat) /\ Len(e) = 0
  OBVIOUS
<1> HIDE DEF e
<1>2. c[0] = start
  OBVIOUS
<1> HIDE DEF c
<1>3. Cuts(c, e)
  <2>1. 1..Len(e) = {}
    BY <1>1
  <2> QED BY <1>2, <2>1, Zenon DEF Cuts
<1>4. Splits(e, start)
  BY <1>1, <1>2, <1>3, Zenon DEF Splits
<1> QED BY <1>4, Zenon DEF e

\* One more byte is cut behind those before it.
LEMMA SplitsByte ==
  ASSUME NEW body \in Seq(Nat), NEW b \in Nat, NEW p, Splits(body, p)
  PROVE  Splits(Append(body, b), T!Cut(p, b))
<1> DEFINE t == Append(body, b)
           q == T!Cut(p, b)
<1>1. PICK c : Cuts(c, body) /\ c[Len(body)] = p
  BY Zenon DEF Splits
<1> DEFINE d == [n \in 0..(Len(body) + 1) |-> IF n = Len(body) + 1 THEN q ELSE c[n]]
<1>2. /\ Len(body) \in Nat /\ Len(t) = Len(body) + 1 /\ t[Len(body) + 1] = b
      /\ \A n \in 1..Len(body) : t[n] = body[n]
  BY AppendProperties
<1> HIDE DEF t
<1>3. /\ d[Len(body) + 1] = q
      /\ \A n \in 0..Len(body) : d[n] = c[n]
  <2> HIDE DEF q
  <2> QED BY <1>2
<1> HIDE DEF d
<1>4. Cuts(d, t)
  <2>1. 0 \in 0..Len(body) /\ Len(body) \in 0..Len(body)
    BY <1>2
  <2>2. d[0] = c[0] /\ d[Len(body)] = p
    BY <1>1, <1>3, <2>1
  <2>3. ASSUME NEW n \in 1..Len(t) PROVE d[n] = T!Cut(d[n - 1], t[n])
    <3>1. CASE n = Len(body) + 1
      <4>1. n - 1 = Len(body)
        BY <1>2, <3>1
      <4> QED BY <1>2, <1>3, <2>2, <3>1, <4>1 DEF q
    <3>2. CASE n # Len(body) + 1
      <4>1. n \in 1..Len(body) /\ n \in 0..Len(body) /\ n - 1 \in 0..Len(body)
        BY <1>2, <3>2
      <4>2. c[n] = T!Cut(c[n - 1], body[n])
        BY <1>1, <4>1 DEF Cuts
      <4> QED BY <1>2, <1>3, <4>1, <4>2
    <3> QED BY <3>1, <3>2
  <2> QED BY <1>1, <2>2, <2>3, Zenon DEF Cuts
<1> HIDE DEF q
<1>5. Splits(t, q)
  BY <1>2, <1>3, <1>4, Zenon DEF Splits
<1> QED BY <1>5 DEF t, q

\* The state of the cutting.
Piece(d, l) == [done |-> d, line |-> l]

\* More bytes of a line leave the lines that have ended alone.
LEMMA SplitsText ==
  ASSUME NEW body \in Seq(Nat), NEW d, NEW l \in Seq(Nat), NEW t \in Seq(Nat),
         Splits(body, Piece(d, l)), \A k \in 1..Len(t) : t[k] # T!NEWLINE
  PROVE  Splits(body \o t, Piece(d, l \o t))
<1> DEFINE u(n) == SubSeq(t, 1, n)
           P == {n \in Nat : n <= Len(t) => Splits(body \o u(n), Piece(d, l \o u(n)))}
<1>1. Len(t) \in Nat
  OBVIOUS
<1>2. 0 \in P
  <2>1. u(0) = <<>>
    OBVIOUS
  <2>2. body \o <<>> = body /\ l \o <<>> = l
    BY ConcatEmptySeq
  <2> HIDE DEF u
  <2> QED BY <2>1, <2>2
<1>3. ASSUME NEW n \in Nat, n \in P PROVE n + 1 \in P
  <2>1. SUFFICES ASSUME n + 1 <= Len(t)
                 PROVE  Splits(body \o u(n + 1), Piece(d, l \o u(n + 1)))
    <3> HIDE DEF u
    <3> QED OBVIOUS
  <2> DEFINE b == t[n + 1]
             s == u(n)
  <2>2. n + 1 \in 1..Len(t) /\ n <= Len(t)
    BY <1>1, <2>1
  <2>3. b \in Nat /\ b # T!NEWLINE
    BY <2>2, ElementOfSeq
  <2>4. s \in Seq(Nat) /\ u(n + 1) = Append(s, b)
    BY <1>1, <2>2
  <2>5. Splits(body \o s, Piece(d, l \o s))
    BY <1>3, <2>2
  <2> HIDE DEF u, s, b
  <2>6. body \o s \in Seq(Nat) /\ l \o s \in Seq(Nat)
    BY <2>4, ConcatProperties
  <2>7. Splits(Append(body \o s, b), T!Cut(Piece(d, l \o s), b))
    BY <2>3, <2>5, <2>6, SplitsByte
  <2>8. T!Cut(Piece(d, l \o s), b) = Piece(d, Append(l \o s, b))
    BY <2>3, Zenon DEF T!Cut, Piece
  <2>9. /\ body \o Append(s, b) = Append(body \o s, b)
        /\ l \o Append(s, b) = Append(l \o s, b)
    <3>1. ASSUME NEW x \in Seq(Nat) PROVE x \o Append(s, b) = Append(x \o s, b)
      <4>1. s \in Seq(Nat) /\ b \in Nat
        BY <2>3, <2>4
      <4> QED BY <3>1, <4>1
    <3> QED BY <3>1
  <2> QED BY <2>4, <2>7, <2>8, <2>9, Zenon
<1>4. \A n \in Nat : n \in P
  <2> HIDE DEF P
  <2> QED BY <1>2, <1>3, Induction
<1>5. u(Len(t)) = t
  BY <1>1
<1>6. Splits(body \o u(Len(t)), Piece(d, l \o u(Len(t))))
  <2>1. Len(t) \in P /\ Len(t) <= Len(t)
    <3> HIDE DEF P
    <3> QED BY <1>1, <1>4
  <2> HIDE DEF u
  <2> QED BY <2>1
<1> HIDE DEF u
<1> QED BY <1>5, <1>6

\* A whole line.
LEMMA SplitsLine ==
  ASSUME NEW body \in Seq(Nat), NEW d, NEW t \in Seq(Nat),
         Splits(body, Piece(d, <<>>)), \A k \in 1..Len(t) : t[k] # T!NEWLINE
  PROVE  Splits(body \o (t \o <<T!NEWLINE>>), Piece(Append(d, t), <<>>))
<1>1. <<>> \in Seq(Nat) /\ <<>> \o t = t /\ T!NEWLINE \in Nat
  BY ConcatEmptySeq DEF T!NEWLINE
<1>2. Splits(body \o t, Piece(d, t))
  BY <1>1, SplitsText
<1>3. body \o t \in Seq(Nat)
  BY ConcatProperties
<1>4. Splits(Append(body \o t, T!NEWLINE), T!Cut(Piece(d, t), T!NEWLINE))
  BY <1>1, <1>2, <1>3, SplitsByte
<1>5. T!Cut(Piece(d, t), T!NEWLINE) = Piece(Append(d, t), <<>>)
  BY Zenon DEF T!Cut, Piece
<1>6. body \o (t \o <<T!NEWLINE>>) = Append(body \o t, T!NEWLINE)
  <2>1. Append(t, T!NEWLINE) = t \o <<T!NEWLINE>>
    BY <1>1, AppendIsConcat
  <2>2. body \o Append(t, T!NEWLINE) = Append(body \o t, T!NEWLINE)
    BY <1>1, AppendToConcat
  <2> QED BY <2>1, <2>2
<1> QED BY <1>4, <1>5, <1>6

\* The pairs of every event can be told apart from their neighbours.
LEMMA LegiblePairs ==
  ASSUME NEW pairs \in Events
  PROVE  /\ pairs \in Seq([key : 0..255, value : Seq(0..255)])
         /\ \A k \in 1..Len(pairs) : LegiblePair(pairs[k])
<1>1. pairs \in Seq([key : 0..255, value : Seq(0..255)])
  BY TelemetryAssumption
<1>2. T!Legible(pairs) /\ DOMAIN pairs = 1..Len(pairs)
  BY <1>1, EventsAssumption
<1>3. ASSUME NEW k \in 1..Len(pairs) PROVE LegiblePair(pairs[k])
  <2>1. pairs[k] \in [key : 0..255, value : Seq(0..255)]
    BY <1>1, <1>3, ElementOfSeq, Zenon
  <2>2. pairs[k] \in T!ToSet(pairs)
    BY <1>2, Zenon DEF T!ToSet
  <2> QED BY <1>2, <2>1, <2>2, Zenon DEF T!Legible, LegiblePair
<1> QED BY <1>1, <1>3

\* The lines of an event, without their ends and with them.
Texts(pairs) == [k \in 1..Len(pairs) |-> Written(pairs[k])]
LinesOf(pairs) == [k \in 1..Len(pairs) |-> T!Line(pairs[k])]

\* The body of an event is its lines, one after the other.
LEMMA BodyIs ==
  ASSUME NEW pairs \in Events
  PROVE  /\ LinesOf(pairs) \in Seq(Seq(Nat)) /\ Len(LinesOf(pairs)) = Len(pairs)
         /\ T!Body(pairs) = FlattenSeq(LinesOf(pairs))
         /\ T!Body(pairs) \in Seq(Nat)
<1>1. /\ pairs \in Seq([key : 0..255, value : Seq(0..255)])
      /\ DOMAIN pairs = 1..Len(pairs) /\ Len(pairs) \in Nat
  BY LegiblePairs
<1>2. ASSUME NEW k \in 1..Len(pairs) PROVE T!Line(pairs[k]) \in Seq(Nat)
  <2> DEFINE w == Written(pairs[k])
             b == <<T!NEWLINE>>
  <2>1. w \in Seq(Nat)
    BY LegiblePairs, PairUndone, Zenon
  <2>2. b \in Seq(Nat) /\ T!Line(pairs[k]) = w \o b
    BY LineIsWritten DEF T!NEWLINE
  <2> HIDE DEF w, b
  <2> QED BY <2>1, <2>2, ConcatProperties
<1>3. LinesOf(pairs) \in Seq(Seq(Nat)) /\ Len(LinesOf(pairs)) = Len(pairs)
  BY <1>1, <1>2 DEF LinesOf
<1>4. T!Body(pairs) = T!FlattenSeq(LinesOf(pairs))
  BY <1>1, Zenon DEF T!Body, LinesOf
<1>5. T!FlattenSeq(LinesOf(pairs)) = FlattenSeq(LinesOf(pairs))
  BY Zenon DEF T!FlattenSeq, FlattenSeq
<1> QED BY <1>3, <1>4, <1>5, FlattenInSeq

\* The lines that are cut out of a body are those that were written, and an empty
\* one behind the last newline.
LEMMA LinesUndone ==
  ASSUME NEW pairs \in Events
  PROVE  /\ Texts(pairs) \in Seq(Seq(Nat)) /\ Len(Texts(pairs)) = Len(pairs)
         /\ T!Lines(T!Body(pairs)) = Append(Texts(pairs), <<>>)
<1> DEFINE ss == LinesOf(pairs)
           tt == Texts(pairs)
           n == Len(pairs)
<1>1. /\ n \in Nat /\ pairs \in Seq([key : 0..255, value : Seq(0..255)])
      /\ \A k \in 1..n : LegiblePair(pairs[k])
  BY LegiblePairs
<1>2. /\ ss \in Seq(Seq(Nat)) /\ Len(ss) = n /\ T!Body(pairs) = FlattenSeq(ss)
      /\ T!Body(pairs) \in Seq(Nat)
  BY BodyIs
<1>3. ASSUME NEW k \in 1..n
      PROVE  /\ Written(pairs[k]) \in Seq(Nat)
             /\ \A i \in 1..Len(Written(pairs[k])) : Written(pairs[k])[i] # T!NEWLINE
  BY <1>1, PairUndone
<1>4. /\ tt \in Seq(Seq(Nat)) /\ Len(tt) = n
      /\ \A k \in 1..n : tt[k] = Written(pairs[k])
  BY <1>1, <1>3 DEF Texts
<1>5. \A k \in 1..n : ss[k] = tt[k] \o <<T!NEWLINE>>
  BY <1>4, LineIsWritten DEF LinesOf
<1>6. PICK f : Flattens(f, Nat, ss) /\ FlattenSeq(ss) = f[n]
  BY <1>2, FlattenedBy
<1> HIDE DEF ss, tt, n
<1> DEFINE u(k) == SubSeq(tt, 1, k)
           P == {k \in Nat : k <= n => Splits(f[k], Piece(u(k), <<>>))}
<1>7. 0 \in P
  <2>1. f[0] = <<>>
    BY <1>6 DEF Flattens
  <2>2. u(0) = <<>>
    BY <1>4
  <2> HIDE DEF u
  <2>3. Splits(f[0], Piece(u(0), <<>>))
    BY <2>1, <2>2, SplitsNothing, Zenon DEF Piece
  <2> QED BY <2>3
<1>8. ASSUME NEW k \in Nat, k \in P PROVE k + 1 \in P
  <2>1. SUFFICES ASSUME k + 1 <= n PROVE Splits(f[k + 1], Piece(u(k + 1), <<>>))
    <3> HIDE DEF u
    <3> QED OBVIOUS
  <2> DEFINE t == tt[k + 1]
  <2>2. k \in 0..n /\ k + 1 \in 1..n /\ k <= n /\ (k + 1) - 1 = k
    BY <1>1, <2>1
  <2>3. Splits(f[k], Piece(u(k), <<>>))
    BY <1>8, <2>2
  <2>4. f[k] \in Seq(Nat)
    BY <1>2, <1>6, <2>2 DEF Flattens
  <2>5. t \in Seq(Nat) /\ \A i \in 1..Len(t) : t[i] # T!NEWLINE
    BY <1>3, <1>4, <2>2, Zenon
  <2>6. u(k + 1) = Append(u(k), t)
    BY <1>4, <2>2
  <2>7. f[k + 1] = f[k] \o ss[k + 1] /\ ss[k + 1] = t \o <<T!NEWLINE>>
    BY <1>2, <1>5, <1>6, <2>2 DEF Flattens
  <2> HIDE DEF u, t
  <2>8. Splits(f[k] \o (t \o <<T!NEWLINE>>), Piece(Append(u(k), t), <<>>))
    BY <2>3, <2>4, <2>5, SplitsLine, Zenon
  <2> QED BY <2>6, <2>7, <2>8, Zenon
<1>9. \A k \in Nat : k \in P
  <2> HIDE DEF P
  <2> QED BY <1>7, <1>8, Induction
<1>10. Splits(f[n], Piece(tt, <<>>))
  <2>1. n \in P /\ n <= n
    <3> HIDE DEF P
    <3> QED BY <1>1, <1>9
  <2>2. u(n) = tt
    BY <1>1, <1>4
  <2> HIDE DEF u
  <2> QED BY <2>1, <2>2
<1>11. T!Lines(f[n]) = Append(tt, <<>>)
  <2>1. f[n] \in Seq(Nat)
    BY <1>2, <1>6
  <2>2. T!Lines(f[n]) = Append(Piece(tt, <<>>).done, Piece(tt, <<>>).line)
    BY <1>10, <2>1, LinesAre
  <2>3. Piece(tt, <<>>).done = tt /\ Piece(tt, <<>>).line = <<>>
    BY Zenon DEF Piece
  <2> QED BY <2>2, <2>3
<1> QED BY <1>2, <1>4, <1>6, <1>11 DEF tt, n

\* What the server decodes of an event is what the game meant.
LEMMA Decoded ==
  ASSUME NEW pairs \in Events
  PROVE  T!Values(T!Body(pairs)) = T!Plain(pairs)
<1> DEFINE tt == Texts(pairs)
           n == Len(pairs)
           lines == T!Lines(T!Body(pairs))
           kind == {line \in T!ToSet(lines) : T!At(line, T!EQUALS) # 0}
           e == <<>>
<1>1. /\ n \in Nat /\ pairs \in Seq([key : 0..255, value : Seq(0..255)])
      /\ \A k \in 1..n : LegiblePair(pairs[k])
  BY LegiblePairs
<1>2. tt \in Seq(Seq(Nat)) /\ Len(tt) = n /\ lines = Append(tt, e)
  BY LinesUndone
<1>3. \A k \in 1..n : tt[k] = Written(pairs[k])
  BY DEF Texts
<1>4. e \in Seq(Nat) /\ T!At(e, T!EQUALS) = 0
  BY FoundNowhere
<1> HIDE DEF tt, n, lines, e
<1>5. /\ lines \in Seq(Seq(Nat)) /\ Len(lines) = n + 1
      /\ \A k \in 1..n : lines[k] = tt[k]
  BY <1>2, <1>4, AppendProperties
<1>6. ASSUME NEW k \in 1..n PROVE tt[k] \in kind
  <2>1. k \in DOMAIN lines
    BY <1>1, <1>5
  <2>2. tt[k] \in T!ToSet(lines)
    BY <1>5, <2>1, Zenon DEF T!ToSet
  <2>3. T!At(tt[k], T!EQUALS) = 2
    BY <1>1, <1>3, PairUndone, Zenon
  <2>4. 2 # 0
    OBVIOUS
  <2> QED BY <2>2, <2>3, <2>4, Zenon
<1>7. e \notin kind
  BY <1>4, Zenon
<1> HIDE DEF kind
<1>8. Selected(lines, kind) = Selected(tt, kind)
  BY <1>2, <1>4, <1>7, SelectedOfAppend
<1>9. Selected(tt, kind) = tt
  BY <1>2, <1>6, SelectedOfAll
<1>10. T!Selected(lines, kind) = Selected(lines, kind)
  BY Zenon DEF T!Selected, Selected
<1>11. T!Selected(lines, kind) = tt
  BY <1>8, <1>9, <1>10
<1>12. T!Values(T!Body(pairs)) = [k \in DOMAIN tt |-> T!Pair(tt[k])]
  BY <1>11, Zenon DEF T!Values, lines, kind
<1>13. DOMAIN tt = 1..n /\ DOMAIN pairs = 1..n
  BY <1>1, <1>2 DEF n
<1>14. ASSUME NEW k \in 1..n
       PROVE  T!Pair(tt[k]) =
                [key |-> <<pairs[k].key>>,
                 value |-> IF pairs[k].key = TLM3 THEN T!Text(pairs[k].value)
                                                  ELSE T!Raw(pairs[k].value)]
  BY <1>1, <1>3, PairUndone, Zenon
<1> QED BY <1>12, <1>13, <1>14, Zenon DEF T!Plain

\* A frame whose length counts its header is an event's, and the length is that of
\* the frame.
LEMMA FrameIs ==
  ASSUME NEW event \in T!Sendable
  PROVE  /\ event.bytes \in Seq(Nat) /\ HEADER \in 1..Len(event.bytes)
         /\ event.bytes[HEADER] >= HEADER =>
              /\ event.pairs \in Events
              /\ T!Body(event.pairs) \in Seq(Nat)
              /\ Len(event.bytes) = HEADER + Len(T!Body(event.pairs))
              /\ (event.bytes[HEADER] - HEADER) % WIDTH = Len(T!Body(event.pairs))
              /\ \A i \in 1..Len(T!Body(event.pairs)) :
                    event.bytes[HEADER + i] = T!Body(event.pairs)[i]
<1> DEFINE zeros == [k \in 1..(HEADER - 1) |-> 0]
<1>1. /\ HEADER \in Nat \ {0} /\ WIDTH \in Nat \ {0}
      /\ zeros \in Seq(Nat) /\ Len(zeros) = HEADER - 1
  BY TelemetryAssumption
<1> HIDE DEF zeros
<1>2. ASSUME NEW s \in Seq(Nat), NEW t \in Seq(Nat), NEW u, u = s \o t
      PROVE  /\ u \in Seq(Nat) /\ Len(u) = Len(s) + Len(t)
             /\ \A i \in 1..Len(s) : u[i] = s[i]
             /\ \A i \in 1..Len(t) : u[Len(s) + i] = t[i]
  BY <1>2, Concatenated
<1>3. ASSUME NEW length \in Nat, NEW h, h = zeros \o <<length>>
      PROVE  h \in Seq(Nat) /\ Len(h) = HEADER /\ h[HEADER] = length
  <2> DEFINE l == <<length>>
  <2>1. l \in Seq(Nat) /\ Len(l) = 1 /\ l[1] = length
    OBVIOUS
  <2> HIDE DEF l
  <2>2. h = zeros \o l
    BY <1>3 DEF l
  <2>3. zeros \in Seq(Nat)
    BY <1>1
  <2>4. /\ h \in Seq(Nat) /\ Len(h) = Len(zeros) + Len(l)
        /\ \A i \in 1..Len(l) : h[Len(zeros) + i] = l[i]
    <3>1. l \in Seq(Nat)
      BY <2>1
    <3> QED BY <2>2, <2>3, <3>1
  <2>5. h[Len(zeros) + 1] = l[1]
    BY <2>1, <2>4
  <2>6. Len(zeros) + 1 = HEADER
    BY <1>1
  <2> QED BY <2>1, <2>4, <2>5, <2>6
<1>4. CASE event \in {[pairs |-> pairs, bytes |-> T!Frame(pairs)] : pairs \in Events}
  <2>1. PICK pairs \in Events : event = [pairs |-> pairs, bytes |-> T!Frame(pairs)]
    BY <1>4, Zenon
  <2> DEFINE b == T!Body(pairs)
             length == HEADER + Len(b)
             h == zeros \o <<length>>
             x == event.bytes
  <2>3. b \in Seq(Nat) /\ length < WIDTH
    BY BodyIs, EventsAssumption DEF T!Legible
  <2>4. event.pairs = pairs /\ x = h \o b
    BY <2>1, Zenon DEF T!Frame, zeros
  <2> HIDE DEF b, x
  <2>5. length \in Nat /\ Len(b) \in Nat
    BY <1>1, <2>3
  <2> HIDE DEF length
  <2>6. h \in Seq(Nat) /\ Len(h) = HEADER /\ h[HEADER] = length
    BY <1>3, <2>5
  <2> HIDE DEF h
  <2>7. /\ x \in Seq(Nat) /\ Len(x) = HEADER + Len(b)
        /\ \A i \in 1..HEADER : x[i] = h[i]
        /\ \A i \in 1..Len(b) : x[HEADER + i] = b[i]
    <3>1. /\ x \in Seq(Nat) /\ Len(x) = Len(h) + Len(b)
          /\ \A i \in 1..Len(h) : x[i] = h[i]
          /\ \A i \in 1..Len(b) : x[Len(h) + i] = b[i]
      <4>1. h \in Seq(Nat) /\ b \in Seq(Nat) /\ x = h \o b
        BY <2>3, <2>4, <2>6
      <4> QED BY <4>1
    <3> QED BY <2>6, <3>1
  <2>8. HEADER \in 1..HEADER /\ HEADER \in 1..Len(x)
    BY <1>1, <2>5, <2>7
  <2>9. (x[HEADER] - HEADER) % WIDTH = Len(b)
    <3>1. x[HEADER] - HEADER = Len(b) /\ Len(b) < WIDTH
      BY <1>1, <2>3, <2>5, <2>6, <2>7, <2>8 DEF length
    <3>2. ASSUME NEW y, y = Len(b) PROVE y % WIDTH = Len(b)
      BY <1>1, <2>5, <3>1, <3>2
    <3> QED BY <3>1, <3>2, Zenon
  <2> QED BY <2>3, <2>4, <2>7, <2>8, <2>9, Zenon DEF b, x
<1>5. CASE event \in {[pairs |-> <<>>, bytes |-> zeros \o <<length>>] :
                         length \in 0..(HEADER - 1)}
  <2>1. PICK length \in 0..(HEADER - 1) : event.bytes = zeros \o <<length>>
    BY <1>5
  <2>2. length \in Nat /\ length < HEADER
    BY <1>1
  <2>3. /\ event.bytes \in Seq(Nat) /\ Len(event.bytes) = HEADER
        /\ event.bytes[HEADER] = length
    BY <1>3, <2>1, <2>2
  <2>4. ~(event.bytes[HEADER] >= HEADER) /\ HEADER \in 1..HEADER
    BY <1>1, <2>2, <2>3
  <2> QED BY <2>3, <2>4
<1> QED BY <1>4, <1>5 DEF T!Sendable, zeros

\* A telemetry connection starts with nothing sent and nothing read.
LEMMA TellingInitial == T!Init => TellingInv
<1> SUFFICES ASSUME T!Init PROVE TellingInv
  OBVIOUS
<1>1. stream = <<>> /\ events = <<>> /\ arrived = 0 /\ consumed = 0 /\ want = 0
  BY DEF T!Init
<1>2. stream \in Seq(Nat) /\ Len(stream) = 0 /\ events \in Seq(T!Sendable)
      /\ DOMAIN events = {}
  BY <1>1
<1>3. WIDTH - 1 \in Nat
  BY TelemetryAssumption
<1>4. T!TypeOK
  <2>1. reading = "header" /\ closed = FALSE /\ buffer = <<>>
    BY DEF T!Init
  <2>2. 0 \in 0..Len(stream) /\ 0 \in 0..0 /\ 0 \in 0..(WIDTH - 1)
    BY <1>2, <1>3
  <2>3. ASSUME NEW k \in DOMAIN events PROVE FALSE
    BY <1>2
  <2> HIDE DEF T!Init
  <2> QED BY <1>1, <2>1, <2>2, <2>3, Zenon DEF T!TypeOK
<1> QED BY <1>1, <1>2, <1>4 DEF TellingInv

\* Every step of the telemetry server reads no more than has arrived.
LEMMA TellingStep == TellingInv /\ T!Next => TellingInv'
<1> SUFFICES ASSUME TellingInv, T!Next PROVE TellingInv'
  OBVIOUS
<1>1. /\ stream \in Seq(Nat) /\ Len(stream) \in Nat /\ arrived \in 0..Len(stream)
      /\ consumed \in 0..arrived /\ want \in 0..(WIDTH - 1)
      /\ closed \in BOOLEAN /\ events \in Seq(T!Sendable)
      /\ reading \in {"header", "body", "publish", "ended", "dropped"}
      /\ buffer # <<>> => reading \in {"publish", "dropped"}
      /\ HEADER \in Nat \ {0} /\ WIDTH \in Nat \ {0}
  BY TelemetryAssumption DEF TellingInv, T!TypeOK
<1>2. \A s \in Seq(T!Sendable) : \A k \in DOMAIN s : s[k] \in T!Sendable
  BY ElementOfSeq
<1>3. ASSUME events' \in Seq(T!Sendable), stream' \in Seq(Nat),
             arrived' \in 0..Len(stream'), consumed' \in 0..arrived',
             want' \in 0..(WIDTH - 1), closed' \in BOOLEAN,
             reading' \in {"header", "body", "publish", "ended", "dropped"},
             buffer' # <<>> => reading' \in {"publish", "dropped"}
      PROVE  TellingInv'
  <2>1. \A k \in DOMAIN events' : events'[k] \in T!Sendable
    BY <1>2, <1>3
  <2>2. T!TypeOK'
    BY <1>3, <2>1 DEF T!TypeOK, T!Sendable
  <2>3. arrived' \in Nat /\ consumed' \in Nat
    BY <1>3
  <2> QED BY <1>3, <2>2, <2>3 DEF TellingInv
<1>4. CASE T!Arrive
  BY <1>1, <1>3, <1>4 DEF T!Arrive
<1>5. CASE T!ReadHeader
  <2> DEFINE length == stream[consumed + HEADER]
  <2>1. /\ reading = "header" /\ arrived - consumed >= HEADER
        /\ consumed' = consumed + HEADER
        /\ want' = (length - HEADER) % WIDTH
        /\ reading' \in {"body", "ended"}
        /\ UNCHANGED <<closed, events, stream, arrived, buffer>>
    BY <1>5 DEF T!ReadHeader, T!Available, T!gameVars
  <2>2. consumed + HEADER \in 1..Len(stream) /\ consumed + HEADER \in 0..arrived
    BY <1>1, <2>1
  <2>3. length \in Nat
    BY <1>1, <2>2, ElementOfSeq
  <2> HIDE DEF length
  <2>4. want' \in 0..(WIDTH - 1)
    BY <1>1, <2>1, <2>3
  <2> QED BY <1>1, <1>3, <2>1, <2>2, <2>4
<1>6. CASE T!ReadBody
  <2>1. /\ reading = "body" /\ arrived - consumed >= want
        /\ consumed' = consumed + want /\ reading' = "publish"
        /\ UNCHANGED <<closed, events, stream, arrived, want>>
    BY <1>6 DEF T!ReadBody, T!Available, T!gameVars
  <2>2. consumed + want \in 0..arrived
    BY <1>1, <2>1
  <2> QED BY <1>1, <1>3, <2>1, <2>2
<1>7. CASE T!ReadEnd
  BY <1>1, <1>3, <1>7 DEF T!ReadEnd, T!gameVars
<1>8. CASE T!ReadError
  BY <1>1, <1>3, <1>8 DEF T!ReadError, T!gameVars
<1>9. ASSUME NEW ok \in BOOLEAN, T!Publish(ok) PROVE TellingInv'
  BY <1>1, <1>3, <1>9 DEF T!Publish, T!gameVars
<1>10. CASE T!GameCloses
  BY <1>1, <1>3, <1>10 DEF T!GameCloses
<1>11. CASE T!Abort
  BY <1>1, <1>3, <1>11 DEF T!Abort, T!gameVars
<1>12. ASSUME NEW event \in T!Sendable, T!GameSends(event) PROVE TellingInv'
  <2>1. /\ events' = Append(events, event) /\ stream' = stream \o event.bytes
        /\ UNCHANGED <<reading, closed, arrived, consumed, want, buffer>>
    BY <1>12 DEF T!GameSends
  <2>2. event.bytes \in Seq(Nat)
    BY FrameIs
  <2>3. /\ stream' \in Seq(Nat) /\ Len(stream') = Len(stream) + Len(event.bytes)
        /\ Len(event.bytes) \in Nat
    BY <1>1, <2>1, <2>2, ConcatProperties
  <2>4. events' \in Seq(T!Sendable)
    BY <1>1, <2>1, AppendProperties
  <2>5. arrived \in 0..Len(stream')
    BY <1>1, <2>3
  <2> QED BY <1>1, <1>3, <2>1, <2>3, <2>4, <2>5
<1> QED
  BY <1>4, <1>5, <1>6, <1>7, <1>8, <1>9, <1>10, <1>11, <1>12
  DEF T!Next, T!Step, T!Progress

\* The frames of the events, and where the one behind the first k of them starts.
Frames(es) == [k \in 1..Len(es) |-> es[k].bytes]
Start(es, k) == EndOfFirst(Frames(es), k)

\* The first k of the events have a length that can be theirs.
Whole(es, k) == k <= Len(es) /\ \A j \in 1..k : es[j].bytes[HEADER] >= HEADER

\* What was published is the first of the events, and what is being read is the
\* next one, from its start.
FramingInv ==
    LET n == Len(requests) IN
    /\ requests \in Seq([buffer : Seq(Nat), ok : BOOLEAN]) /\ buffer \in Seq(Nat)
    /\ stream = FlattenSeq(Frames(events))
    /\ \A k \in 1..n : Whole(events, k) => requests[k].buffer = T!Body(events[k].pairs)
    /\ Whole(events, Len(events)) => n <= Len(events)
    /\ Whole(events, n) =>
          /\ reading = "header" => consumed = Start(events, n)
          /\ reading = "body" =>
                /\ n < Len(events) /\ consumed = Start(events, n) + HEADER
                /\ want = (events[n + 1].bytes[HEADER] - HEADER) % WIDTH
          /\ reading = "publish" =>
                /\ n < Len(events)
                /\ Whole(events, n + 1) =>
                      /\ consumed = Start(events, n + 1)
                      /\ buffer = T!Body(events[n + 1].pairs)

\* The frames of events are bytes, one frame for each event.
LEMMA FramesTypes ==
  ASSUME NEW es \in Seq(T!Sendable)
  PROVE  /\ Frames(es) \in Seq(Seq(Nat)) /\ Len(Frames(es)) = Len(es) /\ Len(es) \in Nat
         /\ \A k \in 1..Len(es) : es[k] \in T!Sendable /\ Frames(es)[k] = es[k].bytes
<1>1. \A k \in 1..Len(es) : es[k] \in T!Sendable /\ es[k].bytes \in Seq(Nat)
  BY ElementOfSeq, FrameIs
<1>2. Len(es) \in Nat
  OBVIOUS
<1> QED BY <1>1, <1>2 DEF Frames

\* The stream behind the first n events is the next one's frame.
LEMMA NextFrame ==
  ASSUME NEW es \in Seq(T!Sendable), NEW n \in Nat, n < Len(es),
         NEW x, x = es[n + 1].bytes, NEW w, w = FlattenSeq(Frames(es))
  PROVE  /\ es[n + 1] \in T!Sendable
         /\ Start(es, n) \in Nat /\ Start(es, n + 1) = Start(es, n) + Len(x)
         /\ Start(es, n + 1) <= Len(w)
         /\ \A i \in 1..Len(x) : w[Start(es, n) + i] = x[i]
<1> DEFINE ss == Frames(es)
<1>1. /\ ss \in Seq(Seq(Nat)) /\ Len(ss) = Len(es) /\ Len(es) \in Nat
      /\ es[n + 1] \in T!Sendable /\ ss[n + 1] = x
  <2>1. n + 1 \in 1..Len(es)
    OBVIOUS
  <2> QED BY <2>1, FramesTypes
<1> HIDE DEF ss
<1>2. w = FlattenSeq(ss) /\ n \in 0..(Len(ss) - 1)
  BY <1>1 DEF ss
<1>3. /\ EndOfFirst(ss, n) \in Nat
      /\ EndOfFirst(ss, n + 1) = EndOfFirst(ss, n) + Len(ss[n + 1])
      /\ EndOfFirst(ss, n + 1) <= Len(FlattenSeq(ss))
      /\ \A i \in 1..Len(ss[n + 1]) :
            FlattenSeq(ss)[EndOfFirst(ss, n) + i] = ss[n + 1][i]
  <2>1. ss \in Seq(Seq(Nat))
    BY <1>1
  <2> QED BY <1>2, <2>1, FlattenAt, Zenon
<1> QED BY <1>1, <1>2, <1>3, Zenon DEF Start, ss

\* An event that is sent changes nothing of those before it.
LEMMA FramesGrow ==
  ASSUME NEW es \in Seq(T!Sendable), NEW event \in T!Sendable,
         NEW fs, fs = Append(es, event)
  PROVE  /\ FlattenSeq(Frames(fs)) = FlattenSeq(Frames(es)) \o event.bytes
         /\ \A k \in 0..Len(es) : /\ Start(fs, k) = Start(es, k)
                                  /\ Whole(fs, k) <=> Whole(es, k)
         /\ \A k \in 1..Len(es) : fs[k] = es[k]
         /\ Len(fs) = Len(es) + 1
<1> DEFINE ss == Frames(es)
           tt == Frames(fs)
           b == event.bytes
<1>1. /\ ss \in Seq(Seq(Nat)) /\ Len(ss) = Len(es) /\ Len(es) \in Nat /\ b \in Seq(Nat)
      /\ \A k \in 1..Len(es) : ss[k] = es[k].bytes
  BY FramesTypes, FrameIs
<1>2. /\ fs \in Seq(T!Sendable) /\ Len(fs) = Len(es) + 1
      /\ \A k \in 1..Len(es) : fs[k] = es[k]
      /\ fs[Len(es) + 1] = event
  BY AppendProperties
<1>3. /\ tt \in Seq(Seq(Nat)) /\ Len(tt) = Len(es) + 1
      /\ \A k \in 1..(Len(es) + 1) : tt[k] = fs[k].bytes
  BY <1>2, FramesTypes
<1> HIDE DEF ss, tt
<1>4. tt = Append(ss, b)
  <2> DEFINE aa == Append(ss, b)
  <2>1. /\ aa \in Seq(Seq(Nat)) /\ Len(aa) = Len(es) + 1
        /\ \A k \in 1..Len(es) : aa[k] = ss[k]
        /\ aa[Len(es) + 1] = b
    BY <1>1, AppendProperties
  <2> HIDE DEF aa
  <2>2. ASSUME NEW k \in 1..(Len(es) + 1) PROVE aa[k] = tt[k]
    <3>1. k \in 1..Len(es) \/ k = Len(es) + 1
      BY <1>1
    <3> QED BY <1>1, <1>2, <1>3, <2>1, <3>1
  <2>3. aa = tt
    BY <1>3, <2>1, <2>2, SeqEqual
  <2> QED BY <2>3 DEF aa
<1>5. FlattenSeq(tt) = FlattenSeq(ss) \o b
  <2>1. ASSUME NEW uu \in Seq(Seq(Nat)), NEW u \in Seq(Nat)
        PROVE  FlattenSeq(Append(uu, u)) = FlattenSeq(uu) \o u
    BY FlattenOfAppend
  <2> QED BY <1>1, <1>4, <2>1, Zenon
<1>6. ASSUME NEW k \in 0..Len(es)
      PROVE  Start(fs, k) = Start(es, k) /\ (Whole(fs, k) <=> Whole(es, k))
  <2>1. SubSeq(tt, 1, k) = SubSeq(ss, 1, k)
    <3> DEFINE p == SubSeq(tt, 1, k)
               q == SubSeq(ss, 1, k)
    <3>1. /\ p \in Seq(Seq(Nat)) /\ Len(p) = k /\ \A i \in 1..k : p[i] = tt[i]
          /\ q \in Seq(Seq(Nat)) /\ Len(q) = k /\ \A i \in 1..k : q[i] = ss[i]
      <4>1. k \in 0..Len(ss) /\ k \in 0..Len(tt)
        BY <1>1, <1>3
      <4>2. p \in Seq(Seq(Nat)) /\ Len(p) = k /\ \A i \in 1..k : p[i] = tt[i]
        BY <1>3, <4>1
      <4>3. q \in Seq(Seq(Nat)) /\ Len(q) = k /\ \A i \in 1..k : q[i] = ss[i]
        BY <1>1, <4>1
      <4> QED BY <4>2, <4>3
    <3>2. ASSUME NEW i \in 1..k PROVE tt[i] = ss[i]
      <4>1. i \in 1..Len(es) /\ i \in 1..(Len(es) + 1)
        BY <1>1
      <4> QED BY <1>1, <1>2, <1>3, <4>1
    <3> HIDE DEF p, q
    <3>3. p = q
      BY <3>1, <3>2, SeqEqual
    <3> QED BY <3>3 DEF p, q
  <2>2. Start(fs, k) = Start(es, k)
    BY <2>1 DEF Start, EndOfFirst, ss, tt
  <2>3. \A j \in 1..k : fs[j] = es[j]
    BY <1>1, <1>2
  <2>4. k <= Len(fs) /\ k <= Len(es)
    BY <1>1, <1>2
  <2>5. Whole(fs, k) <=> Whole(es, k)
    BY <2>3, <2>4, Zenon DEF Whole
  <2> QED BY <2>2, <2>5
<1> QED BY <1>2, <1>5, <1>6 DEF ss, tt

\* What was published to the server.
Requests == [buffer : Seq(Nat), ok : BOOLEAN]

\* Before the game has sent anything, the reading is in frame.
LEMMA FramingInitial == T!Init => FramingInv
<1> SUFFICES ASSUME T!Init PROVE FramingInv
  OBVIOUS
<1> DEFINE ss == Frames(events)
           tt == SubSeq(ss, 1, 0)
<1>1. /\ events = <<>> /\ stream = <<>> /\ requests = <<>> /\ buffer = <<>>
      /\ reading = "header" /\ consumed = 0
  BY DEF T!Init
<1>2. /\ events \in Seq(T!Sendable) /\ Len(events) = 0
      /\ requests \in Seq(Requests) /\ Len(requests) = 0 /\ buffer \in Seq(Nat)
  BY <1>1
<1>3. ss \in Seq(Seq(Nat)) /\ Len(ss) = 0
  BY <1>2, FramesTypes
<1>4. tt = ss
  <2>1. tt \in Seq(Seq(Nat)) /\ Len(tt) = 0
    BY <1>3
  <2> HIDE DEF tt, ss
  <2> QED BY <1>3, <2>1, SeqEqual
<1> HIDE DEF ss, tt
<1>5. FlattenSeq(ss) = <<>>
  <2>1. PICK f : Flattens(f, Nat, ss) /\ FlattenSeq(ss) = f[0]
    BY <1>3, FlattenedBy
  <2> QED BY <2>1 DEF Flattens
<1>6. Start(events, 0) = 0
  <2>1. Start(events, 0) = Len(FlattenSeq(tt))
    BY Zenon DEF Start, EndOfFirst, tt, ss
  <2>2. Len(<<>>) = 0
    OBVIOUS
  <2> QED BY <1>4, <1>5, <2>1, <2>2
<1>7. stream = FlattenSeq(Frames(events))
  BY <1>1, <1>5 DEF ss
<1> QED BY <1>1, <1>2, <1>6, <1>7 DEF FramingInv, Requests

\* Whether the events have a length that can be theirs, for more of them and fewer.
LEMMA WholeBefore ==
  ASSUME NEW es \in Seq(T!Sendable), NEW m \in Nat, NEW k \in 0..m, Whole(es, m)
  PROVE  Whole(es, k)
  BY DEF Whole

\* The last of the frames ends the stream.
LEMMA WholeStream ==
  ASSUME NEW es \in Seq(T!Sendable), NEW w, w = FlattenSeq(Frames(es))
  PROVE  Start(es, Len(es)) = Len(w)
<1> DEFINE ss == Frames(es)
<1>1. ss \in Seq(Seq(Nat)) /\ Len(ss) = Len(es)
  BY FramesTypes
<1> HIDE DEF ss
<1>2. SubSeq(ss, 1, Len(es)) = ss
  BY <1>1
<1> QED BY <1>2, Zenon DEF Start, EndOfFirst, ss

\* What read_exact takes from the stream: the bytes behind those that were consumed.
LEMMA PartOf ==
  ASSUME NEW s \in Seq(Nat), NEW a \in Nat, NEW b \in Nat, a + b <= Len(s),
         NEW h, h = SubSeq(s, a + 1, a + b)
  PROVE  h \in Seq(Nat) /\ Len(h) = b /\ \A i \in 1..b : h[i] = s[a + i]
  OBVIOUS

\* Every step of the telemetry server keeps what it reads in frame with what the
\* game sent.
LEMMA FramingStep == TellingInv /\ FramingInv /\ T!Next => FramingInv'
<1> SUFFICES ASSUME TellingInv, FramingInv, T!Next PROVE FramingInv'
  OBVIOUS
<1> DEFINE n == Len(requests)
           m == Len(events)
<1>1. /\ events \in Seq(T!Sendable) /\ m \in Nat /\ stream \in Seq(Nat)
      /\ Len(stream) \in Nat /\ arrived \in 0..Len(stream) /\ consumed \in 0..arrived
      /\ want \in 0..(WIDTH - 1) /\ HEADER \in Nat \ {0} /\ WIDTH \in Nat
  BY TelemetryAssumption DEF TellingInv, T!TypeOK
<1>2. /\ requests \in Seq(Requests) /\ n \in Nat /\ buffer \in Seq(Nat)
      /\ stream = FlattenSeq(Frames(events))
      /\ \A k \in 1..n : Whole(events, k) => requests[k].buffer = T!Body(events[k].pairs)
      /\ Whole(events, m) => n <= m
  BY DEF FramingInv, Requests
<1>3. Whole(events, n) =>
         /\ reading = "header" => consumed = Start(events, n)
         /\ reading = "body" =>
               /\ n < m /\ consumed = Start(events, n) + HEADER
               /\ want = (events[n + 1].bytes[HEADER] - HEADER) % WIDTH
         /\ reading = "publish" =>
               /\ n < m
               /\ Whole(events, n + 1) => /\ consumed = Start(events, n + 1)
                                          /\ buffer = T!Body(events[n + 1].pairs)
  BY Zenon DEF FramingInv
<1>4. Whole(events, n) => n <= m
  BY DEF Whole
<1> HIDE DEF n, m
\* A step that leaves the stream and the requests alone.
<1>5. ASSUME UNCHANGED <<events, stream, requests>>, buffer' \in Seq(Nat),
             Whole(events, n) =>
                /\ reading' = "header" => consumed' = Start(events, n)
                /\ reading' = "body" =>
                      /\ n < m /\ consumed' = Start(events, n) + HEADER
                      /\ want' = (events[n + 1].bytes[HEADER] - HEADER) % WIDTH
                /\ reading' = "publish" =>
                      /\ n < m
                      /\ Whole(events, n + 1) =>
                            /\ consumed' = Start(events, n + 1)
                            /\ buffer' = T!Body(events[n + 1].pairs)
      PROVE  FramingInv'
  BY <1>2, <1>5, Zenon DEF FramingInv, Requests, n, m
<1>6. CASE T!Arrive \/ T!GameCloses
  BY <1>2, <1>3, <1>5, <1>6 DEF T!Arrive, T!GameCloses
<1>7. CASE T!ReadEnd \/ T!ReadError \/ T!Abort
  BY <1>2, <1>5, <1>7 DEF T!ReadEnd, T!ReadError, T!Abort, T!gameVars
<1>8. CASE T!ReadHeader
  <2>1. /\ reading = "header" /\ arrived - consumed >= HEADER
        /\ consumed' = consumed + HEADER
        /\ want' = (stream[consumed + HEADER] - HEADER) % WIDTH
        /\ reading' = "body" \/ reading' = "ended"
        /\ UNCHANGED <<events, stream, requests, buffer>>
    BY <1>8 DEF T!ReadHeader, T!Available, T!gameVars
  <2>2. ASSUME Whole(events, n)
        PROVE  /\ n < m /\ consumed' = Start(events, n) + HEADER
               /\ want' = (events[n + 1].bytes[HEADER] - HEADER) % WIDTH
    <3>1. consumed = Start(events, n) /\ n <= m
      BY <1>3, <1>4, <2>1, <2>2
    <3>2. n # m
      <4>1. SUFFICES ASSUME n = m PROVE FALSE
        OBVIOUS
      <4>2. Start(events, m) = Len(stream)
        BY <1>1, <1>2, WholeStream DEF m
      <4> QED BY <1>1, <2>1, <3>1, <4>1, <4>2
    <3>3. n < m
      BY <1>1, <1>2, <3>1, <3>2
    <3> DEFINE x == events[n + 1].bytes
    <3>4. /\ events[n + 1] \in T!Sendable
          /\ \A i \in 1..Len(x) : stream[Start(events, n) + i] = x[i]
      <4>1. /\ events \in Seq(T!Sendable) /\ n \in Nat /\ n < Len(events)
            /\ stream = FlattenSeq(Frames(events)) /\ x = events[n + 1].bytes
        BY <1>1, <1>2, <3>3 DEF m
      <4> HIDE DEF x, n, m
      <4> QED BY <4>1, NextFrame
    <3>5. HEADER \in 1..Len(x)
      BY <3>4, FrameIs
    <3> QED BY <2>1, <3>1, <3>3, <3>4, <3>5
  <2> QED BY <1>2, <1>5, <2>1, <2>2
<1>9. CASE T!ReadBody
  <2>1. /\ reading = "body" /\ arrived - consumed >= want
        /\ consumed' = consumed + want /\ reading' = "publish"
        /\ buffer' = SubSeq(stream, consumed + 1, consumed + want)
        /\ UNCHANGED <<events, stream, requests, want>>
    BY <1>9 DEF T!ReadBody, T!Available, T!gameVars
  <2>2. /\ buffer' \in Seq(Nat) /\ Len(buffer') = want
        /\ \A i \in 1..want : buffer'[i] = stream[consumed + i]
    <3> DEFINE h == SubSeq(stream, consumed + 1, consumed + want)
    <3>1. /\ consumed \in Nat /\ want \in Nat /\ consumed + want <= Len(stream)
      BY <1>1, <2>1
    <3>2. /\ h \in Seq(Nat) /\ Len(h) = want
          /\ \A i \in 1..want : h[i] = stream[consumed + i]
      BY <1>1, <3>1, PartOf
    <3> QED BY <2>1, <3>2
  <2>3. ASSUME Whole(events, n) PROVE n < m
    BY <1>3, <2>1, <2>3
  <2>4. ASSUME Whole(events, n), Whole(events, n + 1)
        PROVE  /\ consumed' = Start(events, n + 1)
               /\ buffer' = T!Body(events[n + 1].pairs)
    <3> DEFINE event == events[n + 1]
               x == event.bytes
               b == T!Body(event.pairs)
    <3>1. /\ n < m /\ consumed = Start(events, n) + HEADER
          /\ want = (x[HEADER] - HEADER) % WIDTH
      BY <1>3, <2>1, <2>4
    <3>2. /\ event \in T!Sendable
          /\ Start(events, n) \in Nat /\ Start(events, n + 1) = Start(events, n) + Len(x)
          /\ \A i \in 1..Len(x) : stream[Start(events, n) + i] = x[i]
      <4>1. n \in Nat /\ n < Len(events)
        BY <1>2, <3>1 DEF m
      <4>2. x = events[n + 1].bytes /\ event = events[n + 1]
        OBVIOUS
      <4> HIDE DEF x, event
      <4>3. events \in Seq(T!Sendable) /\ stream = FlattenSeq(Frames(events))
        BY <1>1, <1>2
      <4>4. ASSUME NEW y, y = x
            PROVE  /\ event \in T!Sendable /\ Start(events, n) \in Nat
                   /\ Start(events, n + 1) = Start(events, n) + Len(y)
                   /\ \A i \in 1..Len(y) : stream[Start(events, n) + i] = y[i]
        BY <4>1, <4>2, <4>3, <4>4, NextFrame
      <4> QED BY <4>4
    <3>3. x[HEADER] >= HEADER
      <4>1. n + 1 \in 1..(n + 1)
        BY <1>2
      <4> QED BY <2>4, <4>1 DEF Whole
    <3>4. /\ b \in Seq(Nat) /\ Len(x) = HEADER + Len(b)
          /\ (x[HEADER] - HEADER) % WIDTH = Len(b)
          /\ \A i \in 1..Len(b) : x[HEADER + i] = b[i]
      BY <3>2, <3>3, FrameIs
    <3> HIDE DEF event, x, b
    <3>5. want = Len(b) /\ consumed' = Start(events, n + 1) /\ Len(b) \in Nat
      <4>1. Len(b) \in Nat /\ want = Len(b)
        BY <3>1, <3>4
      <4> DEFINE p == Start(events, n)
                 q == Start(events, n + 1)
      <4>2. /\ p \in Nat /\ q = p + Len(x) /\ Len(x) = HEADER + Len(b)
            /\ consumed = p + HEADER /\ consumed' = consumed + want
        BY <2>1, <3>1, <3>2, <3>4
      <4> HIDE DEF p, q
      <4>3. consumed' = q
        BY <1>1, <4>1, <4>2
      <4> QED BY <4>1, <4>3 DEF q
    <3>6. ASSUME NEW i \in 1..Len(b) PROVE buffer'[i] = b[i]
      <4>1. /\ HEADER + i \in 1..Len(x)
            /\ consumed + i = Start(events, n) + (HEADER + i)
        BY <1>1, <3>1, <3>2, <3>4, <3>5
      <4> QED BY <2>2, <3>2, <3>4, <3>5, <4>1
    <3>7. buffer' = b
      BY <2>2, <3>4, <3>5, <3>6, SeqEqual
    <3> QED BY <3>5, <3>7 DEF b, event
  <2> QED BY <1>5, <2>1, <2>2, <2>3, <2>4
<1>10. ASSUME NEW ok \in BOOLEAN, T!Publish(ok) PROVE FramingInv'
  <2> DEFINE r == [buffer |-> buffer, ok |-> ok]
  <2>1. /\ reading = "publish" /\ requests' = Append(requests, r)
        /\ buffer' = <<>> /\ reading' = "header"
        /\ UNCHANGED <<events, stream, consumed>>
    BY <1>10 DEF T!Publish, T!gameVars
  <2>2. r \in Requests /\ r.buffer = buffer /\ buffer' \in Seq(Nat)
    BY <1>2, <2>1 DEF Requests
  <2> HIDE DEF r
  <2>3. /\ requests' \in Seq(Requests) /\ Len(requests') = n + 1
        /\ \A k \in 1..n : requests'[k] = requests[k]
        /\ requests'[n + 1] = r
    BY <1>2, <2>1, <2>2, AppendProperties DEF n
  <2>4. Whole(events, n + 1) => Whole(events, n)
    <3>1. n + 1 \in Nat /\ n \in 0..(n + 1)
      BY <1>2
    <3> QED BY <1>1, <3>1, WholeBefore
  <2>5. ASSUME NEW k \in 1..(n + 1), Whole(events, k)
        PROVE  requests'[k].buffer = T!Body(events[k].pairs)
    <3>1. CASE k = n + 1
      BY <1>3, <2>1, <2>2, <2>3, <2>4, <2>5, <3>1
    <3>2. CASE k # n + 1
      <4>1. k \in 1..n
        BY <1>2, <3>2
      <4> QED BY <1>2, <2>3, <2>5, <4>1
    <3> QED BY <3>1, <3>2
  <2>6. ASSUME Whole(events, m) PROVE n + 1 <= m
    <3>1. n <= m
      BY <1>2, <2>6
    <3>2. Whole(events, n)
      <4>1. n \in 0..m
        BY <1>1, <1>2, <3>1
      <4> QED BY <1>1, <2>6, <4>1, WholeBefore
    <3>3. n < m
      BY <1>3, <2>1, <3>2
    <3> QED BY <1>1, <1>2, <3>3
  <2>7. Whole(events, n + 1) => consumed = Start(events, n + 1)
    BY <1>3, <2>1, <2>4
  <2> QED
    BY <1>2, <2>1, <2>2, <2>3, <2>5, <2>6, <2>7 DEF FramingInv, Requests, m
<1>11. ASSUME NEW event \in T!Sendable, T!GameSends(event) PROVE FramingInv'
  <2>1. /\ events' = Append(events, event) /\ stream' = stream \o event.bytes
        /\ UNCHANGED <<reading, consumed, want, buffer, requests>>
    BY <1>11 DEF T!GameSends
  <2>2. /\ stream' = FlattenSeq(Frames(events'))
        /\ \A k \in 0..m : /\ Start(events', k) = Start(events, k)
                           /\ Whole(events', k) <=> Whole(events, k)
        /\ \A k \in 1..m : events'[k] = events[k]
        /\ Len(events') = m + 1
    BY <1>1, <1>2, <2>1, FramesGrow DEF m
  <2>3. /\ events' \in Seq(T!Sendable) /\ m \in 0..(m + 1) /\ m + 1 \in Nat /\ m \in 0..m
    BY <1>1, <2>1, AppendProperties
  <2>4. ASSUME NEW k \in 0..n, Whole(events', k) PROVE k <= m /\ Whole(events, k)
    <3>1. k <= m + 1
      BY <2>2, <2>4 DEF Whole
    <3>2. CASE k = m + 1
      <4>1. Whole(events, m)
        BY <2>2, <2>3, <2>4, <3>2, WholeBefore
      <4>2. n <= m
        BY <1>2, <4>1
      <4> QED BY <1>1, <1>2, <3>2, <4>2
    <3>3. CASE k # m + 1
      <4>1. k \in 0..m
        BY <1>1, <1>2, <3>1, <3>3
      <4> QED BY <2>2, <2>4, <4>1
    <3> QED BY <3>2, <3>3
  <2>5. ASSUME NEW k \in 1..n, Whole(events', k)
        PROVE  requests[k].buffer = T!Body(events'[k].pairs)
    <3>1. k \in 0..n
      BY <1>2
    <3>2. k <= m /\ Whole(events, k)
      BY <2>4, <2>5, <3>1
    <3>3. k \in 1..m
      BY <1>1, <1>2, <3>2
    <3> QED BY <1>2, <2>2, <3>2, <3>3
  <2>6. ASSUME Whole(events', m + 1) PROVE n <= m + 1
    <3>1. Whole(events, m)
      BY <2>2, <2>3, <2>6, WholeBefore
    <3> QED BY <1>1, <1>2, <3>1
  <2>7. ASSUME Whole(events', n)
        PROVE  /\ Whole(events, n) /\ Start(events', n) = Start(events, n)
               /\ n < m => /\ events'[n + 1] = events[n + 1]
                           /\ Start(events', n + 1) = Start(events, n + 1)
                           /\ Whole(events', n + 1) <=> Whole(events, n + 1)
    <3>1. n \in 0..n
      BY <1>2
    <3>2. n <= m /\ Whole(events, n)
      BY <2>4, <2>7, <3>1
    <3>3. n \in 0..m /\ (n < m => n + 1 \in 0..m /\ n + 1 \in 1..m)
      BY <1>1, <1>2, <3>2
    <3> QED BY <2>2, <3>2, <3>3
  <2>8. n < m => n < m + 1
    BY <1>1, <1>2
  <2>9. Whole(events', n) =>
           /\ reading = "header" => consumed = Start(events', n)
           /\ reading = "body" =>
                 /\ n < m + 1 /\ consumed = Start(events', n) + HEADER
                 /\ want = (events'[n + 1].bytes[HEADER] - HEADER) % WIDTH
           /\ reading = "publish" =>
                 /\ n < m + 1
                 /\ Whole(events', n + 1) =>
                       /\ consumed = Start(events', n + 1)
                       /\ buffer = T!Body(events'[n + 1].pairs)
    BY <1>3, <2>7, <2>8, Zenon
  <2> QED
    BY <1>2, <2>1, <2>2, <2>5, <2>6, <2>9, Zenon DEF FramingInv, Requests, n
<1> QED
  BY <1>6, <1>7, <1>8, <1>9, <1>10, <1>11 DEF T!Next, T!Step, T!Progress

\* What is published is what the game sent.
LEMMA FramedInOrder ==
  ASSUME TellingInv, FramingInv
  PROVE  T!EventsInOrder
<1>1. /\ events \in Seq(T!Sendable) /\ requests \in Seq(Requests)
      /\ Len(events) \in Nat /\ DOMAIN requests = 1..Len(requests)
  BY DEF TellingInv, FramingInv, Requests
<1>2. ASSUME NEW k \in DOMAIN requests, T!Sound(k)
      PROVE  T!Values(requests[k].buffer) = T!Plain(events[k].pairs)
  <2>1. k \in 1..Len(requests) /\ k \in 1..Len(events) /\ k \in 1..k
    BY <1>1, <1>2 DEF T!Sound
  <2>2. Whole(events, k) /\ events[k].bytes[HEADER] >= HEADER
    BY <1>2, <2>1, Zenon DEF T!Sound, Whole
  <2>3. requests[k].buffer = T!Body(events[k].pairs)
    BY <2>1, <2>2 DEF FramingInv
  <2>4. events[k].pairs \in Events
    BY <1>1, <2>1, <2>2, FrameIs, ElementOfSeq
  <2> QED BY <2>3, <2>4, Decoded
<1>3. T!Sound(Len(events)) => Len(requests) <= Len(events)
  BY Zenon DEF T!Sound, Whole, FramingInv
<1> QED BY <1>2, <1>3 DEF T!EventsInOrder

------------------------------------------------------------------------------
(* The connections *)

\* The connection is one server's, and the invariants of all four hold of it: those that
\* have not accepted it stay as they started.
ConnectionInv ==
    /\ server \in {"redirector", "telemetry", "blaze", "http"}
    /\ server # "redirector" => result = "None"
    /\ RedirectorInv /\ B!TypeOK /\ ServingInv /\ TellingInv /\ FramingInv

\* The end of the game's side on another server's connection changes nothing.
LEMMA RedirectorStays ==
  ASSUME RedirectorInv, result = "None", UNCHANGED redirectorVars, closed' \in BOOLEAN
  PROVE  RedirectorInv'
  BY DEF RedirectorInv, redirectorVars, R!TypeOK, Numbered, Answered,
         NothingPassedOver, HowItEnded, TakenPackets

\* Nor does it move a Blaze link that is not there.
LEMMA LinkStays ==
  ASSUME B!TypeOK, UNCHANGED blazeVars, closed' \in BOOLEAN
  PROVE  B!TypeOK'
  BY DEF blazeVars, B!TypeOK

\* Nor does it answer a request.
LEMMA ServingStays ==
  ASSUME ServingInv, UNCHANGED httpVars, closed' \in BOOLEAN
  PROVE  ServingInv'
  BY DEF ServingInv, httpVars, H!TypeOK, H!AnswersAreTheServers, H!Current

\* Nor does it send or read an event.
LEMMA TellingStays ==
  ASSUME TellingInv, UNCHANGED telemetryVars, closed' \in BOOLEAN
  PROVE  TellingInv'
  BY DEF TellingInv, telemetryVars, T!TypeOK

\* Nor does it move what the telemetry server reads out of frame.
LEMMA FramingStays ==
  ASSUME FramingInv, UNCHANGED telemetryVars
  PROVE  FramingInv'
  BY DEF FramingInv, telemetryVars

\* Every step is one of the chosen server's, or a stop, which moves none of them.
LEMMA StepIsOneServers ==
  ASSUME Next
  PROVE  \/ Redirecting(R!Next) \/ Telling(T!Next) \/ Linking(B!Next)
         \/ Serving(H!Next) \/ Stop
  BY DEF Next, Dropped, Redirecting, Telling, Linking, R!Next, T!Next, B!Next

\* Every step of a connection keeps the invariant.
LEMMA ConnectionStep == ConnectionInv /\ [Next]_vars => ConnectionInv'
<1> SUFFICES ASSUME ConnectionInv, [Next]_vars PROVE ConnectionInv'
  OBVIOUS
<1>1. /\ RedirectorInv /\ B!TypeOK /\ ServingInv /\ TellingInv /\ FramingInv
      /\ server # "redirector" => result = "None"
      /\ server \in {"redirector", "telemetry", "blaze", "http"}
  BY DEF ConnectionInv
<1>2. CASE Redirecting(R!Next)
  <2>1. /\ R!Next /\ server = "redirector" /\ server' = server
        /\ UNCHANGED telemetryVars /\ UNCHANGED blazeVars /\ UNCHANGED httpVars
    BY <1>2 DEF Redirecting
  <2>2. RedirectorInv'
    BY <1>1, <2>1, RedirectorStep
  <2>3. closed' \in BOOLEAN
    BY <2>2 DEF RedirectorInv, R!TypeOK
  <2> QED
    BY <1>1, <2>1, <2>2, <2>3, LinkStays, ServingStays, TellingStays,
       FramingStays
    DEF ConnectionInv
<1>3. CASE Telling(T!Next)
  <2>1. /\ T!Next /\ server = "telemetry" /\ server' = server
        /\ UNCHANGED redirectorVars /\ UNCHANGED blazeVars /\ UNCHANGED httpVars
    BY <1>3 DEF Telling
  <2>2. TellingInv' /\ FramingInv' /\ result' = "None"
    BY <1>1, <2>1, TellingStep, FramingStep DEF redirectorVars
  <2>3. closed' \in BOOLEAN
    BY <2>2 DEF TellingInv, T!TypeOK
  <2> QED
    BY <1>1, <2>1, <2>2, <2>3, LinkStays, ServingStays, RedirectorStays
    DEF ConnectionInv
<1>4. CASE Linking(B!Next)
  <2>1. /\ B!Next /\ server = "blaze" /\ server' = server
        /\ UNCHANGED redirectorVars /\ UNCHANGED telemetryVars /\ UNCHANGED httpVars
    BY <1>4 DEF Linking
  <2>2. B!TypeOK' /\ result' = "None"
    BY <1>1, <2>1, LinkStep DEF redirectorVars
  <2>3. closed' \in BOOLEAN
    BY <2>2 DEF B!TypeOK
  <2> QED
    BY <1>1, <2>1, <2>2, <2>3, ServingStays, RedirectorStays, TellingStays,
       FramingStays
    DEF ConnectionInv
<1>5. CASE Serving(H!Next)
  <2>1. /\ H!Next /\ server = "http" /\ server' = server
        /\ UNCHANGED redirectorVars /\ UNCHANGED telemetryVars /\ UNCHANGED blazeVars
    BY <1>5 DEF Serving
  <2>2. ServingInv' /\ result' = "None"
    BY <1>1, <2>1, ServingStep DEF redirectorVars
  <2>3. closed' \in BOOLEAN
    BY <2>2 DEF ServingInv, H!TypeOK
  <2> QED
    BY <1>1, <2>1, <2>2, <2>3, LinkStays, RedirectorStays, TellingStays,
       FramingStays
    DEF ConnectionInv
<1>6. ASSUME UNCHANGED <<server, closed>>, UNCHANGED redirectorVars,
             UNCHANGED telemetryVars, UNCHANGED blazeVars, UNCHANGED httpVars
      PROVE  ConnectionInv'
  <2>1. closed \in BOOLEAN
    BY <1>1 DEF B!TypeOK
  <2>2. B!TypeOK' /\ ServingInv' /\ TellingInv' /\ FramingInv'
    BY <1>1, <1>6, <2>1, LinkStays, ServingStays, TellingStays, FramingStays
  <2>3. RedirectorInv' /\ result' = result
    BY <1>1, <1>6
    DEF RedirectorInv, redirectorVars, R!TypeOK, Numbered, Answered,
        NothingPassedOver, HowItEnded, TakenPackets
  <2> QED BY <1>1, <1>6, <2>2, <2>3 DEF ConnectionInv
<1>7. CASE Stop
  BY <1>6, <1>7 DEF Stop
<1>8. CASE UNCHANGED vars
  BY <1>6, <1>8 DEF vars
<1> QED
  BY <1>2, <1>3, <1>4, <1>5, <1>7, <1>8, StepIsOneServers

\* The invariant holds throughout a connection.
LEMMA ConnectionInvariance == Spec => []ConnectionInv
<1>1. Init => ConnectionInv
  BY RedirectorInitial, ServingInitial, TellingInitial, FramingInitial
  DEF Init, ConnectionInv, R!Init, B!Init, B!TypeOK
<1>2. QED
  BY <1>1, ConnectionStep, PTL DEF Spec

\* The redirector answers every packet in its place and nothing behind the
\* redirect, and the HTTP server answers every request in its turn with the status
\* that the Pocket Relay server gave it, or with its own error where the path was
\* no URL or the client's request failed.
THEOREM ConnectionsAnswerInOrder == Spec => []Inv
<1>1. ConnectionInv => Inv
  <2> SUFFICES ASSUME ConnectionInv PROVE Inv
    OBVIOUS
  <2>1. R!AnsweredInOrder
    <3>1. /\ sent \in Seq(R!Packets) /\ asked \in Seq(R!Packets)
          /\ Len(sent) \in Nat /\ Len(asked) \in Nat /\ Len(sent) <= Len(asked)
          /\ \A k \in 1..Len(sent) : sent[k] = asked[k]
          /\ \A k \in 1..(Len(sent) - 1) : ~sent[k].redirect
      BY DEF ConnectionInv, RedirectorInv, R!TypeOK, Answered
    <3>2. SubSeq(sent, 1, Len(sent)) = SubSeq(asked, 1, Len(sent))
      BY <3>1
    <3>3. R!IsPrefix(sent, asked)
      BY <3>1, <3>2 DEF R!IsPrefix
    <3>4. result = "Ok" /\ ~closed => sent # <<>> /\ R!Last(sent).redirect
      <4>1. result = "Ok" /\ ~closed => Len(sent) > 0 /\ sent[Len(sent)].redirect
        BY DEF ConnectionInv, RedirectorInv, HowItEnded
      <4>2. sent = <<>> => Len(sent) = 0
        OBVIOUS
      <4> QED BY <4>1, <4>2 DEF R!Last
    <3> QED BY <3>1, <3>3, <3>4 DEF R!AnsweredInOrder
  <2> QED
    BY <2>1 DEF ConnectionInv, RedirectorInv, ServingInv, TellingInv, Inv, R!Inv
<1>2. QED
  BY <1>1, ConnectionInvariance, PTL

\* When a redirector connection times out, every packet that the game sent has
\* been answered, and the game has not closed the connection.
THEOREM OnlySilenceTimesOut == Spec => []TimesOutWhenSilent
<1>1. ConnectionInv => TimesOutWhenSilent
  <2> SUFFICES ASSUME ConnectionInv, result = "Timeout" PROVE sent = asked /\ ~closed
    BY DEF TimesOutWhenSilent, R!TimesOutWhenSilent
  <2>1. /\ sent \in Seq(R!Packets) /\ asked \in Seq(R!Packets)
        /\ Len(sent) = Len(asked) /\ ~closed
        /\ \A k \in 1..Len(sent) : sent[k] = asked[k]
    BY DEF ConnectionInv, RedirectorInv, R!TypeOK, Answered, HowItEnded
  <2> QED BY <2>1, SeqEqual
<1>2. QED
  BY <1>1, ConnectionInvariance, PTL

\* Every event whose length, and those of the events before it, can be theirs is
\* published in its turn, once, and decoded to what the game meant: its keys, its
\* printed values, and the text that it had enciphered.
THEOREM TelemetryInOrder == Spec => []EventsInOrder
<1>1. ConnectionInv => EventsInOrder
  BY FramedInOrder DEF ConnectionInv, EventsInOrder
<1>2. QED
  BY <1>1, ConnectionInvariance, PTL
==============================================================================
