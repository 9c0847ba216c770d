--------------------------- MODULE QosServerProofs ---------------------------
(***************************************************************************)
(* The task registry for any set of tasks, and the quality of service server *)
(* for any number of them and any time an address is kept.  The server's      *)
(* steps are steps of the registry, or leave it alone, so what is shown of    *)
(* the registry holds of the server.                                        *)
(*                                                                          *)
(* RunningTasksAreKnown and HandlesMoveOnce need more than themselves: that  *)
(* a handle a spawner has yet to add is nowhere else, and that two spawners  *)
(* never add the same one.  Both rest on a task being spawned once.          *)
(*                                                                          *)
(* That the lock is held by the handler that looks up needs, of the queue,   *)
(* that a handler is in it once and only while it waits: LeaveQueue takes    *)
(* the right one out, and the head of the queue waits for what it gets.      *)
(***************************************************************************)
EXTENDS QosServer, SequenceTheorems, TLAPS

------------------------------------------------------------------------------
(* The task registry *)

\* The handle that a spawner has yet to add is in no list and has not been
\* called, and no other spawner adds it.
AddedOnce ==
    \A s \in Spawners :
        adding[s] # None =>
            /\ adding[s] \in Tasks \ (unborn \cup collection \cup stopping \cup aborted)
            /\ \A r \in Spawners \ {s} : adding[r] # adding[s]

\* What stop_server_tasks took is called before it returns.
TakenInStop == stopping # {} => in_stop

\* A handle that was called is not called again.
CalledOnce == stopping \cap aborted = {}

IInv ==
    /\ TypeOK
    /\ RunningTasksAreKnown
    /\ HandlesMoveOnce
    /\ AddedOnce
    /\ TakenInStop
    /\ CalledOnce

LEMMA Initially == Init => IInv
BY MainAssumption
   DEF Init, IInv, TypeOK, RunningTasksAreKnown, HandlesMoveOnce, AddedOnce,
       TakenInStop, CalledOnce, None, Spawners

LEMMA Step == IInv /\ [Next]_vars => IInv'
<1> SUFFICES ASSUME IInv, [Next]_vars PROVE IInv'
  OBVIOUS
<1> USE MainAssumption DEF None, Spawners
<1>1. ASSUME NEW s \in Spawners, NEW t \in Tasks, Spawn(s, t) PROVE IInv'
  <2> USE <1>1 DEF IInv, Spawn
  <2>1. TypeOK'
    BY DEF TypeOK
  <2>2. RunningTasksAreKnown'
    <3> SUFFICES ASSUME NEW r \in running'
                 PROVE  \/ r \in (collection \cup stopping \cup aborted)'
                        \/ \E q \in Spawners : adding'[q] = r
      BY DEF RunningTasksAreKnown
    <3>1. CASE r = t
      BY <3>1 DEF TypeOK
    <3>2. CASE r # t
      <4>1. r \in running
        BY <3>2
      <4>2. CASE r \in collection \cup stopping \cup aborted
        BY <4>2
      <4>3. ASSUME NEW q \in Spawners, adding[q] = r PROVE adding'[q] = r
        <5>1. r # None
          BY <4>1 DEF TypeOK
        <5> QED BY <4>3, <5>1 DEF TypeOK
      <4> QED BY <4>1, <4>2, <4>3 DEF RunningTasksAreKnown
    <3> QED BY <3>1, <3>2
  <2>3. HandlesMoveOnce'
    BY DEF HandlesMoveOnce
  <2>4. AddedOnce'
    BY DEF AddedOnce, TypeOK
  <2>5. TakenInStop' /\ CalledOnce'
    BY DEF TakenInStop, CalledOnce
  <2> QED BY <2>1, <2>2, <2>3, <2>4, <2>5
<1>2. ASSUME NEW s \in Spawners, AddServerTask(s) PROVE IInv'
  <2> USE <1>2 DEF IInv, AddServerTask
  <2>1. adding[s] \in Tasks \ (unborn \cup collection \cup stopping \cup aborted)
    BY DEF AddedOnce
  <2>2. TypeOK'
    BY <2>1 DEF TypeOK
  <2>3. RunningTasksAreKnown'
    BY DEF RunningTasksAreKnown, TypeOK
  <2>4. HandlesMoveOnce'
    BY <2>1 DEF HandlesMoveOnce
  <2>5. AddedOnce'
    BY DEF AddedOnce, TypeOK
  <2>6. TakenInStop' /\ CalledOnce'
    BY DEF TakenInStop, CalledOnce
  <2> QED BY <2>2, <2>3, <2>4, <2>5, <2>6
<1>3. ASSUME NEW t \in Tasks, Finish(t) \/ Cancel(t) PROVE IInv'
  BY <1>3 DEF Finish, Cancel, IInv, TypeOK, RunningTasksAreKnown,
              HandlesMoveOnce, AddedOnce, TakenInStop, CalledOnce
<1>4. CASE StopTakes
  <2> USE <1>4 DEF IInv, StopTakes
  <2>1. stopping = {}
    BY DEF TakenInStop
  <2>2. TypeOK' /\ RunningTasksAreKnown' /\ HandlesMoveOnce' /\ TakenInStop'
    BY <2>1 DEF TypeOK, RunningTasksAreKnown, HandlesMoveOnce, TakenInStop
  <2>3. AddedOnce' /\ CalledOnce'
    BY <2>1 DEF AddedOnce, HandlesMoveOnce, CalledOnce
  <2> QED BY <2>2, <2>3
<1>5. ASSUME NEW t \in Tasks, StopAborts(t) PROVE IInv'
  BY <1>5 DEF StopAborts, IInv, TypeOK, RunningTasksAreKnown, HandlesMoveOnce,
              AddedOnce, TakenInStop, CalledOnce
<1>6. CASE StopReturns
  BY <1>6 DEF StopReturns, IInv, TypeOK, RunningTasksAreKnown, HandlesMoveOnce,
              AddedOnce, TakenInStop, CalledOnce
<1>7. CASE UNCHANGED vars
  BY <1>7 DEF vars, IInv, TypeOK, RunningTasksAreKnown, HandlesMoveOnce,
              AddedOnce, TakenInStop, CalledOnce
<1> QED
  BY <1>1, <1>2, <1>3, <1>4, <1>5, <1>6, <1>7 DEF Next, Stop

LEMMA Invariance == Spec => []IInv
BY Initially, Step, PTL DEF Spec

\* The list of spawn_server_task and stop_server_tasks stays a list of tasks that
\* were spawned, whoever spawns and however often everything is stopped, and no
\* task whose handle has been added is out of reach of a stop.
THEOREM EveryTaskKnown == Spec => []Inv
<1>1. IInv => Inv
  BY DEF IInv, Inv
<1> QED BY <1>1, Invariance, PTL

\* A handle is in the list, taken or called, and never two of these.
THEOREM NoHandleTwice == Spec => [](HandlesMoveOnce /\ CalledOnce)
<1>1. IInv => HandlesMoveOnce /\ CalledOnce
  BY DEF IInv
<1> QED BY <1>1, Invariance, PTL

------------------------------------------------------------------------------
(* The quality of service server: its constants *)

LEMMA ServerAssumptions ==
    /\ Acceptors \subseteq Tasks /\ "none" \notin Tasks
    /\ ADDR_CACHE_TIME \in Nat \ {0} /\ MaxTime \in Nat
BY ServerAssumption

------------------------------------------------------------------------------
(* Sequences without repetition *)

LEMMA AppendOnce ==
    ASSUME NEW S, NEW q \in Seq(S), NEW e \in S, Cache!IsInjective(q),
           \A k \in DOMAIN q : q[k] # e
    PROVE  /\ Append(q, e) \in Seq(S) /\ Cache!IsInjective(Append(q, e))
           /\ \A k \in DOMAIN Append(q, e) :
                 \/ Append(q, e)[k] = e
                 \/ \E j \in DOMAIN q : Append(q, e)[k] = q[j]
<1> DEFINE t == Append(q, e)
<1>1. /\ t \in Seq(S) /\ Len(t) = Len(q) + 1 /\ t[Len(q) + 1] = e
      /\ \A k \in 1..Len(q) : t[k] = q[k]
  BY AppendProperties
<1>2. Len(q) \in Nat /\ DOMAIN q = 1..Len(q) /\ DOMAIN t = 1..(Len(q) + 1)
  BY <1>1, LenProperties
<1> HIDE DEF t
<1>3. \A k \in DOMAIN t : k \in 1..Len(q) \/ k = Len(q) + 1
  BY <1>2
<1>4. Cache!IsInjective(t)
  BY <1>1, <1>2, <1>3 DEF Cache!IsInjective
<1>5. \A k \in DOMAIN t : t[k] = e \/ \E j \in DOMAIN q : t[k] = q[j]
  BY <1>1, <1>2, <1>3
<1> QED BY <1>1, <1>4, <1>5 DEF t

LEMMA TailOnce ==
    ASSUME NEW S, NEW q \in Seq(S), q # <<>>, Cache!IsInjective(q)
    PROVE  /\ Tail(q) \in Seq(S) /\ Cache!IsInjective(Tail(q))
           /\ \A k \in DOMAIN Tail(q) :
                 Tail(q)[k] # Head(q) /\ \E j \in DOMAIN q : Tail(q)[k] = q[j]
<1> DEFINE t == Tail(q)
<1>1. /\ t \in Seq(S) /\ Len(t) = Len(q) - 1
      /\ \A k \in 1..Len(t) : t[k] = q[k + 1]
  BY HeadTailProperties
<1>2. /\ Len(q) \in Nat \ {0} /\ Head(q) = q[1] /\ DOMAIN q = 1..Len(q)
      /\ DOMAIN t = 1..(Len(q) - 1)
  BY <1>1, LenProperties, EmptySeq
<1> HIDE DEF t
<1>3. \A k \in DOMAIN t : k + 1 \in DOMAIN q /\ k + 1 # 1 /\ t[k] = q[k + 1]
  BY <1>1, <1>2
<1>4. 1 \in DOMAIN q
  BY <1>2
<1>5. \A i, j \in DOMAIN t : t[i] = t[j] => i = j
  <2> SUFFICES ASSUME NEW i \in DOMAIN t, NEW j \in DOMAIN t, t[i] = t[j]
               PROVE  i = j
    OBVIOUS
  <2>1. i + 1 = j + 1
    BY <1>3 DEF Cache!IsInjective
  <2> QED BY <1>2, <2>1
<1>6. \A k \in DOMAIN t : t[k] # Head(q) /\ \E j \in DOMAIN q : t[k] = q[j]
  BY <1>2, <1>3, <1>4 DEF Cache!IsInjective
<1> QED BY <1>1, <1>5, <1>6 DEF t, Cache!IsInjective

LEMMA RemoveAtOnce ==
    ASSUME NEW S, NEW q \in Seq(S), NEW k \in DOMAIN q, Cache!IsInjective(q)
    PROVE  /\ Cache!RemoveAt(q, k) \in Seq(S) /\ Cache!IsInjective(Cache!RemoveAt(q, k))
           /\ \A i \in DOMAIN Cache!RemoveAt(q, k) :
                 /\ Cache!RemoveAt(q, k)[i] # q[k]
                 /\ \E j \in DOMAIN q : Cache!RemoveAt(q, k)[i] = q[j]
<1> DEFINE n == Len(q)
           a == SubSeq(q, 1, k - 1)
           b == SubSeq(q, k + 1, n)
           t == a \o b
           at(i) == IF i < k THEN i ELSE i + 1
<1>1. n \in Nat /\ DOMAIN q = 1..n /\ k \in 1..n
  BY LenProperties
<1>2. /\ a \in Seq(S) /\ Len(a) = k - 1
      /\ \A i \in 1..(k - 1) : a[i] = q[i]
  BY <1>1, SubSeqProperties
<1>3. /\ b \in Seq(S) /\ Len(b) = n - k
      /\ \A i \in 1..(n - k) : b[i] = q[k + i]
  BY <1>1, SubSeqProperties
<1>4. /\ t \in Seq(S) /\ Len(t) = (k - 1) + (n - k)
      /\ \A i \in 1..((k - 1) + (n - k)) :
            t[i] = IF i <= k - 1 THEN a[i] ELSE b[i - (k - 1)]
  <2> HIDE DEF a, b
  <2>1. /\ t \in Seq(S) /\ Len(t) = Len(a) + Len(b)
        /\ \A i \in 1..(Len(a) + Len(b)) :
              t[i] = IF i <= Len(a) THEN a[i] ELSE b[i - Len(a)]
    BY <1>2, <1>3, ConcatProperties
  <2> QED BY <1>2, <1>3, <2>1
<1>5. DOMAIN t = 1..(n - 1)
  BY <1>1, <1>4, LenProperties
<1> HIDE DEF n, a, b, t
<1>6. \A i \in DOMAIN t : at(i) \in DOMAIN q /\ at(i) # k /\ t[i] = q[at(i)]
  <2> SUFFICES ASSUME NEW i \in DOMAIN t
               PROVE  at(i) \in DOMAIN q /\ at(i) # k /\ t[i] = q[at(i)]
    OBVIOUS
  <2>1. i \in 1..(n - 1)
    BY <1>5
  <2>2. CASE i < k
    <3>1. i \in 1..(k - 1) /\ t[i] = a[i]
      BY <1>1, <1>4, <2>1, <2>2
    <3> QED BY <1>1, <1>2, <2>1, <2>2, <3>1
  <2>3. CASE ~(i < k)
    <3>1. i - (k - 1) \in 1..(n - k) /\ t[i] = b[i - (k - 1)]
      BY <1>1, <1>4, <2>1, <2>3
    <3>2. k + (i - (k - 1)) = i + 1
      BY <1>1, <2>1
    <3>3. t[i] = q[i + 1]
      BY <1>3, <3>1, <3>2
    <3> QED BY <1>1, <2>1, <2>3, <3>3
  <2> QED BY <2>2, <2>3
<1>7. \A i, j \in DOMAIN t : t[i] = t[j] => i = j
  <2> SUFFICES ASSUME NEW i \in DOMAIN t, NEW j \in DOMAIN t, t[i] = t[j]
               PROVE  i = j
    OBVIOUS
  <2>1. at(i) = at(j)
    BY <1>6 DEF Cache!IsInjective
  <2> QED BY <1>1, <1>5, <2>1
<1>8. \A i \in DOMAIN t : t[i] # q[k] /\ \E j \in DOMAIN q : t[i] = q[j]
  BY <1>6 DEF Cache!IsInjective
<1> QED BY <1>4, <1>7, <1>8 DEF t, a, b, n, Cache!RemoveAt, Cache!IsInjective

------------------------------------------------------------------------------
(* The server as a user of the registry *)

\* A step of the server is one of the registry, or leaves it alone.
LEMMA RegistryStep == [ServerNext]_serverVars => [Next]_vars
<1> SUFFICES ASSUME [ServerNext]_serverVars PROVE [Next]_vars
  OBVIOUS
<1> USE ServerAssumptions DEF Spawners, registryVars
<1>1. ASSUME NEW s \in Spawners, Add(s) PROVE Next
  BY <1>1 DEF Add, Next
<1>2. ASSUME NEW a \in Acceptors, Start(a) PROVE Next
  BY <1>2 DEF Start, Next
<1>3. ASSUME NEW a \in Acceptors, AcceptError(a) \/ StopAcceptor(a) PROVE Next
  BY <1>3 DEF AcceptError, StopAcceptor, Next
<1>4. ASSUME NEW a \in Acceptors, NEW h \in Handlers, Accept(a, h) PROVE Next
  BY <1>4 DEF Accept, Handlers, Next
<1>5. ASSUME NEW h \in Handlers, Serve(h) PROVE [Next]_vars
  BY <1>5 DEF Serve, Ask, Handle, EndLookup, Respond, Handlers, Next
<1>6. ASSUME NEW h \in Handlers, StopHandler(h) PROVE Next
  BY <1>6 DEF StopHandler, Handlers, Next
<1>7. CASE StopTasks
  BY <1>7 DEF StopTasks, Next
<1>8. CASE TimePasses
  BY <1>8 DEF TimePasses
<1>9. CASE UNCHANGED serverVars
  BY <1>9 DEF serverVars
<1> QED
  BY <1>1, <1>2, <1>3, <1>4, <1>5, <1>6, <1>7, <1>8, <1>9 DEF ServerNext

LEMMA ServerIsRegistry == ServerSpec => Spec
<1>1. ServerInit => Init
  BY DEF ServerInit
<1> QED BY <1>1, RegistryStep, PTL DEF ServerSpec, Spec

\* spawn_server_task and stop_server_tasks keep their list in order under the
\* quality of service server: it is of its types, and complete.
THEOREM ServerTasksAreKnown == ServerSpec => []Inv
<1>1. IInv => Inv
  BY DEF IInv, Inv
<1> QED BY <1>1, ServerIsRegistry, Invariance, PTL

------------------------------------------------------------------------------
(* The lock and the cache *)

Waits == \A k \in DOMAIN queue : pc[queue[k]] \in {"read", "write"}
HolderRuns == holder # "none" => holder \in running
ExpiresLater == cached # Cache!Unset =>
                    cached.expires = cached.value + ADDR_CACHE_TIME

LockIInv ==
    /\ Cache!TypeOK /\ Waits
    /\ Cache!OneLookupAtATime /\ HolderRuns /\ ExpiresLater

LEMMA HandlersAreNotNone == "none" \notin Handlers
BY ServerAssumptions DEF Handlers

LEMMA LockInitially == ServerInit => LockIInv
<1> SUFFICES ASSUME ServerInit PROVE LockIInv
  OBVIOUS
<1>1. queue = <<>> /\ queue \in Seq(Handlers) /\ DOMAIN queue = {}
  BY EmptySeq DEF ServerInit, Cache!Init
<1>2. Cache!IsInjective(queue) /\ Waits
  BY <1>1 DEF Cache!IsInjective, Waits
<1>3. Cache!TypeOK
  BY <1>1, <1>2, ServerAssumptions
     DEF ServerInit, Cache!Init, Cache!TypeOK, Cache!Nothing
<1>4. Cache!OneLookupAtATime /\ HolderRuns /\ ExpiresLater
  BY HandlersAreNotNone
     DEF ServerInit, Cache!Init, Cache!OneLookupAtATime, HolderRuns, ExpiresLater
<1> QED BY <1>2, <1>3, <1>4 DEF LockIInv

\* The queue after a step of a handler that comes to wait, goes on waiting, gets
\* the lock or leaves.
QueueOK == queue \in Seq(Handlers) /\ Cache!IsInjective(queue) /\ Waits

LEMMA QueueStep ==
    ASSUME LockIInv, NEW h \in Handlers,
           Cache!Ask(h) \/ Cache!Handle(h) \/ Cache!EndLookup(h) \/ Cache!Drop(h)
    PROVE  QueueOK'
<1> USE DEF LockIInv, Waits, QueueOK
<1>1. /\ queue \in Seq(Handlers) /\ Cache!IsInjective(queue)
      /\ \A k \in DOMAIN queue : queue[k] \in Handlers
      /\ pc \in [Handlers -> {"start", "read", "write", "lookup", "done", "dropped"}]
  BY LenProperties, ElementOfSeq DEF Cache!TypeOK
<1>2. CASE Cache!Ask(h)
  <2>1. \A k \in DOMAIN queue : queue[k] # h
    BY <1>1, <1>2 DEF Cache!Ask
  <2>2. queue' = Append(queue, h) /\ pc' = [pc EXCEPT ![h] = "read"]
    BY <1>2 DEF Cache!Ask
  <2> QED BY <1>1, <2>1, <2>2, AppendOnce
<1>3. CASE Cache!Handle(h)
  <2>1. /\ queue # <<>> /\ Head(queue) = h
        /\ \E p \in {"write", "lookup", "done"} : pc' = [pc EXCEPT ![h] = p]
        /\ \/ queue' = Tail(queue)
           \/ queue' = Append(Tail(queue), h) /\ pc' = [pc EXCEPT ![h] = "write"]
    BY <1>3 DEF Cache!Handle, Cache!ReadHit, Cache!ReadMiss, Cache!BeginLookup,
                Cache!HasTurn
  <2> DEFINE t == Tail(queue)
  <2>2. /\ t \in Seq(Handlers) /\ Cache!IsInjective(t)
        /\ \A k \in DOMAIN t : t[k] # h /\ \E j \in DOMAIN queue : t[k] = queue[j]
    BY <1>1, <2>1, TailOnce
  <2> HIDE DEF t
  <2>3. \A k \in DOMAIN t : t[k] \in Handlers /\ pc[t[k]] \in {"read", "write"}
    BY <1>1, <2>2
  <2>4. \A k \in DOMAIN t : pc'[t[k]] \in {"read", "write"}
    BY <1>1, <2>1, <2>2, <2>3
  <2>5. CASE queue' = t
    BY <2>2, <2>4, <2>5
  <2>6. CASE queue' = Append(t, h) /\ pc' = [pc EXCEPT ![h] = "write"]
    <3>1. /\ queue' \in Seq(Handlers) /\ Cache!IsInjective(queue')
          /\ \A k \in DOMAIN queue' :
                queue'[k] = h \/ \E j \in DOMAIN t : queue'[k] = t[j]
      BY <2>2, <2>6, AppendOnce
    <3>2. pc'[h] = "write"
      BY <1>1, <2>6
    <3> QED BY <2>4, <3>1, <3>2
  <2> QED BY <2>1, <2>5, <2>6 DEF t
<1>4. CASE Cache!EndLookup(h)
  <2>1. queue' = queue /\ pc' = [pc EXCEPT ![h] = "done"] /\ pc[h] = "lookup"
    BY <1>4 DEF Cache!EndLookup, Cache!LookupSucceeds, Cache!LookupFails
  <2>2. \A k \in DOMAIN queue : queue[k] # h
    BY <2>1
  <2> QED BY <1>1, <2>1, <2>2
<1>5. CASE Cache!Drop(h)
  <2>1. pc' = [pc EXCEPT ![h] = "dropped"]
    BY <1>5 DEF Cache!Drop
  <2>2. CASE pc[h] \in {"read", "write"}
    <3>1. PICK k \in DOMAIN queue : queue[k] = h /\ queue' = Cache!RemoveAt(queue, k)
      BY <1>5, <2>2 DEF Cache!Drop, Cache!LeaveQueue
    <3>2. /\ queue' \in Seq(Handlers) /\ Cache!IsInjective(queue')
          /\ \A i \in DOMAIN queue' :
                queue'[i] # h /\ \E j \in DOMAIN queue : queue'[i] = queue[j]
      BY <1>1, <3>1, RemoveAtOnce
    <3> QED BY <1>1, <2>1, <3>2
  <2>3. CASE pc[h] \notin {"read", "write"}
    <3>1. queue' = queue /\ \A k \in DOMAIN queue : queue[k] # h
      BY <1>5, <2>3 DEF Cache!Drop, Cache!LeaveQueue
    <3> QED BY <1>1, <2>1, <3>1
  <2> QED BY <2>2, <2>3
<1> QED BY <1>2, <1>3, <1>4, <1>5

\* The lock and the cache after a step of a handler that runs.
LEMMA HandlerStep ==
    ASSUME LockIInv, NEW h \in Handlers, h \in running, running' = running,
           Cache!Ask(h) \/ Cache!Handle(h) \/ Cache!EndLookup(h)
    PROVE  LockIInv'
<1> USE ServerAssumptions, HandlersAreNotNone
<1>1. QueueOK'
  BY QueueStep
<1>2. CASE Cache!Ask(h)
  <2>1. UNCHANGED <<holder, cached, answer, now>> /\ pc[h] = "start"
        /\ pc' = [pc EXCEPT ![h] = "read"]
    BY <1>2 DEF Cache!Ask
  <2> QED BY <1>1, <2>1
     DEF LockIInv, QueueOK, Cache!TypeOK, Cache!OneLookupAtATime, HolderRuns,
         ExpiresLater
<1>3. CASE Cache!ReadHit(h) \/ Cache!ReadMiss(h)
  <2>1. /\ UNCHANGED <<holder, cached, now>> /\ pc[h] = "read"
        /\ \/ pc' = [pc EXCEPT ![h] = "write"] /\ answer' = answer
           \/ /\ pc' = [pc EXCEPT ![h] = "done"] /\ cached # Cache!Unset
              /\ answer' = [answer EXCEPT ![h] = cached.value]
    BY <1>3 DEF Cache!ReadHit, Cache!ReadMiss, Cache!Fresh
  <2>2. cached # Cache!Unset => cached.value \in 0..MaxTime
    BY DEF LockIInv, Cache!TypeOK
  <2>3. answer' \in [Handlers -> 0..MaxTime \cup {Cache!Nothing}]
    BY <2>1, <2>2 DEF LockIInv, Cache!TypeOK
  <2>4. Cache!TypeOK'
    BY <1>1, <2>1, <2>3 DEF LockIInv, QueueOK, Cache!TypeOK
  <2> QED BY <1>1, <2>1, <2>4
     DEF LockIInv, QueueOK, Cache!TypeOK, Cache!OneLookupAtATime, HolderRuns,
         ExpiresLater
<1>4. CASE Cache!BeginLookup(h)
  <2>1. /\ UNCHANGED <<cached, answer, now>> /\ holder = "none" /\ holder' = h
        /\ pc' = [pc EXCEPT ![h] = "lookup"]
    BY <1>4 DEF Cache!BeginLookup, Cache!HasTurn
  <2> QED BY <1>1, <2>1
     DEF LockIInv, QueueOK, Cache!TypeOK, Cache!OneLookupAtATime, HolderRuns,
         ExpiresLater
<1>5. CASE Cache!EndLookup(h)
  <2>1. /\ pc[h] = "lookup" /\ pc' = [pc EXCEPT ![h] = "done"]
        /\ holder' = "none" /\ now' = now
        /\ \/ UNCHANGED <<cached, answer>>
           \/ /\ cached' = [value |-> now, expires |-> now + ADDR_CACHE_TIME]
              /\ answer' = [answer EXCEPT ![h] = now]
    BY <1>5 DEF Cache!EndLookup, Cache!LookupSucceeds, Cache!LookupFails
  <2>2. Cache!OneLookupAtATime'
    BY <2>1 DEF LockIInv, Cache!TypeOK, Cache!OneLookupAtATime
  <2>3. CASE UNCHANGED <<cached, answer>>
    BY <1>1, <2>1, <2>2, <2>3
       DEF LockIInv, QueueOK, Cache!TypeOK, HolderRuns, ExpiresLater
  <2>4. CASE /\ cached' = [value |-> now, expires |-> now + ADDR_CACHE_TIME]
             /\ answer' = [answer EXCEPT ![h] = now]
    <3>1. now \in 0..MaxTime /\ now + ADDR_CACHE_TIME \in Nat
      BY DEF LockIInv, Cache!TypeOK
    <3>2. cached'.value = now /\ cached'.expires = now + ADDR_CACHE_TIME
      BY <2>4
    <3>3. Cache!TypeOK'
      BY <1>1, <2>1, <2>4, <3>1, <3>2 DEF LockIInv, QueueOK, Cache!TypeOK
    <3>4. ExpiresLater' /\ HolderRuns'
      BY <2>1, <3>2 DEF ExpiresLater, HolderRuns
    <3> QED BY <1>1, <2>2, <3>3, <3>4 DEF LockIInv, QueueOK
  <2> QED BY <2>1, <2>3, <2>4
<1> QED BY <1>2, <1>3, <1>4, <1>5 DEF Cache!Handle

\* A handler that is dropped takes its lock and its place in the queue with it.
LEMMA DropStep ==
    ASSUME LockIInv, NEW h \in Handlers, Cache!Drop(h), running' = running \ {h}
    PROVE  LockIInv'
<1>1. QueueOK'
  BY QueueStep
<1>2. /\ pc' = [pc EXCEPT ![h] = "dropped"] /\ UNCHANGED <<cached, answer, now>>
      /\ holder' = IF holder = h THEN "none" ELSE holder
  BY DEF Cache!Drop
<1>3. Cache!TypeOK' /\ ExpiresLater'
  BY <1>1, <1>2 DEF LockIInv, QueueOK, Cache!TypeOK, ExpiresLater
<1>4. Cache!OneLookupAtATime' /\ HolderRuns'
  BY <1>2, HandlersAreNotNone
     DEF LockIInv, Cache!TypeOK, Cache!OneLookupAtATime, HolderRuns
<1> QED BY <1>1, <1>3, <1>4 DEF LockIInv, QueueOK

\* A step that leaves the cache alone and does not end the task with the lock.
LEMMA OtherStep ==
    ASSUME LockIInv, UNCHANGED cacheVars,
           \A t \in running : t \in running' \/ t # holder
    PROVE  LockIInv'
BY DEF LockIInv, cacheVars, Waits, HolderRuns, ExpiresLater, Cache!TypeOK,
       Cache!OneLookupAtATime

LEMMA LockStep == LockIInv /\ [ServerNext]_serverVars => LockIInv'
<1> SUFFICES ASSUME LockIInv, [ServerNext]_serverVars PROVE LockIInv'
  OBVIOUS
<1> USE DEF registryVars, vars
<1>1. holder \in Handlers \cup {"none"} /\ "none" \notin Tasks
      /\ pc \in [Handlers -> {"start", "read", "write", "lookup", "done", "dropped"}]
  BY ServerAssumptions DEF LockIInv, Cache!TypeOK
<1>2. \A a \in Acceptors : a # holder
  BY <1>1, ServerAssumptions DEF Handlers
<1>3. \A h \in Handlers : pc[h] = "done" => h # holder
  BY <1>1 DEF LockIInv, Cache!OneLookupAtATime
<1>4. ASSUME NEW s \in Spawners, Add(s) PROVE LockIInv'
  BY <1>4, OtherStep DEF Add, AddServerTask
<1>5. ASSUME NEW a \in Acceptors, Start(a) PROVE LockIInv'
  BY <1>5, OtherStep DEF Start, Spawn
<1>6. ASSUME NEW a \in Acceptors, AcceptError(a) \/ StopAcceptor(a) PROVE LockIInv'
  BY <1>2, <1>6, OtherStep DEF AcceptError, StopAcceptor, Finish, Cancel
<1>7. ASSUME NEW a \in Acceptors, NEW h \in Handlers, Accept(a, h) PROVE LockIInv'
  BY <1>7, OtherStep DEF Accept, Spawn
<1>8. ASSUME NEW h \in Handlers, Ask(h) \/ Handle(h) \/ EndLookup(h)
      PROVE  LockIInv'
  BY <1>8, HandlerStep DEF Ask, Handle, EndLookup
<1>9. ASSUME NEW h \in Handlers, Respond(h) PROVE LockIInv'
  BY <1>3, <1>9, OtherStep DEF Respond, Finish
<1>10. ASSUME NEW h \in Handlers, StopHandler(h) PROVE LockIInv'
  <2>1. running' = running \ {h}
    BY <1>10 DEF StopHandler, Cancel
  <2>2. CASE pc[h] = "done"
    BY <1>3, <1>10, <2>1, <2>2, OtherStep DEF StopHandler
  <2>3. CASE pc[h] # "done"
    BY <1>10, <2>1, <2>3, DropStep DEF StopHandler
  <2> QED BY <2>2, <2>3
<1>11. CASE StopTasks
  BY <1>11, OtherStep DEF StopTasks, Stop, StopTakes, StopAborts, StopReturns
<1>12. CASE TimePasses
  <2>1. /\ UNCHANGED <<pc, queue, holder, cached, answer, running>>
        /\ now' \in 0..MaxTime
    BY <1>12 DEF TimePasses, Cache!Tick
  <2> QED BY <2>1, ServerAssumptions
     DEF LockIInv, Waits, HolderRuns, ExpiresLater, Cache!TypeOK,
         Cache!OneLookupAtATime
<1>13. CASE UNCHANGED serverVars
  BY <1>13, OtherStep DEF serverVars
<1> QED
  BY <1>4, <1>5, <1>6, <1>7, <1>8, <1>9, <1>10, <1>11, <1>12, <1>13
     DEF ServerNext, Serve

LEMMA LockInvariance == ServerSpec => []LockIInv
BY LockInitially, LockStep, PTL DEF ServerSpec

\* The lock of public_address is held by the handler that looks the address up, by
\* one at a time, and by no task that stop_server_tasks has ended.
THEOREM LockIsReleased == ServerSpec => []LockInv
<1>1. LockIInv => LockInv
  BY DEF LockIInv, LockInv, HolderRuns
<1> QED BY <1>1, LockInvariance, PTL

\* An address that public_address takes from the cache is younger than
\* ADDR_CACHE_TIME by the clock, which may be set at any time, for any waiting, any number of handlers and any stops.
THEOREM CacheIsRecent == ServerSpec => AnswersAreRecent
<1>1. LockIInv /\ [ServerNext]_serverVars =>
          [\A h \in Handlers : pc[h] = "read" /\ pc'[h] = "done" =>
               now - answer'[h] < ADDR_CACHE_TIME]_(Cache!vars)
  <2> SUFFICES ASSUME LockIInv, [ServerNext]_serverVars,
                      NEW h \in Handlers, pc[h] = "read", pc'[h] = "done"
               PROVE  now - answer'[h] < ADDR_CACHE_TIME
    OBVIOUS
  <2> USE DEF LockIInv, Cache!TypeOK
  <2>1. \/ \E g \in Handlers : Ask(g) \/ Handle(g) \/ EndLookup(g) \/ StopHandler(g)
        \/ pc' = pc
    BY DEF ServerNext, serverVars, cacheVars, Add, Start, AcceptError, StopAcceptor,
           Accept, Serve, Respond, StopTasks, TimePasses, Cache!Tick
  <2>2. Cache!ReadHit(h)
    BY <2>1 DEF Ask, Handle, EndLookup, StopHandler, cacheVars, Cache!Ask,
                Cache!Handle, Cache!ReadHit, Cache!ReadMiss, Cache!BeginLookup,
                Cache!EndLookup, Cache!LookupSucceeds, Cache!LookupFails, Cache!Drop
  <2>3. /\ answer'[h] = cached.value /\ cached # Cache!Unset
        /\ now < cached.value + ADDR_CACHE_TIME
    BY <2>2 DEF Cache!ReadHit, Cache!Fresh, ExpiresLater
  <2>4. cached.value \in Int /\ now \in Int
    BY <2>3
  <2> QED BY <2>3, <2>4, ServerAssumptions
<1> QED
  BY <1>1, LockInvariance, PTL DEF ServerSpec, AnswersAreRecent, Cache!AnswersAreRecent
==============================================================================
