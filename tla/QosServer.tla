------------------------------ MODULE QosServer ------------------------------
(***************************************************************************)
(* The quality of service server of src/src/servers/qos.rs as the tasks it   *)
(* is made of (TaskRegistry): accept loops that spawn a handler per datagram,  *)
(* handlers that share the address cache (QosCache), and stop_server_tasks,   *)
(* which may strike while a handler holds the cache's lock.  The cache is a   *)
(* static: it outlives a stop and serves the next accept loop.                *)
(***************************************************************************)
EXTENDS TaskRegistry, Sequences

CONSTANTS
    Acceptors,         \* the accept loops: one start of the server each
    ADDR_CACHE_TIME, MaxTime

ASSUME ServerAssumption ==
    /\ Acceptors \subseteq Tasks
    /\ "none" \notin Tasks
    /\ ADDR_CACHE_TIME \in Nat \ {0} /\ MaxTime \in Nat

VARIABLES
    pc, queue, holder, cached, answer, now,    \* QosCache
    silent      \* the services accept a request for the address and never end it

cacheVars    == <<pc, queue, holder, cached, answer, now>>
registryVars == vars
serverVars   == <<vars, cacheVars, silent>>

Handlers == Tasks \ Acceptors

Cache == INSTANCE QosCache

ServerInit == Init /\ Cache!Init /\ silent \in BOOLEAN

------------------------------------------------------------------------------

\* The client program starts the server.
Start(a) == Spawn(Main, a) /\ UNCHANGED <<cacheVars, silent>>

\* A datagram has arrived: the accept loop spawns its handler.
Accept(a, h) == Spawn(a, h) /\ UNCHANGED <<cacheVars, silent>>

Add(s) == AddServerTask(s) /\ UNCHANGED <<cacheVars, silent>>

\* recv_from fails, and start_qos_server returns.
AcceptError(a) == Finish(a) /\ UNCHANGED <<cacheVars, silent>>

\* A handler goes on in public_address.
Ask(h) ==
    /\ h \in running /\ Cache!Ask(h)
    /\ UNCHANGED <<registryVars, silent>>

Handle(h) ==
    /\ h \in running /\ Cache!Handle(h)
    /\ UNCHANGED <<registryVars, silent>>

EndLookup(h) ==
    /\ h \in running /\ ~silent /\ Cache!EndLookup(h)
    /\ UNCHANGED <<registryVars, silent>>

\* The answer is sent, and the handler returns.
Respond(h) ==
    /\ pc[h] = "done"
    /\ Finish(h) /\ UNCHANGED <<cacheVars, silent>>

\* An aborted accept loop or handler comes to an await.
StopAcceptor(a) == Cancel(a) /\ UNCHANGED <<cacheVars, silent>>

StopHandler(h) ==
    /\ Cancel(h)
    /\ IF pc[h] = "done" THEN UNCHANGED cacheVars ELSE Cache!Drop(h)
    /\ UNCHANGED silent

StopTasks == Stop /\ UNCHANGED <<cacheVars, silent>>

TimePasses == Cache!Tick /\ UNCHANGED <<registryVars, silent>>

Serve(h) == Ask(h) \/ Handle(h) \/ EndLookup(h) \/ Respond(h)

ServerNext ==
    \/ \E s \in Spawners : Add(s)
    \/ \E a \in Acceptors :
          \/ Start(a) \/ AcceptError(a) \/ StopAcceptor(a)
          \/ \E h \in Handlers : Accept(a, h)
    \/ \E h \in Handlers : Serve(h) \/ StopHandler(h)
    \/ StopTasks
    \/ TimePasses

ServerSpec == ServerInit /\ [][ServerNext]_serverVars

\* A call that has begun goes on, an aborted task comes to an await, and a handler
\* goes on when it has the lock and, while the services answer, its answer.
ServerFairSpec ==
    /\ ServerSpec
    /\ \A s \in Spawners : WF_serverVars(Add(s))
    /\ \A a \in Acceptors : WF_serverVars(StopAcceptor(a))
    /\ \A h \in Handlers :
          /\ WF_serverVars(Ask(h)) /\ WF_serverVars(Handle(h))
          /\ WF_serverVars(EndLookup(h)) /\ WF_serverVars(Respond(h))
          /\ WF_serverVars(StopHandler(h))
    /\ WF_serverVars(StopTasks /\ in_stop)

------------------------------------------------------------------------------
(* Properties *)

\* What the cache is between awaits: of its types, locked by the one handler that
\* looks the address up, and by no task that has ended: a stop in the middle of a
\* lookup does not leave the static lock held for the servers started after it.
LockInv ==
    /\ Cache!TypeOK
    /\ Cache!OneLookupAtATime
    /\ holder # "none" => holder \in running

\* Addresses from the cache are not older than it allows, across stops too.
AnswersAreRecent == Cache!AnswersAreRecent

\* Every handler answers or is aborted, as long as the services end requests:
\* neither a failed lookup nor a stop leaves the others waiting for the lock.
EveryoneAnswered ==
    ~silent => \A h \in Handlers :
        h \in running ~> pc[h] = "done" \/ h \in aborted
==============================================================================
