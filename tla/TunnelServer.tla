----------------------------- MODULE TunnelServer -----------------------------
(***************************************************************************)
(* start_tunnel_server of src/src/servers/tunnel.rs (and, with a handshake  *)
(* between connecting and allocating, start_udp_tunnel_server of             *)
(* udp_tunnel.rs): the loop that builds a tunnel and its pool of sockets,    *)
(* waits for it to stop and builds the next one.  The sockets are tasks of   *)
(* their own (PoolSocket), so those of one pool may outlive it and hold the  *)
(* fixed host port that the next pool needs.  `transport` is the server that *)
(* runs: only the UDP tunnel can panic (UdpTunnel), which ends the loop.      *)
(*                                                                          *)
(* A socket is [pool, index]; pools are numbered in the order the loop       *)
(* builds them.                                                             *)
(***************************************************************************)
EXTENDS Integers, FiniteSets

CONSTANTS
    SOCKET_POOL_SIZE,     \* sockets in a pool
    MAX_ERROR_ATTEMPTS,   \* errors in a row that end the loop
    MaxPools              \* bound: iterations of the loop

ASSUME PoolAssumption == SOCKET_POOL_SIZE \in Nat \ {0}
ASSUME AttemptsAssumption == MAX_ERROR_ATTEMPTS \in Nat \ {0}
ASSUME BoundAssumption == MaxPools \in Nat

VARIABLES
    transport,       \* "tcp" or "udp": the server that was started
    pc,              \* "connect", "allocate", "run", "sleep", or one of Over
    attempt_errors,  \* number of attempts that errored
    reconnect_time,  \* seconds the loop sleeps before the next attempt
    pool,            \* number of the pool of this iteration
    handles,         \* sockets whose SocketHandle is held
    sockets,         \* socket tasks that have not ended; each holds its port
    errors_in_a_row  \* history: iterations that errored since one that did not

vars == <<transport, pc, attempt_errors, reconnect_time, pool, handles, sockets,
          errors_in_a_row>>

Indices == 0..(SOCKET_POOL_SIZE - 1)
Sockets == [pool : 1..MaxPools, index : Indices]
HostSockets(S) == {s \in S : s.index = 0}
PoolOf(S, n) == {s \in S : s.pool = n}

\* How the task ends: start_tunnel_server returns Err, or Ok at once; its tunnel
\* panics; or the server tasks are stopped.
Over == {"failed", "returned", "panicked", "aborted"}

TypeOK ==
    /\ transport \in {"tcp", "udp"}
    /\ pc \in {"connect", "allocate", "run", "sleep"} \cup Over
    /\ attempt_errors \in 0..MAX_ERROR_ATTEMPTS
    /\ reconnect_time \in 0..MAX_ERROR_ATTEMPTS
    /\ pool \in 1..(MaxPools + 1)
    /\ handles \subseteq Sockets /\ sockets \subseteq Sockets
    /\ errors_in_a_row \in Nat

\* Without an association token (or a host) start_tunnel_server returns at once.
Init ==
    /\ transport \in {"tcp", "udp"} /\ pc \in {"connect", "returned"}
    /\ attempt_errors = 0 /\ reconnect_time = 0
    /\ pool = 1 /\ handles = {} /\ sockets = {}
    /\ errors_in_a_row = 0

------------------------------------------------------------------------------
(* The loop *)

\* create_tunnel returned Err: what it held is dropped, the error is counted
\* and the next attempt is delayed by the number of errors.
CreateError ==
    /\ attempt_errors' = attempt_errors + 1
    /\ reconnect_time' = attempt_errors + 1
    /\ errors_in_a_row' = errors_in_a_row + 1
    /\ handles' = {}
    /\ pc' = "sleep"
    /\ UNCHANGED <<transport, pool>>

\* create_server_tunnel: the upgrade of the connection succeeds.
Connect ==
    /\ pc = "connect" /\ pool <= MaxPools
    /\ pc' = "allocate"
    /\ UNCHANGED <<transport, attempt_errors, reconnect_time, pool, handles,
                   sockets, errors_in_a_row>>

ConnectError ==
    /\ pc = "connect" /\ pool <= MaxPools
    /\ CreateError
    /\ UNCHANGED sockets

\* Socket::start(i): the port is bound and the task is spawned.  Only the host
\* socket uses a fixed port.
StartSocket(i) ==
    /\ pc = "allocate"
    /\ LET s == [pool |-> pool, index |-> i] IN
          /\ s \notin handles
          /\ i = 0 => HostSockets(sockets) = {}
          /\ sockets' = sockets \cup {s}
          /\ handles' = handles \cup {s}
    /\ UNCHANGED <<transport, pc, attempt_errors, reconnect_time, pool,
                   errors_in_a_row>>

\* A bind or a connect fails, for one because the host port is still held (by a
\* socket of an earlier pool or by another program): try_join drops the handles
\* of the sockets that were started, whose tasks run on.
StartSocketError(i) ==
    /\ pc = "allocate"
    /\ [pool |-> pool, index |-> i] \notin handles
    /\ CreateError
    /\ UNCHANGED sockets

\* Mutant: the tunnel starts when one socket has been started.
PoolAllocatedEarly ==
    /\ pc = "allocate" /\ handles # {}
    /\ pc' = "run"
    /\ UNCHANGED <<transport, attempt_errors, reconnect_time, pool, handles,
                   sockets, errors_in_a_row>>

\* Every Socket::start has returned: the tunnel runs.
PoolAllocated ==
    /\ pc = "allocate"
    /\ Cardinality(handles) = SOCKET_POOL_SIZE
    /\ pc' = "run"
    /\ UNCHANGED <<transport, attempt_errors, reconnect_time, pool, handles,
                   sockets, errors_in_a_row>>

\* Mutant: the count of errors is not reset.
TunnelStopsNoReset ==
    /\ pc = "run"
    /\ reconnect_time' = 1
    /\ errors_in_a_row' = 0
    /\ handles' = {}
    /\ pc' = "sleep"
    /\ UNCHANGED <<transport, attempt_errors, pool, sockets>>

\* Mutant: a tunnel that stops ends the loop.
TunnelStopsForGood ==
    /\ pc = "run"
    /\ attempt_errors' = 0
    /\ reconnect_time' = 1
    /\ errors_in_a_row' = 0
    /\ handles' = {}
    /\ pc' = "returned"
    /\ UNCHANGED <<transport, pool, sockets>>

\* The tunnel ends, because its connection has or because its sockets have:
\* create_tunnel drops it, with the handles, and returns Ok.
TunnelStops ==
    /\ pc = "run"
    /\ attempt_errors' = 0
    /\ reconnect_time' = 1
    /\ errors_in_a_row' = 0
    /\ handles' = {}
    /\ pc' = "sleep"
    /\ UNCHANGED <<transport, pool, sockets>>

\* An expect of the UDP tunnel fails (UdpTunnel: panic_message, panic_send): the
\* panic unwinds through create_tunnel, which drops the tunnel with its handles,
\* and through the loop, whose task ends with the attempts it had left.
TunnelPanics ==
    /\ pc = "run" /\ transport = "udp"
    /\ pc' = "panicked" /\ handles' = {}
    /\ UNCHANGED <<transport, attempt_errors, reconnect_time, pool, sockets,
                   errors_in_a_row>>

\* The sleep is over: the loop's condition is evaluated.
SleepOver ==
    /\ pc = "sleep"
    /\ pc' = IF attempt_errors < MAX_ERROR_ATTEMPTS THEN "connect" ELSE "failed"
    /\ pool' = pool + 1
    /\ UNCHANGED <<transport, attempt_errors, reconnect_time, handles, sockets,
                   errors_in_a_row>>

\* Mutant: the handles outlive the loop.
AbortKeepsHandles ==
    /\ pc \notin Over
    /\ pc' = "aborted"
    /\ UNCHANGED <<transport, attempt_errors, reconnect_time, pool, handles,
                   sockets, errors_in_a_row>>

\* stop_server_tasks aborts the loop at one of its awaits: the tunnel, or the
\* sockets that were started for it, are dropped.  Sockets that were spawned
\* after the stop took its list are not aborted.
Abort ==
    /\ pc \notin Over
    /\ pc' = "aborted" /\ handles' = {}
    /\ UNCHANGED <<transport, attempt_errors, reconnect_time, pool, sockets,
                   errors_in_a_row>>

------------------------------------------------------------------------------
(* The socket tasks *)

\* A socket task fails, whatever its tunnel does.
SocketFails(s) ==
    /\ s \in sockets
    /\ sockets' = sockets \ {s}
    /\ UNCHANGED <<transport, pc, attempt_errors, reconnect_time, pool, handles,
                   errors_in_a_row>>

\* A socket task whose handle was dropped ends (PoolSocket: SocketEnds).
SocketEnds(s) ==
    /\ s \in sockets \ handles
    /\ sockets' = sockets \ {s}
    /\ UNCHANGED <<transport, pc, attempt_errors, reconnect_time, pool, handles,
                   errors_in_a_row>>

Allocate == \E i \in Indices : StartSocket(i) \/ StartSocketError(i)

Loop ==
    \/ Connect \/ ConnectError \/ Allocate \/ PoolAllocated
    \/ TunnelStops \/ TunnelPanics \/ SleepOver

Next ==
    \/ Loop \/ Abort
    \/ \E s \in Sockets : SocketFails(s) \/ SocketEnds(s)

Spec == Init /\ [][Next]_vars

\* An await of the loop ends: a request is answered or fails, a bind returns, a
\* sleep is over, and a tunnel all of whose sockets have gone stops, or for UDP may
\* panic (TunnelEnds of TcpTunnel and UdpTunnel).  A socket without a handle ends.
FairSpec ==
    /\ Spec
    /\ WF_vars(Connect \/ ConnectError)
    /\ WF_vars(Allocate \/ PoolAllocated)
    /\ WF_vars(PoolOf(sockets, pool) = {} /\ (TunnelStops \/ TunnelPanics))
    /\ WF_vars(SleepOver)
    /\ \A s \in Sockets : WF_vars(SocketEnds(s))

------------------------------------------------------------------------------
(* Properties *)

\* The loop gives up when MAX_ERROR_ATTEMPTS iterations in a row have errored,
\* then without another attempt, and never before: an iteration whose tunnel ran
\* forgets the errors before it.  The one other end that the loop comes to by
\* itself is a panic of a UDP tunnel, with attempts left.
GivesUpAfterErrorsInARow ==
    /\ pc = "failed" => errors_in_a_row = MAX_ERROR_ATTEMPTS
    /\ errors_in_a_row >= MAX_ERROR_ATTEMPTS => pc \in {"sleep", "failed", "aborted"}
    /\ pc = "panicked" => transport = "udp" /\ errors_in_a_row < MAX_ERROR_ATTEMPTS

\* While the tunnel runs it holds a handle to each index of its own pool, and
\* to nothing of another pool; once it has stopped it holds none.
TunnelOwnsItsPool ==
    /\ pc = "run" => handles = [pool : {pool}, index : Indices]
    /\ pc \notin {"allocate", "run"} => handles = {}

\* What the state of the loop is at every await: its types, and whose sockets it
\* holds.
Inv == TypeOK /\ TunnelOwnsItsPool

\* Every socket of a pool that is over ends: neither a failed allocation, nor a
\* tunnel that stopped or panicked, nor a stop of the server tasks leaves a task, or
\* the host port, behind.
PoolsAreReleased ==
    \A s \in Sockets :
        s \in sockets /\ (pool > s.pool \/ pc \in {"aborted", "panicked"})
            ~> s \notin sockets

\* A server that was started never comes to rest between two attempts: each
\* iteration is followed by another (or by giving up, GivesUpAfterErrorsInARow), or
\* its tunnel runs from then on with a socket left, or the server tasks are stopped,
\* or a UDP tunnel panics, after which nothing replaces it.
ServerKeepsTrying ==
    \A n \in 1..MaxPools :
        pool = n /\ pc \notin Over
            ~> \/ pool > n
               \/ pc = "aborted"
               \/ pc = "panicked" /\ transport = "udp"
               \/ [](pc = "run" /\ PoolOf(sockets, n) # {})
==============================================================================
