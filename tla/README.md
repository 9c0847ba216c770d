# Pocket Relay client: verification project

The repository is the shared core of the Pocket Relay client: a set of local
servers that a game connects to, which forward what it says to a Pocket Relay
server. The modules here model its state machines, TLC checks them on small
instances, and TLAPS proves some of the properties for every instance.

## The system

| Component | Source | State it keeps | Operations | What makes it correct |
|---|---|---|---|---|
| TCP tunnel task | `servers/tunnel.rs` 122-286 | write state (`Recv`, `Write`, `Flush`), the framed connection's read and write buffers, the channel from the sockets, the handles to them | `poll_write_state`, `poll_read_state`, `poll` | messages are relayed in order, once; the task is never asleep with work to do; it ends when its sockets or its connection have gone |
| UDP tunnel task | `servers/udp_tunnel.rs` 281-485 | write state (`Recv`, `Write`), the connected socket, the keep-alive interval, the time of the last keep-alive | the same, and the keep-alive check | as above with loss allowed only where the code drops a message; a silent server is noticed |
| Pool sockets | `tunnel.rs` 288-485, `udp_tunnel.rs` 487-683 | write state, channel from the tunnel, the UDP socket to the game | `poll_write_state`, `poll_read_state`, `poll` | datagrams of the game and of the tunnel pass in order; a socket ends after its tunnel |
| Tunnel servers | `tunnel.rs` 39-120, 339-389, `udp_tunnel.rs` 84-205, 538-588 | error count, last error, the pool being allocated, the fixed host port | connect, handshake, allocate the pool, run, back off, give up | the retry loop gives up only after `MAX_ERROR_ATTEMPTS` errors in a row; a failed pool leaves nothing behind |
| UDP handshake | `udp_tunnel.rs` 207-279 | attempts, back-off, the socket's receive buffer | send `Initiate`, wait with a timeout, back off | the identifier used is one the server gave; the number of attempts is bounded |
| Tunnel codec | `tunnel.rs` 487-596 | the header of a partial frame, the bytes received | `decode`, `encode` | the frames decoded do not depend on how the bytes were cut |
| Fire packets | `fire.rs` | the header of a partial packet, the bytes received | `decode`, `encode`, `response` | as for the tunnel codec |
| Server tasks | `servers/mod.rs` | the list of abort handles | `spawn_server_task`, `stop_server_tasks`, `has_server_tasks` | a task whose handle was added before a stop is aborted by it |
| Quality of service | `servers/qos.rs` | the cached public address with its time, behind a static lock | accept loop, one handler per datagram, `public_address` | an address served from the cache is recent; the lock is always given back |
| Redirector | `servers/redirector.rs` | one connection's progress | accept, answer, time out | answers in order, nothing after the redirect, only a silent game is timed out |
| Telemetry | `servers/telemetry.rs`, `api.rs` 331-354 | the bytes of one connection | read an event, decode its values, publish it | events come out decoded, in order, once; a failed request does not hold up the next |
| Blaze proxy | `servers/blaze.rs`, `api.rs` 254-322 | the two streams of one connection | request, upgrade, copy both ways | bytes are copied both ways once the link is there, until both ends have closed; that none is lost is tokio's to keep |
| HTTP proxy | `servers/http.rs`, `api.rs` 367-397 | the request being served | forward a request, pass its answer on | one answer per request, the server's wherever it gave one |
| Server lookup | `api.rs` 146-238 | none | make a base URL, ask the server, check its details | the URL is what the user named; an old or foreign server is refused |
| Update | `update.rs` | none | find and download a release | none of its own: network calls in sequence |
| Context and constants | `ctx.rs`, `lib.rs` | none | none | data |

The components interact through channels (pool socket to tunnel and back),
through the connection to the server, through the list of abort handles, and
through the operating system's ports. Every component is an asynchronous task
of one runtime, so a component is interrupted only where it awaits or returns
`Pending`, and everything else may happen there.

Paths below are relative to `src/src/`.

### What is hard

* **Wake-ups.** The tunnel and the sockets are hand-written futures. A future
  that returns `Pending` without having registered a waker for everything that
  can let it go on sleeps for ever; a loop that stops polling early does just that.
* **Two halves, one state.** Both halves of a tunnel run in one task, and the
  read half answers keep-alives through the write half's state.
* **Tasks that outlive each other.** Sockets, their tunnel and the loop that
  builds both are different tasks. The host socket's port is fixed, so the next
  pool needs the last one to be gone.
* **Time.** Keep-alive checks, handshake timeouts with a doubling delay, the
  redirector's timeout, the age of a cached address.
* **The network.** UDP loses, repeats and reorders; a stream cuts frames anywhere.
* **Threads.** The list of tasks is used by all of them.
* **Stops.** `stop_server_tasks` drops a task at whatever await it has reached: in
  the middle of a pool's allocation, while it holds the lock of a static, or
  between two halves of an answer. What hyper spawned it does not reach.

## Modules

| Module | Models | State and actions |
|---|---|---|
| `Relay` | the promise of a tunnel in one direction | `pending`, `delivered`: take the first message and deliver it, or lose it where `Lossy` |
| `TcpTunnel` | `Tunnel` in `servers/tunnel.rs` | the fields of `Tunnel`, the buffers of `Framed`, and the scheduler's view of the task (below); an action is one call of `poll_write_state` or `poll_read_state` |
| `UdpTunnel` | `Tunnel` in `servers/udp_tunnel.rs` | as above with the interval, the cached readiness of the socket and both `expect`s as states |
| `PoolSocket` | `Socket` in both files | as above; a message is a sequence of bytes, so that a send can take a part |
| `TunnelServer` | `start_tunnel_server`, `start_udp_tunnel_server`, `create_tunnel`, `allocate_pool`, `Socket::start` | the transport, the loop's variables, the handles held and the socket tasks alive; one action per await that ends, and the panic of a UDP tunnel |
| `Handshake` | `attempt_tunnel_handshake`, `handshake_tunnel` | the loop's variables, the datagrams on their way and in the buffer, a clock |
| `Codec` | `TunnelCodec`, `FireCodec` | `codec` (which of the two), the buffer and the header kept; an action is one return of `decode` |
| `TaskRegistry` | `servers/mod.rs` | the list, the handles a stop has taken and has called, and who is between spawning and adding |
| `QosCache` | `public_address` | the lock, its queue, the cache, where each handler is, and the system's clock, which can be set |
| `QosServer` | `start_qos_server`, `handle` in `servers/qos.rs` | extends `TaskRegistry` and instantiates `QosCache`: accept loops and handlers are tasks, a handler's step is a step of the cache, a stop drops a handler where it is |
| `Redirector` | `handle` in `servers/redirector.rs` | one connection, packets that have arrived whole or in part, and the timer |
| `Telemetry` | `handle` in `servers/telemetry.rs`, `publish_telemetry_event` | the stream's bytes, how far they arrived and were read, the requests made |
| `BlazeProxy` | `handle` in `servers/blaze.rs`, `create_server_stream` | the progress of the link and which sides have ended; what is copied is left to tokio |
| `HttpProxy` | `handle` in `servers/http.rs`, `proxy_http_request` | the request being served, what became of the client's requests, and the answers given |
| `GameConnections` | the accept loops of these four | one connection to one of the four servers, and a stop |
| `MCGameConnections` | | the instance of `GameConnections`: the key and the events |
| `ServerLookup` | `lookup_server` | the host typed, the URLs, the server's answer |
| `MCCodecLookup` | | the instance of `Codec` and of `ServerLookup`, which share no state: a behaviour is one of either, as a connection in `GameConnections` is one to one server |
| `PooledTunnel` | `create_tunnel` | extends `TcpTunnel` and instantiates `PoolSocket`: what one task sends or drops is what the other finds |
| `PooledUdpTunnel` | `create_tunnel` in `servers/udp_tunnel.rs` | extends `UdpTunnel` and instantiates `PoolSocket`, in the same way |
| `Selection` | | `Selected`, the elements of a queue that are of one kind, as a recursive function |
| `PooledTunnelProofs`, `UdpTunnelProofs`, `PoolSocketProofs`, `TunnelServerProofs`, `HandshakeProofs`, `QosServerProofs`, `GameConnectionsProofs` | | theorems; each module covers the components named below |
| `SequenceLemmas` | | facts that the proofs share: about sequences, recursive functions, and what is selected from or made of sequences |

How they fit: `TunnelServer` builds pools of `PoolSocket`s and starts a
`TcpTunnel`, or after a `Handshake` a `UdpTunnel`; `TunnelServer` takes from
`PoolSocket` that a socket without a handle ends, which the latter checks
(`SocketEnds`), and from the tunnels that they end (`TunnelEnds`). `TcpTunnel` and
`Redirector` start from decoded frames, which `Codec` provides. `TcpTunnel` and
`UdpTunnel` implement `Relay` in both directions, by refinement mappings in their
property sections, and so do `PooledTunnel` and `PooledUdpTunnel` between the game
and the server. Towards a socket a tunnel is a relay that loses nothing as long
as the socket's task lasts and, for TCP, the connection does: each of its steps
is one of the lossless relay, but for those that lose a frame when the socket has
gone or by breaking the connection. The two pairs put a tunnel's task
and its socket's together: the actions that are the environment of one
(`SocketSend`, `SocketEnd`, `TunnelSend`, `TunnelGone`) happen there only as part
of the other's step. `QosServer` puts the
tasks of one server into the registry; `GameConnections` does the same for one
handler of the others, as far as a stop concerns it.

### Wakers and the scheduler

In the three futures `pc` is where the poll stands ("idle" between polls),
`wakers` the set of sources that have the task's waker, `notified` that the task
is queued to run. Returning `Pending` from a source adds it to `wakers`; an
event at a source takes it out and sets `notified`; a poll begins only when
`notified`. An event between two actions of one poll is possible, as the other
threads and the I/O driver run then. tokio makes its channels and sockets return
`Pending`, and wakes the task at once, after a number of operations in one poll;
that is the action `OutOfBudget`, possible once an operation has been completed
in the poll.

## Runs

All runs are complete: TLC explores every state of the instance. Deadlock is
not checked where the program stops by design (tasks end, connections close,
loops give up) or the bounded environment runs out.

| Run | What it shows |
|---|---|
| `tcp_tunnel` | order of messages, one frame at most in the write buffer, no sleep with work to do, refinement of `Relay` in both directions; messages and replies are sent once nothing blocks them, the tunnel ends when its sockets or connection have gone |
| `udp_tunnel` | the same for UDP, with loss of the message in hand only: what waits on the channel is never lost and never waits for ever |
| `pool_socket` | bytes in order through partial sends, datagrams in order, no sleep with work to do, a socket ends after its tunnel, and not before the game was sent what was queued, errors and datagrams that the tunnel no longer takes apart |
| `pooled_tunnel` | a tunnel and its socket together: nothing is missing between them while both run, they do not both sleep with work left, the pair is a relay between the game and the server both ways, and neither outlives the other |
| `pooled_udp_tunnel` | the same for UDP: of the game's datagrams, the latest wait in a row and each earlier one is on the wire, in the write state or lost from there; the pair is a lossy relay both ways. That one task ends after the other is left to `udp_tunnel` and `pool_socket`, whose tasks learn of it as in the TCP pair |
| `tunnel_server` | when the loop gives up, whose sockets a tunnel has, that nothing of a pool is left behind by a failure, an end, a stop or a panic, that each iteration is followed by another until the loop gives up, is stopped or, with UDP, panics |
| `handshake` | the id is one the server gave, attempts are apart by the doubling delay, the whole takes at most the sum of timeouts and delays, late answers are used, it ends |
| `qos_server` | every running task is known to the list, to a stop or to the call that is about to add it, and tasks taken by a stop end; the cache's lock is held by the one handler that looks up and by no ended task; cached answers have not expired by the clock; everyone is answered as long as the services end requests |
| `connections` | redirector: answers in order, nothing after the redirect, timeouts only of a silent game; telemetry: events decoded and published in order, and tried whatever became of those before; HTTP: each request is answered in its turn with the server's status, an error's too, and with an error of the proxy's own only if the path is no URL or the client's request or its body failed; a stop ends what it reaches, the game's closing ends all, and a redirector does not wait for a packet for ever |
| `codec_lookup` | codecs: what is decoded is what was encoded, and depends on the number of bytes that arrived and its format only; lookup: the base URL is what the user named, and means the same when typed in again; the first failure is reported; only a Pocket Relay server of the least version, no pre-release of it, is accepted |

`Inv`, where a run checks it, is the type invariant together with the invariants
of states that belong with it (`MessagesInOrder` and `BufferOnlyWhileFlushing` of
the TCP tunnel, `NothingStranded` of the three futures, `TunnelOwnsItsPool`,
`IdWasIssued` and `BacksOff`, `FramesInOrder`, `RunningTasksAreKnown`, and in
`connections` those of the four servers). `codec_lookup` and `pooled_udp_tunnel`,
which have no liveness property, assume no fairness; the others use fairness as below, on which
the safety properties do not depend. In `qos_server` the services may fall silent
for ever (`silent`), which only `EveryoneAnswered` excludes.

### Disagreements with the code's own words

Each of these runs checks one property that a comment or an `expect` message
states, and finds it violated; the trace is a behaviour of the code.

| Run | Property | What the code does |
|---|---|---|
| `udp_taken` | `WriteStateHasMessage` | a send that is `Pending` has taken the message out of the state; the next poll panics |
| `udp_dead` | `DeadConnectionStops` | the times are subtracted the wrong way round, so no connection is ever considered dead |

The models show more places where the code and its words differ, which have no
run of their own. The actions follow the code in all of them.

* `servers/tunnel.rs:235`: the reply to a keep-alive is polled once, so it is
  left in the write buffer with no waker for the connection's write side; line
  165 asks for polling until `Pending`. `AllSent` states what remains true.
* `servers/tunnel.rs:558`: no header is read from fewer than five bytes, so a
  keep-alive, which has three (line 517), waits for bytes of the next frame.
  `CutsDoNotMatter` states what is decodable, this threshold included.
* `servers/udp_tunnel.rs:437`: a keep-alive replaces a message that waits to be
  sent (line 317 says it is written). `LosesOnlyTheMessageInHand` is the bound.
* `servers/udp_tunnel.rs:363`: `poll_send` returns an error that is pending on the
  socket, as when the server's port is unreachable, and the `expect` panics; line
  362 speaks of the packet encoder, which has run by then (`panic_send`).
* `servers/udp_tunnel.rs:111`: the loop is there to reconnect a tunnel that is lost,
  but both panics of the tunnel's future unwind through `create_tunnel` into the
  task of the loop, which is the same one: it ends with all attempts left, and
  nothing starts another (`TunnelPanics` of `TunnelServer`). The sockets end, as
  their handles are dropped (`PoolsAreReleased`).
* `servers/udp_tunnel.rs:384`: after a tick with nothing to read the task sleeps
  without a waker at the interval, so the next check needs another event.
* `servers/udp_tunnel.rs:245` and `242`: six attempts with a maximum of five
  (line 207), and the longest delay follows the last of them, with no attempt
  behind it (line 241). `Attempts` and `LongestTime` are what the code does.
* `servers/mod.rs:38`: `has_server_tasks` counts the handles of ended tasks as
  running tasks (line 35).
* `servers/qos.rs:99`: handlers that waited for the write lock look up again what
  was just cached; line 98 says the lock is there to prevent it.
* `servers/redirector.rs:71`: the timeout is around one read and starts again
  with every packet, and covers neither the SSL handshake nor the writes; line 51
  says it is for the redirect. So a connection can last for ever: if the game keeps
  asking, or does not finish its handshake, or does not read. `ConnectionsEnd` says
  only that a wait for one packet ends.
* `servers/http.rs:1`: the server is there to forward the game's requests, and
  `api.rs:379` makes a GET without a body of each, whatever its method was.
* `servers/http.rs:37`: hyper spawns the connections, so that `stop_server_tasks`
  ends the server and not the connections (`Stop` of `GameConnections`).
* `api.rs:156`: a scheme in capitals, as in `HTTP://`, is none that the code
  knows; the URL it makes has a server named after the scheme. `Parsed` does this,
  and `BaseUrlIsWhatWasNamed` is about the schemes that the code knows.
* `update.rs:60`: the download does not look at the response's status, so the body
  of an error page is returned as the release (not modelled).

## Bounds

| Bound | Why it is enough |
|---|---|
| two sockets in a TCP pool, one in a UDP pool | one socket's channel is independent of another's; two show that an index selects the right one, that one socket ending is not the pool ending, and a third adds nothing but copies |
| `Indices` | a frame's index is a socket of the pool, one outside it, or 255; UDP's index 9 is outside |
| TCP `MaxSent = 3`, two frames | one message in the write state, one in the channel and one yet to come; a keep-alive before and after a message |
| UDP `MaxSent = 2`, two datagrams | a message in the write state that a keep-alive or a full socket hits, and one behind it in the channel |
| UDP `MaxTime` | the first check of the interval, with the deadline of the second ahead, and, in `udp_dead`, more than the timeout |
| `LENGTH = 2`, three messages | a send that takes a part, and messages on both sides of it |
| `MAX_ERROR_ATTEMPTS = 3`, five pools | the limit is reached with and without a success in between |
| `MAX_HANDSHAKE_ATTEMPTS = 2`, two ids | three attempts, so two delays, and answers to two of them about at once |
| frames of 0 to 5 bytes, up to three per stream | below, at and above the five bytes that the tunnel's codec waits for; the header sizes are the real ones, and `BYTE = 3` makes the high byte of a length matter |
| two accept loops, two handlers, an address that lives one of two units of the clock | a task that spawns, two it spawns and a server started again; one handler looks up or answers from the cache while the other waits for either lock, and the address expires meanwhile, or the clock is set back |
| `REDIRECT_TIMEOUT = 2`, three packets | time passes between packets, and the timer is due with and without one at hand, and with a part of one |
| telemetry `HEADER = 2`, `WIDTH = 13`, two events | the header is the length and a byte before it; a length below it wraps to one that is longer than what follows, and an event before or behind it is there to be harmed. The texts are such that the cipher hits each separator under both bytes of the key |
| `MaxRequests = 3`, two statuses | a request served, one failed and one waiting; a status that is an error and one that is not |
| pair: one socket, two messages each way | one in hand and one on each channel; what a second socket adds is checked in `tcp_tunnel` |
| UDP pair: one socket, two datagrams of the game and one of the server, `MaxTime = 0` | one in hand and one behind it when a keep-alive, a full socket or an end comes, or a forward on its way in. The order of two forwards is checked in `udp_tunnel` and `pool_socket`, and proved of the pair for any number; the timer, which concerns one task only, is that of `udp_tunnel` |
| lookup: three ports, paths of up to two segments, releases around the least | both default ports and another; no path, a path that ends with a slash or not; versions below, at and above |

A message, an id, an address or a task is a number or a model value; only where
lengths or bytes matter (`Codec`, `PoolSocket`) are there bytes.

## Fairness

* `WF(TaskStep)` (tunnels, sockets): the runtime polls a task that was woken. It
  is weak: the task gets no step while it is not `notified`.
* `WF(Drain)`: a full send buffer is emptied in time; without it the operating
  system would never let the task send.
* `TunnelServer`: awaits of the loop end; a tunnel ends if all its sockets have
  gone (it stops, or with UDP may panic), and owes no end otherwise; a socket whose handle was dropped ends.
  That a socket fails, or that a bind or a connect succeeds, is not assumed.
* `Handshake`: the client's own steps and the clock. Nothing is assumed of the
  server or the network.
* `PooledTunnel`: both tasks are polled when woken, and both peers read.
* `TaskRegistry` (in `QosServer`): a call that has begun goes on, and an aborted task comes to an
  await. That tasks finish is not assumed.
* `QosServer`: a handler goes on when it has its turn, and a lookup ends unless the
  services are silent. The code sets no timeout on it, so this is an assumption on
  the services, which is why `EveryoneAnswered` is about services that answer.
* `GameConnections`: a handler that can go on does, and an aborted one comes to an
  await. The client's requests end, well or not, for which the code has no timeout.
  The redirector's SSL handshake and its writes, which have none either, are owed an
  end only once the game has closed the connection. No error is owed otherwise,
  and nothing is owed by the game: `ConnectionsEnd` has three parts, the end of a
  handler that a stop reaches, of a redirector's wait for a packet, whatever part
  of one the game has sent, and of a connection that the game has closed (the Blaze
  link needs the server to end its side too, as `copy_bidirectional` does).

## Proofs

Proved with TLAPS, for every value of the constants under the assumptions that
the modules name (`PoolAssumption`, `IndexAssumption`, `BoundAssumption` and the
like, which say that bounds are numbers and index bytes are bytes):

* **`PooledTunnelProofs`**, the TCP tunnel: `InOrderAndAwake` (`Inv`) and
  `TcpRelaysBothWays` (`RelaysBothWays`), the refinements of `Relay` from the sockets
  to the server (`OutboundRelayHolds`) and from the server to each socket
  (`InboundRelayHolds`), which loses a frame only if the socket has gone or with the
  connection.
  `IInv` adds to the types and the buffer property what holds in the middle of a
  poll. `WritePolled` says that once the write half was polled, and until an
  event, the task is armed for the channel or for the connection; `ReadPolled`
  the same of the read half. `NothingStranded` speaks of a sleeping task only, and
  is not inductive without them: it does not say what was armed before the read
  half ran. `MessageHeld` ties the message to its state. The frames on their way
  to a socket are those of its index in the inbox, so the inbound direction rests
  on what `Selected` makes of a queue that grows, shrinks or is cut.
* **`PooledTunnelProofs`**, the pair: `PairIsTunnel` and `PairIsSocket` show that a
  behaviour of the pair is one of `TcpTunnel` and one of `PoolSocket`, so the
  invariants of both carry over. `Linked` adds that the two ends of each channel
  have counted the same, and that neither is closed while both tasks run.
  `PairKeepsEverything` (`PairInv`) follows, and `RelaysEndToEnd` (`EndToEnd`):
  towards the server, a datagram that the socket forwards leaves the front of one
  queue for the end of the other (`DatagramMoves`); towards the game, a frame is
  delivered by the send that completes its bytes, and a send completes one at
  most (`SendCompletes`, of `PoolSocketProofs`). What is still to come of
  such a queue is stated for both pairs in `SequenceLemmas` (`StillToCome`).
* **`UdpTunnelProofs`**: `UdpNeverStranded` (`Inv`), by the same argument: the reply
  to a keep-alive is polled after the write half and must leave it armed, which
  holds as a reply that is sent finds the socket ready, so that the half was
  armed for the channel before. `UdpLosesOneAtMost` (`LosesOnlyTheMessageInHand`)
  and `UdpRelaysBothWays` (`RelaysBothWays`), the refinements of `Relay`, lossy towards
  the server and towards a socket that has gone, follow what waits to be sent through the write state, and what was received
  through the inbox.
* **`UdpTunnelProofs`**, the pair: a step of the pair is one of `UdpTunnel` and one of
  `PoolSocket` (`PairIsTunnel`, `PairIsSocket`), and `Linked` says what the two ends of
  each channel agree on. `Inv` of the tunnel does not say which messages its
  channel holds, so `Numbered` is proved of it too: they are the last that the
  sockets sent, in a row. With the datagrams in the socket, which the tunnel has
  yet to count, behind them (`QueuedInARow`, `AllAccountedFor`) this gives
  `UdpPairKeepsAccount` (`PairInv`). `UdpRelaysEndToEnd` (`EndToEnd`) is as for TCP,
  but that a datagram may be lost from the front of what goes out, also by the
  send that the tunnel panics in.
* **`PoolSocketProofs`**: `SocketNeverStranded` (`Inv`) likewise. `BytesReachGame`
  (`BytesInOrder`) is by induction over bytes (`BytesInv`): those the game has and
  those in hand are `LENGTH` for each message taken from the channel, and the
  byte at a position is of message `position \div LENGTH + 1`. It rests on the
  uniqueness of quotient and remainder, proved there. `QueueDrained` (`QueueIsDrained`)
  follows: a socket that ends without an error and with no datagram at hand found
  the channel empty, so all bytes of the messages taken are the game's. There too is
  `SendCompletes`, that a send completes one message at most, which both pairs use.
* **`TunnelServerProofs`**, the loops: `OwnsItsPool` (`Inv`), `GivesUp`
  (`GivesUpAfterErrorsInARow`, the panic of a UDP tunnel included).
  `attempt_errors` is the number of errors in a row (`CountsErrors`), the loop
  goes on below the limit, and a set of sockets of one pool that has as many
  members as the pool is the pool (`FullPool`, by cardinalities of finite sets).
* **`TunnelServerProofs`**, the lookup: `FirstFailureReported`
  (`FirstFailureIsReported`) and `BaseUrlAsNamed` (`BaseUrlIsWhatWasNamed`), from an
  invariant that says at each await what has been checked and what URL was made.
* **`TunnelServerProofs`**, the codecs: `FramesAreDecoded` (`CodecInv`) and
  `CutsMakeNoDifference` (`CutsDoNotMatter`). The invariant is that the buffer and
  the header kept continue the stream at the position behind the last frame; the
  stream is the concatenation of the encoded frames (`StreamLayout`), so the
  header found there is the next frame's (`HeaderIsRead`).
* **`HandshakeProofs`**: `HandshakeBacksOff` (`Inv`), `HandshakeEndsInTime`
  (`EndsInTime`), `AnswersWaitForTheirUse` (`AnswersAreUsed`). The delay and the time
  spent are functions of the attempt, and the sum of the timeouts and delays so
  far bounds the clock.
* **`QosServerProofs`**, the registry: `EveryTaskKnown` (`Inv`), `NoHandleTwice`.
  `AddedOnce` is what they need: a handle that has yet to be added is nowhere
  else, and one spawner adds it.
* **`QosServerProofs`**, the server: `ServerIsRegistry` shows that each step of the
  server is a step of the registry or leaves it alone, so `ServerTasksAreKnown`
  (`Inv`) follows from the registry's theorem. `LockIsReleased` (`LockInv`) is by
  induction with the handlers' side of the lock: who waits is in the queue, once,
  who looks up holds the lock, and a handler that has begun is running or done or
  dropped. `CacheIsRecent` (`AnswersAreRecent`) needs that an address expires
  `ADDR_CACHE_TIME` after it was looked up. The age is the one that the clock shows:
  `SystemTime` can be set back, and an address lives longer then.
* **`GameConnectionsProofs`**, the connections: `ConnectionsAnswerInOrder` (`Inv`),
  and `OnlySilenceTimesOut` (`TimesOutWhenSilent`). Each
  server has an invariant of its own, which the steps of the others leave alone.
  The redirector's (`NothingPassedOver`, `HowItEnded`) says that a packet is
  answered, in hand or waiting, and how a connection that timed out got there;
  the HTTP proxy's that the request in hand is the one behind those answered, and
  that a status in hand is the server's (`ServingInv`).
* **`GameConnectionsProofs`**, telemetry: `TelemetryInOrder` (`EventsInOrder`). The
  invariant (`FramingInv`) says that what was published is the bodies of the first
  events, and that the reading stands at the start of the next one's frame, behind
  its header, or behind its body; it is silent from the first length that is below
  the header's. What such a body decodes to is a fact about the operators
  (`Decoded`): the recursion that cuts it has one outcome (`CutsOnce`), which is
  its lines and an empty rest (`LinesUndone`); the first separator of a line is the
  one behind its key (`PairUndone`); and the cipher undoes itself, with the high
  bit set on a byte or not (`CipherUndone`), as xor adds the bits of two bytes
  without carrying (`XorOfBits`), for every key and text of seven bits.
* **`SequenceLemmas`**: no induction rule of the library can be instantiated by the
  installed provers, so `Induction` and `Recursion` are stated over sets and
  functions, from the well-foundedness of the naturals. What `Selected` and
  `FlattenSeq` make of a sequence and of its prefixes follows from them.

The assumptions are what the code fixes (sizes of headers, keys and pools, the range
of a byte) or what gives a bound of the model its type. One of them restricts what
a peer sends beyond its type: `EventsAssumption` has the game send events that can be
read back. Its keys are no separators, the values that are printed hold no
newline, the texts that are enciphered are of the game's seven-bit characters, and
the length of an event fits in its field (`Legible`); the code has no way of telling
events for which this fails from others. A header alone, whose length cannot be,
is among what it sends.

Only model-checked: liveness, which with `ENABLED` is out of the prover's reach
(`AllSent`, `EveryMessageSettled`, `TunnelEnds`, `SocketEnds`, `EndTogether`,
`PoolsAreReleased`, `ServerKeepsTrying`, `HandshakeEnds`, `TakenTasksEnd`,
`EveryoneAnswered`, `EventsTried`, `ConnectionsEnd`). Every safety property and every
refinement that a passing run checks is a theorem.

## What is not modelled

`update.rs` (calls in sequence, no state of its own); `ctx.rs` and the constants of
`lib.rs` (data). Of the modelled parts: logging and error texts; headers, paths and
bodies of HTTP; the TDF serialisation of the redirector's one answer, which is why
the Fire packets are partly modelled; the bytes of the UDP protocol, which another
crate serialises; the identity file and the HTTP client (`api.rs` 47-85), which
are set up once; the bytes of the Blaze link, whose copying is a call of
`copy_bidirectional` that keeps no state in this crate. Growth of the list of handles is not a property of a model
whose tasks are a constant.

## What could follow

An abstract specification of `TunnelServer` (a pool at a time, each released)
and of `Handshake` (one id out of those issued, or none), with refinements.
