-------------------------- MODULE TunnelServerProofs --------------------------
(***************************************************************************)
(* The loop of the tunnel server for every size of the pool, every limit on *)
(* errors and every number of iterations.                                   *)
(*                                                                          *)
(* GivesUpAfterErrorsInARow needs to know that attempt_errors is the history *)
(* of errors in a row, that the loop goes on only below the limit, and which *)
(* server's tunnel can panic.                                               *)
(* TunnelOwnsItsPool needs to know whose the handles are while the pool is   *)
(* allocated; that they are all of them, when there are SOCKET_POOL_SIZE, is *)
(* a fact about finite sets.                                                *)
(*                                                                          *)
(* Before the loop is lookup_server, which makes the base URL that the loop   *)
(* connects to: the second part is about ServerLookup, for every host and    *)
(* every server.  On the connection that it upgrades are the frames of the   *)
(* codec: the third part is about Codec, for every stream, wherever it is cut. *)
(***************************************************************************)
EXTENDS TunnelServer, ServerLookup, Codec, SequenceLemmas, SequenceTheorems,
        FiniteSetTheorems, TLAPS

CountsErrors == attempt_errors = errors_in_a_row
GoesOnBelowLimit ==
    pc \in {"connect", "allocate", "run", "returned", "panicked"} =>
        attempt_errors < MAX_ERROR_ATTEMPTS
OnlyUdpPanics == pc = "panicked" => transport = "udp"
FailsAtLimit == pc = "failed" => attempt_errors = MAX_ERROR_ATTEMPTS
WithinBound == pc \in {"allocate", "run", "sleep"} => pool <= MaxPools
HandlesOfPool ==
    pc \in {"allocate", "run"} => handles \subseteq [pool : {pool}, index : Indices]

IInv ==
    /\ TypeOK /\ CountsErrors /\ GoesOnBelowLimit /\ OnlyUdpPanics
    /\ FailsAtLimit /\ WithinBound /\ HandlesOfPool
    /\ TunnelOwnsItsPool

LEMMA LoopBoundAssumptions ==
    /\ SOCKET_POOL_SIZE \in Nat \ {0} /\ MAX_ERROR_ATTEMPTS \in Nat \ {0}
    /\ MaxPools \in Nat
BY PoolAssumption, AttemptsAssumption, BoundAssumption

\* A set of sockets of one pool that has SOCKET_POOL_SIZE members is the pool.
LEMMA FullPool ==
    ASSUME NEW p,
           NEW S \in SUBSET [pool : {p}, index : Indices],
           Cardinality(S) = SOCKET_POOL_SIZE
    PROVE  S = [pool : {p}, index : Indices]
<1> DEFINE Pool == [pool : {p}, index : Indices]
           at == [i \in Indices |-> [pool |-> p, index |-> i]]
<1>1. IsFiniteSet(Indices) /\ Cardinality(Indices) = SOCKET_POOL_SIZE
  BY LoopBoundAssumptions, FS_Interval DEF Indices
<1>2. at \in Bijection(Indices, Pool)
  <2>1. at \in [Indices -> Pool]
    OBVIOUS
  <2>2. \A i, j \in Indices : at[i] = at[j] => i = j
    <3> SUFFICES ASSUME NEW i \in Indices, NEW j \in Indices, at[i] = at[j]
                 PROVE  i = j
      OBVIOUS
    <3>1. at[i].index = i /\ at[j].index = j
      OBVIOUS
    <3> QED BY <3>1
  <2>3. \A s \in Pool : \E i \in Indices : at[i] = s
    <3> SUFFICES ASSUME NEW s \in Pool PROVE at[s.index] = s
      OBVIOUS
    <3> QED OBVIOUS
  <2> QED BY <2>1, <2>2, <2>3 DEF Bijection, Injection, Surjection, IsInjective
<1>3. IsFiniteSet(Pool) /\ Cardinality(Pool) = SOCKET_POOL_SIZE
  BY <1>1, <1>2, FS_Bijection DEF ExistsBijection
<1> HIDE DEF Pool
<1>4. S \subseteq Pool
  BY DEF Pool
<1>5. S = Pool
  BY <1>3, <1>4, FS_Subset
<1> QED BY <1>5 DEF Pool

LEMMA Initially == Init => IInv
BY LoopBoundAssumptions
   DEF Over, Init, IInv, TypeOK, CountsErrors, GoesOnBelowLimit, OnlyUdpPanics,
       FailsAtLimit, WithinBound, HandlesOfPool, TunnelOwnsItsPool

\* An error while connecting or allocating leaves everything in order.
LEMMA ErrorStep ==
    ASSUME IInv, pc \in {"connect", "allocate"}, pool <= MaxPools,
           CreateError, UNCHANGED sockets
    PROVE  IInv'
BY LoopBoundAssumptions
   DEF Over, CreateError, IInv, TypeOK, CountsErrors, GoesOnBelowLimit,
       OnlyUdpPanics, FailsAtLimit, WithinBound, HandlesOfPool,
       TunnelOwnsItsPool

LEMMA Step == IInv /\ [Next]_vars => IInv'
<1> SUFFICES ASSUME IInv, [Next]_vars PROVE IInv'
  OBVIOUS
<1> USE LoopBoundAssumptions DEF Over
<1>1. CASE Connect
  BY <1>1 DEF Connect, IInv, TypeOK, CountsErrors, GoesOnBelowLimit,
              OnlyUdpPanics, FailsAtLimit, WithinBound, HandlesOfPool,
              TunnelOwnsItsPool
<1>2. CASE ConnectError
  BY <1>2, ErrorStep DEF ConnectError
<1>3. ASSUME NEW i \in Indices, StartSocket(i) PROVE IInv'
  <2> DEFINE s == [pool |-> pool, index |-> i]
  <2>1. pool \in 1..MaxPools
    BY <1>3 DEF StartSocket, IInv, TypeOK, WithinBound
  <2>2. s \in Sockets /\ s \in [pool : {pool}, index : Indices]
    BY <2>1 DEF Sockets
  <2>3. handles' = handles \cup {s} /\ sockets' = sockets \cup {s}
    BY <1>3 DEF StartSocket
  <2> HIDE DEF s
  <2>4. TypeOK'
    BY <1>3, <2>2, <2>3 DEF StartSocket, IInv, TypeOK
  <2>5. HandlesOfPool'
    BY <1>3, <2>2, <2>3 DEF StartSocket, IInv, HandlesOfPool
  <2>6. /\ CountsErrors' /\ GoesOnBelowLimit' /\ OnlyUdpPanics'
        /\ FailsAtLimit' /\ WithinBound'
    BY <1>3 DEF StartSocket, IInv, CountsErrors, GoesOnBelowLimit,
                OnlyUdpPanics, FailsAtLimit, WithinBound
  <2>7. TunnelOwnsItsPool'
    BY <1>3 DEF StartSocket, TunnelOwnsItsPool
  <2> QED BY <2>4, <2>5, <2>6, <2>7 DEF IInv
<1>4. ASSUME NEW i \in Indices, StartSocketError(i) PROVE IInv'
  <2>1. pool <= MaxPools
    BY <1>4 DEF StartSocketError, IInv, WithinBound
  <2> QED BY <1>4, <2>1, ErrorStep DEF StartSocketError
<1>5. CASE PoolAllocated
  <2>1. handles = [pool : {pool}, index : Indices]
    BY <1>5, FullPool DEF PoolAllocated, IInv, HandlesOfPool
  <2>2. TunnelOwnsItsPool'
    BY <1>5, <2>1 DEF PoolAllocated, TunnelOwnsItsPool
  <2>3. HandlesOfPool'
    BY <1>5, <2>1 DEF PoolAllocated, HandlesOfPool
  <2>4. /\ TypeOK' /\ CountsErrors' /\ GoesOnBelowLimit' /\ OnlyUdpPanics'
        /\ FailsAtLimit' /\ WithinBound'
    BY <1>5 DEF PoolAllocated, IInv, TypeOK, CountsErrors, GoesOnBelowLimit,
                OnlyUdpPanics, FailsAtLimit, WithinBound
  <2> QED BY <2>2, <2>3, <2>4 DEF IInv
<1>6. CASE TunnelStops
  BY <1>6 DEF TunnelStops, IInv, TypeOK, CountsErrors, GoesOnBelowLimit,
              OnlyUdpPanics, FailsAtLimit, WithinBound, HandlesOfPool,
              TunnelOwnsItsPool
<1>7. CASE SleepOver
  BY <1>7 DEF SleepOver, IInv, TypeOK, CountsErrors, GoesOnBelowLimit,
              OnlyUdpPanics, FailsAtLimit, WithinBound, HandlesOfPool,
              TunnelOwnsItsPool
<1>8. ASSUME NEW s \in Sockets, SocketFails(s) \/ SocketEnds(s) PROVE IInv'
  BY <1>8 DEF SocketFails, SocketEnds, IInv, TypeOK, CountsErrors,
              GoesOnBelowLimit, OnlyUdpPanics, FailsAtLimit, WithinBound,
              HandlesOfPool, TunnelOwnsItsPool
<1>9. CASE UNCHANGED vars
  BY <1>9 DEF vars, IInv, TypeOK, CountsErrors, GoesOnBelowLimit,
              OnlyUdpPanics, FailsAtLimit, WithinBound, HandlesOfPool,
              TunnelOwnsItsPool
<1>10. CASE Abort
  BY <1>10 DEF Abort, IInv, TypeOK, CountsErrors, GoesOnBelowLimit,
               OnlyUdpPanics, FailsAtLimit, WithinBound, HandlesOfPool,
               TunnelOwnsItsPool
<1>11. CASE TunnelPanics
  BY <1>11 DEF TunnelPanics, IInv, TypeOK, CountsErrors, GoesOnBelowLimit,
               OnlyUdpPanics, FailsAtLimit, WithinBound, HandlesOfPool,
               TunnelOwnsItsPool
<1> QED
  BY <1>1, <1>2, <1>3, <1>4, <1>5, <1>6, <1>7, <1>8, <1>9, <1>10, <1>11
     DEF Next, Loop, Allocate

LEMMA Invariance == Spec => []IInv
BY Initially, Step, PTL DEF Spec

\* The count of errors of start_tunnel_server, and the seconds it sleeps for, never
\* exceed MAX_ERROR_ATTEMPTS; the Tunnel that create_tunnel starts has the whole
\* pool of its iteration, and nothing of the iterations before it; and a loop
\* that has no tunnel, because it stopped or was stopped, holds no socket.
THEOREM OwnsItsPool == Spec => []Inv
<1>1. IInv => Inv
  BY DEF IInv, Inv
<1> QED BY <1>1, Invariance, PTL

\* start_tunnel_server returns its last error exactly when the limit of errors in
\* a row is reached, and the one other end it comes to by itself after it has
\* started is the panic of a UDP tunnel.
THEOREM GivesUp == Spec => []GivesUpAfterErrorsInARow
<1>1. IInv => GivesUpAfterErrorsInARow
  BY LoopBoundAssumptions
     DEF IInv, TypeOK, Over, CountsErrors, GoesOnBelowLimit, OnlyUdpPanics,
         FailsAtLimit, GivesUpAfterErrorsInARow
<1> QED BY <1>1, Invariance, PTL

------------------------------------------------------------------------------
(* lookup_server *)

\* The first thing that is wrong, by the code's order of its checks.
Outcome ==
    IF ~host.valid THEN "InvalidHostTarget"
    ELSE IF ~server.reachable THEN "ConnectionFailed"
    ELSE IF server.error THEN "ErrorResponse"
    ELSE IF ~server.json THEN "InvalidResponse"
    ELSE IF server.ident # "POCKET_RELAY_SERVER" THEN "NotPocketRelay"
    ELSE IF Outdated(server.version) THEN "ServerOutdated"
    ELSE "Ok"

Requested ==
    /\ host.valid
    /\ url = BaseUrl(host)
    /\ asked = Join(url, DETAILS_ENDPOINT)

\* What a lookup has found to be right at each await, and how it ends.
LookupInv ==
    /\ host \in Hosts /\ server \in ServerKinds
    /\ lookup_pc \in {"start", "request", "response", "body", "details", "done"}
    /\ (lookup_pc = "start" \/ (lookup_pc = "done" /\ ~host.valid))
          => url = NoUrl /\ asked = NoUrl
    /\ (lookup_pc = "done" => host.valid) /\ lookup_pc # "start" => Requested
    /\ lookup_pc \in {"response", "body", "details"} => server.reachable
    /\ lookup_pc \in {"body", "details"} => ~server.error
    /\ lookup_pc = "details" => server.json
    /\ lookup_pc = "done" => result = Outcome

\* Each check of lookup_server goes on with what it has found to be right, or
\* returns the error of the first that is not.
LEMMA LookupInvariance == LookupSpec => []LookupInv
<1>1. LookupInit => LookupInv
  BY DEF LookupInit, LookupInv
<1>2. LookupInv /\ [LookupNext]_lookupVars => LookupInv'
  <2> SUFFICES ASSUME LookupInv, [LookupNext]_lookupVars PROVE LookupInv'
    OBVIOUS
  <2> USE DEF LookupInv
  <2>1. CASE InvalidHostTarget
    BY <2>1 DEF InvalidHostTarget, Return, Outcome
  <2>2. CASE Request
    BY <2>2 DEF Request, Requested
  <2>3. CASE Respond
    BY <2>3 DEF Respond, Goto, Requested
  <2>4. CASE AcceptStatus
    BY <2>4 DEF AcceptStatus, Goto, Requested
  <2>5. CASE ReadDetails
    BY <2>5 DEF ReadDetails, Goto, Requested
  <2>6. ASSUME NEW outcome, Return(outcome), outcome = Outcome,
               lookup_pc \notin {"start", "done"}
        PROVE  LookupInv'
    <3>1. UNCHANGED <<host, server, url, asked>> /\ lookup_pc' = "done"
      BY <2>6 DEF Return
    <3>2. host.valid /\ Requested /\ Requested'
      BY <2>6, <3>1 DEF Requested
    <3>3. Outcome' = Outcome
      BY <3>1 DEF Outcome, Outdated
    <3>4. result' = Outcome'
      BY <2>6, <3>3 DEF Return
    <3>5. QED
      BY <3>1, <3>2, <3>4
  <2>7. CASE ConnectionFailed
    <3>1. Outcome = "ConnectionFailed"
      BY <2>7 DEF ConnectionFailed, Outcome, Requested
    <3>2. QED
      BY <2>6, <2>7, <3>1 DEF ConnectionFailed
  <2>8. CASE ErrorResponse
    <3>1. Outcome = "ErrorResponse"
      BY <2>8 DEF ErrorResponse, Outcome, Requested
    <3>2. QED
      BY <2>6, <2>8, <3>1 DEF ErrorResponse
  <2>9. CASE InvalidResponse
    <3>1. Outcome = "InvalidResponse"
      BY <2>9 DEF InvalidResponse, Outcome, Requested
    <3>2. QED
      BY <2>6, <2>9, <3>1 DEF InvalidResponse
  <2>10. CASE NotPocketRelay \/ ServerOutdated \/ Ok
    <3>1. /\ lookup_pc = "details" /\ host.valid /\ server.reachable
          /\ ~server.error /\ server.json
      BY <2>10 DEF NotPocketRelay, ServerOutdated, Ok, Requested
    <3>2. Return(Outcome)
      BY <2>10, <3>1 DEF NotPocketRelay, ServerOutdated, Ok, Outcome
    <3>3. QED
      BY <2>6, <3>1, <3>2
  <2>11. CASE UNCHANGED lookupVars
    BY <2>11 DEF lookupVars, Outcome, Requested
  <2>12. QED
    BY <2>1, <2>2, <2>3, <2>4, <2>5, <2>7, <2>8, <2>9, <2>10, <2>11
    DEF LookupNext
<1>3. QED
  BY <1>1, <1>2, PTL DEF LookupSpec

\* A pre-release comes before its release, and after every release below.
LEMMA OutdatedIsBelow ==
  ASSUME NEW version \in Versions
  PROVE  Outdated(version) <=> Rank(version) < Rank(LeastVersion)
<1>1. version.release \in Int /\ version.pre \in BOOLEAN /\ MIN_SERVER_VERSION \in Int
  BY VersionAssumption DEF Versions
<1>2. Rank(LeastVersion) = 2 * MIN_SERVER_VERSION + 1
  BY DEF Rank, LeastVersion
<1>3. Rank(version) = IF version.pre THEN 2 * version.release
                                       ELSE 2 * version.release + 1
  BY <1>1 DEF Rank
<1>4. CASE version.pre
  BY <1>1, <1>2, <1>3, <1>4 DEF Outdated
<1>5. CASE ~version.pre
  BY <1>1, <1>2, <1>3, <1>5 DEF Outdated
<1> QED BY <1>4, <1>5

\* The URLs of a request are URLs.
LEMMA BaseUrlIsUrl ==
  ASSUME NEW h \in Hosts
  PROVE  /\ BaseUrl(h).scheme \in {"http", "https"}
         /\ Join(BaseUrl(h), DETAILS_ENDPOINT).scheme \in {"http", "https"}
<1>1. Scheme(h) \in {"http", "https"}
  BY DEF Scheme, Inferred, Hosts
<1>2. Parsed(h).scheme \in {"http", "https"}
  BY <1>1 DEF Parsed
<1>3. BaseUrl(h).scheme \in {"http", "https"}
  BY <1>2 DEF BaseUrl, SetScheme, Parsed
<1>4. Join(BaseUrl(h), DETAILS_ENDPOINT).scheme = BaseUrl(h).scheme
  BY <1>3 DEF Join, BaseUrl, SetScheme, Parsed
<1> QED BY <1>3, <1>4

\* The user is told the first thing that is wrong, a server is used only if it is
\* a Pocket Relay server of the least version or above and no pre-release of that
\* version, and nothing is requested for a host that is no URL.
THEOREM FirstFailureReported == LookupSpec => []FirstFailureIsReported
<1>1. LookupInv => FirstFailureIsReported
  <2> SUFFICES ASSUME LookupInv, lookup_pc = "done"
               PROVE  FirstFailureIsReported
    BY DEF FirstFailureIsReported
  <2>1. host \in Hosts /\ server.version \in Versions
    BY DEF LookupInv, ServerKinds
  <2>2. asked # NoUrl <=> host.valid
    BY <2>1, BaseUrlIsUrl DEF LookupInv, Requested, NoUrl
  <2>3. Outdated(server.version) <=>
           Rank(server.version) < Rank(LeastVersion)
    BY <2>1, OutdatedIsBelow
  <2>4. result = Outcome
    BY DEF LookupInv
  <2> DEFINE F == Failures
             Wrong(k) == F[k].is
  <2>5. /\ DOMAIN F = 1..6
        /\ F[1].name = "InvalidHostTarget" /\ F[2].name = "ConnectionFailed"
        /\ F[3].name = "ErrorResponse" /\ F[4].name = "InvalidResponse"
        /\ F[5].name = "NotPocketRelay" /\ F[6].name = "ServerOutdated"
    BY DEF Failures
  <2>6. /\ Wrong(1) <=> ~host.valid
        /\ Wrong(2) <=> ~server.reachable
        /\ Wrong(3) <=> server.error
        /\ Wrong(4) <=> ~server.json
        /\ Wrong(5) <=> server.ident # "POCKET_RELAY_SERVER"
        /\ Wrong(6) <=> Outdated(server.version)
    BY <2>3 DEF Failures
  <2> HIDE DEF F, Wrong
  <2>7. Outcome = IF Wrong(1) THEN "InvalidHostTarget"
                  ELSE IF Wrong(2) THEN "ConnectionFailed"
                  ELSE IF Wrong(3) THEN "ErrorResponse"
                  ELSE IF Wrong(4) THEN "InvalidResponse"
                  ELSE IF Wrong(5) THEN "NotPocketRelay"
                  ELSE IF Wrong(6) THEN "ServerOutdated" ELSE "Ok"
    BY <2>6 DEF Outcome
  <2>8. result = "Ok" <=> \A k \in 1..6 : ~Wrong(k)
    BY <2>4, <2>7
  <2>9. \A k \in 1..6 :
           result = F[k].name <=> Wrong(k) /\ \A j \in 1..k - 1 : ~Wrong(j)
    BY <2>4, <2>5, <2>7
  <2> QED
    BY <2>2, <2>5, <2>8, <2>9 DEF FirstFailureIsReported, F, Wrong
<1>2. QED
  BY <1>1, LookupInvariance, PTL

\* Front takes off again what Append has put there.
LEMMA FrontOfAppend ==
  ASSUME NEW S, NEW s \in Seq(S), NEW e \in S
  PROVE  Front(Append(s, e)) = s
<1> DEFINE q == Append(s, e)
           u == SubSeq(q, 1, Len(s))
<1>1. /\ q \in Seq(S) /\ Len(q) = Len(s) + 1 /\ Len(s) \in Nat
      /\ \A i \in 1..Len(s) : q[i] = s[i]
  BY AppendProperties, LenProperties
<1> HIDE DEF q
<1>2. u \in Seq(S) /\ Len(u) = Len(s) /\ \A i \in 1..Len(s) : u[i] = q[i]
  BY <1>1
<1>3. u = s
  <2> HIDE DEF u
  <2>1. \A i \in 1..Len(u) : u[i] = s[i]
    BY <1>1, <1>2
  <2> QED BY <1>2, <2>1, SeqEqual
<1>4. Len(q) - 1 = Len(s)
  BY <1>1
<1>5. Front(q) = s
  BY <1>3, <1>4 DEF Front
<1> QED BY <1>5 DEF q

\* The path of a URL that the program made ends with a slash: without it, it is
\* the path that the user typed.
LEMMA PathBelowSlash ==
  ASSUME NEW p \in SeqOf(Segments, MaxDepth)
  PROVE  Front(Append(p, "")) = p
<1>1. PICK m \in 0..MaxDepth : p \in [1..m -> Segments]
  BY DEF SeqOf
<1> DEFINE S == Segments \cup {""}
<1>2. m \in Nat
  BY DepthAssumption
<1>3. p \in Seq(Segments)
  BY <1>1, <1>2, SeqDef
<1>4. Segments \subseteq S /\ "" \in S
  OBVIOUS
<1> HIDE DEF S
<1>5. p \in Seq(S)
  BY <1>3, <1>4, SeqMonotonic
<1> QED BY <1>4, <1>5, FrontOfAppend

\* The scheme of the base URL: the one given, or the one that the port tells.
NamedScheme(h) ==
    IF h.scheme # "none" THEN h.scheme
    ELSE IF h.port = 443 THEN "https" ELSE "http"

\* A URL by its parts.
UrlOf(scheme, name, port, path) ==
    [scheme |-> scheme, server |-> name, port |-> port, path |-> path]

Named(scheme, port, path) == UrlOf(scheme, "named", port, path)

NamedUrl(h) ==
    Named(NamedScheme(h), KeptPort(NamedScheme(h), h.port), Append(h.path, ""))

\* What set_scheme makes of a URL.
LEMMA SchemeIsSet ==
  ASSUME NEW scheme, NEW name, NEW port, NEW path, NEW s, NEW u,
         u = UrlOf(scheme, name, port, path)
  PROVE  SetScheme(u, s) = UrlOf(s, name, KeptPort(s, port), path)
<1> DEFINE k == KeptPort(s, u.port)
<1>1. u.port = port
  BY DEF UrlOf
<1>2. SetScheme(u, s) = [u EXCEPT !.scheme = s, !.port = k]
  BY DEF SetScheme, UrlOf
<1> HIDE DEF k
<1>3. [u EXCEPT !.scheme = s, !.port = k] = UrlOf(s, name, k, path)
  <2> DEFINE v == [u EXCEPT !.scheme = s]
  <2>1. v = UrlOf(s, name, port, path)
    BY DEF UrlOf
  <2>2. [u EXCEPT !.scheme = s, !.port = k] = [v EXCEPT !.port = k]
    OBVIOUS
  <2> HIDE DEF v
  <2>3. [v EXCEPT !.port = k] = UrlOf(s, name, k, path)
    BY <2>1 DEF UrlOf
  <2> QED BY <2>2, <2>3
<1> QED BY <1>1, <1>2, <1>3 DEF k

\* The parts of a URL of the named server.
LEMMA NamedFields ==
  ASSUME NEW scheme, NEW port, NEW path, NEW u, u = Named(scheme, port, path)
  PROVE  /\ u.scheme = scheme /\ u.server = "named" /\ u.port = port /\ u.path = path
         /\ \A s : SetScheme(u, s) = Named(s, KeptPort(s, port), path)
<1>1. u.scheme = scheme /\ u.server = "named" /\ u.port = port /\ u.path = path
  BY DEF Named, UrlOf
<1>2. ASSUME NEW s PROVE SetScheme(u, s) = Named(s, KeptPort(s, port), path)
  BY SchemeIsSet DEF Named
<1> QED BY <1>1, <1>2

\* Switching to https after the port was seen, and dropping the port that has become
\* the default, is as good as having typed https.
LEMMA BaseUrlIsNamed ==
  ASSUME NEW h \in Hosts, h.scheme # "other"
  PROVE  BaseUrl(h) = NamedUrl(h) /\ NamedScheme(h) \in {"http", "https"}
<1>1. h.scheme \in {"none", "http", "https"}
  BY DEF Hosts
<1> DEFINE u == Parsed(h)
           path == Append(h.path, "")
           port == h.port
<1>2. u = Named(Scheme(h), KeptPort(Scheme(h), port), path)
  BY DEF Parsed, Named, UrlOf
<1>3. BaseUrl(h) = IF u.port = 443 /\ Inferred(h) THEN SetScheme(u, "https")
                                                    ELSE u
  BY DEF BaseUrl
<1>4. NamedUrl(h) = Named(NamedScheme(h), KeptPort(NamedScheme(h), port), path)
  BY DEF NamedUrl
<1>5. NamedScheme(h) = IF h.scheme # "none" THEN h.scheme
                       ELSE IF port = 443 THEN "https" ELSE "http"
  BY DEF NamedScheme
<1> HIDE DEF u, path, port
<1>6. CASE h.scheme # "none"
  <2>1. ~Inferred(h) /\ Scheme(h) = h.scheme /\ NamedScheme(h) = h.scheme
    BY <1>1, <1>5, <1>6 DEF Inferred, Scheme
  <2> QED BY <1>1, <1>2, <1>3, <1>4, <1>6, <2>1
<1>7. CASE h.scheme = "none"
  <2>1. Inferred(h) /\ Scheme(h) = "http"
    BY <1>7 DEF Inferred, Scheme
  <2>2. u = Named("http", KeptPort("http", port), path)
    BY <1>2, <2>1
  <2>3. KeptPort("http", port) = IF port = 80 THEN 0 ELSE port
    BY DEF KeptPort, DefaultPort, NoPort
  <2>4. u.port = IF port = 80 THEN 0 ELSE port
    BY <2>2, <2>3, NamedFields
  <2>5. CASE port = 443
    <3>1. u.port = 443 /\ KeptPort("http", port) = 443
      BY <2>3, <2>4, <2>5
    <3>2. SetScheme(u, "https") = Named("https", KeptPort("https", port), path)
      BY <2>2, <2>5, <3>1, NamedFields
    <3>3. NamedScheme(h) = "https"
      BY <1>5, <1>7, <2>5
    <3> QED BY <1>3, <1>4, <2>1, <3>1, <3>2, <3>3
  <2>6. CASE port # 443
    <3>1. u.port # 443 /\ NamedScheme(h) = "http"
      BY <1>5, <1>7, <2>4, <2>6
    <3> QED BY <1>3, <1>4, <2>2, <3>1
  <2> QED BY <2>5, <2>6
<1> QED BY <1>6, <1>7

\* The base URL has the port and the path that were typed.
LEMMA NamedUrlIs ==
  ASSUME NEW h \in Hosts, NEW u, u = NamedUrl(h),
         NamedScheme(h) \in {"http", "https"}
  PROVE  /\ PortOf(u) = IF h.port # NoPort THEN h.port
                          ELSE DefaultPort(u.scheme)
         /\ KeptPort(u.scheme, u.port) = u.port
         /\ Front(u.path) = h.path
<1>1. /\ u.scheme = NamedScheme(h) /\ u.port = KeptPort(u.scheme, h.port)
      /\ u.path = Append(h.path, "")
  <2> DEFINE k == KeptPort(NamedScheme(h), h.port)
             path == Append(h.path, "")
  <2>1. u = Named(NamedScheme(h), k, path)
    BY DEF NamedUrl
  <2> HIDE DEF k, path
  <2>2. u.scheme = NamedScheme(h) /\ u.port = k /\ u.path = path
    BY <2>1, NamedFields
  <2> QED BY <2>2 DEF k, path
<1>2. DefaultPort(u.scheme) \in {80, 443}
  BY DEF DefaultPort
<1>3. u.port = IF h.port = DefaultPort(u.scheme) THEN 0 ELSE h.port
  BY <1>1 DEF KeptPort, NoPort
<1>4. PortOf(u) = IF h.port # NoPort THEN h.port ELSE DefaultPort(u.scheme)
  BY <1>2, <1>3 DEF PortOf, NoPort
<1>5. KeptPort(u.scheme, u.port) = u.port
  BY <1>2, <1>3 DEF KeptPort, NoPort
<1>6. h.path \in SeqOf(Segments, MaxDepth)
  BY DEF Hosts
<1> QED BY <1>1, <1>4, <1>5, <1>6, PathBelowSlash

\* The base URL is the server, the port and the path that the user named; typed in
\* again it means the same, and the endpoints are below its path.
THEOREM BaseUrlAsNamed == LookupSpec => []BaseUrlIsWhatWasNamed
<1>1. LookupInv => BaseUrlIsWhatWasNamed
  <2> SUFFICES ASSUME LookupInv, url # NoUrl, host.scheme # "other"
               PROVE  BaseUrlIsWhatWasNamed
    BY DEF BaseUrlIsWhatWasNamed
  <2>1. host \in Hosts /\ url = BaseUrl(host)
    BY DEF LookupInv, Requested
  <2>2. url = NamedUrl(host) /\ NamedScheme(host) \in {"http", "https"}
    BY <2>1, BaseUrlIsNamed
  <2>3. /\ url.server = "named" /\ url.scheme = NamedScheme(host)
        /\ url = Named(url.scheme, url.port, Append(host.path, ""))
    <3> DEFINE k == KeptPort(NamedScheme(host), host.port)
               path == Append(host.path, "")
    <3>1. url = Named(NamedScheme(host), k, path)
      BY <2>2 DEF NamedUrl
    <3> HIDE DEF k, path
    <3>2. url.scheme = NamedScheme(host) /\ url.server = "named" /\ url.port = k
      BY <3>1, NamedFields
    <3> QED BY <3>1, <3>2 DEF path
  <2>4. /\ PortOf(url) = IF host.port # NoPort THEN host.port
                           ELSE DefaultPort(url.scheme)
        /\ KeptPort(url.scheme, url.port) = url.port
        /\ Front(url.path) = host.path
    BY <2>1, <2>2, NamedUrlIs
  <2>5. BaseUrl(Displayed(url)) = url
    <3> DEFINE d == Displayed(url)
    <3>1. /\ d.scheme = url.scheme /\ d.port = url.port /\ d.path = host.path
          /\ d.scheme \in {"http", "https"}
      BY <2>2, <2>3, <2>4 DEF Displayed
    <3> HIDE DEF d
    <3>2. ~Inferred(d) /\ Scheme(d) = url.scheme /\ d.scheme # "other"
      BY <3>1 DEF Inferred, Scheme
    <3>3. BaseUrl(d) = Parsed(d)
      BY <3>2 DEF BaseUrl
    <3>4. Parsed(d) = Named(url.scheme, url.port, Append(host.path, ""))
      BY <2>4, <3>1, <3>2 DEF Parsed, Named, UrlOf
    <3> QED BY <2>3, <3>3, <3>4 DEF d
  <2>6. ASSUME NEW e \in Endpoints
        PROVE  Join(url, e) = [url EXCEPT !.path = host.path \o e]
    <3>1. Join(url, e) = [url EXCEPT !.path = Front(url.path) \o e]
      BY <2>3 DEF Join
    <3> QED BY <2>4, <3>1
  <2> QED
    BY <2>3, <2>4, <2>5, <2>6 DEF BaseUrlIsWhatWasNamed, NamedScheme
<1>2. QED
  BY <1>1, LookupInvariance, PTL

------------------------------------------------------------------------------
(* The codec *)

\* What the code's formats and the bounds on bytes and lengths say.
LEMMA CodecFormats ==
  ASSUME codec \in {"tunnel", "fire"}
  PROVE  /\ HEADER_SIZE \in Nat \ {0} /\ MIN_BYTES \in Nat /\ HEADER_SIZE <= MIN_BYTES
         /\ LENGTH_AT \in 1..HEADER_SIZE /\ LENGTH_AT + 1 \in 1..HEADER_SIZE
         /\ TagAt \in 1..HEADER_SIZE \ {LENGTH_AT, LENGTH_AT + 1}
<1>1. /\ HEADER_SIZE = IF codec = "tunnel" THEN 3 ELSE 12
      /\ MIN_BYTES = IF codec = "tunnel" THEN 5 ELSE 12
      /\ LENGTH_AT = IF codec = "tunnel" THEN 2 ELSE 1
  BY DEF HEADER_SIZE, MIN_BYTES, LENGTH_AT, Format, TunnelFormat, FireFormat
<1> DEFINE free == 1..HEADER_SIZE \ {LENGTH_AT, LENGTH_AT + 1}
<1>2. \E k \in 1..HEADER_SIZE : k \notin {LENGTH_AT, LENGTH_AT + 1}
  <2>1. CASE codec = "tunnel"
    BY <1>1, <2>1
  <2>2. CASE codec # "tunnel"
    <3>1. 3 \in 1..HEADER_SIZE /\ 3 \notin {LENGTH_AT, LENGTH_AT + 1}
      BY <1>1, <2>2
    <3> QED BY <3>1
  <2> QED BY <2>1, <2>2
<1>3. TagAt \in 1..HEADER_SIZE /\ TagAt \notin {LENGTH_AT, LENGTH_AT + 1}
  BY <1>2, Zenon DEF TagAt
<1> QED BY <1>1, <1>3

\* The length of a frame fits the two bytes that encode writes.
LEMMA LengthFits ==
  ASSUME NEW len \in Lengths
  PROVE  /\ len \in Nat /\ len % (BYTE * BYTE) = len
         /\ len \div BYTE \in 0..(BYTE - 1) /\ len % BYTE \in 0..(BYTE - 1)
         /\ (len \div BYTE) * BYTE + (len % BYTE) = len
<1>1. BYTE \in Nat \ {0} /\ len \in 0..(BYTE * BYTE - 1)
  BY CodecAssumption
<1>2. BYTE * BYTE \in Nat \ {0} /\ len \in Nat /\ len < BYTE * BYTE
  BY <1>1, Z3
<1>3. len % (BYTE * BYTE) = len
  <2> DEFINE limit == BYTE * BYTE
  <2> HIDE DEF limit
  <2>1. limit \in Nat \ {0} /\ len < limit
    BY <1>2 DEF limit
  <2>2. len % limit = len
    BY <1>2, <2>1
  <2> QED BY <2>2 DEF limit
<1>4. (len \div BYTE) * BYTE + (len % BYTE) = len /\ len % BYTE \in 0..(BYTE - 1)
  BY <1>1, <1>2, Z3
<1>5. len \div BYTE \in Int /\ len \div BYTE >= 0
  BY <1>1, <1>2, Z3
<1>6. len \div BYTE < BYTE
  BY <1>1, <1>2, Z3
<1> QED BY <1>1, <1>2, <1>3, <1>4, <1>5, <1>6

\* encode writes bytes, and as many as the header and the contents have.
LEMMA EncodeWrites ==
  ASSUME codec \in {"tunnel", "fire"}, NEW frame \in Frames
  PROVE  /\ Encode(frame) \in Seq(0..(BYTE - 1))
         /\ Len(Encode(frame)) = HEADER_SIZE + frame.length
         /\ frame.length \in Nat
<1> DEFINE len == frame.length % (BYTE * BYTE)
           size == HEADER_SIZE + frame.length
           byte(k) == IF k = LENGTH_AT THEN len \div BYTE
                      ELSE IF k = LENGTH_AT + 1 THEN len % BYTE ELSE frame.tag
<1>1. frame.length \in Lengths /\ frame.tag \in 0..(BYTE - 1)
  BY CodecAssumption DEF Frames
<1>2. frame.length \in Nat /\ size \in Nat
  BY <1>1, LengthFits, CodecFormats
<1>3. len \div BYTE \in 0..(BYTE - 1) /\ len % BYTE \in 0..(BYTE - 1)
  BY <1>1, LengthFits
<1>4. Encode(frame) = [k \in 1..size |-> byte(k)]
  BY DEF Encode
<1> HIDE DEF len, size
<1>5. \A k \in 1..size : byte(k) \in 0..(BYTE - 1)
  BY <1>1, <1>3
<1> HIDE DEF byte
<1>6. [k \in 1..size |-> byte(k)] \in Seq(0..(BYTE - 1))
  BY <1>2, <1>5
<1> QED BY <1>2, <1>4, <1>6 DEF size

\* decode reads the header that encode wrote.
LEMMA HeaderIsRead ==
  ASSUME codec \in {"tunnel", "fire"}, NEW frame \in Frames, NEW bytes,
         \A i \in 1..HEADER_SIZE : bytes[i] = Encode(frame)[i]
  PROVE  ReadHeader(bytes) = frame
<1> DEFINE size == HEADER_SIZE + frame.length
           len == frame.length
<1>1. len \in Lengths /\ len \in Nat /\ HEADER_SIZE \in Nat
  BY CodecFormats, LengthFits DEF Frames
<1>2. Encode(frame) = [k \in 1..size |->
          IF k = LENGTH_AT THEN len \div BYTE
          ELSE IF k = LENGTH_AT + 1 THEN len % BYTE ELSE frame.tag]
  <2>1. len % (BYTE * BYTE) = len
    BY <1>1, LengthFits
  <2> HIDE DEF len
  <2> QED BY <2>1, Zenon DEF Encode, len
<1>3. \A i \in 1..HEADER_SIZE : i \in 1..size
  BY <1>1
<1> HIDE DEF size
<1>4. /\ bytes[LENGTH_AT] = len \div BYTE
      /\ bytes[LENGTH_AT + 1] = len % BYTE
      /\ bytes[TagAt] = frame.tag
  BY <1>2, <1>3, CodecFormats
<1>5. bytes[LENGTH_AT] * BYTE + bytes[LENGTH_AT + 1] = len
  <2>1. (len \div BYTE) * BYTE + (len % BYTE) = len
    BY <1>1, LengthFits
  <2> QED BY <1>4, <2>1
<1>6. ReadHeader(bytes) = [tag |-> frame.tag, length |-> len]
  BY <1>4, <1>5, Zenon DEF ReadHeader, Some
<1> QED BY <1>6 DEF Frames

\* Where the frames of the stream are among its bytes.
LEMMA StreamLayout ==
  ASSUME codec \in {"tunnel", "fire"}, stream \in Seq(Frames)
  PROVE  /\ Bytes(stream) \in Seq(0..(BYTE - 1))
         /\ End(0) = 0 /\ End(Len(stream)) = Len(Bytes(stream))
         /\ \A k \in 0..Len(stream) : End(k) \in Nat
         /\ \A k \in 1..Len(stream) :
               /\ Start(k) = End(k - 1)
               /\ End(k) = End(k - 1) + (HEADER_SIZE + stream[k].length)
               /\ \A i \in 1..(HEADER_SIZE + stream[k].length) :
                     Bytes(stream)[End(k - 1) + i] = Encode(stream[k])[i]
<1> DEFINE S == 0..(BYTE - 1)
           n == Len(stream)
           enc(k) == Encode(stream[k])
           size(k) == HEADER_SIZE + stream[k].length
           ss == [k \in 1..n |-> enc(k)]
<1>1. n \in Nat /\ \A k \in 1..n : stream[k] \in Frames
  BY ElementOfSeq
<1>2. \A k \in 1..n : enc(k) \in Seq(S) /\ Len(enc(k)) = size(k) /\ size(k) \in Nat
  BY <1>1, EncodeWrites, CodecFormats
<1>3. ss \in Seq(Seq(S)) /\ Len(ss) = n /\ \A k \in 1..n : ss[k] = enc(k)
  <2> HIDE DEF enc, S
  <2> QED BY <1>1, <1>2
<1>4. Bytes(stream) = FlattenSeq(ss)
  BY DEF Bytes
<1>5. ASSUME NEW k \in 0..n
      PROVE  Bytes(SubSeq(stream, 1, k)) = FlattenSeq(SubSeq(ss, 1, k))
  <2> DEFINE t == SubSeq(stream, 1, k)
  <2>1. Len(t) = k /\ \A i \in 1..k : t[i] = stream[i]
    BY <1>1
  <2>2. SubSeq(ss, 1, k) = [i \in 1..k |-> ss[i]]
    BY <1>1, <1>3
  <2> HIDE DEF t
  <2>3. \A i \in 1..k : Encode(t[i]) = ss[i]
    BY <1>1, <1>3, <2>1
  <2>4. [i \in 1..Len(t) |-> Encode(t[i])] = [i \in 1..k |-> ss[i]]
    <3> HIDE DEF ss
    <3> QED BY <2>1, <2>3
  <2> HIDE DEF ss
  <2>5. Bytes(t) = FlattenSeq(SubSeq(ss, 1, k))
    BY <2>2, <2>4, Zenon DEF Bytes
  <2> QED BY <2>5 DEF t
<1> HIDE DEF ss, S
<1>6. PICK f : Flattens(f, S, ss) /\ FlattenSeq(ss) = f[n]
  BY <1>3, FlattenedBy
<1>7. \A k \in 0..n : f[k] \in Seq(S)
  BY <1>3, <1>6 DEF Flattens
<1>8. ASSUME NEW k \in 0..n
      PROVE  /\ End(k) = Len(f[k])
             /\ Len(f[k]) <= Len(f[n])
             /\ \A i \in 1..Len(f[k]) : f[n][i] = f[k][i]
  <2>1. FlattenSeq(SubSeq(ss, 1, k)) = f[k]
    BY <1>3, <1>6, FlattenOfPrefix
  <2>2. End(k) = Len(f[k])
    BY <1>5, <2>1 DEF End
  <2>3. n \in k..Len(ss)
    BY <1>1, <1>3
  <2>4. \A m \in k..Len(ss) :
           Len(f[k]) <= Len(f[m]) /\ \A i \in 1..Len(f[k]) : f[m][i] = f[k][i]
    BY <1>3, <1>6, FlattenOfPrefix
  <2> QED BY <2>2, <2>3, <2>4
<1>9. Bytes(stream) = f[n] /\ n \in 0..n /\ 0 \in 0..n
  BY <1>1, <1>4, <1>6
<1>10. End(0) = 0
  <2>1. f[0] = <<>>
    BY <1>6 DEF Flattens
  <2> QED BY <1>8, <1>9, <2>1
<1>11. ASSUME NEW k \in 1..n
       PROVE  /\ Start(k) = End(k - 1)
              /\ End(k) = End(k - 1) + size(k)
              /\ \A i \in 1..size(k) : Bytes(stream)[End(k - 1) + i] = enc(k)[i]
  <2>1. k - 1 \in 0..n /\ k \in 0..n
    BY <1>1
  <2> DEFINE u == f[k - 1]
             w == f[k]
             v == enc(k)
             all == f[n]
             sz == size(k)
  <2>2. w = u \o v
    BY <1>3, <1>6 DEF Flattens
  <2>3. u \in Seq(S) /\ v \in Seq(S) /\ Len(v) = sz
    BY <1>2, <1>7, <2>1
  <2>4. /\ End(k - 1) = Len(u) /\ End(k) = Len(w)
        /\ \A i \in 1..Len(w) : all[i] = w[i]
    BY <1>8, <2>1
  <2> HIDE DEF u, v, w, all, sz
  <2>5. /\ Len(w) = Len(u) + Len(v)
        /\ \A i \in 1..Len(v) : w[Len(u) + i] = v[i]
    <3>1. /\ Len(w) = Len(u) + Len(v)
          /\ \A i \in 1..(Len(u) + Len(v)) :
                w[i] = IF i <= Len(u) THEN u[i] ELSE v[i - Len(u)]
      BY <2>2, <2>3, ConcatProperties
    <3>2. Len(u) \in Nat /\ Len(v) \in Nat
      BY <2>3
    <3>3. ASSUME NEW i \in 1..Len(v) PROVE w[Len(u) + i] = v[i]
      <4>1. /\ Len(u) + i \in 1..(Len(u) + Len(v)) /\ ~(Len(u) + i <= Len(u))
            /\ (Len(u) + i) - Len(u) = i
        BY <3>2
      <4> QED BY <3>1, <4>1
    <3> QED BY <3>1, <3>3
  <2>6. Len(u) \in Nat /\ Len(v) \in Nat
    BY <2>3
  <2>7. \A i \in 1..sz : all[Len(u) + i] = v[i]
    BY <2>3, <2>4, <2>5, <2>6
  <2>8. Start(k) = End(k - 1)
    BY DEF Start, End
  <2> QED BY <1>9, <2>3, <2>4, <2>5, <2>7, <2>8 DEF v, all, sz
<1>12. \A k \in 0..n : End(k) \in Nat
  BY <1>7, <1>8
<1>13. Bytes(stream) \in Seq(S) /\ End(n) = Len(Bytes(stream))
  BY <1>7, <1>8, <1>9
<1> QED BY <1>10, <1>11, <1>12, <1>13 DEF S

\* The bytes of the stream that decode has taken from the buffer.
Position == End(Len(decoded)) + (IF partial = None THEN 0 ELSE HEADER_SIZE)

\* The bytes follow the first p of the stream.
Follow(bytes, p) == \A i \in 1..Len(bytes) : bytes[i] = Bytes(stream)[p + i]

Streamed ==
    /\ codec \in {"tunnel", "fire"}
    /\ stream \in Seq(Frames) /\ Len(stream) <= MaxFrames
    /\ readable \in BOOLEAN
HandedOver ==
    /\ decoded \in Seq(Frames) /\ Len(decoded) <= Len(stream)
    /\ \A k \in 1..Len(decoded) : decoded[k] = stream[k]
HeaderKept ==
    partial # None =>
        Len(decoded) < Len(stream) /\ partial = stream[Len(decoded) + 1]
Buffered ==
    /\ src \in Seq(0..(BYTE - 1)) /\ unread \in Seq(0..(BYTE - 1))
    /\ Position + Len(src) + Len(unread) = Len(Bytes(stream))
    /\ Follow(src, Position) /\ Follow(unread, Position + Len(src))
HeadersAwaited ==
    /\ \A k \in 1..Len(decoded) : Arrived >= Start(k) + MIN_BYTES
    /\ partial # None => Arrived >= End(Len(decoded)) + MIN_BYTES
RunDry ==
    ~readable => IF partial = None THEN Len(src) < MIN_BYTES
                                   ELSE Len(src) < partial.length

\* The buffer continues the stream where decode has got to, which is at the end of
\* the frames handed over, or behind the header it keeps; it wants more only when
\* it has to.
CodecIInv ==
    Streamed /\ HandedOver /\ HeaderKept /\ Buffered /\ HeadersAwaited /\ RunDry

\* No frame is the lack of a header.
LEMMA NoneIsNoFrame == None \notin Frames
<1> SUFFICES ASSUME None \in Frames PROVE FALSE
  OBVIOUS
<1>1. None.tag = -1 /\ None.tag \in Tags
  BY DEF None, Frames
<1> QED BY <1>1, CodecAssumption

LEMMA CodecInitial == CodecInit => CodecIInv
<1> SUFFICES ASSUME CodecInit PROVE CodecIInv
  OBVIOUS
<1>1. Streamed
  <2>1. PICK n \in 1..MaxFrames : stream \in [1..n -> Frames]
    BY DEF CodecInit
  <2>2. n \in Nat /\ n <= MaxFrames
    BY CodecAssumption
  <2>3. stream \in Seq(Frames) /\ Len(stream) = n
    BY <2>1, <2>2
  <2> QED BY <2>2, <2>3 DEF CodecInit, Streamed
<1>2. /\ Bytes(stream) \in Seq(0..(BYTE - 1)) /\ End(0) = 0
      /\ MIN_BYTES \in Nat /\ HEADER_SIZE \in Nat \ {0} /\ HEADER_SIZE <= MIN_BYTES
  BY <1>1, StreamLayout, CodecFormats DEF Streamed
<1>3. /\ src = <<>> /\ decoded = <<>> /\ partial = None /\ unread = Bytes(stream)
      /\ Len(src) = 0 /\ Len(decoded) = 0 /\ Len(stream) \in Nat
  BY <1>1 DEF CodecInit, Streamed
<1>4. Position = 0
  BY <1>2, <1>3 DEF Position
<1>5. HandedOver /\ HeaderKept
  BY <1>3 DEF HandedOver, HeaderKept
<1>6. Buffered
  <2> DEFINE all == Bytes(stream)
  <2> HIDE DEF all
  <2>1. all \in Seq(0..(BYTE - 1)) /\ Len(all) \in Nat
    BY <1>2 DEF all
  <2>2. src \in Seq(0..(BYTE - 1)) /\ unread = all
    BY <1>3 DEF all
  <2>3. Follow(src, 0)
    BY <1>3 DEF Follow
  <2>4. Follow(unread, 0 + 0)
    <3>1. \A i \in 1..Len(all) : all[i] = all[(0 + 0) + i]
      OBVIOUS
    <3> QED BY <2>2, <3>1 DEF Follow, all
  <2>5. 0 + 0 + Len(unread) = Len(all)
    BY <2>1, <2>2
  <2> QED BY <1>3, <1>4, <2>1, <2>2, <2>3, <2>4, <2>5 DEF Buffered, all
<1>7. HeadersAwaited /\ RunDry
  BY <1>2, <1>3 DEF HeadersAwaited, RunDry
<1> QED BY <1>1, <1>5, <1>6, <1>7 DEF CodecIInv

\* The bytes that have arrived are those taken from the buffer and those in it.
LEMMA ArrivedIs ==
  ASSUME CodecIInv
  PROVE  /\ Len(decoded) \in 0..Len(stream) /\ Len(stream) \in Nat
         /\ End(Len(decoded)) \in Nat /\ Position \in Nat
         /\ Len(src) \in Nat /\ Len(unread) \in Nat
         /\ Arrived = Position + Len(src)
<1>1. Len(decoded) \in 0..Len(stream) /\ Len(stream) \in Nat
  BY DEF CodecIInv, Streamed, HandedOver
<1>2. End(Len(decoded)) \in Nat
  BY <1>1, StreamLayout DEF CodecIInv, Streamed
<1>3. Position \in Nat
  BY <1>2, CodecFormats DEF CodecIInv, Streamed, Position
<1>4. Len(src) \in Nat /\ Len(unread) \in Nat
  BY DEF CodecIInv, Buffered
<1>5. Position + Len(src) + Len(unread) = Len(Bytes(stream))
  BY DEF CodecIInv, Buffered
<1>6. Arrived = Position + Len(src)
  BY <1>3, <1>4, <1>5 DEF Arrived
<1> QED BY <1>1, <1>2, <1>3, <1>4, <1>6

\* What decode knows once it has a header, kept or read from the buffer: it is
\* that of the next frame, and the rest of the buffer is what follows it.
HeaderOfNext(contents_at) ==
    /\ Len(decoded) < Len(stream) /\ Header = stream[Len(decoded) + 1]
    /\ Header \in Frames /\ Header.length \in Nat
    /\ contents_at = End(Len(decoded)) + HEADER_SIZE /\ contents_at \in Nat
    /\ End(Len(decoded) + 1) = contents_at + Header.length
    /\ Rest \in Seq(0..(BYTE - 1))
    /\ contents_at + Len(Rest) + Len(unread) = Len(Bytes(stream))
    /\ Arrived = contents_at + Len(Rest)
    /\ Arrived >= End(Len(decoded)) + MIN_BYTES
    /\ Follow(Rest, contents_at) /\ Follow(unread, contents_at + Len(Rest))

LEMMA HeaderIsOfNext ==
  ASSUME CodecIInv, HasHeader
  PROVE  HeaderOfNext(End(Len(decoded)) + HEADER_SIZE)
<1> DEFINE j == Len(decoded)
           at == End(j) + HEADER_SIZE
           next == stream[j + 1]
           all == Bytes(stream)
<1>1. codec \in {"tunnel", "fire"} /\ stream \in Seq(Frames)
  BY DEF CodecIInv, Streamed
<1>2. /\ j \in 0..Len(stream) /\ Len(stream) \in Nat /\ End(j) \in Nat
      /\ Position \in Nat /\ Len(src) \in Nat /\ Len(unread) \in Nat
      /\ Arrived = Position + Len(src)
      /\ Position + Len(src) + Len(unread) = Len(all)
  BY ArrivedIs DEF CodecIInv, Buffered
<1>3. HEADER_SIZE \in Nat \ {0} /\ MIN_BYTES \in Nat /\ HEADER_SIZE <= MIN_BYTES
  BY <1>1, CodecFormats
<1>4. Position = End(j) + (IF partial = None THEN 0 ELSE HEADER_SIZE)
  BY DEF Position
<1>5. /\ src \in Seq(0..(BYTE - 1))
      /\ Follow(src, Position) /\ Follow(unread, Position + Len(src))
  BY DEF CodecIInv, Buffered
<1>6. j < Len(stream)
  <2>1. CASE partial # None
    BY <2>1 DEF CodecIInv, HeaderKept
  <2>2. CASE partial = None
    <3>1. Len(src) >= MIN_BYTES /\ Position = End(j)
      BY <1>2, <1>4, <2>2 DEF HasHeader
    <3>2. End(Len(stream)) = Len(all)
      BY <1>1, StreamLayout
    <3>3. SUFFICES ASSUME j = Len(stream) PROVE FALSE
      BY <1>2
    <3>4. End(j) = Len(all)
      BY <3>2, <3>3
    <3> HIDE DEF j, all
    <3> QED BY <1>2, <1>3, <3>1, <3>4
  <2> QED BY <2>1, <2>2
<1>7. next \in Frames /\ next.length \in Nat
  <2>1. j + 1 \in 1..Len(stream)
    BY <1>2, <1>6
  <2>2. next \in Frames
    BY <1>1, <2>1, ElementOfSeq
  <2> QED BY <1>1, <2>2, EncodeWrites
<1>8. /\ End(j + 1) = End(j) + (HEADER_SIZE + next.length)
      /\ \A i \in 1..(HEADER_SIZE + next.length) : all[End(j) + i] = Encode(next)[i]
  <2>1. j + 1 \in 1..Len(stream) /\ (j + 1) - 1 = j
    BY <1>2, <1>6
  <2> HIDE DEF all
  <2> QED BY <1>1, <2>1, StreamLayout DEF all
<1>9. at \in Nat /\ End(j + 1) = at + next.length
  <2> HIDE DEF j, next
  <2> QED BY <1>2, <1>3, <1>7, <1>8
<1> HIDE DEF j, all
<1>10. /\ Header = next
       /\ Rest \in Seq(0..(BYTE - 1)) /\ at + Len(Rest) = Position + Len(src)
       /\ Follow(Rest, at)
       /\ Arrived >= End(j) + MIN_BYTES
  <2>1. CASE partial # None
    <3>1. Header = next
      BY <2>1 DEF Header, CodecIInv, HeaderKept, j
    <3>2. Rest = src /\ Position = at
      BY <1>4, <2>1 DEF Rest
    <3>3. Arrived >= End(j) + MIN_BYTES
      BY <2>1 DEF CodecIInv, HeadersAwaited, j
    <3> QED BY <1>5, <3>1, <3>2, <3>3
  <2>2. CASE partial = None
    <3>1. Position = End(j)
      BY <1>2, <1>4, <2>2
    <3>2. Len(src) >= MIN_BYTES
      BY <2>2 DEF HasHeader
    <3>3. Header = ReadHeader(src) /\ Rest = SubSeq(src, HEADER_SIZE + 1, Len(src))
      BY <2>2 DEF Header, Rest
    <3>4. \A i \in 1..Len(src) : src[i] = all[End(j) + i]
      BY <1>5, <3>1 DEF Follow, all
    <3>5. ASSUME NEW i \in 1..HEADER_SIZE PROVE src[i] = Encode(next)[i]
      <4>1. i \in 1..Len(src)
        BY <1>2, <1>3, <3>2
      <4>2. i \in 1..(HEADER_SIZE + next.length)
        BY <1>3, <1>7
      <4> HIDE DEF next
      <4> QED BY <1>8, <3>4, <4>1, <4>2
    <3>6. Header = next
      BY <1>1, <1>7, <3>3, <3>5, HeaderIsRead
    <3>7. /\ Rest \in Seq(0..(BYTE - 1)) /\ Len(Rest) = Len(src) - HEADER_SIZE
          /\ \A i \in 1..Len(Rest) : Rest[i] = src[HEADER_SIZE + i]
      <4>1. HEADER_SIZE \in 0..Len(src)
        BY <1>2, <1>3, <3>2
      <4> QED BY <1>5, <3>3, <4>1, WithoutPrefix
    <3>8. at + Len(Rest) = Position + Len(src)
      <4> HIDE DEF next
      <4> QED BY <1>2, <1>3, <3>1, <3>7
    <3>9. ASSUME NEW i \in 1..Len(Rest) PROVE Rest[i] = all[at + i]
      <4> HIDE DEF next
      <4>1. HEADER_SIZE + i \in 1..Len(src) /\ End(j) + (HEADER_SIZE + i) = at + i
        BY <1>2, <1>3, <3>7
      <4>2. src[HEADER_SIZE + i] = all[End(j) + (HEADER_SIZE + i)]
        BY <3>4, <4>1
      <4> QED BY <3>7, <4>1, <4>2
    <3>10. Arrived >= End(j) + MIN_BYTES
      BY <1>2, <1>3, <3>1, <3>2
    <3> HIDE DEF at
    <3> QED BY <3>6, <3>7, <3>8, <3>9, <3>10 DEF Follow, all
  <2> QED BY <2>1, <2>2
<1> HIDE DEF at, next
<1>11. /\ at + Len(Rest) + Len(unread) = Len(all) /\ Arrived = at + Len(Rest)
       /\ Follow(unread, at + Len(Rest))
  <2>1. Len(Rest) \in Nat
    BY <1>10
  <2> QED BY <1>2, <1>5, <1>9, <1>10, <2>1
<1> QED
  BY <1>6, <1>7, <1>9, <1>10, <1>11 DEF HeaderOfNext, j, at, next, all

\* While the stream and the codec stay what they are, so do the places in it.
LEMMA SameStream ==
  ASSUME UNCHANGED <<codec, stream>>
  PROVE  /\ Bytes(stream)' = Bytes(stream)
         /\ HEADER_SIZE' = HEADER_SIZE /\ MIN_BYTES' = MIN_BYTES
         /\ \A k : End(k)' = End(k) /\ Start(k)' = Start(k)
<1>1. HEADER_SIZE' = HEADER_SIZE /\ MIN_BYTES' = MIN_BYTES /\ LENGTH_AT' = LENGTH_AT
  BY DEF HEADER_SIZE, MIN_BYTES, LENGTH_AT, Format
<1>2. \A frame : Encode(frame)' = Encode(frame)
  BY <1>1 DEF Encode
<1>3. \A frames : Bytes(frames)' = Bytes(frames)
  BY <1>2 DEF Bytes
<1>4. Bytes(stream)' = Bytes(stream)
  BY <1>1 DEF Bytes, Encode
<1>5. ASSUME NEW k PROVE End(k)' = End(k) /\ Start(k)' = Start(k)
  <2> DEFINE frames == SubSeq(stream, 1, k)
             before == SubSeq(stream, 1, k - 1)
  <2>1. frames' = frames /\ before' = before
    OBVIOUS
  <2>2. Bytes(frames)' = Bytes(frames) /\ Bytes(before)' = Bytes(before)
    BY <1>1, <2>1 DEF Bytes, Encode
  <2> QED BY <2>2 DEF End, Start
<1> QED BY <1>1, <1>4, <1>5

LEMMA CodecInvariance == CodecSpec => []CodecIInv
<1>1. CodecIInv /\ [CodecNext]_codecVars => CodecIInv'
  <2> SUFFICES ASSUME CodecIInv, [CodecNext]_codecVars PROVE CodecIInv'
    OBVIOUS
  <2>1. UNCHANGED <<codec, stream>>
    BY DEF CodecNext, Decode, DecodeNothing, DecodeHeader, DecodeFrame, Arrive,
           codecVars
  <2>2. /\ Bytes(stream)' = Bytes(stream)
        /\ HEADER_SIZE' = HEADER_SIZE /\ MIN_BYTES' = MIN_BYTES
        /\ \A k : End(k)' = End(k) /\ Start(k)' = Start(k)
    BY <2>1, SameStream
  <2>3. /\ Len(decoded) \in 0..Len(stream) /\ Len(stream) \in Nat
        /\ End(Len(decoded)) \in Nat /\ Position \in Nat
        /\ Len(src) \in Nat /\ Len(unread) \in Nat
        /\ Arrived = Position + Len(src)
    BY ArrivedIs
  <2>4. HEADER_SIZE \in Nat \ {0} /\ MIN_BYTES \in Nat /\ HEADER_SIZE <= MIN_BYTES
    BY CodecFormats DEF CodecIInv, Streamed
  <2>5. codec \in {"tunnel", "fire"} /\ stream \in Seq(Frames) /\ Len(stream) <= MaxFrames
    BY DEF CodecIInv, Streamed
  <2>6. HandedOver /\ HeaderKept /\ Buffered /\ HeadersAwaited /\ RunDry
    BY DEF CodecIInv
  <2>7. ASSUME NEW n \in 1..Len(unread), Arrive(n) PROVE CodecIInv'
    <3>1. /\ src' = src \o SubSeq(unread, 1, n)
          /\ unread' = SubSeq(unread, n + 1, Len(unread))
          /\ readable' = TRUE
          /\ UNCHANGED <<partial, decoded>>
      BY <2>7 DEF Arrive
    <3>2. Position' = Position
      BY <2>2, <3>1 DEF Position
    <3> DEFINE S == 0..(BYTE - 1)
               some == SubSeq(unread, 1, n)
               all == Bytes(stream)
    <3>3. src \in Seq(S) /\ unread \in Seq(S)
      BY <2>6 DEF Buffered
    <3>4. /\ some \in Seq(S) /\ Len(some) = n
          /\ \A i \in 1..n : some[i] = unread[i]
      <4> HIDE DEF S
      <4>1. \A i \in 1..Len(unread) : unread[i] \in S
        BY <3>3, ElementOfSeq
      <4>2. n \in Nat /\ \A i \in 1..n : i \in 1..Len(unread)
        BY <2>3
      <4> QED BY <2>3, <4>1, <4>2
    <3>5. /\ unread' \in Seq(S) /\ Len(unread') = Len(unread) - n
          /\ \A i \in 1..Len(unread') : unread'[i] = unread[n + i]
      <4>1. n \in 0..Len(unread)
        BY <2>3
      <4> QED BY <3>1, <3>3, <4>1, WithoutPrefix
    <3> HIDE DEF S, some
    <3>6. /\ src' \in Seq(S) /\ Len(src') = Len(src) + n
          /\ \A i \in 1..Len(src') :
                src'[i] = IF i <= Len(src) THEN src[i] ELSE some[i - Len(src)]
      BY <3>1, <3>3, <3>4, ConcatProperties DEF some
    <3> HIDE DEF all
    <3>7. /\ \A i \in 1..Len(src) : src[i] = all[Position + i]
          /\ \A i \in 1..Len(unread) : unread[i] = all[(Position + Len(src)) + i]
          /\ Position + Len(src) + Len(unread) = Len(all)
      BY <2>6 DEF Buffered, Follow, all
    <3>8. ASSUME NEW i \in 1..Len(src') PROVE src'[i] = all[Position + i]
      <4>1. CASE i <= Len(src)
        <5>1. i \in 1..Len(src) /\ src'[i] = src[i]
          BY <2>3, <3>6, <4>1
        <5> QED BY <3>7, <5>1
      <4>2. CASE ~(i <= Len(src))
        <5>1. /\ i - Len(src) \in 1..n /\ i - Len(src) \in 1..Len(unread)
              /\ (Position + Len(src)) + (i - Len(src)) = Position + i
          BY <2>3, <3>6, <4>2
        <5>2. src'[i] = unread[i - Len(src)]
          BY <3>4, <3>6, <4>2, <5>1
        <5>3. unread[i - Len(src)] = all[(Position + Len(src)) + (i - Len(src))]
          BY <3>7, <5>1
        <5> QED BY <5>1, <5>2, <5>3
      <4> QED BY <4>1, <4>2
    <3>9. ASSUME NEW i \in 1..Len(unread')
          PROVE  unread'[i] = all[(Position + Len(src')) + i]
      <4>1. /\ n + i \in 1..Len(unread)
            /\ (Position + Len(src)) + (n + i) = (Position + Len(src')) + i
        BY <2>3, <3>5, <3>6
      <4>2. unread[n + i] = all[(Position + Len(src)) + (n + i)]
        BY <3>7, <4>1
      <4> QED BY <3>5, <4>1, <4>2
    <3>10. Position + Len(src') + Len(unread') = Len(all)
      <4>1. /\ Len(src') = Len(src) + n /\ Len(unread') = Len(unread) - n
            /\ Position + Len(src) + Len(unread) = Len(all) /\ n \in Int
        BY <3>5, <3>6, <3>7
      <4> QED BY <2>3, <4>1
    <3>11. Buffered'
      BY <2>2, <3>2, <3>5, <3>6, <3>8, <3>9, <3>10 DEF Buffered, Follow, S, all
    <3>12. Arrived' = Arrived + n
      <4>1. Len(all) \in Nat
        BY <2>3, <3>7
      <4> QED BY <2>2, <2>3, <3>5, <4>1 DEF Arrived, all
    <3>13. HeadersAwaited'
      <4>1. ASSUME NEW k \in 1..Len(decoded) PROVE Arrived' >= Start(k) + MIN_BYTES
        <5>1. Arrived >= Start(k) + MIN_BYTES
          BY <2>6 DEF HeadersAwaited
        <5>2. Start(k) \in Nat
          <6>1. k \in 1..Len(stream) /\ k - 1 \in 0..Len(stream)
            BY <2>3
          <6> QED BY <2>5, <6>1, StreamLayout
        <5> QED BY <2>3, <2>4, <3>12, <5>1, <5>2
      <4>2. partial # None => Arrived' >= End(Len(decoded)) + MIN_BYTES
        BY <2>3, <2>4, <2>6, <3>12 DEF HeadersAwaited
      <4> QED BY <2>2, <3>1, <4>1, <4>2 DEF HeadersAwaited
    <3>14. HandedOver' /\ HeaderKept' /\ Streamed' /\ RunDry'
      BY <2>1, <2>5, <2>6, <3>1 DEF HandedOver, HeaderKept, Streamed, RunDry, None
    <3> QED BY <3>11, <3>13, <3>14 DEF CodecIInv
  <2>8. ASSUME UNCHANGED <<src, unread, partial, decoded>>,
               readable' \in BOOLEAN, RunDry'
        PROVE  CodecIInv'
    <3>1. Position' = Position
      BY <2>2, <2>8 DEF Position
    <3>2. Arrived' = Arrived
      BY <2>2, <2>8 DEF Arrived
    <3>3. Buffered'
      BY <2>2, <2>6, <2>8, <3>1 DEF Buffered, Follow
    <3>4. HeadersAwaited'
      BY <2>2, <2>6, <2>8, <3>2 DEF HeadersAwaited
    <3>5. HandedOver' /\ HeaderKept' /\ Streamed'
      BY <2>1, <2>5, <2>6, <2>8 DEF HandedOver, HeaderKept, Streamed
    <3> QED BY <2>8, <3>3, <3>4, <3>5 DEF CodecIInv
  <2>9. CASE DecodeNothing
    <3>1. RunDry'
      BY <2>2, <2>9 DEF DecodeNothing, RunDry
    <3> QED BY <2>8, <2>9, <3>1 DEF DecodeNothing
  <2>10. CASE UNCHANGED codecVars
    <3>1. RunDry' /\ readable' \in BOOLEAN
      BY <2>2, <2>6, <2>10 DEF codecVars, RunDry, CodecIInv, Streamed
    <3> QED BY <2>8, <2>10, <3>1 DEF codecVars
  <2> DEFINE at == End(Len(decoded)) + HEADER_SIZE
  <2>11. CASE DecodeHeader
    <3>1. /\ HasHeader /\ Len(Rest) < Header.length
          /\ src' = Rest /\ partial' = Header /\ readable' = FALSE
          /\ UNCHANGED <<unread, decoded>>
      BY <2>11 DEF DecodeHeader
    <3>2. HeaderOfNext(at)
      BY <3>1, HeaderIsOfNext
    <3>3. partial' # None /\ HeaderKept'
      BY <2>1, <3>1, <3>2, NoneIsNoFrame DEF HeaderOfNext, HeaderKept
    <3>4. Position' = at
      BY <2>2, <3>1, <3>3 DEF Position
    <3>5. Buffered'
      <4> HIDE DEF at
      <4> QED BY <2>2, <2>6, <3>1, <3>2, <3>4 DEF HeaderOfNext, Buffered, Follow
    <3>6. Arrived' = Arrived
      BY <2>2, <3>1 DEF Arrived
    <3>7. HeadersAwaited'
      BY <2>2, <2>6, <3>1, <3>2, <3>6 DEF HeadersAwaited, HeaderOfNext
    <3>8. HandedOver' /\ Streamed'
      BY <2>1, <2>5, <2>6, <3>1 DEF HandedOver, Streamed
    <3>9. RunDry'
      BY <3>1, <3>3 DEF RunDry
    <3> QED BY <3>3, <3>5, <3>7, <3>8, <3>9 DEF CodecIInv
  <2>12. CASE DecodeFrame
    <3> DEFINE len == Header.length
               j == Len(decoded)
    <3>1. /\ HasHeader /\ Len(Rest) >= len
          /\ decoded' = Append(decoded, Some(Header.tag, Len(SubSeq(Rest, 1, len))))
          /\ src' = SubSeq(Rest, len + 1, Len(Rest))
          /\ partial' = None
          /\ readable /\ UNCHANGED <<unread, readable>>
      BY <2>12 DEF DecodeFrame
    <3>2. HeaderOfNext(at)
      BY <3>1, HeaderIsOfNext
    <3>3. /\ len \in Nat /\ Rest \in Seq(0..(BYTE - 1)) /\ Len(Rest) \in Nat
          /\ at \in Nat /\ End(j + 1) = at + len
      BY <3>2 DEF HeaderOfNext
    <3>4. /\ src' \in Seq(0..(BYTE - 1)) /\ Len(src') = Len(Rest) - len
          /\ \A i \in 1..Len(src') : src'[i] = Rest[len + i]
      <4>1. len \in 0..Len(Rest)
        BY <3>1, <3>3
      <4> QED BY <3>1, <3>3, <4>1, WithoutPrefix
    <3>5. Some(Header.tag, Len(SubSeq(Rest, 1, len))) = stream[j + 1]
      <4>1. Len(SubSeq(Rest, 1, len)) = len
        BY <3>1, <3>3
      <4>2. Some(Header.tag, len) = Header
        BY <3>2 DEF HeaderOfNext, Some, Frames
      <4> QED BY <3>2, <4>1, <4>2 DEF HeaderOfNext
    <3>6. decoded' = Append(decoded, stream[j + 1]) /\ stream[j + 1] \in Frames
      BY <3>1, <3>2, <3>5 DEF HeaderOfNext
    <3>7. /\ decoded' \in Seq(Frames) /\ Len(decoded') = j + 1
          /\ \A k \in 1..j : decoded'[k] = decoded[k]
          /\ decoded'[j + 1] = stream[j + 1]
      BY <2>6, <3>6, AppendProperties DEF HandedOver
    <3>8. HandedOver' /\ HeaderKept' /\ Streamed'
      <4>1. j < Len(stream) /\ \A k \in 1..j : decoded[k] = stream[k]
        BY <2>6, <3>2 DEF HandedOver, HeaderOfNext
      <4>2. j + 1 <= Len(stream)
        BY <2>3, <4>1
      <4>3. \A k \in 1..(j + 1) : decoded'[k] = stream[k]
        BY <2>3, <3>7, <4>1
      <4> QED BY <2>1, <2>5, <3>1, <3>7, <4>2, <4>3
              DEF HandedOver, HeaderKept, Streamed, CodecIInv
    <3>9. Position' = at + len
      <4>1. Position' = End(Len(decoded))' + 0
        BY <3>1 DEF Position
      <4>2. End(Len(decoded))' = End(j + 1)
        BY <2>1, <3>7 DEF End, Bytes, Encode, HEADER_SIZE, LENGTH_AT, Format
      <4> QED BY <3>3, <4>1, <4>2
    <3>10. Arrived' = Arrived
      BY <2>2, <3>1 DEF Arrived
    <3>11. HeadersAwaited'
      <4>1. ASSUME NEW k \in 1..(j + 1) PROVE Arrived >= Start(k) + MIN_BYTES
        <5>1. CASE k \in 1..j
          BY <2>6, <5>1 DEF HeadersAwaited
        <5>2. CASE k = j + 1
          <6>1. k \in 1..Len(stream) /\ k - 1 = j
            BY <2>3, <3>2, <5>2 DEF HeaderOfNext
          <6>2. Start(k) = End(j)
            BY <2>5, <6>1, StreamLayout
          <6> QED BY <3>2, <6>2 DEF HeaderOfNext
        <5> QED BY <2>3, <5>1, <5>2
      <4> QED BY <2>2, <3>1, <3>7, <3>10, <4>1 DEF HeadersAwaited
    <3>12. RunDry'
      BY <3>1 DEF RunDry
    <3> DEFINE all == Bytes(stream)
    <3>13. /\ \A i \in 1..Len(Rest) : Rest[i] = all[at + i]
           /\ \A i \in 1..Len(unread) : unread[i] = all[(at + Len(Rest)) + i]
           /\ at + Len(Rest) + Len(unread) = Len(all)
      BY <3>2 DEF HeaderOfNext, Follow
    <3> HIDE DEF at, len, all
    <3>14. ASSUME NEW i \in 1..Len(src') PROVE src'[i] = all[(at + len) + i]
      <4>1. len + i \in 1..Len(Rest) /\ at + (len + i) = (at + len) + i
        BY <3>3, <3>4
      <4>2. Rest[len + i] = all[at + (len + i)]
        BY <3>13, <4>1
      <4> QED BY <3>4, <4>1, <4>2
    <3>15. (at + len) + Len(src') = at + Len(Rest)
      BY <3>3, <3>4
    <3>16. Buffered'
      BY <2>2, <2>6, <3>1, <3>4, <3>9, <3>13, <3>14, <3>15 DEF Buffered, Follow, all
    <3> QED BY <3>8, <3>11, <3>12, <3>16 DEF CodecIInv
  <2> QED
    BY <2>7, <2>9, <2>10, <2>11, <2>12 DEF CodecNext, Decode
<1> QED BY <1>1, CodecInitial, PTL DEF CodecSpec

\* Frames are handed over as they were encoded, in order, each once, wherever the
\* reads of the connection cut the stream, for both codecs and every stream.
THEOREM FramesAreDecoded == CodecSpec => []CodecInv
<1>1. CodecIInv => CodecInv
  <2> SUFFICES ASSUME CodecIInv PROVE CodecInv
    OBVIOUS
  <2>1. FramesInOrder
    <3>1. /\ decoded \in Seq(Frames) /\ stream \in Seq(Frames)
          /\ Len(decoded) <= Len(stream)
          /\ \A k \in 1..Len(decoded) : decoded[k] = stream[k]
      BY DEF CodecIInv, HandedOver, Streamed
    <3>2. SubSeq(decoded, 1, Len(decoded)) = SubSeq(stream, 1, Len(decoded))
      BY <3>1
    <3> QED BY <3>1, <3>2 DEF FramesInOrder, IsPrefix
  <2>2. partial \in Frames \cup {None}
    <3>1. CASE partial # None
      <4>1. Len(decoded) \in Nat /\ Len(decoded) + 1 \in 1..Len(stream)
        BY <3>1 DEF CodecIInv, HandedOver, HeaderKept, Streamed
      <4> QED BY <3>1, <4>1, ElementOfSeq DEF CodecIInv, HeaderKept, Streamed
    <3> QED BY <3>1
  <2> QED
    BY <2>1, <2>2 DEF CodecInv, CodecTypeOK, CodecIInv, Streamed, HandedOver, Buffered
<1> QED BY <1>1, CodecInvariance, PTL

\* How the reads cut the stream makes no difference: when decode wants more, it has
\* handed over every frame that the bytes so far allow, and no other.
THEOREM CutsMakeNoDifference == CodecSpec => []CutsDoNotMatter
<1>1. CodecIInv => CutsDoNotMatter
  <2> SUFFICES ASSUME CodecIInv, ~readable PROVE CutsDoNotMatter
    BY DEF CutsDoNotMatter
  <2> DEFINE j == Len(decoded)
             due == {k \in 1..Len(stream) : \A i \in 1..k : Decodable(i)}
  <2>1. /\ j \in 0..Len(stream) /\ Len(stream) \in Nat /\ End(j) \in Nat
        /\ Len(src) \in Nat /\ Position \in Nat /\ Arrived = Position + Len(src)
    BY ArrivedIs
  <2>2. codec \in {"tunnel", "fire"} /\ stream \in Seq(Frames)
    BY DEF CodecIInv, Streamed
  <2>3. HEADER_SIZE \in Nat \ {0} /\ MIN_BYTES \in Nat /\ HEADER_SIZE <= MIN_BYTES
    BY <2>2, CodecFormats
  <2>4. /\ \A k \in 0..Len(stream) : End(k) \in Nat
        /\ \A k \in 1..Len(stream) :
              /\ Start(k) = End(k - 1)
              /\ End(k) = End(k - 1) + (HEADER_SIZE + stream[k].length)
    BY <2>2, StreamLayout
  <2>5. \A k \in 1..Len(stream) : stream[k].length \in Nat
    <3>1. \A k \in 1..Len(stream) : stream[k] \in Frames
      BY <2>2, ElementOfSeq
    <3> QED BY <2>2, <3>1, EncodeWrites
  <2>6. Arrived \in Nat /\ Arrived >= End(j)
    BY <2>1, <2>3 DEF Position
  <2>7. ASSUME NEW k \in 1..j PROVE Decodable(k)
    <3> DEFINE P == {n \in Nat : n <= j => End(j - n) <= End(j)}
    <3>1. 0 \in P
      BY <2>1
    <3>2. ASSUME NEW n \in Nat, n \in P PROVE n + 1 \in P
      <4>1. SUFFICES ASSUME n + 1 <= j PROVE End(j - (n + 1)) <= End(j)
        OBVIOUS
      <4>2. /\ j - n \in 1..Len(stream) /\ (j - n) - 1 = j - (n + 1)
            /\ j - (n + 1) \in 0..Len(stream)
        BY <2>1, <4>1
      <4>3. End(j - n) <= End(j)
        BY <2>1, <3>2, <4>1
      <4>4. End(j - n) = End(j - (n + 1)) + (HEADER_SIZE + stream[j - n].length)
        BY <2>4, <4>2
      <4>5. End(j - (n + 1)) \in Nat /\ stream[j - n].length \in Nat
        BY <2>4, <2>5, <4>2
      <4>6. End(j) \in Nat /\ HEADER_SIZE \in Nat
        BY <2>1, <2>3
      <4> HIDE DEF j
      <4> QED BY <4>3, <4>4, <4>5, <4>6
    <3>3. \A n \in Nat : n \in P
      <4> HIDE DEF P
      <4> QED BY <3>1, <3>2, Induction
    <3>4. j - k \in Nat /\ j - k <= j /\ j - (j - k) = k
      BY <2>1
    <3>5. End(k) <= End(j)
      <4>1. j - k \in P
        <5> HIDE DEF P
        <5> QED BY <3>3, <3>4
      <4> QED BY <3>4, <4>1
    <3>6. Arrived >= Start(k) + MIN_BYTES
      BY DEF CodecIInv, HeadersAwaited
    <3>7. End(k) \in Nat
      <4>1. k \in 0..Len(stream)
        BY <2>1
      <4> HIDE DEF j, due, P
      <4> QED BY <2>4, <4>1
    <3> QED BY <2>1, <2>6, <3>5, <3>6, <3>7 DEF Decodable
  <2>8. j + 1 <= Len(stream) => ~Decodable(j + 1)
    <3> SUFFICES ASSUME j + 1 <= Len(stream) PROVE ~Decodable(j + 1)
      OBVIOUS
    <3>1. j + 1 \in 1..Len(stream) /\ (j + 1) - 1 = j
      BY <2>1
    <3>2. /\ Start(j + 1) = End(j)
          /\ End(j + 1) = End(j) + (HEADER_SIZE + stream[j + 1].length)
          /\ stream[j + 1].length \in Nat
      BY <2>4, <2>5, <3>1
    <3>3. CASE partial = None
      <4>1. Len(src) < MIN_BYTES /\ Position = End(j)
        BY <2>1, <3>3 DEF CodecIInv, RunDry, Position
      <4> HIDE DEF j
      <4> QED BY <2>1, <2>3, <3>2, <4>1 DEF Decodable
    <3>4. CASE partial # None
      <4>1. /\ Len(src) < stream[j + 1].length /\ Position = End(j) + HEADER_SIZE
        BY <3>4 DEF CodecIInv, RunDry, Position, HeaderKept
      <4> HIDE DEF j
      <4> QED BY <2>1, <2>3, <3>2, <4>1 DEF Decodable
    <3> QED BY <3>3, <3>4
  <2> HIDE DEF j
  <2>9. j \in {0} \cup due
    BY <2>1, <2>7
  <2>10. \A k \in {0} \cup due : k \in Nat /\ j >= k
    <3> SUFFICES ASSUME NEW k \in due, k > j PROVE FALSE
      BY <2>1
    <3>1. k \in 1..Len(stream) /\ \A i \in 1..k : Decodable(i)
      OBVIOUS
    <3>2. j + 1 \in 1..k /\ j + 1 <= Len(stream)
      BY <2>1, <3>1
    <3> QED BY <2>8, <3>1, <3>2
  <2> HIDE DEF due
  <2>11. Max({0} \cup due) = j
    <3>1. \A x \in {0} \cup due :
             (\A y \in {0} \cup due : x >= y) => x = j
      BY <2>1, <2>9, <2>10
    <3> QED BY <2>9, <2>10, <3>1 DEF Max
  <2> QED BY <2>11 DEF CutsDoNotMatter, j, due
<1> QED BY <1>1, CodecInvariance, PTL
==============================================================================
