------------------------------- MODULE QosCache -------------------------------
(***************************************************************************)
(* public_address of src/src/servers/qos.rs: the handlers of the quality of *)
(* service server share a cache of the public address behind a read-write    *)
(* lock of tokio, which serves those that wait in the order they came.  A    *)
(* handler reads the cache, and takes the write lock to look the address up  *)
(* when the cache is unset or has expired.                                   *)
(*                                                                          *)
(* The read lock is released before the handler's next await, so only a      *)
(* writer is ever seen to hold the lock.  An address stands for itself; what *)
(* matters of it is when it was looked up.                                   *)
(***************************************************************************)
EXTENDS Integers, Sequences, SequencesExt

CONSTANTS
    Handlers,          \* the tasks that handle a datagram
    ADDR_CACHE_TIME,
    MaxTime            \* bound: time

VARIABLES
    pc,       \* of a handler: "start", "read", "write", "lookup", "done", or
              \* "dropped" by a stop
    queue,    \* handlers that wait for the lock, of either kind
    holder,   \* the handler that holds the write lock, or "none"
    cached,   \* the cache: Unset, or the time of the lookup and of expiry
    answer,   \* of a handler: the time of the lookup of the address it answers
              \* with, or Nothing
    now

vars == <<pc, queue, holder, cached, answer, now>>

Unset == [value |-> -1, expires |-> -1]
Nothing == -1

TypeOK ==
    /\ pc \in [Handlers -> {"start", "read", "write", "lookup", "done",
                         "dropped"}]
    /\ queue \in Seq(Handlers) /\ IsInjective(queue)
    /\ holder \in Handlers \cup {"none"}
    /\ \/ cached = Unset
       \/ cached.value \in 0..MaxTime /\ cached.expires \in Nat
    /\ answer \in [Handlers -> 0..MaxTime \cup {Nothing}]
    /\ now \in 0..MaxTime

Init ==
    /\ pc = [h \in Handlers |-> "start"]
    /\ queue = <<>> /\ holder = "none" /\ cached = Unset
    /\ answer = [h \in Handlers |-> Nothing]
    /\ now = 0

------------------------------------------------------------------------------

Fresh == cached # Unset /\ now < cached.expires

\* handle calls public_address, which waits for the read lock.
Ask(h) ==
    /\ pc[h] = "start"
    /\ pc' = [pc EXCEPT ![h] = "read"]
    /\ queue' = Append(queue, h)
    /\ UNCHANGED <<holder, cached, answer, now>>

HasTurn(h) == holder = "none" /\ queue # <<>> /\ Head(queue) = h

\* Mutant: the expiry is not compared.
ReadHitAny(h) ==
    /\ pc[h] = "read" /\ HasTurn(h)
    /\ cached # Unset
    /\ answer' = [answer EXCEPT ![h] = cached.value]
    /\ pc' = [pc EXCEPT ![h] = "done"]
    /\ queue' = Tail(queue)
    /\ UNCHANGED <<holder, cached, now>>

\* The cached address has not expired.
ReadHit(h) ==
    /\ pc[h] = "read" /\ HasTurn(h)
    /\ Fresh
    /\ answer' = [answer EXCEPT ![h] = cached.value]
    /\ pc' = [pc EXCEPT ![h] = "done"]
    /\ queue' = Tail(queue)
    /\ UNCHANGED <<holder, cached, now>>

\* The handler releases the read lock and waits for the write lock.
ReadMiss(h) ==
    /\ pc[h] = "read" /\ HasTurn(h)
    /\ ~Fresh
    /\ pc' = [pc EXCEPT ![h] = "write"]
    /\ queue' = Append(Tail(queue), h)
    /\ UNCHANGED <<holder, cached, answer, now>>

\* The write lock is taken, and the address is looked up without another look at
\* the cache.
BeginLookup(h) ==
    /\ pc[h] = "write" /\ HasTurn(h)
    /\ holder' = h
    /\ pc' = [pc EXCEPT ![h] = "lookup"]
    /\ queue' = Tail(queue)
    /\ UNCHANGED <<cached, answer, now>>

\* One of the services, or the local interface, gave an address.
LookupSucceeds(h) ==
    /\ pc[h] = "lookup"
    /\ cached' = [value |-> now, expires |-> now + ADDR_CACHE_TIME]
    /\ answer' = [answer EXCEPT ![h] = now]
    /\ pc' = [pc EXCEPT ![h] = "done"]
    /\ holder' = "none"
    /\ UNCHANGED <<queue, now>>

\* Mutant: the early return leaves the lock held.
LookupFailsHolding(h) ==
    /\ pc[h] = "lookup"
    /\ pc' = [pc EXCEPT ![h] = "done"]
    /\ UNCHANGED <<queue, holder, cached, answer, now>>

\* None gave one: the cache stays as it is, and handle falls back to the address
\* of the datagram.
LookupFails(h) ==
    /\ pc[h] = "lookup"
    /\ pc' = [pc EXCEPT ![h] = "done"]
    /\ holder' = "none"
    /\ UNCHANGED <<queue, cached, answer, now>>

\* A handler that waits for the lock is in the queue once.
LeaveQueue(h) ==
    IF pc[h] \in {"read", "write"}
      THEN \E k \in DOMAIN queue :
              queue[k] = h /\ queue' = RemoveAt(queue, k)
      ELSE UNCHANGED queue

\* Mutant: the lock is not given back.
DropHolding(h) ==
    /\ pc[h] \notin {"done", "dropped"}
    /\ pc' = [pc EXCEPT ![h] = "dropped"]
    /\ LeaveQueue(h)
    /\ UNCHANGED <<holder, cached, answer, now>>

\* The handler's future is dropped at an await: a lock it holds is given back with
\* the cache as it was, and it no longer waits for one.
Drop(h) ==
    /\ pc[h] \notin {"done", "dropped"}
    /\ pc' = [pc EXCEPT ![h] = "dropped"]
    /\ LeaveQueue(h)
    /\ holder' = IF holder = h THEN "none" ELSE holder
    /\ UNCHANGED <<cached, answer, now>>

\* Time passes.  The clock is SystemTime, which can also be set, back too.
Tick ==
    /\ now' \in 0..MaxTime /\ now' # now
    /\ UNCHANGED <<pc, queue, holder, cached, answer>>

Handle(h) == ReadHit(h) \/ ReadMiss(h) \/ BeginLookup(h)
EndLookup(h) == LookupSucceeds(h) \/ LookupFails(h)

Next ==
    Tick \/ \E h \in Handlers : Ask(h) \/ Handle(h) \/ EndLookup(h) \/ Drop(h)

Spec == Init /\ [][Next]_vars

------------------------------------------------------------------------------
(* Properties *)

\* "Cache public address for 30 minutes": an address taken from the cache was
\* looked up less than ADDR_CACHE_TIME before the handler answers with it, by the
\* clock at the answer, however long the handler waited for the lock.  (A clock
\* that is set back makes the address live longer, and the code does not notice.)
AnswersAreRecent ==
    [][\A h \in Handlers :
          pc[h] = "read" /\ pc'[h] = "done" =>
              now - answer'[h] < ADDR_CACHE_TIME]_vars

\* One handler at a time looks the address up, and none reads meanwhile: the lock
\* is held across the lookup, and by nobody who is not looking up.
OneLookupAtATime == \A h \in Handlers : pc[h] = "lookup" <=> holder = h
==============================================================================
