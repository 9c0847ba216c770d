----------------------------- MODULE TaskRegistry -----------------------------
(***************************************************************************)
(* The server tasks of src/src/servers/mod.rs: tasks of a runtime with      *)
(* several threads, whose abort handles are kept in a list behind a mutex.   *)
(* The client program starts servers, each a task that spawns a task per     *)
(* connection or socket, and stops all of them.                             *)
(*                                                                          *)
(* spawn_server_task is two steps, spawning and adding the handle, and       *)
(* stop_server_tasks is two, taking the list and aborting; the mutex makes   *)
(* each access to the list one step, and what other threads do falls between *)
(* them.  A task that is aborted ends at its next await, which is never      *)
(* inside spawn_server_task.                                                *)
(***************************************************************************)
EXTENDS Integers, FiniteSets

CONSTANTS Tasks, Main    \* Main: the client program, which is not aborted

ASSUME MainAssumption == Main \notin Tasks

VARIABLES
    running,     \* tasks that have been spawned and have not ended
    unborn,      \* tasks that have not been spawned
    aborted,     \* tasks whose handle was called
    collection,  \* SERVER_TASK_COLLECTION: tasks whose handle is in the list
    adding,      \* of a spawner: the task whose handle it has to add, or Main
    stopping,    \* handles that stop_server_tasks took and has not called
    in_stop      \* the client program is inside stop_server_tasks

vars == <<running, unborn, aborted, collection, adding, stopping, in_stop>>

Spawners == Tasks \cup {Main}
None == Main

TypeOK ==
    /\ running \subseteq Tasks /\ unborn \subseteq Tasks
    /\ running \cap unborn = {}
    /\ aborted \subseteq Tasks \ unborn
    /\ collection \subseteq Tasks \ unborn
    /\ adding \in [Spawners -> Spawners]
    /\ stopping \subseteq Tasks \ unborn
    /\ in_stop \in BOOLEAN

Init ==
    /\ running = {} /\ unborn = Tasks /\ aborted = {}
    /\ collection = {} /\ adding = [s \in Spawners |-> None]
    /\ stopping = {} /\ in_stop = FALSE

------------------------------------------------------------------------------

CanSpawn(s) ==
    \/ s \in running
    \/ s = Main /\ ~in_stop

\* tokio::spawn: the task may run, and end, from here on.  A task that was aborted
\* while it was running goes on until its next await.
Spawn(s, t) ==
    /\ CanSpawn(s) /\ adding[s] = None /\ t \in unborn
    /\ unborn' = unborn \ {t} /\ running' = running \cup {t}
    /\ adding' = [adding EXCEPT ![s] = t]
    /\ UNCHANGED <<aborted, collection, stopping, in_stop>>

\* Mutant: the handle of a task that has been spawned by an aborted one is lost.
AddServerTaskUnlessAborted(s) ==
    /\ adding[s] # None
    /\ collection' = IF s \in aborted THEN collection
                                      ELSE collection \cup {adding[s]}
    /\ adding' = [adding EXCEPT ![s] = None]
    /\ UNCHANGED <<running, unborn, aborted, stopping, in_stop>>

\* add_server_task: the handle is pushed.
AddServerTask(s) ==
    /\ adding[s] # None
    /\ collection' = collection \cup {adding[s]}
    /\ adding' = [adding EXCEPT ![s] = None]
    /\ UNCHANGED <<running, unborn, aborted, stopping, in_stop>>

\* A task returns: an accept loop or a connection failed or is over.
Finish(t) ==
    /\ t \in running /\ adding[t] = None
    /\ running' = running \ {t}
    /\ UNCHANGED <<unborn, aborted, collection, adding, stopping, in_stop>>

\* The runtime drops an aborted task at an await.
Cancel(t) ==
    /\ t \in running \cap aborted /\ adding[t] = None
    /\ running' = running \ {t}
    /\ UNCHANGED <<unborn, aborted, collection, adding, stopping, in_stop>>

\* stop_server_tasks: the list is taken under the lock.
StopTakes ==
    /\ ~in_stop /\ adding[Main] = None
    /\ in_stop' = TRUE
    /\ stopping' = collection /\ collection' = {}
    /\ UNCHANGED <<running, unborn, aborted, adding>>

\* stop_server_tasks: the handles are called in turn.
StopAborts(t) ==
    /\ in_stop /\ t \in stopping
    /\ aborted' = aborted \cup {t}
    /\ stopping' = stopping \ {t}
    /\ UNCHANGED <<running, unborn, collection, adding, in_stop>>

\* Mutant: the stop returns when one handle is left.
StopReturnsEarly ==
    /\ in_stop /\ Cardinality(stopping) <= 1
    /\ in_stop' = FALSE /\ stopping' = {}
    /\ UNCHANGED <<running, unborn, aborted, collection, adding>>

StopReturns ==
    /\ in_stop /\ stopping = {}
    /\ in_stop' = FALSE
    /\ UNCHANGED <<running, unborn, aborted, collection, adding, stopping>>

Stop == StopTakes \/ StopReturns \/ \E t \in Tasks : StopAborts(t)

Next ==
    \/ \E s \in Spawners : AddServerTask(s) \/ \E t \in Tasks : Spawn(s, t)
    \/ \E t \in Tasks : Finish(t) \/ Cancel(t)
    \/ Stop

Spec == Init /\ [][Next]_vars

\* A call that has begun goes on, and the runtime comes to the next await of an
\* aborted task.
FairSpec ==
    /\ Spec
    /\ \A s \in Spawners : WF_vars(AddServerTask(s))
    /\ \A t \in Tasks : WF_vars(Cancel(t)) /\ WF_vars(StopAborts(t))
    /\ WF_vars(StopReturns)

------------------------------------------------------------------------------
(* Properties *)

\* A running task can be stopped: its handle was called, is about to be, or is in
\* the list, unless its spawner is still to put it there.  So what outlives a
\* stop, because it was added after the list was taken, is there for the next.
RunningTasksAreKnown ==
    \A t \in running :
        \/ t \in collection \cup stopping \cup aborted
        \/ \E s \in Spawners : adding[s] = t

\* What the list is at every moment: of its types, and complete.
Inv == TypeOK /\ RunningTasksAreKnown

\* A handle is in one place: a task is not aborted twice, and one that was added
\* after the list was taken is not aborted by that stop.
HandlesMoveOnce == collection \cap (stopping \cup aborted) = {}

\* A task whose handle a stop took ends.
TakenTasksEnd == \A t \in Tasks : t \in stopping ~> t \notin running
==============================================================================
