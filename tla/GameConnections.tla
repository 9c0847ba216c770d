--------------------------- MODULE GameConnections ---------------------------
(***************************************************************************)
(* A connection of the game to one of the local TCP servers: the redirector, *)
(* the Blaze server, the telemetry server or the HTTP server, each with its  *)
(* handler.  The first three hand their handlers to spawn_server_task, so    *)
(* that stop_server_tasks (TaskRegistry) aborts them at any await; hyper      *)
(* spawns the connections of the HTTP server itself, and a stop drops the     *)
(* server and not them.                                                     *)
(*                                                                          *)
(* The modules share one variable, `closed`: the game has closed the         *)
(* connection.  The variables of the servers that were not chosen keep their  *)
(* initial values.                                                          *)
(***************************************************************************)
EXTENDS Integers, Sequences

CONSTANTS
    REDIRECT_TIMEOUT, MaxPackets,                       \* Redirector
    HEADER, WIDTH, TLM3_KEY, TLM3, Events, MaxEvents,   \* Telemetry
    Statuses, MaxRequests                               \* HttpProxy

ASSUME RedirectAssumption == {REDIRECT_TIMEOUT, MaxPackets} \subseteq Nat \ {0}
ASSUME TelemetryAssumption ==
    /\ HEADER \in Nat \ {0} /\ WIDTH \in Nat /\ HEADER < WIDTH
    /\ TLM3_KEY \in Seq(0..127) /\ TLM3_KEY # <<>>
    /\ TLM3 \in 0..255 /\ MaxEvents \in Nat
    /\ Events \subseteq Seq([key : 0..255, value : Seq(0..255)])
ASSUME StatusAssumption ==
    /\ Statuses \cap {"None", "Failed", "Unavailable", "InternalError"} = {}
    /\ MaxRequests \in Nat

VARIABLES
    server,     \* the server that has accepted the connection
    stopped,    \* stop_server_tasks has called the handler's abort handle
    closed,
    pc, result, packet, left, asked, received, partial, sent,
    reading, events, stream, arrived, consumed, want, buffer, requests,
    link, hung_up,
    serving, http_asked, status, served, complete, answers

redirectorVars == <<pc, result, packet, left, asked, received, partial, sent>>
telemetryVars  == <<reading, events, stream, arrived, consumed, want, buffer,
                    requests>>
blazeVars == <<link, hung_up>>
httpVars  == <<serving, http_asked, status, served, complete, answers>>
vars == <<server, stopped, closed, redirectorVars, telemetryVars, blazeVars,
          httpVars>>

R == INSTANCE Redirector
T == INSTANCE Telemetry
B == INSTANCE BlazeProxy
H == INSTANCE HttpProxy WITH asked <- http_asked

\* The game sends events that can be read back.
ASSUME EventsAssumption == \A pairs \in Events : T!Legible(pairs)

\* The listener of a server has accepted the connection and spawned the handler.
Init ==
    /\ server \in {"redirector", "telemetry", "blaze", "http"}
    /\ stopped = FALSE
    /\ R!Init /\ T!Init /\ B!Init /\ H!Init

------------------------------------------------------------------------------

\* One server's part of a step; the others do not move.
Redirecting(step) ==
    /\ server = "redirector" /\ step
    /\ UNCHANGED <<server, stopped, telemetryVars, blazeVars, httpVars>>

Telling(step) ==
    /\ server = "telemetry" /\ step
    /\ UNCHANGED <<server, stopped, redirectorVars, blazeVars, httpVars>>

Linking(step) ==
    /\ server = "blaze" /\ step
    /\ UNCHANGED <<server, stopped, redirectorVars, telemetryVars, httpVars>>

Serving(step) ==
    /\ server = "http" /\ step
    /\ UNCHANGED <<server, stopped, redirectorVars, telemetryVars, blazeVars>>

\* stop_server_tasks aborts the handler, if spawn_server_task spawned it.
Stop ==
    /\ ~stopped
    /\ stopped' = (server # "http")
    /\ UNCHANGED <<server, closed, redirectorVars, telemetryVars, blazeVars,
                   httpVars>>

\* The handler comes to an await after the abort, and is dropped there.
Dropped ==
    /\ stopped
    /\ Redirecting(R!Abort) \/ Telling(T!Abort) \/ Linking(B!Abort)

Progress ==
    \/ Redirecting(R!Progress) \/ Telling(T!Running /\ T!Progress)
    \/ Linking(B!Progress) \/ Serving(H!Progress)

Next ==
    \/ Redirecting(R!Step) \/ Telling(T!Step) \/ Linking(B!Step)
    \/ Serving(H!Next)
    \/ Stop \/ Dropped

Spec == Init /\ [][Next]_vars

\* A handler that can go on does, and an aborted one comes to an await.
FairSpec == Spec /\ WF_vars(Progress) /\ WF_vars(Dropped)

------------------------------------------------------------------------------
(* Properties *)

\* What the handlers' states are between awaits: their types; a redirector that
\* answers in order; and an HTTP server that passes on what it was answered, and
\* an error of its own only where it was answered nothing.
Inv ==
    /\ R!Inv /\ T!TypeOK /\ B!TypeOK /\ H!TypeOK
    /\ H!AnswersAreTheServers

\* Only the game's silence times a redirector connection out.
TimesOutWhenSilent == R!TimesOutWhenSilent

\* Telemetry is published in the order it was sent, decoded, and each event once,
\* up to a length that cannot be.
EventsInOrder == T!EventsInOrder

\* No event waits for ever behind one that could not be published.
EventsTried == T!EventsTried

Over ==
    \/ server = "redirector" /\ pc = "done"
    \/ server = "telemetry" /\ reading \in {"ended", "dropped"}
    \/ server = "blaze" /\ link \in {"ended", "dropped"}
    \/ server = "http" /\ serving = "ended"

\* Handlers do not pile up: a stop ends all that it reaches (the connections of
\* HTTP are hyper's, and it does not); a redirector that waits for a packet gets
\* one or ends, whatever bytes of one the game has sent; and the end of the
\* game's connection ends the handler, with the server's end for the Blaze link.
ConnectionsEnd ==
    /\ stopped ~> Over
    /\ \A n \in 0..MaxPackets :
          server = "redirector" /\ pc = "read" /\ received = <<>> /\ Len(asked) = n
              ~> Len(asked) > n \/ Over
    /\ closed /\ (server = "blaze" => hung_up) ~> Over
==============================================================================
