------------------------------ MODULE BlazeProxy ------------------------------
(***************************************************************************)
(* One connection of the game's main traffic, handle of                     *)
(* src/src/servers/blaze.rs: an HTTP request to the Pocket Relay server is   *)
(* upgraded to a stream (create_server_stream of src/src/api.rs), and bytes  *)
(* are copied between the two until both directions have ended.              *)
(*                                                                          *)
(* The copying is tokio's copy_bidirectional: that it delivers every byte in  *)
(* its order, once, is its promise and is taken as such.  What is modelled is  *)
(* when the handler begins it and when it returns.                           *)
(***************************************************************************)
VARIABLES
    link,       \* "request", "upgrade", "copy", "ended", or "dropped" when the
                \* connection failed or the task was aborted
    closed,     \* the game has ended its side of the connection
    hung_up     \* the server has ended its side

vars == <<link, closed, hung_up>>

Running == link \in {"request", "upgrade", "copy"}

TypeOK ==
    /\ link \in {"request", "upgrade", "copy", "ended", "dropped"}
    /\ closed \in BOOLEAN /\ hung_up \in BOOLEAN

Init == link = "request" /\ closed = FALSE /\ hung_up = FALSE

------------------------------------------------------------------------------
(* handle *)

Goto(next) == link' = next /\ UNCHANGED <<closed, hung_up>>

\* The server has answered the request, with a status that is no error.
Request == link = "request" /\ Goto("upgrade")

Upgrade == link = "upgrade" /\ Goto("copy")

\* The request fails or is answered with an error, or the answer is no upgrade:
\* handle returns, and drops the game's connection.  (A token that cannot be a
\* header's value ends the task in a panic, to the same effect.)
StreamError == link \in {"request", "upgrade"} /\ Goto("dropped")

\* copy_bidirectional returns Ok when both readers have come to their end: one side
\* that ends leaves the other direction open.
CopyEnds == link = "copy" /\ closed /\ hung_up /\ Goto("ended")

\* An error of either direction ends both.
CopyError == link = "copy" /\ Goto("dropped")

\* stop_server_tasks aborts the task, which is dropped at an await.
Abort == Running /\ Goto("dropped")

------------------------------------------------------------------------------
(* The game and the server *)

\* The game does not wait for the link.
GameCloses ==
    /\ Running /\ ~closed
    /\ closed' = TRUE
    /\ UNCHANGED <<link, hung_up>>

ServerHangsUp ==
    /\ link = "copy" /\ ~hung_up
    /\ hung_up' = TRUE
    /\ UNCHANGED <<link, closed>>

\* What is owed: the request and the upgrade end, and the copying does with its
\* two readers.
Progress == Request \/ Upgrade \/ StreamError \/ CopyEnds

Step == Progress \/ CopyError \/ GameCloses \/ ServerHangsUp

Next == Step \/ Abort

Spec == Init /\ [][Next]_vars /\ WF_vars(Progress)
==============================================================================
