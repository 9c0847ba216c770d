------------------------------ MODULE HttpProxy ------------------------------
(***************************************************************************)
(* One connection to the HTTP server, handle of src/src/servers/http.rs with *)
(* proxy_http_request of src/src/api.rs: a request of the game becomes one   *)
(* of the client to the Pocket Relay server, whose answer is read as a whole *)
(* and passed on.  hyper serves the requests of a connection one after       *)
(* another.                                                                 *)
(*                                                                          *)
(* What becomes of the client's request is decided by the server and the      *)
(* network and recorded in `served`; the handler only reads it.               *)
(***************************************************************************)
EXTENDS Integers, Sequences

CONSTANTS
    Statuses,       \* statuses that the server answers with
    MaxRequests     \* bound: requests of the game

VARIABLES
    serving,    \* "idle", "url", "request", "body", "ended"
    closed,     \* the game has closed the connection
    asked,      \* asked[k]: whether the path of request k can be joined to a URL
    status,     \* the status of the answer whose body is being read
    served,     \* served[k]: the status of the server's answer to request k, or
                \* "Failed" when it gave none or its body did not come through
    complete,   \* the body of that answer has arrived
    answers     \* answers[k]: the status that the game got for request k

vars == <<serving, closed, asked, status, served, complete, answers>>

Requests == 1..MaxRequests
Outcomes == Statuses \cup {"None", "Failed"}
Answers  == Statuses \cup {"Unavailable", "InternalError"}

TypeOK ==
    /\ serving \in {"idle", "url", "request", "body", "ended"}
    /\ closed \in BOOLEAN /\ complete \in BOOLEAN
    /\ asked \in Seq(BOOLEAN) /\ Len(asked) <= MaxRequests
    /\ status \in Statuses \cup {"None"}
    /\ served \in [Requests -> Outcomes]
    /\ answers \in Seq(Answers)

Init ==
    /\ serving = "idle" /\ closed = FALSE /\ complete = FALSE
    /\ asked = <<>> /\ status = "None" /\ answers = <<>>
    /\ served = [k \in Requests |-> "None"]

\* The request that is being served.
Current == Len(answers) + 1

------------------------------------------------------------------------------
(* handle *)

\* hyper reads the next request and calls the service.
Take ==
    /\ serving = "idle" /\ Len(asked) > Len(answers)
    /\ serving' = "url"
    /\ UNCHANGED <<closed, asked, status, served, complete, answers>>

\* The service returns a response, which hyper writes.
Answer(answer) ==
    /\ answers' = Append(answers, answer)
    /\ serving' = "idle" /\ status' = "None" /\ complete' = FALSE
    /\ UNCHANGED <<closed, asked, served>>

\* The path, without its leading slash, is joined to the base URL.
Join ==
    /\ serving = "url" /\ asked[Current]
    /\ serving' = "request"
    /\ UNCHANGED <<closed, asked, status, served, complete, answers>>

JoinError ==
    /\ serving = "url" /\ ~asked[Current]
    /\ Answer("Unavailable")

\* Mutant: error_for_status makes an error of the server a failed request.
RespondErrorFails ==
    /\ serving = "request" /\ served[Current] \in Statuses
    /\ IF served[Current] = "OK"
       THEN /\ status' = served[Current] /\ serving' = "body"
            /\ UNCHANGED <<closed, asked, served, complete, answers>>
       ELSE Answer("InternalError")

\* The server's status, an error's too, is kept for the response.
Respond ==
    /\ serving = "request" /\ served[Current] \in Statuses
    /\ status' = served[Current] /\ serving' = "body"
    /\ UNCHANGED <<closed, asked, served, complete, answers>>

RequestFailed ==
    /\ serving = "request" /\ served[Current] = "Failed"
    /\ Answer("InternalError")

Pass ==
    /\ serving = "body" /\ complete
    /\ Answer(status)

BodyFailed ==
    /\ serving = "body" /\ served[Current] = "Failed"
    /\ Answer("InternalError")

\* Without a request, the end of the connection ends the service.
End ==
    /\ serving = "idle" /\ closed /\ Len(asked) = Len(answers)
    /\ serving' = "ended"
    /\ UNCHANGED <<closed, asked, status, served, complete, answers>>

\* The connection fails: hyper drops it, with the request it was serving.
ConnectionError ==
    /\ serving # "ended"
    /\ serving' = "ended"
    /\ UNCHANGED <<closed, asked, status, served, complete, answers>>

Handle ==
    \/ Take \/ Join \/ JoinError \/ Respond \/ RequestFailed \/ Pass \/ BodyFailed
    \/ End

------------------------------------------------------------------------------
(* The game, the server and the network *)

GameAsks(joinable) ==
    /\ serving # "ended" /\ ~closed /\ Len(asked) < MaxRequests
    /\ asked' = Append(asked, joinable)
    /\ UNCHANGED <<serving, closed, status, served, complete, answers>>

GameCloses ==
    /\ serving # "ended" /\ ~closed
    /\ closed' = TRUE
    /\ UNCHANGED <<serving, asked, status, served, complete, answers>>

\* What becomes of the request in hand.
Served(outcome) ==
    /\ served' = [served EXCEPT ![Current] = outcome]
    /\ UNCHANGED <<serving, closed, asked, status, complete, answers>>

ServerAnswers ==
    /\ serving = "request" /\ served[Current] = "None"
    /\ \E s \in Statuses : Served(s)

\* No answer comes, or the connection to the server fails within the body.
RequestFails ==
    /\ serving \in {"request", "body"} /\ ~complete
    /\ served[Current] # "Failed"
    /\ Served("Failed")

BodyArrives ==
    /\ serving = "body" /\ served[Current] # "Failed" /\ ~complete
    /\ complete' = TRUE
    /\ UNCHANGED <<serving, closed, asked, status, served, answers>>

Network == ServerAnswers \/ RequestFails \/ BodyArrives

\* What is owed: the handler goes on, and the client's requests end, well or not.
Progress == Handle \/ Network

Next ==
    \/ Progress \/ ConnectionError \/ GameCloses
    \/ \E joinable \in BOOLEAN : GameAsks(joinable)

Spec == Init /\ [][Next]_vars /\ WF_vars(Progress)

------------------------------------------------------------------------------
(* Properties *)

\* Requests are answered one by one, each with the status the server gave it,
\* one of an error too.  The proxy's own errors stand for the server's answer only
\* where the path is no URL, and where the server gave no answer or its body did
\* not come through.
AnswersAreTheServers ==
    /\ Len(answers) <= Len(asked)
    /\ \A k \in DOMAIN answers :
          answers[k] = IF ~asked[k] THEN "Unavailable"
                       ELSE IF served[k] = "Failed" THEN "InternalError"
                       ELSE served[k]
==============================================================================
