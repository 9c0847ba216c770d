---------------------------- MODULE ServerLookup ----------------------------
(***************************************************************************)
(* lookup_server of src/src/api.rs: the base URL made of what the user       *)
(* typed, and the checks of the server behind it.  A URL is a record with    *)
(* the segments of its path, the last of them empty when the path ends with  *)
(* a slash, and no port when it is the default of its scheme, as the url     *)
(* crate keeps it.  A version is a release number, or a pre-release of one.  *)
(***************************************************************************)
EXTENDS Integers, Sequences, SequencesExt

CONSTANTS
    Ports,                  \* ports the user may type
    Segments, MaxDepth,     \* bound: the paths the user may type
    Releases,               \* release numbers of servers
    MIN_SERVER_VERSION      \* the least release number that is served

ASSUME VersionAssumption == MIN_SERVER_VERSION \in Int /\ Releases \subseteq Int
ASSUME DepthAssumption == MaxDepth \in Nat

NoPort == 0
DETAILS_ENDPOINT == <<"api", "server">>
Endpoints ==
    {DETAILS_ENDPOINT} \cup {Append(DETAILS_ENDPOINT, e) : e \in {"telemetry", "upgrade", "tunnel"}}

\* What the user typed.  An "other" scheme is one that starts_with does not
\* know, HTTP:// in capitals too; valid is FALSE where no URL can be read.
Hosts ==
    [scheme : {"none", "http", "https", "other"}, port : Ports \cup {NoPort},
     path : SeqOf(Segments, MaxDepth), slash : BOOLEAN, valid : BOOLEAN]

Idents == {"None", "OTHER", "POCKET_RELAY_SERVER"}
Versions == [release : Releases, pre : BOOLEAN]

\* What there is at the other end of the request.
ServerKinds ==
    [reachable : BOOLEAN, error : BOOLEAN, json : BOOLEAN,
     ident : Idents, version : Versions]

VARIABLES
    host,       \* what the user typed
    server,     \* the server behind it
    lookup_pc,  \* "start", "request", "response", "body", "details", "done"
    url,        \* the base URL
    asked,      \* the URL of the request
    result      \* "None", "Ok" or a LookupError

lookupVars == <<host, server, lookup_pc, url, asked, result>>

------------------------------------------------------------------------------
(* The base URL *)

\* Without a scheme that it knows, the code puts http:// in front.
Inferred(h) == h.scheme \notin {"http", "https"}

Scheme(h) == IF Inferred(h) THEN "http" ELSE h.scheme

DefaultPort(scheme) == IF scheme = "https" THEN 443 ELSE 80

\* The url crate keeps no port that is the default of the scheme.
KeptPort(scheme, port) == IF port = DefaultPort(scheme) THEN NoPort ELSE port

\* Url::from_str of the host with its scheme and a slash at its end.  Behind
\* http://, an unknown scheme reads as the name of the server, with no port
\* after its colon, and all that follows as the path.
Parsed(h) ==
    IF h.scheme = "other"
      THEN [scheme |-> "http", server |-> "scheme", port |-> NoPort,
            path |-> <<"", "named">> \o h.path \o <<"">>]
      ELSE [scheme |-> Scheme(h), server |-> "named",
            port |-> KeptPort(Scheme(h), h.port), path |-> Append(h.path, "")]

\* Url::set_scheme between http and https drops the port that has become the default.
SetScheme(u, scheme) == [u EXCEPT !.scheme = scheme, !.port = KeptPort(scheme, @)]

\* Mutant: a port of 443 behind a scheme the user gave becomes https too.
BaseUrlBySPort(h) ==
    IF Parsed(h).port = 443 THEN SetScheme(Parsed(h), "https") ELSE Parsed(h)

BaseUrl(h) ==
    IF Parsed(h).port = 443 /\ Inferred(h)
      THEN SetScheme(Parsed(h), "https")
      ELSE Parsed(h)

\* Url::join replaces what follows the last slash.
Join(u, endpoint) == [u EXCEPT !.path = Front(@) \o endpoint]

\* Mutant: the pre-releases of the least version are served.
OutdatedRelease(version) == version.release < MIN_SERVER_VERSION

\* Version's order: a pre-release comes before its release.
Outdated(version) ==
    \/ version.release < MIN_SERVER_VERSION
    \/ version.release = MIN_SERVER_VERSION /\ version.pre

------------------------------------------------------------------------------
(* lookup_server *)

NoUrl == [scheme |-> "none", server |-> "none", port |-> NoPort, path |-> <<>>]

LookupInit ==
    /\ host \in Hosts /\ server \in ServerKinds
    /\ lookup_pc = "start" /\ url = NoUrl /\ asked = NoUrl /\ result = "None"

Return(outcome) ==
    /\ lookup_pc' = "done" /\ result' = outcome
    /\ UNCHANGED <<host, server, url, asked>>

Goto(label) ==
    /\ lookup_pc' = label
    /\ UNCHANGED <<host, server, url, asked, result>>

InvalidHostTarget ==
    /\ lookup_pc = "start" /\ ~host.valid
    /\ Return("InvalidHostTarget")

Request ==
    /\ lookup_pc = "start" /\ host.valid
    /\ url' = BaseUrl(host)
    /\ asked' = Join(BaseUrl(host), DETAILS_ENDPOINT)
    /\ lookup_pc' = "request"
    /\ UNCHANGED <<host, server, result>>

ConnectionFailed ==
    /\ lookup_pc = "request" /\ ~server.reachable
    /\ Return("ConnectionFailed")

Respond ==
    /\ lookup_pc = "request" /\ server.reachable
    /\ Goto("response")

ErrorResponse ==
    /\ lookup_pc = "response" /\ server.error
    /\ Return("ErrorResponse")

AcceptStatus ==
    /\ lookup_pc = "response" /\ ~server.error
    /\ Goto("body")

\* The body breaks off, is no JSON, or has no version that can be read.
InvalidResponse ==
    /\ lookup_pc = "body" /\ ~server.json
    /\ Return("InvalidResponse")

ReadDetails ==
    /\ lookup_pc = "body" /\ server.json
    /\ Goto("details")

NotPocketRelay ==
    /\ lookup_pc = "details" /\ server.ident # "POCKET_RELAY_SERVER"
    /\ Return("NotPocketRelay")

ServerOutdated ==
    /\ lookup_pc = "details" /\ server.ident = "POCKET_RELAY_SERVER"
    /\ Outdated(server.version)
    /\ Return("ServerOutdated")

Ok ==
    /\ lookup_pc = "details" /\ server.ident = "POCKET_RELAY_SERVER"
    /\ ~Outdated(server.version)
    /\ Return("Ok")

LookupNext ==
    \/ InvalidHostTarget \/ Request \/ ConnectionFailed \/ Respond
    \/ ErrorResponse \/ AcceptStatus \/ InvalidResponse \/ ReadDetails
    \/ NotPocketRelay \/ ServerOutdated \/ Ok

LookupSpec == LookupInit /\ [][LookupNext]_lookupVars

------------------------------------------------------------------------------
(* Properties *)

PortOf(u) == IF u.port = NoPort THEN DefaultPort(u.scheme) ELSE u.port

\* The host as the program shows and stores the URL.
Displayed(u) ==
    [scheme |-> u.scheme, port |-> u.port, path |-> Front(u.path),
     slash |-> TRUE, valid |-> TRUE]

\* The base URL is the server, the port and the path that the user named, with
\* the scheme that the user gave, and https where they gave only port 443; the
\* URL typed in again means the same, and all endpoints are below its path.
\* That holds of the schemes that lookup_server knows.
BaseUrlIsWhatWasNamed ==
    url # NoUrl /\ host.scheme # "other" =>
        /\ url.server = "named"
        /\ url.scheme = IF host.scheme # "none" THEN host.scheme
                        ELSE IF host.port = 443 THEN "https" ELSE "http"
        /\ PortOf(url) = IF host.port # NoPort THEN host.port
                         ELSE DefaultPort(url.scheme)
        /\ BaseUrl(Displayed(url)) = url
        /\ \A e \in Endpoints :
              Join(url, e) = [url EXCEPT !.path = host.path \o e]

Rank(version) == 2 * version.release + (IF version.pre THEN 0 ELSE 1)

LeastVersion == [release |-> MIN_SERVER_VERSION, pre |-> FALSE]

\* What may be wrong with a lookup, in the order in which it shows.
Failures ==
    <<[name |-> "InvalidHostTarget", is |-> ~host.valid],
      [name |-> "ConnectionFailed", is |-> ~server.reachable],
      [name |-> "ErrorResponse", is |-> server.error],
      [name |-> "InvalidResponse", is |-> ~server.json],
      [name |-> "NotPocketRelay", is |-> server.ident # "POCKET_RELAY_SERVER"],
      [name |-> "ServerOutdated", is |-> Rank(server.version) < Rank(LeastVersion)]>>

\* A lookup reports the first thing that is wrong, and succeeds only for a
\* Pocket Relay server whose version is at least the least one, of which no
\* pre-release is served; nothing is requested for a host that is no URL.
FirstFailureIsReported ==
    lookup_pc = "done" =>
        /\ result = "Ok" <=> \A k \in DOMAIN Failures : ~Failures[k].is
        /\ \A k \in DOMAIN Failures :
              result = Failures[k].name <=>
                  Failures[k].is /\ \A j \in 1..k - 1 : ~Failures[j].is
        /\ asked # NoUrl <=> host.valid
==============================================================================
