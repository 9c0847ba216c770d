------------------------------ MODULE Telemetry ------------------------------
(***************************************************************************)
(* One connection of the telemetry server, handle of                        *)
(* src/src/servers/telemetry.rs: events of the game are cut out of the      *)
(* stream by the length in their header, their lines are decoded, and each   *)
(* event is published to the server before the next one is read.            *)
(*                                                                          *)
(* The stream is a sequence of bytes, with two abstractions: the two bytes   *)
(* of the length are one, out of WIDTH values, and a key is one byte.  The   *)
(* game's side, which encodes the events, is taken from the data that the    *)
(* tests of telemetry.rs hold: a byte of the cipher that would be a           *)
(* separator has its high bit set.                                          *)
(***************************************************************************)
EXTENDS Integers, Sequences, SequencesExt, Selection

CONSTANTS
    HEADER,        \* bytes of the header, the last of which is the length
    WIDTH,         \* values of a length: 2^16 in the code
    TLM3_KEY,      \* the key of the cipher
    TLM3,          \* the key of the lines that are enciphered
    Events,        \* what the game sends: sequences of [key, value]
    MaxEvents      \* bound: events of the game

VARIABLES
    reading,    \* "header", "body", "publish"; "ended", or "dropped" when the
                \* connection failed or the task was aborted
    closed,     \* the game has closed the connection
    events,     \* events the game has sent: [pairs, bytes]
    stream,     \* their bytes
    arrived,    \* how many of them have arrived
    consumed,   \* bytes of it that were read
    want,       \* length of the body, once the header was read
    buffer,     \* the body that was read; Values(buffer) is being published
    requests    \* requests to the server that have ended: [buffer, ok]

gameVars == <<closed, events, stream, arrived>>
vars == <<reading, gameVars, consumed, want, buffer, requests>>

NEWLINE == 10
EQUALS  == 61
DASH    == 45

------------------------------------------------------------------------------
(* Decoding a body: read_telemetry_event from the split on *)

At(bytes, byte) == SelectInSeq(bytes, LAMBDA b : b = byte)

\* The exclusive or of two bytes, bit by bit.
Xor(a, b) ==
    LET bit(n) == n * (((a \div n) + (b \div n)) % 2) IN
    bit(1) + bit(2) + bit(4) + bit(8) + bit(16) + bit(32) + bit(64) + bit(128)

KeyAt(k) == TLM3_KEY[((k - 1) % Len(TLM3_KEY)) + 1]

\* Mutant: the high bit stays.
XorCipherUnmasked(line) == [k \in DOMAIN line |-> Xor(line[k], KeyAt(k))]

XorCipher(line) == [k \in DOMAIN line |-> Xor(line[k], KeyAt(k)) % 128]

\* A value that is printed as bytes, or one that is text.
Raw(bytes)  == [form |-> "raw", content |-> bytes]
Text(chars) == [form |-> "text", content |-> chars]

\* Only the first dash ends the prefix; without one the bytes are printed.
Tlm3(input) ==
    IF At(input, DASH) = 0
    THEN Raw(input)
    ELSE Text(XorCipher(SubSeq(input, At(input, DASH) + 1, Len(input))))

\* A newline ends the piece that a byte would go on.
Cut(pieces, byte) ==
    IF byte = NEWLINE
    THEN [done |-> Append(pieces.done, pieces.line), line |-> <<>>]
    ELSE [done |-> pieces.done, line |-> Append(pieces.line, byte)]

\* The pieces between the newlines.
Lines(body) ==
    LET cut[n \in 0..Len(body)] ==
            IF n = 0 THEN [done |-> <<>>, line |-> <<>>] ELSE Cut(cut[n - 1], body[n])
    IN  Append(cut[Len(body)].done, cut[Len(body)].line)

\* Only the first equals sign ends the key.
Pair(line) ==
    LET key   == SubSeq(line, 1, At(line, EQUALS) - 1)
        value == SubSeq(line, At(line, EQUALS) + 1, Len(line))
    IN  [key |-> key, value |-> IF key = <<TLM3>> THEN Tlm3(value) ELSE Raw(value)]

\* Lines without an equals sign are left out.
Values(body) ==
    LET pairs == {line \in ToSet(Lines(body)) : At(line, EQUALS) # 0}
        lines == Selected(Lines(body), pairs)
    IN  [k \in DOMAIN lines |-> Pair(lines[k])]

------------------------------------------------------------------------------
(* The game's side of the stream *)

Escape(b) == IF b \in {NEWLINE, EQUALS} THEN b + 128 ELSE b

Line(pair) ==
    <<pair.key, EQUALS>>
        \o (IF pair.key = TLM3
            THEN LET cipher == XorCipher(pair.value) IN
                 <<0, DASH>> \o [k \in DOMAIN cipher |-> Escape(cipher[k])]
            ELSE pair.value)
        \o <<NEWLINE>>

Body(pairs) == FlattenSeq([k \in DOMAIN pairs |-> Line(pairs[k])])

Frame(pairs) ==
    LET length == HEADER + Len(Body(pairs)) IN
    [k \in 1..(HEADER - 1) |-> 0] \o <<length>> \o Body(pairs)

\* The lines of an event can be told apart, an enciphered text is one of the game's
\* character set, and the length fits in its field.
Legible(pairs) ==
    /\ HEADER + Len(Body(pairs)) < WIDTH
    /\ \A pair \in ToSet(pairs) :
          /\ pair.key \notin {NEWLINE, EQUALS}
          /\ IF pair.key = TLM3 THEN pair.value \in Seq(0..127)
                                ELSE NEWLINE \notin ToSet(pair.value)

\* A whole event, or a header alone whose length does not even count itself.
Sendable ==
    {[pairs |-> pairs, bytes |-> Frame(pairs)] : pairs \in Events}
        \cup {[pairs |-> <<>>,
               bytes |-> [k \in 1..(HEADER - 1) |-> 0] \o <<length>>] :
                   length \in 0..(HEADER - 1)}

GameSends(event) ==
    /\ ~closed /\ Len(events) < MaxEvents
    /\ arrived = Len(stream)
    /\ events' = Append(events, event) /\ stream' = stream \o event.bytes
    /\ UNCHANGED <<reading, closed, arrived, consumed, want, buffer, requests>>

\* The stream is cut anywhere.
Arrive ==
    /\ arrived' \in (arrived + 1)..Len(stream)
    /\ UNCHANGED <<reading, closed, events, stream, consumed, want, buffer,
                   requests>>

GameCloses ==
    /\ ~closed
    /\ closed' = TRUE
    /\ UNCHANGED <<reading, events, stream, arrived, consumed, want, buffer,
                   requests>>

------------------------------------------------------------------------------
(* handle *)

Init ==
    /\ reading = "header" /\ closed = FALSE
    /\ events = <<>> /\ stream = <<>> /\ arrived = 0 /\ consumed = 0
    /\ want = 0 /\ buffer = <<>> /\ requests = <<>>

Available == arrived - consumed

\* The header has arrived.  A length below the size of the header wraps around,
\* or panics in a build that checks for overflow.
ReadHeader ==
    /\ reading = "header" /\ Available >= HEADER
    /\ consumed' = consumed + HEADER
    /\ LET length == stream[consumed + HEADER] IN
          /\ want' = (length - HEADER) % WIDTH
          /\ \/ reading' = "body"
             \/ length < HEADER /\ reading' = "ended"
    /\ UNCHANGED <<gameVars, buffer, requests>>

ReadBody ==
    /\ reading = "body" /\ Available >= want
    /\ consumed' = consumed + want
    /\ buffer' = SubSeq(stream, consumed + 1, consumed + want)
    /\ reading' = "publish"
    /\ UNCHANGED <<gameVars, want, requests>>

\* The stream ends before what read_exact asks for.
ReadEnd ==
    /\ closed
    /\ \/ reading = "header" /\ Available < HEADER
       \/ reading = "body" /\ Available < want
    /\ reading' = "ended"
    /\ UNCHANGED <<gameVars, consumed, want, buffer, requests>>

ReadError ==
    /\ reading \in {"header", "body"}
    /\ reading' = "dropped"
    /\ UNCHANGED <<gameVars, consumed, want, buffer, requests>>

\* Mutant: an event that cannot be published ends the connection.
PublishOrEnd(ok) ==
    /\ reading = "publish"
    /\ requests' = Append(requests, [buffer |-> buffer, ok |-> ok])
    /\ buffer' = <<>> /\ reading' = IF ok THEN "header" ELSE "ended"
    /\ UNCHANGED <<gameVars, consumed, want>>

\* The request ends, well or not, and the next event is read in either case.
Publish(ok) ==
    /\ reading = "publish"
    /\ requests' = Append(requests, [buffer |-> buffer, ok |-> ok])
    /\ buffer' = <<>> /\ reading' = "header"
    /\ UNCHANGED <<gameVars, consumed, want>>

Running == reading \notin {"ended", "dropped"}

\* stop_server_tasks aborts the task, which is dropped at an await.
Abort ==
    /\ Running
    /\ reading' = "dropped"
    /\ UNCHANGED <<gameVars, consumed, want, buffer, requests>>

\* What the runtime and the server owe: a read that can go on does, and a
\* request, for which the code sets no timeout, ends.
Progress ==
    \/ Arrive \/ ReadHeader \/ ReadBody \/ ReadEnd
    \/ \E ok \in BOOLEAN : Publish(ok)

Step ==
    /\ Running
    /\ \/ Progress \/ ReadError \/ GameCloses
       \/ \E event \in Sendable : GameSends(event)

Next == Step \/ Abort

Spec == Init /\ [][Next]_vars /\ WF_vars(Running /\ Progress)

------------------------------------------------------------------------------
(* Properties *)

TypeOK ==
    /\ reading \in {"header", "body", "publish", "ended", "dropped"}
    /\ closed \in BOOLEAN
    /\ \A k \in DOMAIN events : events[k] \in Sendable
    /\ arrived \in 0..Len(stream)
    /\ consumed \in 0..arrived
    /\ want \in 0..(WIDTH - 1)
    /\ buffer # <<>> => reading \in {"publish", "dropped"}

\* What the pairs of an event are after decoding.
Plain(pairs) ==
    [k \in DOMAIN pairs |->
        [key   |-> <<pairs[k].key>>,
         value |-> IF pairs[k].key = TLM3 THEN Text(pairs[k].value)
                                          ELSE Raw(pairs[k].value)]]

\* The first k events of the game have a length that can be theirs.
Sound(k) ==
    k <= Len(events) /\ \A j \in 1..k : events[j].bytes[HEADER] >= HEADER

\* The bytes of the first k events.
EndOf(k) == FoldLeft(LAMBDA n, event : n + Len(event.bytes), 0,
                     SubSeq(events, 1, k))

\* Events are published one by one in the order they were sent, each once, with
\* the text that the game enciphered, wherever the stream was cut and whatever
\* became of the requests before; only a length below the header's size ends
\* that.
EventsInOrder ==
    /\ \A k \in DOMAIN requests :
          Sound(k) => Values(requests[k].buffer) = Plain(events[k].pairs)
    /\ Sound(Len(events)) => Len(requests) <= Len(events)

\* An event that has arrived is published, or at least tried, unless the
\* connection fails: those before it that could not be published do not matter.
EventsTried ==
    \A k \in 1..MaxEvents :
        Sound(k) /\ arrived >= EndOf(k)
            ~> Len(requests) >= k \/ reading = "dropped"
==============================================================================
