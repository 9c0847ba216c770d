--------------------------------- MODULE Codec ---------------------------------
(***************************************************************************)
(* The frame codecs: TunnelCodec of src/src/servers/tunnel.rs and FireCodec *)
(* of src/src/fire.rs.  Both read a header of a fixed size that holds the    *)
(* length of the contents, keep it while the contents arrive, and hand the   *)
(* frame over; they differ in the size of the header, in the place of the    *)
(* length and in how many bytes they wait for before they read a header.     *)
(*                                                                          *)
(* A byte is a number, and the length is written with two of them.  The      *)
(* other bytes of a frame's header and its contents all carry its tag.       *)
(***************************************************************************)
EXTENDS Integers, Sequences, SequencesExt, FiniteSetsExt

CONSTANTS
    BYTE,          \* values of a byte (256)
    Tags, Lengths, \* the frames that are sent
    MaxFrames      \* bound: frames of a stream

ASSUME CodecAssumption ==
    /\ BYTE \in Nat \ {0} /\ MaxFrames \in Nat
    /\ Tags \subseteq 0..(BYTE - 1) /\ Lengths \subseteq 0..(BYTE * BYTE - 1)

VARIABLES
    codec,     \* which of the two
    stream,    \* the frames that the peer encoded
    unread,    \* their bytes that have not arrived
    src,       \* the buffer that decode reads from
    partial,   \* the header that waits for its contents, or None
    decoded,   \* the frames handed over
    readable   \* Framed calls decode again before it reads

codecVars == <<codec, stream, unread, src, partial, decoded, readable>>

\* Bytes of a header, bytes without which decode reads none, and the place of the
\* length's first byte in the header.
TunnelFormat == [size |-> 3, least |-> 5, length_at |-> 2]
FireFormat == [size |-> 12, least |-> 12, length_at |-> 1]
Format == IF codec = "tunnel" THEN TunnelFormat ELSE FireFormat

HEADER_SIZE == Format.size
MIN_BYTES == Format.least
LENGTH_AT == Format.length_at

Frames == [tag : Tags, length : Lengths]
None == [tag |-> -1, length |-> -1]
Some(tag, length) == [tag |-> tag, length |-> length]

\* put_u8, put_u16 and extend_from_slice: the length is cut to 16 bits and
\* written with its high byte first.
Encode(frame) ==
    LET len == frame.length % (BYTE * BYTE) IN
    [k \in 1..(HEADER_SIZE + frame.length) |->
        IF k = LENGTH_AT THEN len \div BYTE
        ELSE IF k = LENGTH_AT + 1 THEN len % BYTE ELSE frame.tag]

\* get_u8 and get_u16 of the bytes of a header.
TagAt == CHOOSE k \in 1..HEADER_SIZE : k \notin {LENGTH_AT, LENGTH_AT + 1}
ReadHeader(bytes) ==
    Some(bytes[TagAt], bytes[LENGTH_AT] * BYTE + bytes[LENGTH_AT + 1])

Bytes(frames) == FlattenSeq([k \in 1..Len(frames) |-> Encode(frames[k])])

CodecTypeOK ==
    /\ codec \in {"tunnel", "fire"}
    /\ stream \in Seq(Frames) /\ Len(stream) <= MaxFrames
    /\ unread \in Seq(0..(BYTE - 1)) /\ src \in Seq(0..(BYTE - 1))
    /\ partial \in Frames \cup {None}
    /\ decoded \in Seq(Frames)
    /\ readable \in BOOLEAN

CodecInit ==
    /\ codec \in {"tunnel", "fire"}
    /\ stream \in UNION {[1..n -> Frames] : n \in 1..MaxFrames}
    /\ unread = Bytes(stream)
    /\ src = <<>> /\ partial = None /\ decoded = <<>> /\ readable = FALSE

------------------------------------------------------------------------------

\* A read of the connection returns the next n bytes.
Arrive(n) ==
    /\ ~readable /\ n \in 1..Len(unread)
    /\ src' = src \o SubSeq(unread, 1, n)
    /\ unread' = SubSeq(unread, n + 1, Len(unread))
    /\ readable' = TRUE
    /\ UNCHANGED <<codec, stream, partial, decoded>>

\* Mutant: one more byte is waited for.
DecodeNothingLate ==
    /\ readable /\ partial = None /\ Len(src) <= MIN_BYTES
    /\ readable' = FALSE
    /\ UNCHANGED <<codec, stream, unread, src, partial, decoded>>

\* decode: too few bytes for a header.
DecodeNothing ==
    /\ readable /\ partial = None /\ Len(src) < MIN_BYTES
    /\ readable' = FALSE
    /\ UNCHANGED <<codec, stream, unread, src, partial, decoded>>

\* The header decode works with, and the bytes behind it: the one it kept, or
\* one that it reads.
HasHeader == partial # None \/ Len(src) >= MIN_BYTES
Header == IF partial # None THEN partial ELSE ReadHeader(src)
Rest == IF partial # None THEN src ELSE SubSeq(src, HEADER_SIZE + 1, Len(src))

\* Mutant: the header is kept and not taken from the buffer.
DecodeHeaderStays ==
    /\ readable /\ HasHeader
    /\ Len(Rest) < Header.length
    /\ src' = src /\ partial' = Header /\ readable' = FALSE
    /\ UNCHANGED <<codec, stream, unread, decoded>>

\* decode: too few bytes for the contents, the header is kept.
DecodeHeader ==
    /\ readable /\ HasHeader
    /\ Len(Rest) < Header.length
    /\ src' = Rest /\ partial' = Header /\ readable' = FALSE
    /\ UNCHANGED <<codec, stream, unread, decoded>>

\* decode: the frame is handed over, and Framed calls decode again.
DecodeFrame ==
    /\ readable /\ HasHeader
    /\ Len(Rest) >= Header.length
    /\ LET contents == SubSeq(Rest, 1, Header.length) IN
          decoded' = Append(decoded, Some(Header.tag, Len(contents)))
    /\ src' = SubSeq(Rest, Header.length + 1, Len(Rest))
    /\ partial' = None
    /\ UNCHANGED <<codec, stream, unread, readable>>

Decode == DecodeNothing \/ DecodeHeader \/ DecodeFrame

CodecNext == Decode \/ \E n \in 1..Len(unread) : Arrive(n)

CodecSpec == CodecInit /\ [][CodecNext]_codecVars

------------------------------------------------------------------------------
(* Properties *)

Start(k) == Len(Bytes(SubSeq(stream, 1, k - 1)))
End(k) == Len(Bytes(SubSeq(stream, 1, k)))
Arrived == Len(Bytes(stream)) - Len(unread)

\* Frames are handed over as they were encoded, in order, each once, wherever
\* the reads cut the stream.
FramesInOrder == IsPrefix(decoded, stream)

\* What decode has to work with at every call: its types, and the frames of the
\* stream handed over up to one of them.
CodecInv == CodecTypeOK /\ FramesInOrder

\* How the bytes arrived makes no difference: what decode has handed over when it
\* wants more depends on the number of bytes that have arrived only.
Decodable(k) == Arrived >= End(k) /\ Arrived >= Start(k) + MIN_BYTES
CutsDoNotMatter ==
    ~readable =>
        Len(decoded) = Max({0} \cup {k \in 1..Len(stream) :
                                        \A j \in 1..k : Decodable(j)})
==============================================================================
