\* Both codecs, every stream of up to three frames with contents of 0, 1, 2
\* and 5 bytes; every form of host with no port, both default ports and another,
\* and every kind of server, of versions around the least one.  Decoding ends with
\* the stream, and a lookup ends, so deadlock is not an error.
SPECIFICATION MCSpec
CONSTANTS
    BYTE = 3
    Tags = {0, 2}
    Lengths = {0, 1, 2, 5}
    MaxFrames = 3
    Ports = {80, 443, 8080}
    Segments = {"a", "b"}
    MaxDepth = 2
    Releases = {4, 5, 6}
    MIN_SERVER_VERSION = 5
INVARIANTS
    CodecInv
    CutsDoNotMatter
    BaseUrlIsWhatWasNamed
    FirstFailureIsReported
CHECK_DEADLOCK FALSE
