---------------------------- MODULE MCCodecLookup ----------------------------
(***************************************************************************)
(* The instance of two components that work on data of their own and share   *)
(* no state, the codecs and the lookup of a server.  A behaviour is one of   *)
(* either of them; the other has nothing to do, as it received no frame, or  *)
(* was given a host that is none.                                            *)
(***************************************************************************)
EXTENDS Codec, ServerLookup

CodecIdle ==
    /\ codec = "tunnel" /\ stream = <<>> /\ unread = <<>> /\ src = <<>>
    /\ partial = None /\ decoded = <<>> /\ readable = FALSE

LookupOver ==
    /\ host = CHOOSE h \in Hosts : ~h.valid
    /\ server = CHOOSE s \in ServerKinds : TRUE
    /\ lookup_pc = "done" /\ result = "InvalidHostTarget"
    /\ url = NoUrl /\ asked = NoUrl

MCInit ==
    \/ CodecInit /\ LookupOver
    \/ LookupInit /\ CodecIdle

MCNext ==
    \/ CodecNext /\ UNCHANGED lookupVars
    \/ LookupNext /\ UNCHANGED codecVars

MCSpec == MCInit /\ [][MCNext]_<<codecVars, lookupVars>>
==============================================================================
