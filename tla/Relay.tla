-------------------------------- MODULE Relay --------------------------------
(***************************************************************************)
(* What a tunnel direction promises to the two ends it connects: a queue   *)
(* of accepted messages that come out in the order they went in, each at   *)
(* most once.  A relay that is not Lossy delivers every message it has     *)
(* accepted; a Lossy one may drop a run of adjacent messages, and never    *)
(* reorders or repeats one.                                                *)
(***************************************************************************)
EXTENDS Integers, Sequences

CONSTANTS
    Msg,        \* the messages that can be relayed
    Lossy       \* a BOOLEAN: whether the relay may drop messages

VARIABLES
    pending,    \* accepted, not yet delivered
    delivered   \* what came out, oldest first

vars == <<pending, delivered>>

TypeOK ==
    /\ pending \in Seq(Msg)
    /\ delivered \in Seq(Msg)

Init ==
    /\ pending = <<>>
    /\ delivered = <<>>

Accept ==
    /\ \E m \in Msg : pending' = Append(pending, m)
    /\ UNCHANGED delivered

Deliver ==
    /\ pending # <<>>
    /\ delivered' = Append(delivered, Head(pending))
    /\ pending' = Tail(pending)

\* The adjacent messages i..j are dropped.
Lose ==
    /\ Lossy
    /\ \E i, j \in 1..Len(pending) :
          /\ i <= j
          /\ pending' = SubSeq(pending, 1, i - 1)
                          \o SubSeq(pending, j + 1, Len(pending))
    /\ UNCHANGED delivered

Next == Accept \/ Deliver \/ Lose

Spec == Init /\ [][Next]_vars
==============================================================================
