------------------------------ MODULE Selection ------------------------------
(***************************************************************************)
(* The part of a queue that is of one kind, in its order: SelectSeq by a set *)
(* instead of a test, as a recursive function, which proofs can expand.      *)
(***************************************************************************)
EXTENDS Integers, Sequences

Selected(queue, kind) ==
    LET upto[n \in 0..Len(queue)] ==
            IF n = 0 THEN <<>>
            ELSE IF queue[n] \in kind THEN Append(upto[n - 1], queue[n])
            ELSE upto[n - 1]
    IN  upto[Len(queue)]
==============================================================================
