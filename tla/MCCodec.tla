------------------------------- MODULE MCCodec -------------------------------
(***************************************************************************)
(* Small connections for TLC.  Among the envelopes are one that encodes to *)
(* no byte, one whose length needs two header bytes, one that cannot be    *)
(* marshalled, one over the limit and nil.                                 *)
(***************************************************************************)
EXTENDS Codec, TLC

CONSTANTS s1, s2, empty, small, large, invalid, huge, nil

MCMissing == {nil} \cap Envelopes
MCInvalid == {invalid} \cap Envelopes
MCSize ==
    [m \in Envelopes |-> CASE m = empty -> 0
                           [] m = small -> 1
                           [] m = large -> 2
                           [] m = huge  -> 3
                           [] OTHER     -> 1]
MCHeader == [m \in Envelopes |-> IF MCSize[m] < 2 THEN 1 ELSE 2]

Symmetry == Permutations(Senders)
=============================================================================
