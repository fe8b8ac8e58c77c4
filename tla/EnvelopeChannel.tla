--------------------------- MODULE EnvelopeChannel ---------------------------
(***************************************************************************)
(* What one direction of a Codec connection promises (src/ipc/codec.go):   *)
(* an unbounded first-in first-out channel of envelopes that ends after    *)
(* its last envelope, or is aborted by its reader at any moment.           *)
(***************************************************************************)
EXTENDS Naturals, Sequences

CONSTANT Envelopes

VARIABLES
    sent,     \* the envelopes the channel accepted, in order
    got,      \* the envelopes it delivered, in order
    outcome   \* "open", "ended" or "aborted"

vars == <<sent, got, outcome>>

Init == sent = <<>> /\ got = <<>> /\ outcome = "open"

\* No envelope is accepted twice, and none after the end was seen.
Accept(m) ==
    /\ outcome # "ended"
    /\ \A i \in DOMAIN sent : sent[i] # m
    /\ sent' = Append(sent, m)
    /\ UNCHANGED <<got, outcome>>

Deliver ==
    /\ outcome = "open"
    /\ Len(got) < Len(sent)
    /\ got' = Append(got, sent[Len(got) + 1])
    /\ UNCHANGED <<sent, outcome>>

\* The reader sees the end only after everything that was accepted.
End ==
    /\ outcome = "open"
    /\ Len(got) = Len(sent)
    /\ outcome' = "ended"
    /\ UNCHANGED <<sent, got>>

Abort ==
    /\ outcome = "open"
    /\ outcome' = "aborted"
    /\ UNCHANGED <<sent, got>>

Next == (\E m \in Envelopes : Accept(m)) \/ Deliver \/ End \/ Abort

Spec == Init /\ [][Next]_vars
=============================================================================
