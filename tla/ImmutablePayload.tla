-------------------------- MODULE ImmutablePayload ---------------------------
(***************************************************************************)
(* What abi.Diff and abi.ApplyPath promise whoever passes payloads around: *)
(* a payload, once handed out, stays what it was; a change is the          *)
(* difference to what somebody wants; and each mutation that can be        *)
(* applied makes one new payload of the last one.                          *)
(***************************************************************************)
EXTENDS Values

CONSTANTS
    Payloads,   \* what may be wanted
    Foreign     \* the mutations of somebody who did not take a difference

VARIABLES
    versions,   \* the payloads handed out
    pending     \* the mutations still to be applied

payloadVars == <<versions, pending>>

PayloadInit ==
    /\ \E payload \in Payloads : versions = <<payload>>
    /\ pending = <<>>

Want ==
    /\ pending = <<>>
    /\ \/ \E after \in Payloads \cup ToSet(versions) : pending' = Diff(Last(versions), after)
       \/ \E mutation \in Foreign : pending' = <<mutation>>
    /\ UNCHANGED versions

Take ==
    /\ pending # <<>>
    /\ pending' = Tail(pending)
    /\ versions' = IF Applicable(Last(versions), Head(pending))
                   THEN Append(versions, ApplyPath(Last(versions), Head(pending)))
                   ELSE versions

PayloadNext == Want \/ Take

PayloadSpec == PayloadInit /\ [][PayloadNext]_payloadVars
=============================================================================
