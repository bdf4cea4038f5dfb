------------------------- MODULE ConnectionAgreement -------------------------
(***************************************************************************)
(* The two connections, with everything the network can do to them,        *)
(* implement the abstract key agreement.                                   *)
(***************************************************************************)
EXTENDS ConnectionInvariant

Holds == [s \in Side |-> {keys[s][sp] : sp \in SpaceId} \ {NoKeys}]

StatusOf(st) ==
    IF st = "None" THEN "idle"
    ELSE IF st = "Established" THEN "ready"
    ELSE IF st = "Closed" THEN "closed" ELSE "live"

Agreement == INSTANCE KeyAgreement WITH
    holds <- Holds,
    status <- [s \in Side |-> StatusOf(state[s])],
    confirmed <- tls["server"] = "S_Done"

\* Whatever the network loses, repeats or reorders, and whichever packets do not
\* fit, no step of connect, accept, ingest or egest changes the keys and states
\* of the two sides in any way but those of the abstract key agreement: one
\* epoch at a time, the server ahead of the client, ready with the last keys.
ImplementsAgreement == Agreement!Spec

\* What the proof needs beyond the handshake invariant: whoever closes sends
\* nothing else in that packet, and a client whose TLS has finished is ready.
AgreementInv ==
    /\ \A p \in sent : p.close # "none" => p.crypto = <<>>
    /\ tls["client"] = "C_Done" => state["client"] \in {"Established", "Closed"}
=============================================================================
