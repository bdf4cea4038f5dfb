----------------------------- MODULE MCEndpoint -----------------------------
(***************************************************************************)
(* Instances of Endpoint.                                                  *)
(***************************************************************************)
EXTENDS Endpoint

Sides == Side

NoData == [s \in Side |-> 0]
OneByte == [s \in Side |-> 1]

\* Acknowledgements of acknowledgements never stop, so every space needs a
\* bound; these are above what the handshake takes.
Pns == [s \in Side |-> [sp \in SpaceId |-> 3]]

\* The same when each side writes a byte. Initial packets that acknowledge each
\* other may go ahead of a flight, so their bound must not be used up before it;
\* no flight has to wait for the packets of the other spaces.
PnsData ==
    [s \in Side |-> [sp \in SpaceId |-> IF sp = "Initial" THEN 3 ELSE 2]]
=============================================================================
