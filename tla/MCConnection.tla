---------------------------- MODULE MCConnection ----------------------------
(***************************************************************************)
(* Small instances of Connection for the model checker: how many packets   *)
(* each side may send in each packet number space, and how many bytes its  *)
(* application writes.                                                     *)
(***************************************************************************)
EXTENDS ConnectionAgreement

Spaces(initial, handshake, appdata) ==
    [sp \in SpaceId |-> IF sp = "Initial" THEN initial
                        ELSE IF sp = "Handshake" THEN handshake ELSE appdata]

Sides(client, server) ==
    [s \in Side |-> IF s = "client" THEN client ELSE server]

NoData == Sides(0, 0)

\* The whole handshake with room for late acknowledgements in every space.
PnsHandshake == Sides(Spaces(2, 2, 2), Spaces(2, 2, 2))

\* A short handshake; the client then has several packets for its data.
PnsData == Sides(Spaces(2, 1, 4), Spaces(1, 1, 1))
ClientData == Sides(3, 0)

\* A client with data in several packets, and a server that may close in any
\* space, during the handshake or after it.
PnsTraffic == Sides(Spaces(2, 1, 3), Spaces(1, 1, 2))
SomeData == Sides(2, 0)
=============================================================================
