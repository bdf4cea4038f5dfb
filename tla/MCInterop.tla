----------------------------- MODULE MCInterop -----------------------------
(***************************************************************************)
(* An instance of Interop: two requests.                                   *)
(***************************************************************************)
EXTENDS Interop

None == {}
TwoFiles == <<1, 1>>
Bytes == [s \in Side |-> 2]

\* The spaces of the handshake are kept small, so that an acknowledgement is
\* not followed by others; the last one has room for HANDSHAKE_DONE, for every
\* request and answer, and for the acknowledgements between them.
PnsFiles ==
    [s \in Side |-> [sp \in SpaceId |->
        IF sp = "AppData" THEN IF s = "client" THEN 3 ELSE 5
        ELSE IF s = "client" /\ sp = "Initial" THEN 2 ELSE 1]]
=============================================================================
