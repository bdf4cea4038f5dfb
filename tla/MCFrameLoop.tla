---------------------------- MODULE MCFrameLoop ----------------------------
(***************************************************************************)
(* An instance of FrameLoop.                                               *)
(***************************************************************************)
EXTENDS FrameLoop

Pns == [s \in Side |-> [sp \in SpaceId |-> IF sp = "Initial" THEN 2 ELSE 1]]
NoData == [s \in Side |-> 0]
=============================================================================
