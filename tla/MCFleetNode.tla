----------------------------- MODULE MCFleetNode -----------------------------
(* Small instances of FleetNode for TLC.                                     *)
EXTENDS FleetNode

CONSTANTS g1

Ground == {g1}

GotoOnly == {"goto"}
StartAndStop == {"start", "stop"}
=============================================================================
