------------------------ MODULE MCNetworkKeyRotation ------------------------
(* Small instances of NetworkKeyRotation. *)
EXTENDS NetworkKeyRotation

CONSTANTS p, q, c
MCPeers == {p, q}
MCKids == {c}
MCMethods == {"Broadcast", "Unicast"}
MCUnicast == {"Unicast"}
=============================================================================
