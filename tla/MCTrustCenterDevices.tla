------------------------ MODULE MCTrustCenterDevices ------------------------
(* Small instances of TrustCenterDevices. *)
EXTENDS TrustCenterDevices

CONSTANTS d1, d2
MCDevices == {d1, d2}
=============================================================================
