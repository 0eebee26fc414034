----------------------- MODULE MCCounterReservation -----------------------
(* Small instances of CounterReservation for TLC. *)
EXTENDS CounterReservation, TLC

DeviceKeySymmetry == Permutations(DeviceKeys)
=============================================================================
