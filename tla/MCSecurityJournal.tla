-------------------------- MODULE MCSecurityJournal --------------------------
(* Small instances of SecurityJournal for TLC. *)
EXTENDS SecurityJournal, TLC

DomainSymmetry == Permutations(Domains)
=============================================================================
