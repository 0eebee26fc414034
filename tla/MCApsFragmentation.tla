------------------------ MODULE MCApsFragmentation ------------------------
(* Instances of ApsFragmentation for TLC. *)
EXTENDS ApsFragmentation

\* Four blocks in two windows, then an ASDU that fits one window.
MCTotal == [a \in 1..MaxSends |-> IF a = 1 THEN 4 ELSE 2]
=============================================================================
