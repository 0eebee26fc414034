--------------------------- MODULE MCTclkExchange ---------------------------
(* TclkExchange, armed two ticks before the clock wraps. *)
EXTENDS TclkExchange

NearWrap == {ClockModulus - 2}
=============================================================================
