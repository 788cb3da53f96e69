------------------------- MODULE MCInvocationKernel -------------------------
(* Two mutations compete for one resource while a read shares their        *)
(* connection and may replace it.                                          *)
EXTENDS InvocationKernel
=============================================================================
