--------------------------- MODULE MC_FiberPayment ---------------------------
(* Bounds: one invoice that is open and one that was paid before settlements *)
(* were recorded, two requests to check or sync, two runs of the command.    *)
EXTENDS FiberPayment

CONSTANTS i1, i2
=============================================================================
