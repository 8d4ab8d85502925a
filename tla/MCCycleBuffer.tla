--------------------------- MODULE MCCycleBuffer ---------------------------
(* GYCycleBuffer on a ring of a few bytes.                               *)
EXTENDS GYCycleBuffer

=============================================================================
