----------------------------- MODULE MCGateway -----------------------------
(***************************************************************************)
(* The gateway on small instances.                                         *)
(***************************************************************************)
EXTENDS GYGateway

(* All GUIDs belong in the first bucket of their row, and the stray byte     *)
(* moves the row, as the last term of _HashFunction1 does.                   *)
MCRowOf(g, stray) == (g + stray) % Cardinality(Rows)
MCBucketOf(g) == 0

=============================================================================
