--------------------------- MODULE MCLogicServer ---------------------------
(***************************************************************************)
(* The logic server with few gateways and humans: the array of the scene is *)
(* shorter than the pool, the ids collide in their bucket.                  *)
(***************************************************************************)
EXTENDS GYLogicServer, TLC

MCSymmetry == Permutations(GatewaySession) \cup Permutations(Human) \cup Permutations(UserID)
MCBuckets == 0 .. 2
MCBucketOf(id) == 1
MCStart == [x |-> 3, z |-> 2]
=============================================================================
