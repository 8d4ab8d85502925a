--------------------------- MODULE MCPacketRelay ---------------------------
(***************************************************************************)
(* The packet path on a small instance: heads of two bytes, GUIDs of one,   *)
(* rings of a few bytes, so that heads and bodies cross their ends.         *)
(***************************************************************************)
EXTENDS GYPacketRelay

MCBody(id) == IF id = "Raw" THEN 2 ELSE 1
MCClientPackets == <<"Login", "Raw", "Test">>
MCLogicPackets == <<"SCTest", "Raw">>

=============================================================================
