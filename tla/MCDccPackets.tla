---------------------------- MODULE MCDccPackets ----------------------------
(* Small instance of DccPackets: boundary values of every field.            *)
EXTENDS DccPackets, TLC
MCStop == {-1, 0}
=============================================================================
