---------------------------- MODULE MCBridgeHost ----------------------------
(* Two stream tasks alive at a time are enough for one that was given up on *)
(* to meet its successor.                                                   *)
EXTENDS BridgeHost, TLC
=============================================================================
