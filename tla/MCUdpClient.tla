----------------------------- MODULE MCUdpClient -----------------------------
(***************************************************************************)
(* TLC runs of UdpClient: one client, as in the firmware, whose owner may  *)
(* call it in any order.                                                   *)
(***************************************************************************)
EXTENDS UdpClient
===============================================================================
