----------------------------- MODULE MCDramTask ------------------------------
(***************************************************************************)
(* TLC runs of DramTask.                                                   *)
(***************************************************************************)
EXTENDS DramTask
===============================================================================
