--------------------------- MODULE MCRingBufCreate ---------------------------
(***************************************************************************)
(* TLC runs of RingBufCreate.                                              *)
(***************************************************************************)
EXTENDS RingBufCreate
===============================================================================
