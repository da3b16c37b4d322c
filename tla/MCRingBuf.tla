------------------------------ MODULE MCRingBuf ------------------------------
(***************************************************************************)
(* Model values for the TLC runs of RingBuf.  The writers of the two-      *)
(* writer run are interchangeable: no definition names one of them.        *)
(***************************************************************************)
EXTENDS RingBuf, TLC

WriterSymmetry == Permutations(Writers)
===============================================================================
