---------------------------- MODULE MCAudioPipeline ----------------------------
(***************************************************************************)
(* The audio pipeline with a ring of two frames.                           *)
(***************************************************************************)
EXTENDS AudioPipeline
===============================================================================
