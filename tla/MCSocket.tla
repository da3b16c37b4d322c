------------------------------- MODULE MCSocket -------------------------------
(***************************************************************************)
(* Two tasks that share their sockets: one serves and sets timeouts with   *)
(* the overload for a pointer, the other receives and sets them from an    *)
(* int.  The calls left out differ from these in their mutex only.         *)
(***************************************************************************)
EXTENDS Socket

CONSTANTS server, client
MCUses ==
  [t \in {server, client} |->
     IF t = server THEN {"set_options_raw", "bind", "listen", "accept"}
     ELSE {"set_options", "recive"}]
===============================================================================
