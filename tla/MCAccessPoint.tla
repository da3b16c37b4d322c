---------------------------- MODULE MCAccessPoint ----------------------------
(***************************************************************************)
(* TLC run of AccessPoint: the address of app_main, one whose leases wrap, *)
(* and texts that stop being an address in different places.               *)
(***************************************************************************)
EXTENDS AccessPoint

MCTexts ==
  {<<1,9,2,Dot,1,6,8,Dot,1,0,0,Dot,1>>,
   <<1,0,Dot,0,Dot,0,Dot,2,5,0>>,
   <<1,0,Dot,0,0,2,Dot,2,5,5,Dot,2,4,3>>,
   <<9,Dot,Dot,2,Dot,3>>,
   <<1,Dot,2,Dot,3,Dot>>,
   <<2,5,6,Dot,1,Dot,1,Dot,1>>,
   <<1,Dot,1,Dot,1,Dot,2,5,6>>,
   <<1,Dot,2,Dot,3>>,
   <<1,Dot,2,Dot,3,Dot,4,Dot,5>>,
   <<1,Dot,2,Dot,3,Dot,4,Letter>>,
   << >>}
===============================================================================
