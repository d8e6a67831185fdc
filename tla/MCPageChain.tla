---------------------------- MODULE MCPageChain ----------------------------
(***************************************************************************)
(* Bounds for model checking PageChain.  With these sizes a page holds two *)
(* or three records, so that a table of five rows goes through splits of   *)
(* pages with accurate, stale and uninitialised totals, at the end and in  *)
(* the middle of the chain.                                                *)
(* The garbage in a fresh total is either nothing or a whole page.  A page *)
(* has a slot for one record, so that the array is reallocated before the  *)
(* page is full.                                                           *)
(***************************************************************************)
EXTENDS PageChain

MCKeys == 1 .. 5
MCUniqs == 1 .. 4
MCSizes == {8}
MCMaxSize == 34
MCCapacity == 1
MCGarbage == {0, MCMaxSize}
=============================================================================
