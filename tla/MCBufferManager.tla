-------------------------- MODULE MCBufferManager --------------------------
(***************************************************************************)
(* Bounds for model checking BufferManager: more tables than entries, so   *)
(* that the buffer fills up and removals move entries, and a counter that  *)
(* goes past StampLimit, so that the search for a victim can fail.         *)
(***************************************************************************)
EXTENDS BufferManager

CONSTANTS t1, t2, t3, p1, p2, noPage

MCNames == {t1, t2, t3}
MCPages == {p1, p2}
MCMaxPages == 2
MCStampLimit == 7
MCCounterBound == 10
=============================================================================
