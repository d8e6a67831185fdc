------------------------------ MODULE Sequence ------------------------------
(***************************************************************************)
(* Sequences whose members may be anything: Seq(S) asks for the set they   *)
(* are from.                                                               *)
(***************************************************************************)
EXTENDS Integers, Sequences

IsSequence(s) == Len(s) \in Nat /\ s = [i \in 1 .. Len(s) |-> s[i]]
=============================================================================
