----------------------------- MODULE MCHeapSort -----------------------------
(***************************************************************************)
(* All arrays of up to six keys, among them chains of keys each close to   *)
(* the next, the ends of which are not close.                              *)
(***************************************************************************)
EXTENDS HeapSort
=============================================================================
