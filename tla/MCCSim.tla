------------------------------- MODULE MCCSim -------------------------------
(***************************************************************************)
(* CSim on a small cache, next to a larger one.                            *)
(* The five addresses lie in five blocks, four of them in one set, and one *)
(* is not the base of its block.  All data is the same: the simulator      *)
(* stores none (cache.c:308).                                              *)
(***************************************************************************)
EXTENDS CachePair

MCBlock == {"zero"}
============================================================================
