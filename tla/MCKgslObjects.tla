---------------------------- MODULE MCKgslObjects ----------------------------
(* Buffer objects of two contexts over two slices of the VBO.                *)
EXTENDS KgslObjects, TLC

\* Resources and page runs are interchangeable.
Symm == Permutations(ResIds) \cup Permutations(Pages)
=============================================================================
