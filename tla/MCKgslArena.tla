----------------------------- MODULE MCKgslArena -----------------------------
(* The arena on a few pages: sizes that are and are not page multiples.      *)
EXTENDS KgslArena, TLC

\* Contexts and resources are interchangeable.
Symm == Permutations(Ctx) \cup Permutations(Res)
=============================================================================
