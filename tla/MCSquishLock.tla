---------------------------- MODULE MCSquishLock ----------------------------
(* Small instances of SquishLock: two processes, a two-valued retry count, *)
(* a `word' just wide enough for the nesting the bounds allow.             *)
EXTENDS SquishLock, TLC

Symmetry == Permutations(Handles)
=============================================================================
