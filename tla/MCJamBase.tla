----------------------------- MODULE MCJamBase -----------------------------
(* Small instances of JamBase: a tosser that appends beside an editor that *)
(* also rewrites and deletes.                                              *)
EXTENDS JamBase
=============================================================================
