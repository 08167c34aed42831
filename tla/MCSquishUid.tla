---------------------------- MODULE MCSquishUid ----------------------------
(* Small instances of SquishUid.                                           *)
EXTENDS SquishUid
=============================================================================
