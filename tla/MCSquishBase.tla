---------------------------- MODULE MCSquishBase ----------------------------
(* Small instances of SquishBase.                                          *)
EXTENDS SquishBase

(* No limit; a limit without and with a message that is never dropped; the *)
(* limit leaves at least one message that may be dropped.                  *)
RoomyLimits == {<<0, 0>>, <<2, 0>>, <<3, 1>>}
NoLimits == {}
=============================================================================
