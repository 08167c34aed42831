--------------------------- MODULE MCSquishIndex ---------------------------
(* Small instances of SquishIndex: segments of two records, so that five   *)
(* messages fill three and removals and appends meet every boundary.       *)
EXTENDS SquishIndex

(* No limit; one that drops the oldest, one that keeps the first message;  *)
(* set on a longer area they drop several at once.                         *)
SomeLimits == {<<0, 0>>, <<3, 0>>, <<3, 1>>}
NoLimits == {<<0, 0>>}
=============================================================================
