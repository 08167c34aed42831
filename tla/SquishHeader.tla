--------------------------- MODULE SquishHeader ---------------------------
(* What the lock protocol of src/src/sq_lock.c promises about the header   *)
(* at the start of the .sqd file (SQBASE in src/smapi/api_sq.h): however   *)
(* many processes have the area open, every API call that changes the      *)
(* header is one indivisible update of the header that is on disk, and a   *)
(* message id, once published, is never handed out again.                  *)
EXTENDS Naturals

VARIABLES
  hdr,      \* [uid : next message id to assign, num_msg : messages in base]
  issued    \* the message ids assigned to stored messages so far

vars == <<hdr, issued>>

Init == /\ hdr = [uid |-> 1, num_msg |-> 0]
        /\ issued = {}

CreateMsg == /\ hdr.uid \notin issued
             /\ hdr' = [uid |-> hdr.uid + 1, num_msg |-> hdr.num_msg + 1]
             /\ issued' = issued \cup {hdr.uid}

KillMsg == /\ hdr.num_msg > 0
           /\ hdr' = [hdr EXCEPT !.num_msg = @ - 1]
           /\ UNCHANGED issued

Next == CreateMsg \/ KillMsg

Spec == Init /\ [][Next]_vars
===========================================================================
