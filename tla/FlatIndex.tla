------------------------------ MODULE FlatIndex ------------------------------
(* What the index of an area promises to the code above it: record n is    *)
(* the n'th message, new records go to the end, removing one moves the     *)
(* later ones down (the users of sq_idx.c: sq_msg.c, sq_write.c,           *)
(* sq_kill.c).                                                             *)
EXTENDS Integers, Sequences

CONSTANT Record

VARIABLE recs

Init == recs = <<>>

Append1(r) == recs' = Append(recs, r)

Store(n, r) == recs' = [recs EXCEPT ![n] = r]

Remove(n) ==
  recs' = SubSeq(recs, 1, n - 1) \o SubSeq(recs, n + 1, Len(recs))

(* k records after the first s are dropped and a new one is appended.      *)
Drop(s, k, r) ==
  recs' = SubSeq(recs, 1, s) \o SubSeq(recs, s + k + 1, Len(recs)) \o <<r>>

Next ==
  \/ \E r \in Record : Append1(r)
  \/ \E n \in 1 .. Len(recs), r \in Record : Store(n, r)
  \/ \E n \in 1 .. Len(recs) : Remove(n)
  \/ \E s \in 0 .. Len(recs), k \in 1 .. Len(recs), r \in Record :
       s + k <= Len(recs) /\ Drop(s, k, r)

Spec == Init /\ [][Next]_recs
=============================================================================
