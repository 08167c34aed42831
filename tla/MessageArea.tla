---------------------------- MODULE MessageArea ----------------------------
(* What a message area is to the programs that use it: a list of messages  *)
(* in the order they were stored, each with an id that no other message    *)
(* ever has, and a limit on their number.  The operations are those of the *)
(* API in src/smapi/msgapi.h, whatever the format of the base.             *)
EXTENDS Naturals, Sequences

VARIABLES
  msgs,       \* the ids of the messages, oldest first
  next,       \* the id the next new message will get
  max, skip   \* more than max messages (0: any number) are too many; the
              \* first skip of them are never dropped

vars == <<msgs, next, max, skip>>

Init == msgs = <<>> /\ next = 1 /\ max = 0 /\ skip = 0

Without(s, k, d) == SubSeq(s, 1, k) \o SubSeq(s, k + d + 1, Len(s))

(* Messages that go so that a new one fits below the limit.                *)
Excess ==
  LET n == Len(msgs)
  IN IF max = 0 \/ n < max \/ n <= skip THEN 0
     ELSE IF skip < max THEN n - max + 1 ELSE n - skip

(* A new message is announced and gets its id, which makes room for it;    *)
(* the oldest messages go.                                                 *)
Announce ==
  /\ msgs' = IF Excess = 0 THEN msgs ELSE Without(msgs, skip, Excess)
  /\ next' = next + 1
  /\ UNCHANGED <<max, skip>>

(* An announced message is stored at the end.                              *)
Store(u) ==
  /\ \A i \in 1 .. Len(msgs) : msgs[i] < u
  /\ msgs' = Append(msgs, u)
  /\ UNCHANGED <<next, max, skip>>

Kill(i) ==
  /\ msgs' = Without(msgs, i - 1, 1)
  /\ UNCHANGED <<next, max, skip>>

SetLimit ==
  /\ max' \in Nat /\ skip' \in Nat
  /\ UNCHANGED <<msgs, next>>

Next ==
  \/ Announce
  \/ \E u \in 1 .. next - 1 : Store(u)
  \/ \E i \in 1 .. Len(msgs) : Kill(i)
  \/ SetLimit

Spec == Init /\ [][Next]_vars
===========================================================================
