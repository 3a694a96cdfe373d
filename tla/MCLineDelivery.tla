-------------------------- MODULE MCLineDelivery --------------------------
(* Small instances of LineDelivery for TLC. *)
EXTENDS LineDelivery, TLC

CONSTANTS o1, r1, r2, p1, p2, l1, l2

\* One process: its lanes share claimed_by.
sameProcess  == [l \in Lane |-> p1]
\* Each lane in a process of its own.
ownProcess   == (l1 :> p1) @@ (l2 :> p2)

symmetricRecipients == Permutations(Recipient)
=============================================================================
