---------------------------- MODULE MCEventStream ----------------------------
(* Two indexers: one follows a transaction with two legs and one with a     *)
(* single leg, the other one a transaction of its own.                      *)
EXTENDS EventStream

CONSTANTS x, y

MCTxOf == [l \in Leg |-> CASE l \in {1, 2} -> "a" [] l = 3 -> "b" [] OTHER -> "c"]
\* Every leg goes through one transition, or those of the first indexer two.
One == [l \in Leg |-> 1]
Two == [l \in Leg |-> IF l = 4 THEN 1 ELSE 2]
MCIxOf == [l \in Leg |-> IF l = 4 THEN y ELSE x]
=============================================================================
