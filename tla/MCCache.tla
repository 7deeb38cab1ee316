------------------------------- MODULE MCCache -------------------------------
(* Hash functions for TLC: all URLs collide, or one stands apart.          *)
EXTENDS Cache

OneBucket  == [u \in Urls |-> 0]
OneApart   == LET a == CHOOSE u \in Urls : TRUE IN [u \in Urls |-> IF u = a THEN 1 ELSE 0]
Symmetric  == Permutations(Nodes)
=============================================================================
