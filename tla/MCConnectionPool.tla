-------------------------- MODULE MCConnectionPool --------------------------
(* The symmetry of ConnectionPool: descriptors are interchangeable, and so *)
(* are workers.                                                            *)
EXTENDS ConnectionPool, TLC

Symmetric == Permutations(Fds) \cup Permutations(Workers)
=============================================================================
