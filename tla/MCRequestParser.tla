--------------------------- MODULE MCRequestParser ---------------------------
(* Two workers and two clients suffice, and they are interchangeable.      *)
EXTENDS RequestParser, TLC

Interchangeable == Permutations(Workers) \cup Permutations(Clients)
=============================================================================
