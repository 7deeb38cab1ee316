---------------------------- MODULE RequestParser ----------------------------
(***************************************************************************)
(* ParsedRequest_parse (src/components/http_parser.c), called by several   *)
(* workers at once.  It cuts a copy of the request line into method, path  *)
(* and version with strtok, which keeps the place where it goes on in a    *)
(* static variable: one for the whole process in the C library of Linux,   *)
(* one per thread in that of Windows.                                      *)
(*                                                                         *)
(* A place in a line is the number of the next token, 1 to 3, or End.      *)
(* Since a token is known by its line and number, a request that was       *)
(* parsed tells whose request line each of its fields comes from.          *)
(***************************************************************************)
EXTENDS Integers, Sequences

CONSTANTS
  Workers,
  Clients,       \* bound: each sends one request, with a line of its own
  NoClient,
  SharedStrtok   \* whether strtok has one static variable for all threads

End == 4

VARIABLES
  pc, client,  \* per worker: where it is, and whose request it parses
  lines,       \* the request lines that are malloc'd
  position,    \* what strtok remembers, as each worker sees it
  cut,         \* tokens that were ended with a NUL
  tokens,      \* per worker: what its calls of strtok have returned
  parsed,      \* the ParsedRequest of each client, once it is there
  undefined    \* a worker has read freed memory, or gone on without a path

vars == <<pc, client, lines, position, cut, tokens, parsed, undefined>>

Nothing == [line |-> NoClient, at |-> End]
None    == <<>>

Init == /\ pc = [w \in Workers |-> "idle"]
        /\ client = [w \in Workers |-> NoClient]
        /\ lines = {} /\ cut = {}
        /\ position = [w \in Workers |-> Nothing]
        /\ tokens = [w \in Workers |-> <<>>]
        /\ parsed = [c \in Clients |-> None]
        /\ undefined = FALSE

Go(w, from, to) == ~undefined /\ pc[w] = from /\ pc' = [pc EXCEPT ![w] = to]

-----------------------------------------------------------------------------
(* strtok.                                                                 *)

Remember(w, p) == position' = [v \in Workers |-> IF SharedStrtok \/ v = w THEN p ELSE position[v]]

\* After token t, it goes on behind it.  Where another thread has put a NUL behind
\* t already, the line may seem to end there.
Behind(t) == IF t.at >= 3 THEN {End} ELSE {t.at + 1} \cup (IF t \in cut THEN {End} ELSE {})

StrtokStores(w) ==
  LET t == tokens[w][Len(tokens[w])]
  IN  /\ Go(w, "store", IF Len(tokens[w]) = 3 THEN "copy" ELSE "next")
      /\ \E at \in Behind(t) : Remember(w, [line |-> t.line, at |-> at])
      /\ cut' = cut \cup {t}
      /\ UNCHANGED <<client, lines, tokens, parsed, undefined>>

\* The calls with NULL begin where the last call ended, whoever made it.
StrtokGoesOn(w) ==
  /\ Go(w, "next", "store")
  /\ position[w].line \in lines
  /\ tokens' = [tokens EXCEPT ![w] = Append(@, position[w])]
  /\ UNCHANGED <<client, lines, position, cut, parsed, undefined>>

-----------------------------------------------------------------------------
(* ParsedRequest_parse.                                                    *)

\* The request line is copied, and strtok called with it.
Begin(w, c) ==
  /\ Go(w, "idle", "store")
  /\ c \notin {client[v] : v \in Workers} /\ parsed[c] = None
  /\ client' = [client EXCEPT ![w] = c]
  /\ lines' = lines \cup {c}
  /\ tokens' = [tokens EXCEPT ![w] = <<[line |-> c, at |-> 1]>>]
  /\ UNCHANGED <<position, cut, parsed, undefined>>

\* What the worker copies exists, and there is a path, without which
\* forward_request_to_server passes NULL to strstr.
Sound(w) == /\ \A i \in 1..3 : tokens[w][i].line \in lines
            /\ tokens[w][2].at # End

\* The tokens are copied, the line is freed; then the Host header, of which there may
\* be none, is found in the worker's own buffer.
Copy(w) ==
  /\ Go(w, "copy", "idle") /\ Sound(w)
  /\ \E host \in {client[w], NoClient} :
       parsed' = [parsed EXCEPT ![client[w]] =
                    [method |-> tokens[w][1], path |-> tokens[w][2],
                     version |-> tokens[w][3], host |-> host]]
  /\ lines' = lines \ {client[w]}
  /\ client' = [client EXCEPT ![w] = NoClient]
  /\ tokens' = [tokens EXCEPT ![w] = <<>>]
  /\ UNCHANGED <<position, cut, undefined>>

Undefined(w) ==
  /\ ~undefined
  /\ \/ pc[w] = "next" /\ position[w].line \notin lines
     \/ pc[w] = "copy" /\ ~Sound(w)
  /\ undefined' = TRUE
  /\ UNCHANGED <<pc, client, lines, position, cut, tokens, parsed>>

Next == \E w \in Workers : \/ \E c \in Clients : Begin(w, c)
                           \/ StrtokGoesOn(w) \/ StrtokStores(w)
                           \/ Copy(w) \/ Undefined(w)

Spec == Init /\ [][Next]_vars

-----------------------------------------------------------------------------
(* What must hold.                                                         *)

\* What is asked of the server, method and path, comes from the client's own request
\* line, however many workers parse at once (README.md:154, "Concurrent request
\* handling and thread safety").
OwnRequest == \A c \in Clients : parsed[c] # None =>
                /\ parsed[c].method = [line |-> c, at |-> 1]
                /\ parsed[c].path   = [line |-> c, at |-> 2]
=============================================================================
