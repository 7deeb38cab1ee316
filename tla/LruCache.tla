------------------------------ MODULE LruCache ------------------------------
(***************************************************************************)
(* What the response cache promises (src/include/proxy/cache.h): a list of *)
(* entries in the order of their last use, which forgets from its end.     *)
(* There are no buckets, chains, pointers, nodes or locks.                 *)
(*                                                                         *)
(* A worker that was asked for a URL finds a fresh entry for it, or finds  *)
(* none and may add one later.  Entries with the same URL may coexist; the *)
(* first one counts.                                                       *)
(***************************************************************************)
EXTENDS Integers, SequencesExt

CONSTANTS Workers, Urls, CACHE_SIZE, CACHE_EXPIRY_TIME

VARIABLES
  entries,  \* most recently used first
  pc, arg,  \* per worker: where it is, and the URL it was asked for
  over      \* the cache was destroyed

vars == <<entries, pc, arg, over>>

Init == /\ entries = <<>>
        /\ pc = [w \in Workers |-> "idle"]
        /\ arg \in [Workers -> Urls]
        /\ over = FALSE

Go(w, from, to) == pc[w] = from /\ pc' = [pc EXCEPT ![w] = to]

Ask(w, u) == /\ Go(w, "idle", "get") /\ ~over
             /\ arg' = [arg EXCEPT ![w] = u]
             /\ UNCHANGED <<entries, over>>

Fresh(u) == LET S == {i \in DOMAIN entries : entries[i].url = u}
            IN  {i \in S : /\ \A j \in S : i <= j
                           /\ entries[i].age < CACHE_EXPIRY_TIME}

\* The entry found moves to the front.
Find(w) == /\ Go(w, "get", "send")
           /\ \E i \in Fresh(arg[w]) : entries' = <<entries[i]>> \o RemoveAt(entries, i)
           /\ UNCHANGED <<arg, over>>

FindNothing(w) == /\ Go(w, "get", "fetch")
                  /\ Fresh(arg[w]) = {}
                  /\ UNCHANGED <<entries, arg, over>>

\* The worker has sent what it found, or has an answer of the server's, or has not.
Proceed(w) == /\ Go(w, "send", "idle") \/ Go(w, "fetch", "add") \/ Go(w, "fetch", "idle")
              /\ UNCHANGED <<entries, arg, over>>

\* Room is made at the end of a full list, and only there.
Room == IF Len(entries) = CACHE_SIZE THEN Front(entries) ELSE entries

Add(w) == /\ Go(w, "add", "idle")
          /\ \/ entries' = <<[url |-> arg[w], age |-> 0]>> \o Room
             \/ entries' = Room  \* no memory for it
          /\ UNCHANGED <<arg, over>>

\* An expired entry is dropped, wherever it is.
Expire == /\ \E i \in DOMAIN entries : /\ entries[i].age = CACHE_EXPIRY_TIME
                                       /\ entries' = RemoveAt(entries, i)
          /\ UNCHANGED <<pc, arg, over>>

Older(e) == [e EXCEPT !.age = IF @ < CACHE_EXPIRY_TIME THEN @ + 1 ELSE @]
Tick == /\ entries' = [i \in DOMAIN entries |-> Older(entries[i])]
        /\ UNCHANGED <<pc, arg, over>>

Destroy == /\ \A w \in Workers : pc[w] = "idle"
           /\ entries' = <<>> /\ over' = TRUE
           /\ UNCHANGED <<pc, arg>>

Next == \/ \E w \in Workers : \/ \E u \in Urls : Ask(w, u)
                              \/ Find(w) \/ FindNothing(w) \/ Proceed(w) \/ Add(w)
        \/ Expire \/ Tick \/ Destroy

Spec == Init /\ [][Next]_vars
=============================================================================
