-------------------------- MODULE ConnectionKeeper --------------------------
(***************************************************************************)
(* What the connection pool promises (src/include/proxy/connection_pool.h):*)
(* it keeps a bounded number of idle connections under the names of their  *)
(* servers, lends them, and takes them back.  There are no slots, counters,*)
(* ages or locks, and no closed or client descriptors.                     *)
(*                                                                         *)
(* A connection is known by its number.  A number that was lent and not    *)
(* given back stays lent, also when its connection has failed: then a new  *)
(* connection may get the number, and goes under the old name.             *)
(***************************************************************************)
EXTENDS Integers, FiniteSets

CONSTANTS Workers, Hosts, Fds, NoFd, MAX_POOL_SIZE

VARIABLES
  idle, lent,  \* what is kept, and what is out, each with its name
  pc, host,    \* per worker: where it is, and the server of its request
  uses,        \* per worker: the connection it uses
  over         \* the pool was destroyed

vars == <<idle, lent, pc, host, uses, over>>

Init == /\ idle = {} /\ lent = {}
        /\ pc = [w \in Workers |-> "idle"]
        /\ host \in [Workers -> Hosts]
        /\ uses = [w \in Workers |-> NoFd]
        /\ over = FALSE

Go(w, from, to) == pc[w] = from /\ pc' = [pc EXCEPT ![w] = to]

Ask(w, h) == /\ Go(w, "idle", "get") /\ ~over
             /\ host' = [host EXCEPT ![w] = h]
             /\ UNCHANGED <<idle, lent, uses, over>>

For(h)     == {e \in idle : e.host = h}
Numbers(S) == {e.socket_fd : e \in S}

\* One for the server is lent; others for it may be dropped.
Take(w) ==
  /\ Go(w, "get", "use")
  /\ \E e \in For(host[w]), gone \in SUBSET For(host[w]) :
       /\ e \notin gone
       /\ idle' = idle \ (gone \cup {e})
       /\ lent' = lent \cup {e}
       /\ uses' = [uses EXCEPT ![w] = e.socket_fd]
  /\ UNCHANGED <<host, over>>

\* A new one is made only when none is left.
TakeNone(w) ==
  /\ Go(w, "get", "make")
  /\ idle' = idle \ For(host[w])
  /\ UNCHANGED <<lent, host, uses, over>>

\* A new connection is none of those that are kept or used.
Make(w) ==
  /\ Go(w, "make", "use")
  /\ \E f \in Fds \ (Numbers(idle) \cup {uses[v] : v \in Workers}) : uses' = [uses EXCEPT ![w] = f]
  /\ UNCHANGED <<idle, lent, host, over>>

\* The server is not reached, or the request is over.
Proceed(w) == /\ Go(w, "make", "done") \/ Go(w, "use", "return") \/ Go(w, "done", "idle")
              /\ UNCHANGED <<idle, lent, host, uses, over>>

\* The connection fails.
Lose(w) == /\ Go(w, "use", "done")
           /\ uses' = [uses EXCEPT ![w] = NoFd]
           /\ UNCHANGED <<idle, lent, host, over>>

\* What w uses of what was lent, and the name a new connection of its goes under.
Borrowed(w) == {e \in lent : e.socket_fd = uses[w]}
Made(w)     == [socket_fd |-> uses[w], host |-> host[w]]
HasRoom     == Cardinality(idle \cup lent) < MAX_POOL_SIZE

\* What was lent goes back under its name, what was made under that of its server,
\* if there is room.
GiveBack(w) == \E e \in Borrowed(w) : idle' = idle \cup {e} /\ lent' = lent \ {e}
GiveNew(w)  == /\ Borrowed(w) = {} /\ lent' = lent
               /\ idle' = IF HasRoom THEN idle \cup {Made(w)} ELSE idle

Give(w) ==
  /\ Go(w, "return", "done")
  /\ uses' = [uses EXCEPT ![w] = NoFd]
  /\ GiveBack(w) \/ GiveNew(w)
  /\ UNCHANGED <<host, over>>

Expire == /\ \E gone \in SUBSET idle : idle' = idle \ gone
          /\ UNCHANGED <<lent, pc, host, uses, over>>

Destroy == /\ \A w \in Workers : pc[w] = "idle"
           /\ idle' = {} /\ lent' = {} /\ over' = TRUE
           /\ UNCHANGED <<pc, host, uses>>

Next == \/ \E w \in Workers : \/ \E h \in Hosts : Ask(w, h)
                              \/ Take(w) \/ TakeNone(w) \/ Make(w)
                              \/ Proceed(w) \/ Lose(w) \/ Give(w)
        \/ Expire \/ Destroy

Spec == Init /\ [][Next]_vars
=============================================================================
