---------------------------- MODULE TaskDispatch ----------------------------
(***************************************************************************)
(* What the thread pool promises its callers, without threads, locks or    *)
(* condition variables: a connection is handed to one of a bounded number  *)
(* of servers in the order in which it was submitted, and its socket is    *)
(* closed exactly once, whether it was served, refused, or still waiting   *)
(* when the pool was taken down.                                           *)
(***************************************************************************)
EXTENDS Sequences

CONSTANTS Clients,      \* connections
          Servers,      \* as many of them are served at the same time
          Nobody        \* no connection

VARIABLES phase,        \* "unborn", "held", "waiting", "served" or "closed"
          line,         \* the submitted connections that wait, oldest first
          serving       \* the connection that each server serves

vars == <<phase, line, serving>>

Init == /\ phase = [c \in Clients |-> "unborn"]
        /\ line = <<>>
        /\ serving = [s \in Servers |-> Nobody]

\* The acceptor gets a connection.
Arrive(c) == /\ phase[c] = "unborn"
             /\ phase' = [phase EXCEPT ![c] = "held"]
             /\ UNCHANGED <<line, serving>>

\* The acceptor closes it instead of submitting it.
Refuse(c) == /\ phase[c] = "held"
             /\ phase' = [phase EXCEPT ![c] = "closed"]
             /\ UNCHANGED <<line, serving>>

Submit(c) == /\ phase[c] = "held"
             /\ phase' = [phase EXCEPT ![c] = "waiting"]
             /\ line' = Append(line, c)
             /\ UNCHANGED serving

\* A free server takes the connection that has waited longest.
Serve(s, c) == /\ line # <<>>
               /\ c = Head(line)
               /\ serving[s] = Nobody
               /\ serving' = [serving EXCEPT ![s] = c]
               /\ phase' = [phase EXCEPT ![c] = "served"]
               /\ line' = Tail(line)

Finish(s, c) == /\ serving[s] = c
                /\ phase[c] = "served"
                /\ serving' = [serving EXCEPT ![s] = Nobody]
                /\ phase' = [phase EXCEPT ![c] = "closed"]
                /\ UNCHANGED line

\* Shutdown: every connection that still waits is closed unserved.
Abandon == /\ line # <<>>
           /\ phase' = [c \in Clients |->
                          IF phase[c] = "waiting" THEN "closed" ELSE phase[c]]
           /\ line' = <<>>
           /\ UNCHANGED serving

Next == \/ \E c \in Clients : \/ Arrive(c) \/ Refuse(c) \/ Submit(c)
                              \/ \E s \in Servers : Serve(s, c) \/ Finish(s, c)
        \/ Abandon

Spec == Init /\ [][Next]_vars
=============================================================================
