------------------------ MODULE ConnectionPoolProofs ------------------------
(***************************************************************************)
(* Theorems about ConnectionPool, for every set of workers, hosts and      *)
(* descriptors and every size of the pool.                                 *)
(*                                                                         *)
(* The invariants:                                                         *)
(*   Types, Distinct   the types; no two slots name one descriptor         *)
(*   Owned             who has which descriptor at which place: clients,   *)
(*                     servers in use, connections found, idle slots; that *)
(*                     these exclude each other, and none is lost          *)
(*   Counted           pool_size is the number of occupied slots           *)
(*   Heading           where the connections in use lead, but for those    *)
(*                     that a failure left in a slot or that were made     *)
(*                     with another thread's gethostbyname result          *)
(***************************************************************************)
EXTENDS ConnectionPool, TLAPS, FiniteSetTheorems, MinFacts

Places == {"idle", "get", "found", "create", "connect", "exchange", "return", "done"}
Record == [socket_fd : Fds \cup {NoFd}, host : Hosts, in_use : BOOLEAN, unused : 0..CONNECTION_TIMEOUT]

\* The types, and how often a worker has tried to connect.
Types ==
  /\ connections \in [Slots -> Record]
  /\ pool_size \in Int
  /\ fd \in [Fds -> Hosts \cup {Closed, Client, Unconnected}]
  /\ hostent \in [Workers -> Hosts] /\ host \in [Workers -> Hosts]
  /\ pc \in [Workers -> Places]
  /\ client_socket \in [Workers -> Fds \cup {NoFd}]
  /\ server_socket \in [Workers -> Fds \cup {NoFd}]
  /\ slot \in [Workers -> Slots \cup {NoSlot}]
  /\ attempts \in [Workers -> 0..2]
  /\ stray \subseteq Slots /\ crossed \subseteq Fds /\ destroyed \in BOOLEAN
  /\ \A w \in Workers : /\ slot[w] = NoSlot <=> pc[w] # "found"
                        /\ pc[w] \in {"get", "create"} => attempts[w] <= 1
                        /\ pc[w] = "connect" => server_socket[w] \in Fds

\* No two slots name one descriptor.
Distinct == \A i, j \in Slots : Occupied(connections[i])
              /\ connections[i].socket_fd = connections[j].socket_fd => i = j

-----------------------------------------------------------------------------
(* Types.                                                                  *)

LEMMA Sizes == /\ AnyHost \in Hosts /\ Empty \in Record /\ NoSlot \notin Slots
               /\ CONNECTION_TIMEOUT \in Nat \ {0} /\ MAX_POOL_SIZE \in Nat \ {0}
<1>1. AnyHost \in Hosts
  BY HostsAssumption DEF AnyHost
<1> QED
  BY <1>1, SizesAssumption DEF Empty, Record, Slots, NoSlot

\* What closing the slots of a set does.
LEMMA ReleaseEffect ==
  ASSUME Types, NEW S \in SUBSET Slots, Release(S)
  PROVE  /\ \A f \in Fds : fd'[f] = IF \E i \in S : connections[i].socket_fd = f THEN Closed ELSE fd[f]
         /\ fd' \in [Fds -> Hosts \cup {Closed, Client, Unconnected}]
         /\ pool_size' \in Int /\ stray' \subseteq Slots
         /\ pool_size' = pool_size - Cardinality(S) /\ stray' = stray \ S
         /\ crossed' = crossed \ {connections[i].socket_fd : i \in S} /\ crossed' \subseteq Fds
         /\ Cleared(S) \in [Slots -> Record]
         /\ \A i \in Slots : Cleared(S)[i] = IF i \in S THEN Empty ELSE connections[i]
<1>1. IsFiniteSet(S)
  <2>1. IsFiniteSet(Slots)
    BY Sizes, FS_Interval DEF Slots
  <2> QED
    BY <2>1, FS_Subset
<1>2. Cardinality(S) \in Int
  BY <1>1, FS_CardinalityType
<1>3. \A f \in Fds : fd'[f] = IF \E i \in S : connections[i].socket_fd = f THEN Closed ELSE fd[f]
  BY DEF Release, Close, FdsOf
<1>4. fd' \in [Fds -> Hosts \cup {Closed, Client, Unconnected}]
  BY DEF Release, Close, Types
<1>6. crossed' = crossed \ {connections[i].socket_fd : i \in S} /\ crossed' \subseteq Fds
  BY DEF Release, Close, FdsOf, Types
<1>5. Cleared(S) \in [Slots -> Record] /\ \A i \in Slots : Cleared(S)[i] = IF i \in S THEN Empty ELSE connections[i]
  BY Sizes DEF Cleared, Types
<1> QED
  BY <1>2, <1>3, <1>4, <1>5, <1>6 DEF Release, Types

\* The first slot of a set.
LEMMA MinElement ==
  ASSUME NEW S \in SUBSET Slots, S # {}
  PROVE  Min(S) \in S
<1>1. S \in SUBSET Nat
  BY Sizes DEF Slots
<1> QED
  BY <1>1, Smallest

\* The pool's operations, slot by slot.  A sweep clears idle slots.
Sweep(gone) == /\ gone \subseteq Idle /\ Release(gone)
               /\ connections' \in [Slots -> Record]

LEMMA Marked ==
  ASSUME NEW c \in Record, NEW b \in BOOLEAN
  PROVE  /\ [c EXCEPT !.in_use = b, !.unused = 0] \in Record
         /\ [c EXCEPT !.in_use = b, !.unused = 0].in_use = b
         /\ [c EXCEPT !.in_use = b, !.unused = 0].socket_fd = c.socket_fd
         /\ [c EXCEPT !.in_use = b, !.unused = 0].host = c.host
<1>1. 0 \in 0..CONNECTION_TIMEOUT
  BY Sizes
<1> QED
  BY <1>1 DEF Record

LEMMA ReuseEffect ==
  ASSUME Types, NEW w \in Workers, Reuse(w)
  PROVE  \E i \in Slots, gone \in SUBSET Slots :
           /\ Sweep(gone) /\ i \in Idle \ gone
           /\ connections[i].host = host[w]
           /\ \A j \in Slots \ {i} : connections'[j] = IF j \in gone THEN Empty ELSE connections[j]
           /\ connections'[i].socket_fd = connections[i].socket_fd
           /\ connections'[i].host = connections[i].host /\ connections'[i].in_use
           /\ slot' = [slot EXCEPT ![w] = i]
<1> DEFINE i == Min(Usable(host[w]))
           gone == Expired(host[w])
<1>1. Usable(host[w]) \in SUBSET Slots /\ Usable(host[w]) # {}
  BY DEF Reuse, Usable, Fitting
<1>2. i \in Usable(host[w])
  BY <1>1, MinElement
<1>3. i \in Slots /\ i \in Idle \ gone /\ connections[i].host = host[w]
  BY <1>2 DEF Usable, Expired, Fitting, Idle
<1>4. gone \subseteq Idle /\ gone \in SUBSET Slots
  BY DEF Expired, Fitting, Idle
<1>5. /\ connections' = [Cleared(gone) EXCEPT ![i].in_use = TRUE, ![i].unused = 0]
      /\ slot' = [slot EXCEPT ![w] = i] /\ Release(gone)
  BY DEF Reuse
<1> HIDE DEF i, gone
<1>6. /\ Cleared(gone) \in [Slots -> Record]
      /\ \A j \in Slots : Cleared(gone)[j] = IF j \in gone THEN Empty ELSE connections[j]
  BY <1>4, <1>5, ReleaseEffect
<1>7. /\ connections'[i] = [connections[i] EXCEPT !.in_use = TRUE, !.unused = 0]
      /\ \A j \in Slots \ {i} : connections'[j] = IF j \in gone THEN Empty ELSE connections[j]
  BY <1>3, <1>5, <1>6 DEF Types, Record
<1>8. /\ connections'[i] \in Record
      /\ connections'[i].socket_fd = connections[i].socket_fd
      /\ connections'[i].host = connections[i].host /\ connections'[i].in_use
  <2>1. connections[i] \in Record
    BY <1>3 DEF Types
  <2> QED
    BY <1>7, <2>1, Marked
<1>9. connections' \in [Slots -> Record]
  <2>1. connections' = [j \in Slots |-> IF j = i THEN connections'[i] ELSE Cleared(gone)[j]]
    BY <1>3, <1>5, <1>6
  <2> QED
    BY <1>6, <1>8, <2>1
<1> QED
  BY <1>3, <1>4, <1>5, <1>7, <1>8, <1>9 DEF Sweep

LEMMA SweepEffect ==
  ASSUME Types, NEW gone \in SUBSET Slots, gone \subseteq Idle,
         connections' = Cleared(gone), Release(gone)
  PROVE  /\ Sweep(gone)
         /\ \A j \in Slots : connections'[j] = IF j \in gone THEN Empty ELSE connections[j]
BY ReleaseEffect DEF Sweep

LEMMA NothingUsableEffect ==
  ASSUME Types, NEW w \in Workers, NothingUsable(w)
  PROVE  \E gone \in SUBSET Slots :
           /\ Sweep(gone)
           /\ \A j \in Slots : connections'[j] = IF j \in gone THEN Empty ELSE connections[j]
<1>1. Expired(host[w]) \in SUBSET Slots /\ Expired(host[w]) \subseteq Idle
  BY DEF Expired, Fitting, Idle
<1>2. connections' = Cleared(Expired(host[w])) /\ Release(Expired(host[w]))
  BY DEF NothingUsable
<1> QED
  BY <1>1, <1>2, SweepEffect

LEMMA CleanupEffect ==
  ASSUME Types, Cleanup
  PROVE  \E gone \in SUBSET Slots :
           /\ Sweep(gone)
           /\ \A j \in Slots : connections'[j] = IF j \in gone THEN Empty ELSE connections[j]
<1> DEFINE gone == {i \in Slots : LET c == connections[i]
                                  IN  Occupied(c) /\ ~c.in_use /\ TimedOut(c)}
<1>1. gone \in SUBSET Slots /\ gone \subseteq Idle
  BY DEF Idle
<1>2. connections' = Cleared(gone) /\ Release(gone)
  BY DEF Cleanup
<1> HIDE DEF gone
<1> QED
  BY <1>1, <1>2, SweepEffect

LEMMA ReturnToSlotEffect ==
  ASSUME Types, NEW w \in Workers, ReturnToSlot(w)
  PROVE  \E i \in Slots :
           /\ connections[i].socket_fd = server_socket[w]
           /\ connections'[i].socket_fd = connections[i].socket_fd
           /\ connections'[i].host = connections[i].host /\ ~connections'[i].in_use
           /\ \A j \in Slots \ {i} : connections'[j] = connections[j]
           /\ connections' \in [Slots -> Record]
<1> DEFINE i == Min(SlotsOf(server_socket[w]))
<1>1. SlotsOf(server_socket[w]) \in SUBSET Slots /\ SlotsOf(server_socket[w]) # {}
  BY DEF ReturnToSlot, SlotsOf
<1>2. i \in SlotsOf(server_socket[w])
  BY <1>1, MinElement
<1>3. i \in Slots /\ connections[i].socket_fd = server_socket[w]
  BY <1>2 DEF SlotsOf
<1>4. connections' = [connections EXCEPT ![i] = [@ EXCEPT !.in_use = FALSE, !.unused = 0]]
  BY DEF ReturnToSlot
<1> HIDE DEF i
<1>5. connections' = [connections EXCEPT ![i] = [connections[i] EXCEPT !.in_use = FALSE, !.unused = 0]]
  BY <1>4
<1> DEFINE c == [connections[i] EXCEPT !.in_use = FALSE, !.unused = 0]
<1>6. /\ c \in Record /\ c.socket_fd = connections[i].socket_fd
      /\ c.host = connections[i].host /\ ~c.in_use
  <2>1. connections[i] \in Record
    BY <1>3 DEF Types
  <2> QED
    BY <2>1, Marked
<1> HIDE DEF c
<1>7. connections' = [connections EXCEPT ![i] = c]
  BY <1>5 DEF c
<1> QED
  BY <1>3, <1>6, <1>7 DEF Types

LEMMA ReturnNewEffect ==
  ASSUME Types, NEW w \in Workers, ReturnNew(w)
  PROVE  \E i \in Slots :
           /\ ~Occupied(connections[i])
           /\ \A j \in Slots : connections[j].socket_fd # server_socket[w]
           /\ connections'[i] = [socket_fd |-> server_socket[w], host |-> host[w], in_use |-> FALSE, unused |-> 0]
           /\ \A j \in Slots \ {i} : connections'[j] = connections[j]
           /\ connections' \in [Slots -> Record]
<1> DEFINE i == Min(EmptySlots)
           c == [socket_fd |-> server_socket[w], host |-> host[w], in_use |-> FALSE, unused |-> 0]
<1>1. EmptySlots \in SUBSET Slots /\ EmptySlots # {}
  BY DEF ReturnNew, EmptySlots
<1>2. i \in EmptySlots
  BY <1>1, MinElement
<1>3. i \in Slots /\ ~Occupied(connections[i])
  BY <1>2 DEF EmptySlots
<1>4. connections' = [connections EXCEPT ![i] = c]
  BY DEF ReturnNew
<1>5. c \in Record
  BY Sizes DEF Types, Record
<1>6. \A j \in Slots : connections[j].socket_fd # server_socket[w]
  BY DEF ReturnNew, SlotsOf
<1> HIDE DEF i
<1> QED
  BY <1>3, <1>4, <1>5, <1>6 DEF Types

LEMMA TickEffect ==
  ASSUME Types, Tick
  PROVE  /\ connections' \in [Slots -> Record]
         /\ \A j \in Slots : /\ connections'[j].socket_fd = connections[j].socket_fd
                             /\ connections'[j].host = connections[j].host
                             /\ connections'[j].in_use = connections[j].in_use
<1> DEFINE t(j) == IF Occupied(connections[j]) /\ connections[j].unused < CONNECTION_TIMEOUT
                   THEN connections[j].unused + 1 ELSE connections[j].unused
<1>1. connections' = [j \in Slots |-> [connections[j] EXCEPT !.unused = t(j)]]
  BY DEF Tick
<1>2. ASSUME NEW j \in Slots
      PROVE  /\ [connections[j] EXCEPT !.unused = t(j)] \in Record
             /\ [connections[j] EXCEPT !.unused = t(j)].socket_fd = connections[j].socket_fd
             /\ [connections[j] EXCEPT !.unused = t(j)].host = connections[j].host
             /\ [connections[j] EXCEPT !.unused = t(j)].in_use = connections[j].in_use
  <2>1. connections[j] \in Record /\ t(j) \in 0..CONNECTION_TIMEOUT
    BY Sizes DEF Types, Record
  <2> HIDE DEF t
  <2> QED
    BY <2>1 DEF Record
<1> HIDE DEF t
<1> QED
  BY <1>1, <1>2

LEMMA InitTypes == Init => Types /\ Distinct
<1> SUFFICES ASSUME Init PROVE Types /\ Distinct
  OBVIOUS
<1>1. /\ 0 \in 0..2 /\ Empty \in Record /\ AnyHost \in Hosts
  BY Sizes
<1>2. Types
  <2>1. connections \in [Slots -> Record] /\ pool_size \in Int
    BY <1>1 DEF Init
  <2>2. hostent \in [Workers -> Hosts] /\ host \in [Workers -> Hosts] /\ attempts \in [Workers -> 0..2]
    BY <1>1 DEF Init
  <2>3. /\ fd \in [Fds -> Hosts \cup {Closed, Client, Unconnected}]
        /\ pc \in [Workers -> Places]
        /\ client_socket \in [Workers -> Fds \cup {NoFd}]
        /\ server_socket \in [Workers -> Fds \cup {NoFd}]
        /\ slot \in [Workers -> Slots \cup {NoSlot}]
        /\ stray \subseteq Slots /\ crossed \subseteq Fds /\ destroyed \in BOOLEAN
        /\ \A w \in Workers : slot[w] = NoSlot /\ pc[w] = "idle"
    BY DEF Init, Places
  <2> QED
    BY <2>1, <2>2, <2>3 DEF Types
<1>3. Distinct
  BY DEF Init, Distinct, Occupied, Empty
<1> QED
  BY <1>2, <1>3

LEMMA CloseEffect ==
  ASSUME Types, NEW S, Close(S)
  PROVE  /\ fd' \in [Fds -> Hosts \cup {Closed, Client, Unconnected}]
         /\ \A f \in Fds : fd'[f] = IF f \in S THEN Closed ELSE fd[f]
         /\ crossed' = crossed \ S /\ crossed' \subseteq Fds
BY DEF Types, Close

LEMMA StepTypes == Types /\ [Next]_vars => Types'
<1> SUFFICES ASSUME Types, [Next]_vars PROVE Types'
  OBVIOUS
<1> USE DEF Go, poolVars, fdVars, workVars
<1> USE DEF Types
<1>s. /\ 0 \in 0..2 /\ 0 \in 0..1 /\ \A n \in 0..2 : n <= 1 => n + 1 \in 0..2
      /\ NoSlot \notin Slots
  BY Sizes
<1>1. ASSUME NEW w \in Workers, Begin(w) PROVE Types'
  BY <1>1, <1>s DEF Begin, NewFds, Free, Places
<1>2. ASSUME NEW w \in Workers, End(w) PROVE Types'
  BY <1>2, CloseEffect DEF End, Places
<1>3. ASSUME NEW w \in Workers, Reuse(w) PROVE Types'
  <2>1. PICK i \in Slots, gone \in SUBSET Slots :
          Sweep(gone) /\ slot' = [slot EXCEPT ![w] = i]
    BY <1>3, ReuseEffect
  <2>2. /\ connections' \in [Slots -> Record]
        /\ fd' \in [Fds -> Hosts \cup {Closed, Client, Unconnected}]
        /\ pool_size' \in Int /\ stray' \subseteq Slots /\ crossed' \subseteq Fds
    BY <2>1, ReleaseEffect DEF Sweep
  <2> QED
    BY <1>3, <1>s, <2>1, <2>2 DEF Reuse, Places
<1>4. ASSUME NEW w \in Workers, NothingUsable(w) PROVE Types'
  <2>1. PICK gone \in SUBSET Slots : Sweep(gone)
    BY <1>4, NothingUsableEffect
  <2>2. /\ connections' \in [Slots -> Record]
        /\ fd' \in [Fds -> Hosts \cup {Closed, Client, Unconnected}]
        /\ pool_size' \in Int /\ stray' \subseteq Slots /\ crossed' \subseteq Fds
    BY <2>1, ReleaseEffect DEF Sweep
  <2> QED
    BY <1>4, <2>2 DEF NothingUsable, Places
<1>5. CASE Cleanup
  <2>1. PICK gone \in SUBSET Slots : Sweep(gone)
    BY <1>5, CleanupEffect
  <2>2. /\ connections' \in [Slots -> Record]
        /\ fd' \in [Fds -> Hosts \cup {Closed, Client, Unconnected}]
        /\ pool_size' \in Int /\ stray' \subseteq Slots /\ crossed' \subseteq Fds
    BY <2>1, ReleaseEffect DEF Sweep
  <2> QED
    BY <1>5, <2>2 DEF Cleanup
<1>6. ASSUME NEW w \in Workers, ReadSlot(w) PROVE Types'
  <2>1. connections[slot[w]].socket_fd \in Fds \cup {NoFd}
    BY <1>6 DEF ReadSlot, Record
  <2> QED
    BY <1>6, <1>s, <2>1 DEF ReadSlot, Places
<1>7. ASSUME NEW w \in Workers, Resolve(w) PROVE Types'
  <2>1. attempts[w] + 1 \in 0..2
    BY <1>7 DEF Resolve
  <2>2. hostent' \in [Workers -> Hosts]
    BY <1>7 DEF Resolve
  <2> QED
    BY <1>7, <2>1, <2>2 DEF Resolve, NewFds, Free, Places
<1>8. ASSUME NEW w \in Workers, NoSocket(w) PROVE Types'
  <2>1. attempts[w] + 1 \in 0..2 /\ attempts[w] + 1 < 2 => attempts[w] + 1 <= 1
    BY <1>8 DEF NoSocket
  <2> QED
    BY <1>8, <2>1 DEF NoSocket, NextAttempt, Places
<1>9. ASSUME NEW w \in Workers, Connect(w) PROVE Types'
  BY <1>9 DEF Connect, Places
<1>10. ASSUME NEW w \in Workers, ConnectFails(w) PROVE Types'
  <2>1. attempts[w] < 2 => attempts[w] <= 1
    OBVIOUS
  <2> QED
    BY <1>10, <2>1, CloseEffect DEF ConnectFails, NextAttempt, Places
<1>11. ASSUME NEW w \in Workers, Exchange(w) PROVE Types'
  BY <1>11 DEF Exchange, Places
<1>12. ASSUME NEW w \in Workers, ServerFails(w) PROVE Types'
  BY <1>12, CloseEffect DEF ServerFails, Places, SlotsOf
<1>13. ASSUME NEW w \in Workers, ReturnToSlot(w) PROVE Types'
  <2>1. connections' \in [Slots -> Record]
    BY <1>13, ReturnToSlotEffect
  <2> QED
    BY <1>13, <2>1 DEF ReturnToSlot, Places
<1>14. ASSUME NEW w \in Workers, ReturnNew(w) PROVE Types'
  <2>1. connections' \in [Slots -> Record]
    BY <1>14, ReturnNewEffect
  <2> QED
    BY <1>14, <2>1 DEF ReturnNew, Places
<1>15. ASSUME NEW w \in Workers, ReturnPoolFull(w) PROVE Types'
  BY <1>15, CloseEffect DEF ReturnPoolFull, Places
<1>16. CASE Tick
  BY <1>16, TickEffect DEF Tick
<1>17. CASE Destroy
  BY <1>17, CloseEffect DEF Destroy
<1>18. CASE UNCHANGED vars
  BY <1>18 DEF vars
<1> HIDE DEF Types
<1> QED
  BY <1>1, <1>2, <1>3, <1>4, <1>5, <1>6, <1>7, <1>8, <1>9, <1>10, <1>11, <1>12, <1>13, <1>14, <1>15,
     <1>16, <1>17, <1>18 DEF Next

LEMMA StepDistinct == Types /\ Distinct /\ [Next]_vars => Distinct'
<1> SUFFICES ASSUME Types, Distinct, [Next]_vars PROVE Distinct'
  OBVIOUS
<1> USE DEF Distinct, Occupied
<1>e. Empty.socket_fd = NoFd
  BY DEF Empty
<1>c. ASSUME \A j \in Slots : connections'[j].socket_fd \in {connections[j].socket_fd, NoFd}
      PROVE  Distinct'
  BY <1>c
<1>1. ASSUME NEW w \in Workers, Reuse(w) PROVE Distinct'
  <2>1. PICK i \in Slots, gone \in SUBSET Slots :
          /\ \A j \in Slots \ {i} : connections'[j] = IF j \in gone THEN Empty ELSE connections[j]
          /\ connections'[i].socket_fd = connections[i].socket_fd
    BY <1>1, ReuseEffect
  <2> QED
    BY <1>c, <1>e, <2>1
<1>2. ASSUME (\E w \in Workers : NothingUsable(w)) \/ Cleanup PROVE Distinct'
  <2>1. PICK gone \in SUBSET Slots :
          \A j \in Slots : connections'[j] = IF j \in gone THEN Empty ELSE connections[j]
    BY <1>2, NothingUsableEffect, CleanupEffect
  <2> QED
    BY <1>c, <1>e, <2>1
<1>3. ASSUME NEW w \in Workers, ReturnToSlot(w) PROVE Distinct'
  <2>1. PICK i \in Slots :
           /\ connections'[i].socket_fd = connections[i].socket_fd
           /\ \A j \in Slots \ {i} : connections'[j] = connections[j]
    BY <1>3, ReturnToSlotEffect
  <2> QED
    BY <1>c, <2>1
<1>4. ASSUME NEW w \in Workers, ReturnNew(w) PROVE Distinct'
  <2>1. PICK i \in Slots :
           /\ \A j \in Slots : connections[j].socket_fd # server_socket[w]
           /\ connections'[i] = [socket_fd |-> server_socket[w], host |-> host[w], in_use |-> FALSE, unused |-> 0]
           /\ \A j \in Slots \ {i} : connections'[j] = connections[j]
    BY <1>4, ReturnNewEffect
  <2>2. connections'[i].socket_fd = server_socket[w]
    BY <2>1
  <2> QED
    BY <2>1, <2>2
<1>5. CASE Tick
  BY <1>5, <1>c, TickEffect
<1>6. CASE UNCHANGED connections
  BY <1>6
<1>7. ASSUME NEW w \in Workers,
             \/ Begin(w) \/ ReadSlot(w) \/ Resolve(w) \/ NoSocket(w) \/ Connect(w) \/ ConnectFails(w)
             \/ Exchange(w) \/ ServerFails(w) \/ ReturnPoolFull(w) \/ End(w)
      PROVE  UNCHANGED connections
  BY <1>7 DEF Begin, ReadSlot, Resolve, NoSocket, Connect, ConnectFails, Exchange, ServerFails, ReturnPoolFull,
     End, poolVars
<1>8. CASE Destroy \/ UNCHANGED vars
  BY <1>6, <1>8 DEF Destroy, vars, poolVars
<1> HIDE DEF Distinct
<1> QED
  BY <1>1, <1>2, <1>3, <1>4, <1>5, <1>6, <1>7, <1>8 DEF Next

-----------------------------------------------------------------------------
(* Who owns which descriptor.                                              *)

Uses == {"connect", "exchange", "return"}
ClientsOwn == \A w \in Workers :
  /\ pc[w] = "idle" <=> client_socket[w] = NoFd
  /\ client_socket[w] # NoFd => fd[client_socket[w]] = Client
  /\ \A v \in Workers \ {w} : client_socket[v] = client_socket[w] => client_socket[w] = NoFd
ServersOwn == \A w \in Workers :
  /\ pc[w] \in Uses <=> server_socket[w] # NoFd
  /\ pc[w] = "connect" => fd[server_socket[w]] = Unconnected
  /\ pc[w] \in {"exchange", "return"} => fd[server_socket[w]] \in Hosts
  /\ \A v \in Workers \ {w} : server_socket[v] = server_socket[w] => server_socket[w] = NoFd
FoundOwn == \A w \in Workers : pc[w] = "found" =>
  /\ Occupied(connections[slot[w]]) /\ connections[slot[w]].in_use
  /\ fd[connections[slot[w]].socket_fd] \in Hosts
  /\ connections[slot[w]].host = host[w]
  /\ \A v \in Workers : server_socket[v] # connections[slot[w]].socket_fd
  /\ \A v \in Workers \ {w} : slot[v] # slot[w]
IdleOwn == ~destroyed => \A i \in Idle :
  /\ fd[connections[i].socket_fd] \in Hosts
  /\ \A v \in Workers : server_socket[v] # connections[i].socket_fd
NoneLost == \A f \in Fds : fd[f] # Closed =>
  \/ \E w \in Workers : client_socket[w] = f \/ server_socket[w] = f
  \/ \E w \in Workers : pc[w] = "found" /\ connections[slot[w]].socket_fd = f
  \/ \E i \in Idle : connections[i].socket_fd = f
AllGone == destroyed => \A w \in Workers : pc[w] = "idle"
Owned == ClientsOwn /\ ServersOwn /\ FoundOwn /\ IdleOwn /\ NoneLost /\ AllGone

LEMMA InitOwned == Init => Owned
<1> SUFFICES ASSUME Init PROVE Owned
  OBVIOUS
<1>1. \A i \in Slots : ~Occupied(connections[i])
  BY DEF Init, Occupied, Empty
<1> QED
  BY <1>1 DEF Init, Owned, ClientsOwn, ServersOwn, FoundOwn, IdleOwn, NoneLost, AllGone, Uses, Idle

LEMMA StepOwned == Types /\ Distinct /\ Owned /\ [Next]_vars => Owned'
<1> SUFFICES ASSUME Types, Distinct, Owned, [Next]_vars PROVE Owned'
  OBVIOUS
<1>0. /\ \A i \in Slots : /\ connections[i].socket_fd \in Fds \cup {NoFd}
                          /\ connections[i].in_use \in BOOLEAN
                          /\ connections[i] \in Record
      /\ fd \in [Fds -> Hosts \cup {Closed, Client, Unconnected}]
      /\ hostent \in [Workers -> Hosts]
      /\ pc \in [Workers -> Places]
      /\ client_socket \in [Workers -> Fds \cup {NoFd}]
      /\ server_socket \in [Workers -> Fds \cup {NoFd}]
      /\ slot \in [Workers -> Slots \cup {NoSlot}]
      /\ destroyed \in BOOLEAN
      /\ \A w \in Workers : slot[w] = NoSlot <=> pc[w] # "found"
      /\ NoFd \notin Fds /\ NoSlot \notin Slots
  BY Sizes, FdsAssumption DEF Types, Record
<1>h. /\ Closed \notin Hosts /\ Client \notin Hosts /\ Unconnected \notin Hosts
      /\ Closed # Client /\ Closed # Unconnected /\ Client # Unconnected
  BY HostsAssumption DEF Closed, Client, Unconnected
<1> USE DEF Owned, ClientsOwn, ServersOwn, FoundOwn, IdleOwn, NoneLost, AllGone, Uses, Idle, Occupied
<1> USE DEF Go, poolVars, fdVars, workVars
<1>1. ASSUME NEW w \in Workers, Begin(w) PROVE Owned'
  BY <1>0, <1>1, <1>h DEF Begin, NewFds, Free, Places
<1>2. ASSUME NEW w \in Workers, End(w) PROVE Owned'
  BY <1>0, <1>2, <1>h, CloseEffect DEF End, Places
<1>6. ASSUME NEW w \in Workers, ReadSlot(w) PROVE Owned'
  BY <1>0, <1>6, <1>h DEF ReadSlot, Places, Distinct
<1>7. ASSUME NEW w \in Workers, Resolve(w) PROVE Owned'
  <2>1. PICK f \in Fds : /\ fd[f] = Closed /\ fd' = [fd EXCEPT ![f] = Unconnected]
                         /\ server_socket' = [server_socket EXCEPT ![w] = f]
    BY <1>7 DEF Resolve, NewFds, Free
  <2>2. /\ pc[w] = "create" /\ pc' = [pc EXCEPT ![w] = "connect"]
        /\ UNCHANGED <<connections, host, client_socket, slot, destroyed>>
    BY <1>7 DEF Resolve
  <2>3. ClientsOwn'
    BY <1>0, <1>h, <2>1, <2>2
  <2>4. ServersOwn'
    BY <1>0, <1>h, <2>1, <2>2
  <2>5. FoundOwn'
    BY <1>0, <1>h, <2>1, <2>2
  <2>6. IdleOwn'
    BY <1>0, <1>h, <2>1, <2>2
  <2>7. NoneLost'
    BY <1>0, <1>h, <2>1, <2>2
  <2> QED
    BY <1>0, <2>2, <2>3, <2>4, <2>5, <2>6, <2>7
<1>8. ASSUME NEW w \in Workers, NoSocket(w) PROVE Owned'
  BY <1>0, <1>8, <1>h DEF NoSocket, NextAttempt, Places
<1>9. ASSUME NEW w \in Workers, Connect(w) PROVE Owned'
  BY <1>0, <1>9, <1>h DEF Connect, Places
<1>10. ASSUME NEW w \in Workers, ConnectFails(w) PROVE Owned'
  BY <1>0, <1>10, <1>h, CloseEffect DEF ConnectFails, NextAttempt, Places
<1>11. ASSUME NEW w \in Workers, Exchange(w) PROVE Owned'
  BY <1>0, <1>11, <1>h DEF Exchange, Places
<1>12. ASSUME NEW w \in Workers, ServerFails(w) PROVE Owned'
  BY <1>0, <1>12, <1>h, CloseEffect DEF ServerFails, Places
<1>15. ASSUME NEW w \in Workers, ReturnPoolFull(w) PROVE Owned'
  BY <1>0, <1>15, <1>h, CloseEffect DEF ReturnPoolFull, Places
<1>17. CASE Destroy
  BY <1>0, <1>17, <1>h, CloseEffect DEF Destroy, FdsOf, DestroyCloses
<1>18. CASE UNCHANGED vars
  BY <1>18 DEF vars
<1>e. Empty.socket_fd = NoFd /\ Empty.in_use = FALSE
  BY DEF Empty
<1>s. ASSUME NEW gone \in SUBSET Slots, Sweep(gone)
      PROVE  /\ \A f \in Fds : fd'[f] = IF \E i \in gone : connections[i].socket_fd = f THEN Closed ELSE fd[f]
             /\ \A i \in gone : connections[i].socket_fd # NoFd /\ ~connections[i].in_use
             /\ gone \subseteq Idle
  BY <1>s, ReleaseEffect DEF Sweep
<1>3. ASSUME NEW w \in Workers, Reuse(w) PROVE Owned'
  <2>1. PICK i \in Slots, gone \in SUBSET Slots :
          /\ Sweep(gone) /\ i \in Idle \ gone
          /\ connections[i].host = host[w]
          /\ \A j \in Slots \ {i} : connections'[j] = IF j \in gone THEN Empty ELSE connections[j]
          /\ connections'[i].socket_fd = connections[i].socket_fd
          /\ connections'[i].host = connections[i].host /\ connections'[i].in_use
          /\ slot' = [slot EXCEPT ![w] = i]
    BY <1>3, ReuseEffect
  <2>2. /\ connections'[i].socket_fd = connections[i].socket_fd /\ connections'[i].in_use
        /\ connections'[i].host = host[w]
    BY <2>1
  <2>3. /\ pc[w] = "get" /\ pc' = [pc EXCEPT ![w] = "found"]
        /\ UNCHANGED <<host, client_socket, server_socket, destroyed>>
    BY <1>3 DEF Reuse
  <2>4. /\ \A f \in Fds : fd'[f] = IF \E j \in gone : connections[j].socket_fd = f THEN Closed ELSE fd[f]
        /\ \A j \in gone : connections[j].socket_fd # NoFd /\ ~connections[j].in_use
        /\ \A j \in gone : connections[j].socket_fd # connections[i].socket_fd
        /\ gone \subseteq Idle
    BY <1>0, <1>s, <2>1 DEF Distinct
  <2>5. ~destroyed
    BY <2>3
  <2>6. ClientsOwn'
    BY <1>0, <1>h, <2>3, <2>4, <2>5 DEF Places
  <2>7. ServersOwn'
    BY <1>0, <1>h, <2>3, <2>4, <2>5 DEF Places
  <2>8. FoundOwn'
    BY <1>0, <1>h, <2>1, <2>2, <2>3, <2>4, <2>5 DEF Places, Distinct
  <2>9. IdleOwn'
    BY <1>0, <1>e, <1>h, <2>1, <2>2, <2>3, <2>4, <2>5 DEF Distinct
  <2>10. NoneLost'
    BY <1>0, <1>e, <1>h, <2>1, <2>2, <2>3, <2>4, <2>5 DEF Distinct
  <2> QED
    BY <2>3, <2>5, <2>6, <2>7, <2>8, <2>9, <2>10
<1>4. ASSUME NEW gone \in SUBSET Slots, Sweep(gone), ~destroyed,
             \A j \in Slots : connections'[j] = IF j \in gone THEN Empty ELSE connections[j],
             UNCHANGED <<host, client_socket, server_socket, slot, destroyed>>,
             \/ pc' = pc
             \/ \E w \in Workers : pc[w] = "get" /\ pc' = [pc EXCEPT ![w] = "create"]
      PROVE  Owned'
  <2>1. /\ \A f \in Fds : fd'[f] = IF \E j \in gone : connections[j].socket_fd = f THEN Closed ELSE fd[f]
        /\ \A j \in gone : connections[j].socket_fd # NoFd /\ ~connections[j].in_use
        /\ gone \subseteq Idle
    BY <1>s, <1>4
  <2>2. \A w \in Workers : pc'[w] = pc[w] \/ (pc[w] = "get" /\ pc'[w] = "create")
    BY <1>0, <1>4
  <2>3. ClientsOwn'
    BY <1>0, <1>h, <1>4, <2>1, <2>2
  <2>4. ServersOwn'
    BY <1>0, <1>h, <1>4, <2>1, <2>2
  <2>5. FoundOwn'
    BY <1>0, <1>h, <1>4, <2>1, <2>2 DEF Distinct
  <2>6. IdleOwn'
    BY <1>0, <1>e, <1>4, <2>1 DEF Distinct
  <2>7. NoneLost'
    BY <1>0, <1>4, <2>1, <2>2
  <2> QED
    BY <1>4, <2>3, <2>4, <2>5, <2>6, <2>7
<1>5. ASSUME Cleanup \/ \E w \in Workers : NothingUsable(w) PROVE Owned'
  <2>1. PICK gone \in SUBSET Slots :
          /\ Sweep(gone)
          /\ \A j \in Slots : connections'[j] = IF j \in gone THEN Empty ELSE connections[j]
    BY <1>5, CleanupEffect, NothingUsableEffect
  <2>2. /\ ~destroyed /\ UNCHANGED <<host, client_socket, server_socket, slot, destroyed>>
        /\ \/ pc' = pc
           \/ \E w \in Workers : pc[w] = "get" /\ pc' = [pc EXCEPT ![w] = "create"]
    BY <1>5 DEF Cleanup, NothingUsable
  <2> QED
    BY <1>4, <2>1, <2>2
<1>13. ASSUME NEW w \in Workers, ReturnToSlot(w) PROVE Owned'
  <2>1. PICK i \in Slots :
           /\ connections[i].socket_fd = server_socket[w]
           /\ connections'[i].socket_fd = connections[i].socket_fd
           /\ connections'[i].host = connections[i].host /\ ~connections'[i].in_use
           /\ \A j \in Slots \ {i} : connections'[j] = connections[j]
    BY <1>13, ReturnToSlotEffect
  <2>2. /\ connections'[i].socket_fd = connections[i].socket_fd /\ ~connections'[i].in_use
        /\ connections'[i].host = connections[i].host
    BY <2>1
  <2>3. /\ pc[w] = "return" /\ pc' = [pc EXCEPT ![w] = "done"]
        /\ server_socket' = [server_socket EXCEPT ![w] = NoFd]
        /\ UNCHANGED <<fd, host, client_socket, slot, destroyed>>
    BY <1>13 DEF ReturnToSlot
  <2>4. ClientsOwn'
    BY <1>0, <2>3
  <2>5. ServersOwn'
    BY <1>0, <2>3
  <2>6. FoundOwn'
    BY <1>0, <2>1, <2>2, <2>3
  <2>7. IdleOwn'
    BY <1>0, <2>1, <2>2, <2>3 DEF Distinct
  <2>8. NoneLost'
    BY <1>0, <2>1, <2>2, <2>3
  <2> QED
    BY <1>0, <2>3, <2>4, <2>5, <2>6, <2>7, <2>8
<1>14. ASSUME NEW w \in Workers, ReturnNew(w) PROVE Owned'
  <2>1. PICK i \in Slots :
           /\ ~Occupied(connections[i])
           /\ connections'[i] = [socket_fd |-> server_socket[w], host |-> host[w], in_use |-> FALSE, unused |-> 0]
           /\ \A j \in Slots : connections[j].socket_fd # server_socket[w]
           /\ \A j \in Slots \ {i} : connections'[j] = connections[j]
    BY <1>14, ReturnNewEffect
  <2>2. connections'[i].socket_fd = server_socket[w] /\ ~connections'[i].in_use
    BY <2>1
  <2>3. /\ pc[w] = "return" /\ pc' = [pc EXCEPT ![w] = "done"]
        /\ server_socket' = [server_socket EXCEPT ![w] = NoFd]
        /\ UNCHANGED <<fd, host, client_socket, slot, destroyed>>
    BY <1>14 DEF ReturnNew
  <2>4. ClientsOwn'
    BY <1>0, <2>3
  <2>5. ServersOwn'
    BY <1>0, <2>3
  <2>6. FoundOwn'
    BY <1>0, <2>1, <2>2, <2>3
  <2>7. IdleOwn'
    BY <1>0, <2>1, <2>2, <2>3 DEF Distinct
  <2>8. NoneLost'
    BY <1>0, <2>1, <2>2, <2>3
  <2> QED
    BY <1>0, <2>3, <2>4, <2>5, <2>6, <2>7, <2>8
<1>16. CASE Tick
  <2>1. \A j \in Slots : /\ connections'[j].socket_fd = connections[j].socket_fd
                         /\ connections'[j].host = connections[j].host
                         /\ connections'[j].in_use = connections[j].in_use
    BY <1>16, TickEffect
  <2>2. UNCHANGED <<fd, pc, host, client_socket, server_socket, slot, destroyed>>
    BY <1>16 DEF Tick
  <2> QED
    BY <1>0, <2>1, <2>2
<1> HIDE DEF Owned
<1> QED
  BY <1>1, <1>2, <1>3, <1>5, <1>6, <1>7, <1>8, <1>9, <1>10, <1>11, <1>12, <1>13, <1>14, <1>15,
     <1>16, <1>17, <1>18 DEF Next

-----------------------------------------------------------------------------
(* The size of the pool.                                                   *)

Filled == {i \in Slots : Occupied(connections[i])}
Counted == pool_size = Cardinality(Filled)

LEMMA FilledFinite == IsFiniteSet(Filled) /\ Cardinality(Filled) \in 0..MAX_POOL_SIZE
<1>1. IsFiniteSet(Slots) /\ Cardinality(Slots) = MAX_POOL_SIZE
  BY Sizes, FS_Interval DEF Slots
<1>2. IsFiniteSet(Filled) /\ Cardinality(Filled) <= MAX_POOL_SIZE
  BY <1>1, FS_Subset DEF Filled
<1> QED
  BY <1>2, Sizes, FS_CardinalityType

LEMMA StepCounted == Types /\ Owned /\ Counted /\ [Next]_vars => Counted'
<1> SUFFICES ASSUME Types, Owned, Counted, [Next]_vars PROVE Counted'
  OBVIOUS
<1>e. ~Occupied(Empty)
  BY DEF Empty, Occupied
<1>a. ASSUME NEW gone \in SUBSET Slots, Sweep(gone), Filled' = Filled \ gone PROVE Counted'
  <2>1. pool_size' = pool_size - Cardinality(gone)
    BY <1>a, ReleaseEffect DEF Sweep
  <2>2. gone \subseteq Filled
    BY <1>a DEF Sweep, Idle, Filled
  <2>3. Cardinality(Filled \ gone) = Cardinality(Filled) - Cardinality(Filled \cap gone)
    BY FilledFinite, FS_Difference
  <2>4. Filled \cap gone = gone
    BY <2>2
  <2> QED
    BY <1>a, <2>1, <2>3, <2>4 DEF Counted
<1>b. ASSUME Filled' = Filled, pool_size' = pool_size PROVE Counted'
  BY <1>b DEF Counted
<1>1. ASSUME NEW w \in Workers, Reuse(w) PROVE Counted'
  <2>1. PICK i \in Slots, gone \in SUBSET Slots :
          /\ Sweep(gone) /\ i \in Idle \ gone
          /\ \A j \in Slots \ {i} : connections'[j] = IF j \in gone THEN Empty ELSE connections[j]
          /\ connections'[i].socket_fd = connections[i].socket_fd
    BY <1>1, ReuseEffect
  <2>2. Occupied(connections[i]) /\ Occupied(connections'[i])
    BY <2>1 DEF Idle, Occupied
  <2>3. Filled' = Filled \ gone
    BY <1>e, <2>1, <2>2 DEF Filled
  <2> QED
    BY <1>a, <2>1, <2>3
<1>2. ASSUME Cleanup \/ \E w \in Workers : NothingUsable(w) PROVE Counted'
  <2>1. PICK gone \in SUBSET Slots :
          /\ Sweep(gone)
          /\ \A j \in Slots : connections'[j] = IF j \in gone THEN Empty ELSE connections[j]
    BY <1>2, CleanupEffect, NothingUsableEffect
  <2>2. Filled' = Filled \ gone
    BY <1>e, <2>1 DEF Filled
  <2> QED
    BY <1>a, <2>1, <2>2
<1>3. ASSUME NEW w \in Workers, ReturnToSlot(w) PROVE Counted'
  <2>1. PICK i \in Slots :
           /\ connections'[i].socket_fd = connections[i].socket_fd
           /\ \A j \in Slots \ {i} : connections'[j] = connections[j]
    BY <1>3, ReturnToSlotEffect
  <2>2. Filled' = Filled
    BY <2>1 DEF Filled, Occupied
  <2> QED
    BY <1>3, <1>b, <2>2 DEF ReturnToSlot
<1>4. ASSUME NEW w \in Workers, ReturnNew(w) PROVE Counted'
  <2>1. PICK i \in Slots :
           /\ ~Occupied(connections[i])
           /\ connections'[i] = [socket_fd |-> server_socket[w], host |-> host[w], in_use |-> FALSE, unused |-> 0]
           /\ \A j \in Slots \ {i} : connections'[j] = connections[j]
    BY <1>4, ReturnNewEffect
  <2>2. server_socket[w] # NoFd
    BY <1>4 DEF ReturnNew, Go, Owned, ServersOwn, Uses
  <2>3. connections'[i].socket_fd # NoFd
    BY <2>1, <2>2
  <2>4. Filled' = Filled \cup {i} /\ i \notin Filled
    BY <2>1, <2>3 DEF Filled, Occupied
  <2>5. Cardinality(Filled \cup {i}) = Cardinality(Filled) + 1
    BY <2>4, FilledFinite, FS_AddElement
  <2> QED
    BY <1>4, <2>4, <2>5 DEF Counted, ReturnNew
<1>5. CASE Tick
  <2>1. Filled' = Filled
    BY <1>5, TickEffect DEF Filled, Occupied
  <2> QED
    BY <1>5, <1>b, <2>1 DEF Tick
<1>6. CASE UNCHANGED poolVars
  BY <1>6, <1>b DEF Filled, poolVars
<1>7. ASSUME NEW w \in Workers,
             \/ Begin(w) \/ ReadSlot(w) \/ Resolve(w) \/ NoSocket(w) \/ Connect(w) \/ ConnectFails(w)
             \/ Exchange(w) \/ ServerFails(w) \/ ReturnPoolFull(w) \/ End(w)
      PROVE  UNCHANGED poolVars
  BY <1>7 DEF Begin, ReadSlot, Resolve, NoSocket, Connect, ConnectFails, Exchange, ServerFails, ReturnPoolFull, End
<1>8. CASE Destroy \/ UNCHANGED vars
  BY <1>6, <1>8 DEF Destroy, vars
<1> QED
  BY <1>1, <1>2, <1>3, <1>4, <1>5, <1>6, <1>7, <1>8 DEF Next

-----------------------------------------------------------------------------
(* Where connections lead.                                                 *)

Heading ==
  /\ \A f \in crossed : fd[f] \in Hosts
  /\ \A w \in Workers : pc[w] \in {"exchange", "return"} =>
       \/ \E i \in stray : connections[i].socket_fd = server_socket[w]
       \/ server_socket[w] \in crossed
       \/ fd[server_socket[w]] = host[w]

LEMMA StepDescribed ==
  Types /\ Distinct /\ Owned /\ SlotsDescribe /\ Heading /\ [Next]_vars => SlotsDescribe' /\ Heading'
<1> SUFFICES ASSUME Types, Distinct, Owned, SlotsDescribe, Heading, [Next]_vars PROVE SlotsDescribe' /\ Heading'
  OBVIOUS
<1>0. /\ \A i \in Slots : /\ connections[i].socket_fd \in Fds \cup {NoFd}
                          /\ connections[i].in_use \in BOOLEAN
                          /\ connections[i].host \in Hosts
      /\ fd \in [Fds -> Hosts \cup {Closed, Client, Unconnected}]
      /\ hostent \in [Workers -> Hosts] /\ host \in [Workers -> Hosts]
      /\ pc \in [Workers -> Places]
      /\ client_socket \in [Workers -> Fds \cup {NoFd}]
      /\ server_socket \in [Workers -> Fds \cup {NoFd}]
      /\ slot \in [Workers -> Slots \cup {NoSlot}]
      /\ stray \subseteq Slots /\ crossed \subseteq Fds
      /\ \A w \in Workers : slot[w] = NoSlot <=> pc[w] # "found"
      /\ NoFd \notin Fds /\ NoSlot \notin Slots
  BY Sizes, FdsAssumption DEF Types, Record
<1>h. /\ Closed \notin Hosts /\ Client \notin Hosts /\ Unconnected \notin Hosts
      /\ Closed # Client /\ Closed # Unconnected /\ Client # Unconnected
  BY HostsAssumption DEF Closed, Client, Unconnected
<1>e. Empty.socket_fd = NoFd /\ Empty.in_use = FALSE
  BY DEF Empty
<1>s. ASSUME NEW gone \in SUBSET Slots, Sweep(gone)
      PROVE  /\ \A f \in Fds : fd'[f] = IF \E i \in gone : connections[i].socket_fd = f THEN Closed ELSE fd[f]
             /\ \A i \in gone : connections[i].socket_fd # NoFd /\ ~connections[i].in_use
             /\ gone \subseteq Idle /\ stray' = stray \ gone
             /\ crossed' = crossed \ {connections[i].socket_fd : i \in gone}
  BY <1>s, ReleaseEffect DEF Sweep, Idle, Occupied
<1> USE DEF Owned, ClientsOwn, ServersOwn, FoundOwn, IdleOwn, AllGone, Uses, Idle, Occupied,
            SlotsDescribe, Heading
<1> USE DEF Go, poolVars, fdVars, workVars
<1>1. ASSUME NEW w \in Workers, Begin(w) PROVE SlotsDescribe' /\ Heading'
  BY <1>0, <1>1, <1>h DEF Begin, NewFds, Free, Places
<1>2. ASSUME NEW w \in Workers, End(w) PROVE SlotsDescribe' /\ Heading'
  BY <1>0, <1>2, <1>h, CloseEffect DEF End, Places
<1>3. ASSUME NEW w \in Workers, Reuse(w) PROVE SlotsDescribe' /\ Heading'
  <2>1. PICK i \in Slots, gone \in SUBSET Slots :
          /\ Sweep(gone) /\ i \in Idle \ gone
          /\ \A j \in Slots \ {i} : connections'[j] = IF j \in gone THEN Empty ELSE connections[j]
          /\ connections'[i].socket_fd = connections[i].socket_fd
          /\ connections'[i].host = connections[i].host
    BY <1>3, ReuseEffect
  <2>2. /\ \A f \in Fds : fd'[f] = IF \E j \in gone : connections[j].socket_fd = f THEN Closed ELSE fd[f]
        /\ \A j \in gone : connections[j].socket_fd # NoFd /\ ~connections[j].in_use
        /\ gone \subseteq Idle /\ stray' = stray \ gone
        /\ crossed' = crossed \ {connections[j].socket_fd : j \in gone}
    BY <1>s, <2>1
  <2>3. /\ pc[w] = "get" /\ pc' = [pc EXCEPT ![w] = "found"] /\ ~destroyed
        /\ UNCHANGED <<host, server_socket, destroyed>>
    BY <1>3 DEF Reuse
  <2>4. SlotsDescribe'
    BY <1>0, <1>e, <2>1, <2>2, <2>3 DEF Distinct
  <2>5. Heading'
    BY <1>0, <1>e, <2>1, <2>2, <2>3
  <2> QED
    BY <2>4, <2>5
<1>4. ASSUME Cleanup \/ \E w \in Workers : NothingUsable(w) PROVE SlotsDescribe' /\ Heading'
  <2>1. PICK gone \in SUBSET Slots :
          /\ Sweep(gone)
          /\ \A j \in Slots : connections'[j] = IF j \in gone THEN Empty ELSE connections[j]
    BY <1>4, CleanupEffect, NothingUsableEffect
  <2>2. /\ \A f \in Fds : fd'[f] = IF \E j \in gone : connections[j].socket_fd = f THEN Closed ELSE fd[f]
        /\ \A j \in gone : connections[j].socket_fd # NoFd /\ ~connections[j].in_use
        /\ gone \subseteq Idle /\ stray' = stray \ gone
        /\ crossed' = crossed \ {connections[j].socket_fd : j \in gone}
    BY <1>s, <2>1
  <2>3. /\ UNCHANGED <<host, server_socket, destroyed>> /\ ~destroyed
        /\ \/ pc' = pc
           \/ \E w \in Workers : pc[w] = "get" /\ pc' = [pc EXCEPT ![w] = "create"]
    BY <1>4 DEF Cleanup, NothingUsable
  <2>4. \A w \in Workers : pc'[w] = pc[w] \/ pc'[w] = "create"
    BY <1>0, <2>3
  <2>5. SlotsDescribe'
    BY <1>0, <1>e, <2>1, <2>2, <2>3 DEF Distinct
  <2>6. Heading'
    BY <1>0, <1>e, <2>1, <2>2, <2>3, <2>4
  <2> QED
    BY <2>5, <2>6
<1>6. ASSUME NEW w \in Workers, ReadSlot(w) PROVE SlotsDescribe' /\ Heading'
  BY <1>0, <1>6, <1>h DEF ReadSlot, Places
<1>7. ASSUME NEW w \in Workers, Resolve(w) PROVE SlotsDescribe' /\ Heading'
  BY <1>0, <1>7, <1>h DEF Resolve, NewFds, Free, Places
<1>8. ASSUME NEW w \in Workers, NoSocket(w) PROVE SlotsDescribe' /\ Heading'
  BY <1>0, <1>8, <1>h DEF NoSocket, NextAttempt, Places
<1>9. ASSUME NEW w \in Workers, Connect(w) PROVE SlotsDescribe' /\ Heading'
  BY <1>0, <1>9, <1>h DEF Connect, Places
<1>10. ASSUME NEW w \in Workers, ConnectFails(w) PROVE SlotsDescribe' /\ Heading'
  BY <1>0, <1>10, <1>h, CloseEffect DEF ConnectFails, NextAttempt, Places
<1>11. ASSUME NEW w \in Workers, Exchange(w) PROVE SlotsDescribe' /\ Heading'
  BY <1>0, <1>11, <1>h DEF Exchange, Places
<1>12. ASSUME NEW w \in Workers, ServerFails(w) PROVE SlotsDescribe' /\ Heading'
  BY <1>0, <1>12, <1>h, CloseEffect DEF ServerFails, SlotsOf, Places
<1>13. ASSUME NEW w \in Workers, ReturnToSlot(w) PROVE SlotsDescribe' /\ Heading'
  <2>1. PICK i \in Slots :
           /\ connections'[i].socket_fd = connections[i].socket_fd
           /\ connections'[i].host = connections[i].host
           /\ \A j \in Slots \ {i} : connections'[j] = connections[j]
    BY <1>13, ReturnToSlotEffect
  <2>2. /\ pc[w] = "return" /\ pc' = [pc EXCEPT ![w] = "done"]
        /\ server_socket' = [server_socket EXCEPT ![w] = NoFd]
        /\ UNCHANGED <<fd, crossed, host, stray, destroyed>>
    BY <1>13 DEF ReturnToSlot
  <2> QED
    BY <1>0, <2>1, <2>2
<1>14. ASSUME NEW w \in Workers, ReturnNew(w) PROVE SlotsDescribe' /\ Heading'
  <2>1. PICK i \in Slots :
           /\ ~Occupied(connections[i])
           /\ connections'[i] = [socket_fd |-> server_socket[w], host |-> host[w], in_use |-> FALSE, unused |-> 0]
           /\ \A j \in Slots : connections[j].socket_fd # server_socket[w]
           /\ \A j \in Slots \ {i} : connections'[j] = connections[j]
    BY <1>14, ReturnNewEffect
  <2>2. connections'[i].socket_fd = server_socket[w] /\ connections'[i].host = host[w]
    BY <2>1
  <2>3. /\ pc[w] = "return" /\ pc' = [pc EXCEPT ![w] = "done"]
        /\ server_socket' = [server_socket EXCEPT ![w] = NoFd]
        /\ UNCHANGED <<fd, crossed, host, stray, destroyed>>
    BY <1>14 DEF ReturnNew
  <2>4. server_socket[w] \in crossed \/ fd[server_socket[w]] = host[w]
    BY <1>0, <2>1, <2>3
  <2>5. SlotsDescribe'
    BY <1>0, <2>1, <2>2, <2>3, <2>4
  <2>6. Heading'
    BY <1>0, <2>1, <2>2, <2>3
  <2> QED
    BY <2>5, <2>6
<1>15. ASSUME NEW w \in Workers, ReturnPoolFull(w) PROVE SlotsDescribe' /\ Heading'
  BY <1>0, <1>15, <1>h, CloseEffect DEF ReturnPoolFull, SlotsOf, Places
<1>16. CASE Tick
  <2>1. \A j \in Slots : /\ connections'[j].socket_fd = connections[j].socket_fd
                         /\ connections'[j].host = connections[j].host
    BY <1>16, TickEffect
  <2>2. UNCHANGED <<fd, crossed, pc, host, server_socket, stray, destroyed>>
    BY <1>16 DEF Tick
  <2> QED
    BY <1>0, <2>1, <2>2
<1>17. CASE Destroy
  <2> DEFINE S == FdsOf(DestroyCloses)
  <2>1. Close(S) /\ destroyed' /\ pc' = pc /\ \A w \in Workers : pc[w] = "idle"
    BY <1>17 DEF Destroy
  <2> HIDE DEF S
  <2>2. /\ crossed' = crossed \ S
        /\ \A f \in Fds : fd'[f] = IF f \in S THEN Closed ELSE fd[f]
    BY <2>1, CloseEffect
  <2> QED
    BY <1>0, <2>1, <2>2
<1>18. CASE UNCHANGED vars
  BY <1>18 DEF vars
<1> HIDE DEF SlotsDescribe, Heading
<1> QED
  BY <1>1, <1>2, <1>3, <1>4, <1>6, <1>7, <1>8, <1>9, <1>10, <1>11, <1>12, <1>13, <1>14, <1>15,
     <1>16, <1>17, <1>18 DEF Next

-----------------------------------------------------------------------------
(* Destruction.                                                            *)

LEMMA StepDestroyed == Types /\ Owned /\ DestroyClosesAll /\ [Next]_vars => DestroyClosesAll'
<1> SUFFICES ASSUME Types, Owned, DestroyClosesAll, [Next]_vars PROVE DestroyClosesAll'
  OBVIOUS
<1>1. CASE Destroy
  <2>1. \A f \in Fds : fd'[f] = IF f \in FdsOf(DestroyCloses) THEN Closed ELSE fd[f]
    BY <1>1, CloseEffect DEF Destroy
  <2>2. ASSUME NEW f \in Fds, fd[f] # Closed PROVE f \in FdsOf(DestroyCloses)
    <3>1. \A w \in Workers : pc[w] = "idle" /\ client_socket[w] = NoFd /\ server_socket[w] = NoFd
      BY <1>1 DEF Destroy, Owned, ClientsOwn, ServersOwn, Uses
    <3>2. PICK i \in Idle : connections[i].socket_fd = f
      BY <2>2, <3>1, FdsAssumption DEF Owned, NoneLost
    <3> QED
      BY <3>2 DEF FdsOf, DestroyCloses, Idle
  <2> QED
    BY <2>1, <2>2 DEF DestroyClosesAll
<1>2. CASE destroyed
  <2>1. \A w \in Workers : pc[w] = "idle"
    BY <1>2 DEF Owned, AllGone
  <2>2. UNCHANGED <<fd, destroyed>>
    BY <1>2, <2>1 DEF Next, Begin, Reuse, ReadSlot, NothingUsable, Resolve, NoSocket, Connect, ConnectFails,
       Exchange, ServerFails, ReturnToSlot, ReturnNew, ReturnPoolFull, End, Cleanup, Tick, Destroy, Go, vars, fdVars
  <2> QED
    BY <2>2 DEF DestroyClosesAll
<1>3. CASE ~destroyed /\ ~Destroy
  <2>1. destroyed' = destroyed
    BY <1>3 DEF Next, Begin, Reuse, ReadSlot, NothingUsable, Resolve, NoSocket, Connect, ConnectFails,
       Exchange, ServerFails, ReturnToSlot, ReturnNew, ReturnPoolFull, End, Cleanup, Tick, vars
  <2> QED
    BY <1>3, <2>1 DEF DestroyClosesAll
<1> QED
  BY <1>1, <1>2, <1>3

-----------------------------------------------------------------------------
(* The theorems.                                                           *)

\* What always holds, as one invariant.
Inv == Types /\ Distinct /\ Owned /\ Counted /\ DestroyClosesAll

LEMMA AlwaysInv == Spec => []Inv
<1>1. Init => Inv
  <2> SUFFICES ASSUME Init PROVE Inv
    OBVIOUS
  <2>1. Filled = {} /\ pool_size = 0
    BY DEF Init, Filled, Occupied, Empty
  <2>2. Counted
    BY <2>1, FS_EmptySet DEF Counted
  <2>3. DestroyClosesAll
    BY DEF Init, DestroyClosesAll
  <2> QED
    BY <2>2, <2>3, InitTypes, InitOwned DEF Inv
<1>2. Inv /\ [Next]_vars => Inv'
  BY StepTypes, StepDistinct, StepOwned, StepCounted, StepDestroyed DEF Inv
<1> QED
  BY <1>1, <1>2, PTL DEF Spec

\* The types are right, pool_size stays between 0 and MAX_POOL_SIZE, and no request tries
\* to connect more than twice (connection_pool.c:110, components/proxy_server.c:278-287).
THEOREM TypeCorrect == Spec => []TypeOK
<1>1. Inv => TypeOK
  <2> SUFFICES ASSUME Inv PROVE TypeOK
    OBVIOUS
  <2>1. pool_size \in 0..MAX_POOL_SIZE
    BY FilledFinite DEF Inv, Counted
  <2> QED
    BY <2>1 DEF Inv, Types, TypeOK, Record, Places
<1> QED
  BY <1>1, AlwaysInv, PTL

\* pool_size counts the occupied slots, and no two of them name one descriptor.
THEOREM SizeAlwaysExact == Spec => []SizeExact
<1>1. Inv => SizeExact
  BY DEF Inv, Counted, Distinct, Filled, SizeExact
<1> QED
  BY <1>1, AlwaysInv, PTL

\* Until the pool is destroyed, every open descriptor has one owner and a closed one
\* none: no descriptor leaks, none is shared, none is closed under its user.
THEOREM SingleOwner == Spec => []OneOwner
<1>1. Inv => OneOwner
  <2> SUFFICES ASSUME Inv, ~destroyed, NEW f \in Fds
               PROVE  Cardinality(Owners(f)) = IF fd[f] = Closed THEN 0 ELSE 1
    BY DEF OneOwner
  <2>0. /\ \A w \in Workers : slot[w] = NoSlot <=> pc[w] # "found"
        /\ f # NoFd /\ NoSlot \notin Slots
        /\ slot \in [Workers -> Slots \cup {NoSlot}]
        /\ Closed \notin Hosts /\ Client \notin Hosts /\ Unconnected \notin Hosts
        /\ Closed # Client /\ Closed # Unconnected /\ Client # Unconnected
        /\ \A i \in Slots : connections[i].in_use \in BOOLEAN
    BY FdsAssumption, HostsAssumption, Sizes DEF Inv, Types, Record, Closed, Client, Unconnected
  \* The four ways to own f, each for at most one worker or slot, and no two at once.
  <2> DEFINE C(w) == w \in Workers /\ client_socket[w] = f
             S(w) == w \in Workers /\ server_socket[w] = f
             F(w) == w \in Workers /\ slot[w] # NoSlot /\ connections[slot[w]].socket_fd = f
             I(i) == i \in Slots /\ Occupied(connections[i]) /\ ~connections[i].in_use
                     /\ connections[i].socket_fd = f
  <2>1. /\ \A w : C(w) => fd[f] = Client
        /\ \A w : S(w) => fd[f] \in Hosts \cup {Unconnected} /\ \A v : ~F(v) /\ ~I(v)
        /\ \A w : F(w) => fd[f] \in Hosts /\ \A v : ~I(v)
        /\ \A i : I(i) => fd[f] \in Hosts
    <3>1. \A w : C(w) => fd[f] = Client
      BY <2>0 DEF Inv, Owned, ClientsOwn
    <3>2. ASSUME NEW w, S(w) PROVE fd[f] \in Hosts \cup {Unconnected} /\ \A v : ~F(v) /\ ~I(v)
      BY <2>0, <3>2 DEF Inv, Owned, ServersOwn, FoundOwn, IdleOwn, Idle, Uses
    <3>3. ASSUME NEW w, F(w) PROVE fd[f] \in Hosts /\ \A v : ~I(v)
      <4>1. pc[w] = "found" /\ slot[w] \in Slots
        BY <2>0, <3>3
      <4> QED
        BY <2>0, <3>3, <4>1 DEF Inv, Owned, FoundOwn, Distinct
    <3>4. ASSUME NEW i, I(i) PROVE fd[f] \in Hosts
      BY <3>4 DEF Inv, Owned, IdleOwn, Idle
    <3> QED
      BY <3>1, <3>2, <3>3, <3>4
  <2>2. /\ \A v, w : C(v) /\ C(w) => v = w
        /\ \A v, w : S(v) /\ S(w) => v = w
        /\ \A v, w : F(v) /\ F(w) => v = w
        /\ \A i, j : I(i) /\ I(j) => i = j
    <3>1. \A v, w : C(v) /\ C(w) => v = w
      BY <2>0 DEF Inv, Owned, ClientsOwn
    <3>2. \A v, w : S(v) /\ S(w) => v = w
      BY <2>0 DEF Inv, Owned, ServersOwn
    <3>3. ASSUME NEW v, NEW w, F(v), F(w) PROVE v = w
      <4>1. pc[w] = "found" /\ slot[w] \in Slots /\ slot[v] \in Slots /\ Occupied(connections[slot[w]])
        BY <2>0, <3>3 DEF Occupied
      <4>2. slot[v] = slot[w]
        BY <3>3, <4>1 DEF Inv, Distinct
      <4> QED
        BY <3>3, <4>1, <4>2 DEF Inv, Owned, FoundOwn
    <3>4. \A i, j : I(i) /\ I(j) => i = j
      BY DEF Inv, Distinct
    <3> QED
      BY <3>1, <3>2, <3>3, <3>4
  <2>3. fd[f] # Closed => \E x : C(x) \/ S(x) \/ F(x) \/ I(x)
    BY <2>0 DEF Inv, Owned, NoneLost, Idle
  <2>4. /\ \A o \in Owners(f) : \E x :
             \/ C(x) /\ o = <<"client", x>>
             \/ S(x) /\ o = <<"server", x>>
             \/ F(x) /\ o = <<"found", x>>
             \/ I(x) /\ o = <<"slot", x>>
        /\ \A x : /\ C(x) => <<"client", x>> \in Owners(f)
                  /\ S(x) => <<"server", x>> \in Owners(f)
                  /\ F(x) => <<"found", x>> \in Owners(f)
                  /\ I(x) => <<"slot", x>> \in Owners(f)
    <3> DEFINE OC == {<<"client", w>> : w \in {v \in Workers : client_socket[v] = f}}
               OS == {<<"server", w>> : w \in {v \in Workers : server_socket[v] = f}}
               OF == {<<"found", w>> : w \in {v \in Workers :
                        slot[v] # NoSlot /\ connections[slot[v]].socket_fd = f}}
               OI == {<<"slot", i>> : i \in {j \in Idle : connections[j].socket_fd = f}}
    <3>1. Owners(f) = OC \cup OS \cup OF \cup OI
      BY DEF Owners
    <3>2. /\ \A o \in OC : \E x : C(x) /\ o = <<"client", x>>
          /\ \A x : C(x) => <<"client", x>> \in OC
      OBVIOUS
    <3>3. /\ \A o \in OS : \E x : S(x) /\ o = <<"server", x>>
          /\ \A x : S(x) => <<"server", x>> \in OS
      OBVIOUS
    <3>4. /\ \A o \in OF : \E x : F(x) /\ o = <<"found", x>>
          /\ \A x : F(x) => <<"found", x>> \in OF
      OBVIOUS
    <3>5. /\ \A o \in OI : \E x : I(x) /\ o = <<"slot", x>>
          /\ \A x : I(x) => <<"slot", x>> \in OI
      BY DEF Idle
    <3> HIDE DEF OC, OS, OF, OI, C, S, F, I
    <3> QED
      BY <3>1, <3>2, <3>3, <3>4, <3>5
  <2> HIDE DEF C, S, F, I
  <2>5. \A o, q \in Owners(f) : o = q
    BY <2>0, <2>1, <2>2, <2>4
  <2>6. CASE fd[f] = Closed
    <3>1. Owners(f) = {}
      BY <2>0, <2>1, <2>4, <2>6
    <3> QED
      BY <2>6, <3>1, FS_EmptySet
  <2>7. CASE fd[f] # Closed
    <3>1. PICK o : o \in Owners(f)
      BY <2>3, <2>4, <2>7
    <3>2. Owners(f) = {o}
      BY <2>5, <3>1
    <3> QED
      BY <2>7, <3>2, FS_Singleton
  <2> QED
    BY <2>6, <2>7
<1> QED
  BY <1>1, AlwaysInv, PTL

\* When the pool is destroyed and no worker is in a request, every connection is closed.
THEOREM DestroyLeavesNothingOpen == Spec => []DestroyClosesAll
BY AlwaysInv, PTL DEF Inv

LEMMA AlwaysDescribed == Spec => [](Inv /\ SlotsDescribe /\ Heading)
<1>1. Init => SlotsDescribe /\ Heading
  BY DEF Init, SlotsDescribe, Heading, Occupied, Empty
<1>2. Inv /\ SlotsDescribe /\ Heading /\ [Next]_vars => SlotsDescribe' /\ Heading'
  BY StepDescribed DEF Inv
<1> QED
  BY <1>1, <1>2, AlwaysInv, PTL DEF Spec

\* A slot has an open connection to the host it is kept for, unless a failure left it
\* behind or its connection was made with another thread's gethostbyname result.
THEOREM SlotsAlwaysDescribe == Spec => []SlotsDescribe
BY AlwaysDescribed, PTL

\* ... and a request is sent to another server only over the descriptor of such a slot
\* or over such a connection (connection_pool.c:49-60): there is no third way.
THEOREM WrongServerOnlyTwoWays == Spec => []RightUnlessStrayOrCrossed
<1>1. Inv /\ Heading => RightUnlessStrayOrCrossed
  BY DEF Inv, Types, Heading, RightUnlessStrayOrCrossed, Right, SlotsOf
<1> QED
  BY <1>1, AlwaysDescribed, PTL

\* If gethostbyname has a result per thread and no connection ever fails in use, every
\* request is sent to the server it names, however descriptors are given out again.
THEOREM RightWithoutFailures ==
  ASSUME ~SharedHostent
  PROVE  Spec /\ [][\A w \in Workers : ~ServerFails(w)]_vars => []RightServer
<1> DEFINE NoFailure == \A w \in Workers : ~ServerFails(w)
           Answered == \A w \in Workers : pc[w] = "connect" => hostent[w] = host[w]
           Straight == stray = {} /\ crossed = {} /\ Answered
<1>1. Init => Straight
  BY DEF Init
<1>2. Inv /\ Straight /\ [Next]_vars /\ [NoFailure]_vars => Straight'
  <2> SUFFICES ASSUME Inv, Straight, [Next]_vars, NoFailure \/ UNCHANGED vars PROVE Straight'
    BY DEF NoFailure
  <2>t. /\ pc \in [Workers -> Places] /\ host \in [Workers -> Hosts] /\ hostent \in [Workers -> Hosts]
        /\ server_socket \in [Workers -> Fds \cup {NoFd}]
    BY DEF Inv, Types
  <2> USE DEF Go, workVars, fdVars
  <2>1. CASE UNCHANGED vars
    BY <2>1 DEF vars
  <2>2. CASE Cleanup \/ Tick \/ Destroy
    BY <2>2 DEF Cleanup, Tick, Destroy, Release, Close
  <2>3. CASE \E w \in Workers : Begin(w) \/ Reuse(w) \/ ReadSlot(w) \/ NothingUsable(w)
    BY <2>t, <2>3 DEF Begin, Reuse, ReadSlot, NothingUsable, Release, Close
  <2>4. CASE \E w \in Workers : Resolve(w)
    BY <2>t, <2>4 DEF Resolve
  <2>5. CASE \E w \in Workers : NoSocket(w) \/ Connect(w) \/ ConnectFails(w)
    BY <2>t, <2>5 DEF NoSocket, Connect, ConnectFails, NextAttempt, Close
  <2>6. CASE \E w \in Workers : \/ Exchange(w) \/ ReturnToSlot(w) \/ ReturnNew(w)
                                \/ ReturnPoolFull(w) \/ End(w)
    BY <2>t, <2>6 DEF Exchange, ReturnToSlot, ReturnNew, ReturnPoolFull, End, Close
  <2>7. CASE NoFailure /\ \E w \in Workers : ServerFails(w)
    BY <2>7
  <2> QED
    BY <2>1, <2>2, <2>3, <2>4, <2>5, <2>6, <2>7 DEF Next
<1>3. Straight /\ RightUnlessStrayOrCrossed => RightServer
  BY DEF RightUnlessStrayOrCrossed, RightServer
<1> HIDE DEF NoFailure, Straight
<1>4. Spec /\ [][NoFailure]_vars => []RightServer
  BY <1>1, <1>2, <1>3, AlwaysInv, WrongServerOnlyTwoWays, PTL DEF Spec
<1> QED
  BY <1>4 DEF NoFailure
=============================================================================
