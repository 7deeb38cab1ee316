--------------------------- MODULE ConnectionPool ---------------------------
(***************************************************************************)
(* The pool of server connections (src/components/connection_pool.c) under *)
(* its only user, forward_request_to_server, which worker threads execute. *)
(*                                                                         *)
(* What goes wrong with sockets goes wrong because a file descriptor is a  *)
(* number that the system gives out again once it was closed, so the table *)
(* of descriptors is part of the model: for each one, what it is connected *)
(* to.  A host stands for a host and port.  What the pool does under       *)
(* pool_mutex is one step; making a connection, and reading the descriptor *)
(* of the connection that was found, happen without the mutex.             *)
(***************************************************************************)
EXTENDS Integers, FiniteSets, FiniteSetsExt

CONSTANTS
  Workers,
  Hosts,
  Fds,                 \* bound: the descriptors the process may have
  NoFd,
  MAX_POOL_SIZE,       \* connection_pool.h:10
  CONNECTION_TIMEOUT,  \* connection_pool.h:11, in ticks
  LowestFd,            \* a new descriptor is the lowest (POSIX), or any (Windows)
  SharedHostent,       \* gethostbyname has one result for all threads (POSIX)
  Sweeper              \* whether anybody calls connection_pool_cleanup

Slots  == 1..MAX_POOL_SIZE
NoSlot == 0

ASSUME SizesAssumption == /\ MAX_POOL_SIZE \in Nat \ {0}
                          /\ CONNECTION_TIMEOUT \in Nat \ {0}
ASSUME FdsAssumption == NoFd \notin Fds /\ (LowestFd => Fds \subseteq Nat)
ASSUME OptionsAssumption == {LowestFd, SharedHostent, Sweeper} \subseteq BOOLEAN

Closed == "closed"
Client == "client"
Unconnected == "unconnected"
ASSUME HostsAssumption == Hosts # {} /\ Hosts \cap {Closed, Client, Unconnected} = {}

VARIABLES
  connections,   \* per slot: socket_fd, host, in_use, and the time since last_used
  pool_size,
  fd,            \* what each descriptor is: closed, a client, unconnected, a connection to a host
  hostent,       \* per worker: the host that its gethostbyname result describes
  pc, host,      \* per worker: where it is, and the host of its request
  client_socket, server_socket,
  slot,          \* per worker: the slot connection_pool_get chose, or NoSlot
  attempts,      \* per worker: calls of create_persistent_connection
  stray,         \* history: slots whose connection was closed without the pool
  crossed,       \* history: connections made with another thread's gethostbyname result
  destroyed

poolVars == <<connections, pool_size>>
workVars == <<pc, host, client_socket, server_socket, slot, attempts, hostent>>
fdVars   == <<fd, crossed>>
vars == <<poolVars, fdVars, workVars, stray, destroyed>>

AnyHost == CHOOSE h \in Hosts : TRUE  \* uninitialized, and never read
Empty == [socket_fd |-> NoFd, host |-> AnyHost, in_use |-> FALSE, unused |-> 0]

Init == /\ connections = [i \in Slots |-> Empty]
        /\ pool_size = 0
        /\ fd = [f \in Fds |-> Closed]
        /\ hostent = [w \in Workers |-> AnyHost]
        /\ pc = [w \in Workers |-> "idle"]
        /\ host = [w \in Workers |-> AnyHost]
        /\ client_socket = [w \in Workers |-> NoFd]
        /\ server_socket = [w \in Workers |-> NoFd]
        /\ slot = [w \in Workers |-> NoSlot]
        /\ attempts = [w \in Workers |-> 0]
        /\ stray = {}
        /\ crossed = {}
        /\ destroyed = FALSE

Free   == {f \in Fds : fd[f] = Closed}
NewFds == {f \in Free : LowestFd => \A g \in Free : f <= g}

Go(w, from, to) == pc[w] = from /\ pc' = [pc EXCEPT ![w] = to]

\* close: of a descriptor that is not open, it fails and changes nothing.
Close(S) == /\ fd' = [f \in Fds |-> IF f \in S THEN Closed ELSE fd[f]]
            /\ crossed' = crossed \ S

-----------------------------------------------------------------------------
(* A request begins with a client and ends with its socket closed.         *)

Begin(w) == /\ Go(w, "idle", "get") /\ ~destroyed
            /\ \E f \in NewFds, h \in Hosts :
                 /\ fd' = [fd EXCEPT ![f] = Client]
                 /\ client_socket' = [client_socket EXCEPT ![w] = f]
                 /\ host' = [host EXCEPT ![w] = h]
            /\ attempts' = [attempts EXCEPT ![w] = 0]
            /\ UNCHANGED <<poolVars, crossed, server_socket, slot, hostent, stray, destroyed>>

End(w) == /\ Go(w, "done", "idle")
          /\ Close({client_socket[w]})
          /\ client_socket' = [client_socket EXCEPT ![w] = NoFd]
          /\ UNCHANGED <<poolVars, host, server_socket, slot, attempts, hostent, stray, destroyed>>

-----------------------------------------------------------------------------
(* connection_pool_get.                                                    *)

Occupied(c) == c.socket_fd # NoFd
TimedOut(c) == c.unused >= CONNECTION_TIMEOUT

\* Mutant: the host is not compared.
FittingAny(h) == {i \in Slots : Occupied(connections[i]) /\ ~connections[i].in_use}

Fitting(h) == {i \in Slots : LET c == connections[i]
                             IN  Occupied(c) /\ ~c.in_use /\ c.host = h}
Usable(h)  == {i \in Fitting(h) : ~TimedOut(connections[i])}

\* The timed out connections the scan meets before it stops at a usable one.
Expired(h) == {i \in Fitting(h) : TimedOut(connections[i])
                                  /\ \A j \in Usable(h) : i < j}

\* Mutant: the slots of closed connections are not cleared.
ClearedNot(S) == connections

Cleared(S) == [i \in Slots |-> IF i \in S THEN Empty ELSE connections[i]]
FdsOf(S)   == {connections[i].socket_fd : i \in S}
Release(S) == /\ Close(FdsOf(S))
              /\ pool_size' = pool_size - Cardinality(S)
              /\ stray' = stray \ S

\* Mutant: the reused connection is not marked.
ReuseUnmarked(w) ==
  /\ Go(w, "get", "found") /\ Usable(host[w]) # {}
  /\ LET i == Min(Usable(host[w]))
         gone == Expired(host[w])
     IN  /\ connections' = [Cleared(gone) EXCEPT ![i].unused = 0]
         /\ slot' = [slot EXCEPT ![w] = i]
         /\ Release(gone)
  /\ UNCHANGED <<host, client_socket, server_socket, attempts, hostent, destroyed>>

Reuse(w) ==
  /\ Go(w, "get", "found") /\ Usable(host[w]) # {}
  /\ LET i == Min(Usable(host[w]))
         gone == Expired(host[w])
     IN  /\ connections' = [Cleared(gone) EXCEPT ![i].in_use = TRUE, ![i].unused = 0]
         /\ slot' = [slot EXCEPT ![w] = i]
         /\ Release(gone)
  /\ UNCHANGED <<host, client_socket, server_socket, attempts, hostent, destroyed>>

\* return conn->socket_fd, after the mutex was released.
ReadSlot(w) ==
  /\ Go(w, "found", "exchange")
  /\ server_socket' = [server_socket EXCEPT ![w] = connections[slot[w]].socket_fd]
  /\ slot' = [slot EXCEPT ![w] = NoSlot]
  /\ UNCHANGED <<poolVars, fdVars, host, client_socket, attempts, hostent, stray, destroyed>>

NothingUsable(w) ==
  /\ Go(w, "get", "create") /\ Usable(host[w]) = {}
  /\ LET gone == Expired(host[w])
     IN  /\ connections' = Cleared(gone)
         /\ Release(gone)
  /\ UNCHANGED <<host, client_socket, server_socket, slot, attempts, hostent, destroyed>>

(* create_persistent_connection, without the mutex.                        *)

\* socket and gethostbyname: the result may be in memory all threads share.
Resolve(w) ==
  /\ Go(w, "create", "connect")
  /\ attempts' = [attempts EXCEPT ![w] = @ + 1]
  /\ hostent' = [v \in Workers |-> IF v = w \/ SharedHostent THEN host[w] ELSE hostent[v]]
  /\ \E f \in NewFds : /\ server_socket' = [server_socket EXCEPT ![w] = f]
                     /\ fd' = [fd EXCEPT ![f] = Unconnected]
  /\ UNCHANGED <<poolVars, crossed, host, client_socket, slot, stray, destroyed>>

\* Mutant: it tries for ever.
NextAttemptAlways(n) == "create"

\* No descriptor.  After connection_pool_get has failed, forward_request_to_server
\* calls create_persistent_connection once more.
NextAttempt(n) == IF n < 2 THEN "create" ELSE "done"

NoSocket(w) ==
  /\ Go(w, "create", NextAttempt(attempts[w] + 1)) /\ Free = {}
  /\ attempts' = [attempts EXCEPT ![w] = @ + 1]
  /\ UNCHANGED <<poolVars, fdVars, host, client_socket, server_socket, slot, hostent, stray, destroyed>>

\* The address is taken from the result only now: another thread may have asked
\* for another host since.
Connect(w) ==
  /\ Go(w, "connect", "exchange")
  /\ fd' = [fd EXCEPT ![server_socket[w]] = hostent[w]]
  /\ crossed' = IF hostent[w] = host[w] THEN crossed ELSE crossed \cup {server_socket[w]}
  /\ UNCHANGED <<poolVars, host, client_socket, server_socket, slot, attempts, hostent, stray, destroyed>>

\* Mutant: the socket stays open when connect fails.
ConnectFailsOpen(w) ==
  /\ Go(w, "connect", NextAttempt(attempts[w])) 
  /\ server_socket' = [server_socket EXCEPT ![w] = NoFd]
  /\ UNCHANGED <<poolVars, fdVars, host, client_socket, slot, attempts, hostent, stray, destroyed>>

\* gethostbyname or connect fails.
ConnectFails(w) ==
  /\ Go(w, "connect", NextAttempt(attempts[w])) 
  /\ Close({server_socket[w]})
  /\ server_socket' = [server_socket EXCEPT ![w] = NoFd]
  /\ UNCHANGED <<poolVars, host, client_socket, slot, attempts, hostent, stray, destroyed>>

-----------------------------------------------------------------------------
(* forward_request_to_server uses the connection.                          *)

\* It sends the request and receives what the server answers.
Exchange(w) ==
  /\ Go(w, "exchange", "return")
  /\ UNCHANGED <<poolVars, fdVars, host, client_socket, server_socket, slot, attempts, hostent, stray, destroyed>>

SlotsOf(f) == {i \in Slots : connections[i].socket_fd = f}

\* send fails, or recv gets nothing in time: the socket is closed, and the pool,
\* which may have a slot for it, is not told.
ServerFails(w) ==
  /\ Go(w, "exchange", "done")
  /\ Close({server_socket[w]})
  /\ stray' = stray \cup SlotsOf(server_socket[w])
  /\ server_socket' = [server_socket EXCEPT ![w] = NoFd]
  /\ UNCHANGED <<poolVars, host, client_socket, slot, attempts, hostent, destroyed>>

-----------------------------------------------------------------------------
(* connection_pool_return, with keep_alive = 1 as in its only call.        *)

EmptySlots == {i \in Slots : ~Occupied(connections[i])}

ReturnToSlot(w) ==
  /\ Go(w, "return", "done") /\ SlotsOf(server_socket[w]) # {}
  /\ connections' = [connections EXCEPT ![Min(SlotsOf(server_socket[w]))] =
                       [@ EXCEPT !.in_use = FALSE, !.unused = 0]]
  /\ server_socket' = [server_socket EXCEPT ![w] = NoFd]
  /\ UNCHANGED <<pool_size, fdVars, host, client_socket, slot, attempts, hostent, stray, destroyed>>

\* Mutant: the slot is looked for with socket_fd < 0 left out of the condition.
ReturnNewAnywhere(w) ==
  /\ Go(w, "return", "done") /\ SlotsOf(server_socket[w]) = {}
  /\ connections' = [connections EXCEPT ![1] =
                       [socket_fd |-> server_socket[w], host |-> host[w], in_use |-> FALSE, unused |-> 0]]
  /\ pool_size' = pool_size + 1
  /\ server_socket' = [server_socket EXCEPT ![w] = NoFd]
  /\ UNCHANGED <<fdVars, host, client_socket, slot, attempts, hostent, stray, destroyed>>

ReturnNew(w) ==
  /\ Go(w, "return", "done") /\ SlotsOf(server_socket[w]) = {} /\ EmptySlots # {}
  /\ connections' = [connections EXCEPT ![Min(EmptySlots)] =
                       [socket_fd |-> server_socket[w], host |-> host[w], in_use |-> FALSE, unused |-> 0]]
  /\ pool_size' = pool_size + 1
  /\ server_socket' = [server_socket EXCEPT ![w] = NoFd]
  /\ UNCHANGED <<fdVars, host, client_socket, slot, attempts, hostent, stray, destroyed>>

ReturnPoolFull(w) ==
  /\ Go(w, "return", "done") /\ SlotsOf(server_socket[w]) = {} /\ EmptySlots = {}
  /\ Close({server_socket[w]})
  /\ server_socket' = [server_socket EXCEPT ![w] = NoFd]
  /\ UNCHANGED <<poolVars, host, client_socket, slot, attempts, hostent, stray, destroyed>>

-----------------------------------------------------------------------------
\* connection_pool_cleanup.  (No code calls it.)
Cleanup ==
  /\ Sweeper /\ ~destroyed
  /\ LET gone == {i \in Slots : LET c == connections[i]
                                IN  Occupied(c) /\ ~c.in_use /\ TimedOut(c)}
     IN  /\ gone # {}
         /\ connections' = Cleared(gone)
         /\ Release(gone)
  /\ UNCHANGED <<workVars, destroyed>>

Tick == /\ ~destroyed
        /\ connections' = [i \in Slots |->
             [connections[i] EXCEPT !.unused =
                IF Occupied(connections[i]) /\ @ < CONNECTION_TIMEOUT THEN @ + 1 ELSE @]]
        /\ UNCHANGED <<pool_size, fdVars, workVars, stray, destroyed>>

\* Mutant: only the connections in use are closed.
DestroyClosesUsed == {i \in Slots : Occupied(connections[i]) /\ connections[i].in_use}

DestroyCloses == {i \in Slots : Occupied(connections[i])}

\* proxy_server_shutdown, after the workers were joined: none is in a request, but for one
\* that carries the signal handler, of which nothing is said here.
Destroy == /\ ~destroyed
           /\ \A w \in Workers : pc[w] = "idle"
           /\ Close(FdsOf(DestroyCloses))
           /\ destroyed' = TRUE
           /\ UNCHANGED <<poolVars, workVars, stray>>

Next == \/ \E w \in Workers :
             \/ Begin(w) \/ Reuse(w) \/ ReadSlot(w) \/ NothingUsable(w)
             \/ Resolve(w) \/ NoSocket(w) \/ Connect(w) \/ ConnectFails(w)
             \/ Exchange(w) \/ ServerFails(w)
             \/ ReturnToSlot(w) \/ ReturnNew(w) \/ ReturnPoolFull(w) \/ End(w)
        \/ Cleanup \/ Tick \/ Destroy

Spec == Init /\ [][Next]_vars

-----------------------------------------------------------------------------
(* What must hold.                                                         *)

\* The types; no request tries to connect more than twice.
TypeOK ==
  /\ connections \in [Slots -> [socket_fd : Fds \cup {NoFd}, host : Hosts,
                                in_use : BOOLEAN, unused : 0..CONNECTION_TIMEOUT]]
  /\ pool_size \in 0..MAX_POOL_SIZE
  /\ fd \in [Fds -> Hosts \cup {Closed, Client, Unconnected}]
  /\ hostent \in [Workers -> Hosts] /\ host \in [Workers -> Hosts]
  /\ pc \in [Workers -> {"idle", "get", "found", "create", "connect", "exchange", "return", "done"}]
  /\ client_socket \in [Workers -> Fds \cup {NoFd}]
  /\ server_socket \in [Workers -> Fds \cup {NoFd}]
  /\ slot \in [Workers -> Slots \cup {NoSlot}]
  /\ attempts \in [Workers -> 0..2]
  /\ stray \subseteq Slots /\ crossed \subseteq Fds /\ destroyed \in BOOLEAN

\* Every open descriptor has exactly one owner: the worker of that client, the
\* worker that uses that connection or has just found it, or one idle slot.  So no descriptor is lost,
\* no connection is shared by two requests, and none is closed behind the back of
\* its user, although failed connections leave slots with closed descriptors.
Idle == {i \in Slots : Occupied(connections[i]) /\ ~connections[i].in_use}
Owners(f) == {<<"client", w>> : w \in {v \in Workers : client_socket[v] = f}}
             \cup {<<"server", w>> : w \in {v \in Workers : server_socket[v] = f}}
             \cup {<<"found", w>> : w \in {v \in Workers :
                      slot[v] # NoSlot /\ connections[slot[v]].socket_fd = f}}
             \cup {<<"slot", i>> : i \in {j \in Idle : connections[j].socket_fd = f}}
OneOwner == ~destroyed =>
  \A f \in Fds : Cardinality(Owners(f)) = IF fd[f] = Closed THEN 0 ELSE 1

\* pool_size counts the occupied slots, and no two of them name one descriptor.
SizeExact == /\ pool_size = Cardinality({i \in Slots : Occupied(connections[i])})
             /\ \A i, j \in Slots : Occupied(connections[i])
                  /\ connections[i].socket_fd = connections[j].socket_fd => i = j

\* When the pool is destroyed and no worker is in a request, every connection is closed.
DestroyClosesAll == destroyed => \A f \in Fds : fd[f] = Closed

\* A slot is occupied only while its connection is open and leads to the host of
\* the slot, with two exceptions: a failed connection was closed without telling the
\* pool (stray), or the connection was made while another thread resolved another
\* host, so that it led to the wrong host from the start (crossed).
SlotsDescribe == ~destroyed =>
  \A i \in Slots \ stray :
    Occupied(connections[i]) /\ connections[i].socket_fd \notin crossed
      => fd[connections[i].socket_fd] = connections[i].host

\* A request is sent to the server it names (connection_pool.c:82, "Look for
\* existing connection to this host:port"),
Right(w) == pc[w] = "exchange" => fd[server_socket[w]] = host[w]
RightServer == \A w \in Workers : Right(w)

\* at least while no slot that was left behind has got its descriptor again, and the
\* connection was not made with another thread's result of gethostbyname.  There is
\* no third way to a wrong server: neither expiry, nor eviction, nor a return under
\* a number that was issued again leads there.
RightUnlessStrayOrCrossed ==
  \A w \in Workers : SlotsOf(server_socket[w]) \cap stray = {} /\ server_socket[w] \notin crossed
    => Right(w)

\* The pool implements the abstract one.  So two workers are never lent one
\* connection, although the descriptor is read after the mutex was released
\* (connection_pool.c:97-98); a new one is made only when none is kept for the host; and
\* what is given back goes under its own host, but for numbers that are still lent.
Entry(c) == [socket_fd |-> c.socket_fd, host |-> c.host]
Kept(S)  == IF destroyed THEN {} ELSE {Entry(connections[i]) : i \in S}
Lent     == {i \in Slots : Occupied(connections[i]) /\ connections[i].in_use}
Using(w) == IF pc[w] = "found" THEN connections[slot[w]].socket_fd
            ELSE IF pc[w] \in {"exchange", "return"} THEN server_socket[w] ELSE NoFd
Place(p) == IF p \in {"found", "exchange"} THEN "use"
            ELSE IF p \in {"create", "connect"} THEN "make" ELSE p
UsedBy   == [w \in Workers |-> Using(w)]
PlaceOf  == [w \in Workers |-> Place(pc[w])]
Keeper   == INSTANCE ConnectionKeeper WITH idle <- Kept(Idle), lent <- Kept(Lent), over <- destroyed,
                                           pc <- PlaceOf, uses <- UsedBy
ImplementsKeeper == Keeper!Spec
=============================================================================
