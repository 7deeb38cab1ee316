------------------------ MODULE ConnectionRefinement ------------------------
(***************************************************************************)
(* ConnectionPool implements ConnectionKeeper: to its callers the slots,   *)
(* their flags and the descriptor table are a set of idle connections and  *)
(* a set of lent ones.  What the steps do to those sets follows from the   *)
(* invariants of ConnectionPoolProofs: that slots name different           *)
(* descriptors, and who has which.                                         *)
(***************************************************************************)
EXTENDS ConnectionPoolProofs

-----------------------------------------------------------------------------
(* The entries of some slots.                                              *)

Entries(c, S) == {Entry(c[i]) : i \in S}

\* Slots with different descriptors have different entries.
LEMMA EntriesMinus ==
  ASSUME NEW c, NEW S, NEW G \in SUBSET S,
         \A i, j \in S : c[i].socket_fd = c[j].socket_fd => i = j
  PROVE  Entries(c, S \ G) = Entries(c, S) \ Entries(c, G)
<1>1. \A i, j \in S : Entry(c[i]) = Entry(c[j]) => i = j
  BY DEF Entry
<1> QED
  BY <1>1 DEF Entries

LEMMA EntriesSame ==
  ASSUME NEW c, NEW d, NEW S,
         \A i \in S : d[i].socket_fd = c[i].socket_fd /\ d[i].host = c[i].host
  PROVE  Entries(d, S) = Entries(c, S)
  BY DEF Entries, Entry

LEMMA EntriesPlus ==
  ASSUME NEW c, NEW S, NEW i
  PROVE  Entries(c, S \cup {i}) = Entries(c, S) \cup {Entry(c[i])}
  BY DEF Entries

LEMMA EntriesCount ==
  ASSUME NEW c, NEW S, IsFiniteSet(S),
         \A i, j \in S : c[i].socket_fd = c[j].socket_fd => i = j
  PROVE  Cardinality(Entries(c, S)) = Cardinality(S)
<1> DEFINE f == [i \in S |-> Entry(c[i])]
<1>1. \A i, j \in S : f[i] = f[j] => i = j
  BY DEF Entry
<1>2. f \in [S -> Entries(c, S)] /\ \A e \in Entries(c, S) : \E i \in S : f[i] = e
  BY DEF Entries
<1>3. f \in Bijection(S, Entries(c, S))
  BY <1>1, <1>2 DEF Bijection, Injection, Surjection, IsInjective
<1>4. ExistsBijection(S, Entries(c, S))
  BY <1>3 DEF ExistsBijection
<1> QED
  BY <1>4, FS_Bijection

-----------------------------------------------------------------------------
(* What the abstract pool shows of a state.                                *)

LEMMA KeptIs ==
  /\ ~destroyed => \A S : Kept(S) = Entries(connections, S)
  /\ destroyed => \A S : Kept(S) = {}
  BY DEF Kept, Entries

LEMMA FilledIs == Types => Filled = Idle \cup Lent /\ Idle \cap Lent = {}
  BY DEF Types, Record, Filled, Idle, Lent

LEMMA Apart ==
  ASSUME Distinct
  PROVE  \A i, j \in Filled : connections[i].socket_fd = connections[j].socket_fd => i = j
  BY DEF Distinct, Filled

LEMMA Minus ==
  ASSUME Types, Distinct
  PROVE  /\ \A G \in SUBSET Idle : Entries(connections, Idle \ G) = Entries(connections, Idle) \ Entries(connections, G)
         /\ \A G \in SUBSET Lent : Entries(connections, Lent \ G) = Entries(connections, Lent) \ Entries(connections, G)
<1>1. \A i, j \in Idle : connections[i].socket_fd = connections[j].socket_fd => i = j
  BY Apart, FilledIs
<1>2. \A i, j \in Lent : connections[i].socket_fd = connections[j].socket_fd => i = j
  BY Apart, FilledIs
<1>3. ASSUME NEW G \in SUBSET Idle
      PROVE  Entries(connections, Idle \ G) = Entries(connections, Idle) \ Entries(connections, G)
  BY <1>1, EntriesMinus
<1>4. ASSUME NEW G \in SUBSET Lent
      PROVE  Entries(connections, Lent \ G) = Entries(connections, Lent) \ Entries(connections, G)
  BY <1>2, EntriesMinus
<1> QED
  BY <1>3, <1>4

\* The abstract pool counts as this one does.
LEMMA KeeperCounts ==
  ASSUME NEW S
  PROVE  Keeper!Cardinality(S) = Cardinality(S)
  BY DEF Cardinality, Keeper!Cardinality

\* The abstract pool is full exactly when there is no empty slot.
LEMMA FullIs ==
  ASSUME Types, Distinct, ~destroyed
  PROVE  EmptySlots = {} <=> ~(Cardinality(Kept(Idle) \cup Kept(Lent)) < MAX_POOL_SIZE)
<1>1. Kept(Idle) \cup Kept(Lent) = Entries(connections, Filled)
  BY KeptIs, FilledIs DEF Entries
<1>2. Cardinality(Entries(connections, Filled)) = Cardinality(Filled)
  BY FilledFinite, Apart, EntriesCount
<1>3. IsFiniteSet(Slots) /\ Cardinality(Slots) = MAX_POOL_SIZE /\ MAX_POOL_SIZE \in Nat
  BY Sizes, FS_Interval DEF Slots
<1>4. EmptySlots = Slots \ Filled /\ Filled \subseteq Slots
  BY DEF EmptySlots, Filled
<1>5. Cardinality(Filled) = Cardinality(Slots) <=> Filled = Slots
  BY <1>3, <1>4, FS_Subset
<1>6. Cardinality(Filled) <= MAX_POOL_SIZE /\ Cardinality(Filled) \in Nat
  BY <1>3, FilledFinite
<1> QED
  BY <1>1, <1>2, <1>3, <1>4, <1>5, <1>6

\* The place of one worker changes.
LEMMA PlaceChanges ==
  ASSUME Types, NEW w \in Workers, NEW from, NEW to, Go(w, from, to)
  PROVE  Keeper!Go(w, Place(from), Place(to))
<1>1. pc' = [v \in Workers |-> IF v = w THEN to ELSE pc[v]]
  BY DEF Go, Types
<1>2. PlaceOf' = [PlaceOf EXCEPT ![w] = Place(to)]
  BY <1>1 DEF PlaceOf
<1> QED
  BY <1>2 DEF PlaceOf, Go, Keeper!Go

\* No step moves the descriptor of a slot that is lent.
Steady == \A i \in Lent : connections'[i].socket_fd = connections[i].socket_fd

LEMMA UseChanges ==
  ASSUME Types, Owned, Steady, NEW w \in Workers, NEW f, Using(w)' = f,
         \A v \in Workers \ {w} : pc'[v] = pc[v] /\ slot'[v] = slot[v] /\ server_socket'[v] = server_socket[v]
  PROVE  UsedBy' = [UsedBy EXCEPT ![w] = f]
<1>1. ASSUME NEW v \in Workers, v # w PROVE Using(v)' = Using(v)
  <2>1. CASE pc[v] = "found"
    <3>1. slot[v] \in Lent
      BY <2>1, Sizes DEF Types, Owned, FoundOwn, Lent
    <3> QED
      BY <1>1, <2>1, <3>1 DEF Using, Steady
  <2>2. CASE pc[v] # "found"
    BY <1>1, <2>2 DEF Using
  <2> QED
    BY <2>1, <2>2
<1> QED
  BY <1>1 DEF UsedBy

LEMMA UseStays ==
  ASSUME Types, Owned, Steady, NEW w \in Workers, Using(w)' = Using(w),
         \A v \in Workers \ {w} : pc'[v] = pc[v] /\ slot'[v] = slot[v] /\ server_socket'[v] = server_socket[v]
  PROVE  UsedBy' = UsedBy
<1>1. UsedBy' = [UsedBy EXCEPT ![w] = Using(w)]
  BY UseChanges
<1> QED
  BY <1>1 DEF UsedBy

LEMMA SameUse ==
  ASSUME Types, Owned, Steady, UNCHANGED <<pc, slot, server_socket>>
  PROVE  UsedBy' = UsedBy
<1>1. ASSUME NEW v \in Workers PROVE Using(v)' = Using(v)
  <2>1. CASE pc[v] = "found"
    <3>1. slot[v] \in Lent
      BY <2>1, Sizes DEF Types, Owned, FoundOwn, Lent
    <3> QED
      BY <2>1, <3>1 DEF Using, Steady
  <2>2. CASE pc[v] # "found"
    BY <2>2 DEF Using
  <2> QED
    BY <2>1, <2>2
<1> QED
  BY <1>1 DEF UsedBy

-----------------------------------------------------------------------------
(* The operations, as the abstract pool sees them.                         *)

\* Idle slots are cleared.
LEMMA SweepShows ==
  ASSUME Types, Distinct, ~destroyed, ~destroyed', NEW gone \in SUBSET Idle,
         \A j \in Slots : connections'[j] = IF j \in gone THEN Empty ELSE connections[j]
  PROVE  /\ Kept(Idle)' = Kept(Idle) \ Kept(gone) /\ Kept(Lent)' = Kept(Lent)
         /\ Steady
<1>1. ~Occupied(Empty)
  BY DEF Empty, Occupied
<1>2. Idle' = Idle \ gone /\ Lent' = Lent
  BY <1>1 DEF Idle, Lent
<1>3. Entries(connections', Idle \ gone) = Entries(connections, Idle \ gone)
  BY EntriesSame DEF Idle
<1>4. Entries(connections, Idle \ gone) = Entries(connections, Idle) \ Entries(connections, gone)
  BY Minus
<1>5. \A j \in Lent : connections'[j] = connections[j]
  BY DEF Idle, Lent
<1>6. Entries(connections', Lent) = Entries(connections, Lent)
  BY <1>5, EntriesSame
<1>7. Kept(Idle)' = Entries(connections', Idle') /\ Kept(Lent)' = Entries(connections', Lent')
  BY DEF Kept, Entries
<1> QED
  BY <1>2, <1>3, <1>4, <1>5, <1>6, <1>7, KeptIs DEF Steady

\* Nothing changes but the time since the last use.
LEMMA SameShows ==
  ASSUME Types, destroyed' = destroyed,
         \A j \in Slots : /\ connections'[j].socket_fd = connections[j].socket_fd
                          /\ connections'[j].host = connections[j].host
                          /\ connections'[j].in_use = connections[j].in_use
  PROVE  Kept(Idle)' = Kept(Idle) /\ Kept(Lent)' = Kept(Lent) /\ Steady
<1>1. Idle' = Idle /\ Lent' = Lent /\ Idle \subseteq Slots /\ Lent \subseteq Slots
  BY DEF Idle, Lent, Occupied
<1>2. Entries(connections', Idle) = Entries(connections, Idle) /\ Entries(connections', Lent) = Entries(connections, Lent)
  BY <1>1, EntriesSame
<1> QED
  BY <1>1, <1>2 DEF Kept, Entries, Steady

\* One idle slot is lent, after others were cleared.
LEMMA LendShows ==
  ASSUME Types, Distinct, ~destroyed, ~destroyed', NEW gone \in SUBSET Idle, NEW i \in Idle \ gone,
         \A j \in Slots \ {i} : connections'[j] = IF j \in gone THEN Empty ELSE connections[j],
         connections'[i].socket_fd = connections[i].socket_fd,
         connections'[i].host = connections[i].host, connections'[i].in_use
  PROVE  /\ Kept(Idle)' = Kept(Idle) \ (Kept(gone) \cup {Entry(connections[i])})
         /\ Kept(Lent)' = Kept(Lent) \cup {Entry(connections[i])}
         /\ Steady
<1>1. ~Occupied(Empty) /\ i \in Slots /\ Idle \subseteq Slots /\ Lent \subseteq Slots /\ i \notin Lent
  BY DEF Empty, Occupied, Idle, Lent
<1>2. Idle' = Idle \ (gone \cup {i}) /\ Lent' = Lent \cup {i}
  BY <1>1 DEF Idle, Lent, Occupied
<1>3. \A j \in Idle \ (gone \cup {i}) : connections'[j] = connections[j]
  BY <1>1
<1>4. Entries(connections', Idle \ (gone \cup {i})) = Entries(connections, Idle \ (gone \cup {i}))
  BY <1>3, EntriesSame
<1>5. Entries(connections, Idle \ (gone \cup {i})) = Entries(connections, Idle) \ Entries(connections, gone \cup {i})
  BY Minus
<1>6. Entries(connections, gone \cup {i}) = Entries(connections, gone) \cup {Entry(connections[i])}
  BY EntriesPlus
<1>7. \A j \in Lent \cup {i} : connections'[j].socket_fd = connections[j].socket_fd /\ connections'[j].host = connections[j].host
  BY <1>1 DEF Idle, Lent
<1>8. Entries(connections', Lent \cup {i}) = Entries(connections, Lent \cup {i})
  BY <1>7, EntriesSame
<1>9. Entries(connections, Lent \cup {i}) = Entries(connections, Lent) \cup {Entry(connections[i])}
  BY EntriesPlus
<1>10. Kept(Idle)' = Entries(connections', Idle') /\ Kept(Lent)' = Entries(connections', Lent')
  BY DEF Kept, Entries
<1> QED
  BY <1>2, <1>4, <1>5, <1>6, <1>7, <1>8, <1>9, <1>10, KeptIs DEF Steady

\* A lent slot becomes idle.
LEMMA GiveBackShows ==
  ASSUME Types, Distinct, ~destroyed, ~destroyed', NEW i \in Lent,
         \A j \in Slots \ {i} : connections'[j] = connections[j],
         connections'[i].socket_fd = connections[i].socket_fd,
         connections'[i].host = connections[i].host, ~connections'[i].in_use
  PROVE  /\ Kept(Idle)' = Kept(Idle) \cup {Entry(connections[i])}
         /\ Kept(Lent)' = Kept(Lent) \ {Entry(connections[i])}
         /\ Steady
<1>1. i \in Slots /\ Idle \subseteq Slots /\ Lent \subseteq Slots
  BY DEF Idle, Lent
<1>2. Idle' = Idle \cup {i} /\ Lent' = Lent \ {i}
  BY <1>1 DEF Idle, Lent, Occupied
<1>3. \A j \in Slots : connections'[j].socket_fd = connections[j].socket_fd /\ connections'[j].host = connections[j].host
  BY <1>1
<1>4. Entries(connections', Idle \cup {i}) = Entries(connections, Idle \cup {i})
  BY <1>1, <1>3, EntriesSame
<1>5. Entries(connections, Idle \cup {i}) = Entries(connections, Idle) \cup {Entry(connections[i])}
  BY EntriesPlus
<1>6. Entries(connections', Lent \ {i}) = Entries(connections, Lent \ {i})
  BY <1>1, <1>3, EntriesSame
<1>7. Entries(connections, Lent \ {i}) = Entries(connections, Lent) \ Entries(connections, {i})
  BY Minus
<1>8. Entries(connections, {i}) = {Entry(connections[i])}
  BY DEF Entries
<1>9. Kept(Idle)' = Entries(connections', Idle') /\ Kept(Lent)' = Entries(connections', Lent')
  BY DEF Kept, Entries
<1> QED
  BY <1>1, <1>2, <1>3, <1>4, <1>5, <1>6, <1>7, <1>8, <1>9, KeptIs DEF Steady

\* An empty slot is filled.
LEMMA AddShows ==
  ASSUME Types, ~destroyed, ~destroyed', NEW i \in Slots, ~Occupied(connections[i]),
         NEW f, NEW h, f # NoFd,
         connections'[i] = [socket_fd |-> f, host |-> h, in_use |-> FALSE, unused |-> 0],
         \A j \in Slots \ {i} : connections'[j] = connections[j]
  PROVE  /\ Kept(Idle)' = Kept(Idle) \cup {[socket_fd |-> f, host |-> h]}
         /\ Kept(Lent)' = Kept(Lent) /\ Steady
<1>1. Idle \subseteq Slots \ {i} /\ Lent \subseteq Slots \ {i} /\ Occupied(connections'[i])
  BY DEF Idle, Lent, Occupied
<1>2. Idle' = Idle \cup {i} /\ Lent' = Lent
  BY <1>1 DEF Idle, Lent
<1>3. Entries(connections', Idle \cup {i}) = Entries(connections', Idle) \cup {Entry(connections'[i])}
  BY EntriesPlus
<1>4. Entries(connections', Idle) = Entries(connections, Idle) /\ Entries(connections', Lent) = Entries(connections, Lent)
  BY <1>1, EntriesSame
<1>5. Entry(connections'[i]) = [socket_fd |-> f, host |-> h]
  BY DEF Entry
<1>6. Kept(Idle)' = Entries(connections', Idle') /\ Kept(Lent)' = Entries(connections', Lent')
  BY DEF Kept, Entries
<1>7. Steady
  BY <1>1 DEF Steady
<1> QED
  BY <1>2, <1>3, <1>4, <1>5, <1>6, <1>7, KeptIs

-----------------------------------------------------------------------------
(* Each step is one of the abstract pool, or none.                         *)

Others(w) == \A v \in Workers \ {w} :
               pc'[v] = pc[v] /\ slot'[v] = slot[v] /\ server_socket'[v] = server_socket[v]

LEMMA InitShows == Init => Keeper!Init
<1> SUFFICES ASSUME Init PROVE Keeper!Init
  OBVIOUS
<1>1. Idle = {} /\ Lent = {} /\ ~destroyed
  BY DEF Init, Idle, Lent, Occupied, Empty
<1>2. Kept(Idle) = {} /\ Kept(Lent) = {}
  BY <1>1 DEF Kept
<1>3. host \in [Workers -> Hosts]
  BY InitTypes DEF Types
<1>4. PlaceOf = [w \in Workers |-> "idle"] /\ UsedBy = [w \in Workers |-> NoFd]
  BY DEF Init, PlaceOf, Place, UsedBy, Using
<1> QED
  BY <1>1, <1>2, <1>3, <1>4 DEF Init, Keeper!Init

\* What does not touch the pool.
LEMMA PoolSame ==
  ASSUME Types, UNCHANGED <<connections, destroyed>>
  PROVE  Kept(Idle)' = Kept(Idle) /\ Kept(Lent)' = Kept(Lent) /\ Steady
  BY SameShows

\* Requests begin and end, and connections are used.
LEMMA PassingRefines ==
  ASSUME Inv, NEW w \in Workers,
         \/ Begin(w) \/ End(w) \/ ReadSlot(w) \/ Resolve(w) \/ NoSocket(w) \/ ConnectFails(w) \/ Exchange(w)
  PROVE  [Keeper!Next]_(Keeper!vars)
<1>1. Types /\ Owned
  BY DEF Inv
<1>2. Kept(Idle)' = Kept(Idle) /\ Kept(Lent)' = Kept(Lent) /\ Steady /\ destroyed' = destroyed
  BY <1>1, PoolSame DEF Begin, End, ReadSlot, Resolve, NoSocket, ConnectFails, Exchange, poolVars
<1>3. Others(w)
  BY <1>1 DEF Types, Others, Begin, End, ReadSlot, Resolve, NoSocket, ConnectFails, Exchange, Go
<1>4. Using(w)' = Using(w) => UsedBy' = UsedBy
  BY <1>1, <1>2, <1>3, UseStays DEF Others
<1>5. CASE Begin(w)
  <2>1. PICK h \in Hosts : host' = [host EXCEPT ![w] = h]
    BY <1>5 DEF Begin
  <2>2. Go(w, "idle", "get") /\ ~destroyed
    BY <1>5 DEF Begin
  <2>3. UsedBy' = UsedBy
    BY <1>1, <1>4, <2>2 DEF Types, Go, Using
  <2>4. Keeper!Go(w, "idle", "get")
    BY <1>1, <2>2, PlaceChanges DEF Place
  <2>5. Keeper!Ask(w, h)
    BY <1>2, <2>1, <2>2, <2>3, <2>4 DEF Keeper!Ask
  <2> QED
    BY <2>5 DEF Keeper!Next
<1>6. CASE End(w)
  <2>1. Go(w, "done", "idle") /\ host' = host
    BY <1>6 DEF End
  <2>2. UsedBy' = UsedBy
    BY <1>1, <1>4, <2>1 DEF Types, Go, Using
  <2>3. Keeper!Go(w, "done", "idle")
    BY <1>1, <2>1, PlaceChanges DEF Place
  <2> QED
    BY <1>2, <2>1, <2>2, <2>3 DEF Keeper!Proceed, Keeper!Next
<1>7. CASE Exchange(w)
  <2>1. Go(w, "exchange", "return") /\ host' = host /\ server_socket' = server_socket
    BY <1>7 DEF Exchange
  <2>2. UsedBy' = UsedBy
    BY <1>1, <1>4, <2>1 DEF Types, Go, Using
  <2>3. Keeper!Go(w, "use", "return")
    BY <1>1, <2>1, PlaceChanges DEF Place
  <2> QED
    BY <1>2, <2>1, <2>2, <2>3 DEF Keeper!Proceed, Keeper!Next
<1>8. CASE ReadSlot(w)
  <2>1. Go(w, "found", "exchange") /\ host' = host
        /\ server_socket' = [server_socket EXCEPT ![w] = connections[slot[w]].socket_fd]
    BY <1>8 DEF ReadSlot
  <2>2. UsedBy' = UsedBy
    BY <1>1, <1>4, <2>1 DEF Types, Go, Using
  <2>3. PlaceOf' = PlaceOf
    BY <1>1, <2>1 DEF Types, Go, PlaceOf, Place
  <2> QED
    BY <1>2, <2>1, <2>2, <2>3 DEF Keeper!vars
<1>9. CASE Resolve(w) \/ NoSocket(w) \/ ConnectFails(w)
  <2>1. PICK from, to : Go(w, from, to) /\ from \in {"create", "connect"} /\ to \in {"create", "connect", "done"}
    BY <1>9 DEF Resolve, NoSocket, ConnectFails, NextAttempt
  <2>2. host' = host
    BY <1>9 DEF Resolve, NoSocket, ConnectFails
  <2>3. UsedBy' = UsedBy
    BY <1>1, <1>4, <2>1 DEF Types, Go, Using
  <2>4. CASE to = "done"
    <3>1. Keeper!Go(w, "make", "done")
      BY <1>1, <2>1, <2>4, PlaceChanges DEF Place
    <3> QED
      BY <1>2, <2>2, <2>3, <3>1 DEF Keeper!Proceed, Keeper!Next
  <2>5. CASE to # "done"
    <3>1. PlaceOf' = PlaceOf
      BY <1>1, <2>1, <2>5 DEF Types, Go, PlaceOf, Place
    <3> QED
      BY <1>2, <2>2, <2>3, <3>1 DEF Keeper!vars
  <2> QED
    BY <2>4, <2>5
<1> QED
  BY <1>5, <1>6, <1>7, <1>8, <1>9

\* A connection found is lent; the expired ones before it are dropped.
LEMMA ReuseRefines ==
  ASSUME Inv, NEW w \in Workers, Reuse(w)
  PROVE  Keeper!Take(w)
<1>1. /\ Types /\ Owned /\ Distinct /\ ~destroyed /\ ~destroyed' /\ Go(w, "get", "found")
      /\ UNCHANGED <<host, server_socket, destroyed>>
  BY DEF Inv, Owned, AllGone, Reuse, Go
<1> DEFINE i == Min(Usable(host[w]))
           gone == Expired(host[w])
<1>2. i \in Usable(host[w])
  <2>1. Usable(host[w]) \in SUBSET Slots /\ Usable(host[w]) # {}
    BY DEF Reuse, Usable, Fitting
  <2> QED
    BY <2>1, MinElement
<1>3. /\ i \in Idle \ gone /\ connections[i].host = host[w] /\ gone \in SUBSET Idle
      /\ i \in Slots /\ \A j \in gone : connections[j].host = host[w]
  BY <1>2 DEF Usable, Expired, Fitting, Idle
<1>4. /\ connections' = [Cleared(gone) EXCEPT ![i].in_use = TRUE, ![i].unused = 0]
      /\ slot' = [slot EXCEPT ![w] = i] /\ Release(gone)
  BY DEF Reuse
<1> HIDE DEF i, gone
<1>5. gone \in SUBSET Slots
  BY <1>3 DEF Idle
<1>6. /\ Cleared(gone) \in [Slots -> Record]
      /\ \A j \in Slots : Cleared(gone)[j] = IF j \in gone THEN Empty ELSE connections[j]
  BY <1>1, <1>4, <1>5, ReleaseEffect
<1>7. /\ connections'[i] = [connections[i] EXCEPT !.in_use = TRUE, !.unused = 0]
      /\ \A j \in Slots \ {i} : connections'[j] = IF j \in gone THEN Empty ELSE connections[j]
  BY <1>1, <1>3, <1>4, <1>6 DEF Types, Record
<1>8. /\ connections'[i].socket_fd = connections[i].socket_fd
      /\ connections'[i].host = connections[i].host /\ connections'[i].in_use
  <2>1. connections[i] \in Record
    BY <1>1, <1>3 DEF Types
  <2> QED
    BY <1>7, <2>1, Marked
<1> DEFINE e == Entry(connections[i])
<1>9. /\ Kept(Idle)' = Kept(Idle) \ (Kept(gone) \cup {e})
      /\ Kept(Lent)' = Kept(Lent) \cup {e} /\ Steady
  BY <1>1, <1>3, <1>7, <1>8, LendShows
<1>10. UsedBy' = [UsedBy EXCEPT ![w] = e.socket_fd]
  <2>1. /\ Others(w) /\ pc'[w] = "found" /\ slot'[w] = i
    BY <1>1, <1>3, <1>4 DEF Types, Others, Go
  <2>2. Using(w)' = connections[i].socket_fd
    BY <1>8, <2>1 DEF Using
  <2> QED
    BY <1>1, <1>9, <2>1, <2>2, UseChanges DEF Entry, Others
<1>11. e \in Keeper!For(host[w]) /\ Kept(gone) \in SUBSET Keeper!For(host[w]) /\ e \notin Kept(gone)
  <2>1. Kept(Idle) = Entries(connections, Idle) /\ Kept(gone) = Entries(connections, gone)
    BY <1>1, KeptIs
  <2>2. e \in Kept(Idle) /\ e.host = host[w]
    BY <1>3, <2>1 DEF Entries, Entry
  <2>3. \A d \in Kept(gone) : d \in Kept(Idle) /\ d.host = host[w]
    BY <1>3, <2>1 DEF Entries, Entry
  <2>4. \A j \in gone : connections[j].socket_fd # connections[i].socket_fd
    BY <1>1, <1>3, Apart, FilledIs
  <2>5. e \notin Kept(gone)
    BY <2>1, <2>4 DEF Entries, Entry
  <2> QED
    BY <2>2, <2>3, <2>5 DEF Keeper!For
<1>12. Keeper!Go(w, "get", "use")
  BY <1>1, PlaceChanges DEF Place
<1> HIDE DEF e
<1> QED
  BY <1>1, <1>9, <1>10, <1>11, <1>12 DEF Keeper!Take

\* If no connection is found, none for the host is kept: all that fit had expired.
LEMMA NothingUsableRefines ==
  ASSUME Inv, NEW w \in Workers, NothingUsable(w)
  PROVE  Keeper!TakeNone(w)
<1>1. /\ Types /\ Owned /\ Distinct /\ ~destroyed /\ ~destroyed' /\ Go(w, "get", "create")
      /\ UNCHANGED <<host, server_socket, slot, destroyed>>
  BY DEF Inv, Owned, AllGone, NothingUsable, Go
<1> DEFINE gone == Expired(host[w])
<1>2. gone = {i \in Idle : connections[i].host = host[w]}
  BY DEF NothingUsable, Expired, Usable, Fitting, Idle
<1>3. connections' = Cleared(gone) /\ Release(gone)
  BY DEF NothingUsable
<1> HIDE DEF gone
<1>4. gone \in SUBSET Idle /\ gone \in SUBSET Slots
  BY <1>2 DEF Idle
<1>5. \A j \in Slots : connections'[j] = IF j \in gone THEN Empty ELSE connections[j]
  BY <1>1, <1>3, <1>4, ReleaseEffect
<1>6. Kept(Idle)' = Kept(Idle) \ Kept(gone) /\ Kept(Lent)' = Kept(Lent) /\ Steady
  BY <1>1, <1>4, <1>5, SweepShows
<1>7. Kept(gone) = Keeper!For(host[w])
  BY <1>1, <1>2, KeptIs DEF Keeper!For, Entries, Entry
<1>8. UsedBy' = UsedBy
  BY <1>1, <1>6, UseStays DEF Types, Go, Using
<1>9. Keeper!Go(w, "get", "make")
  BY <1>1, PlaceChanges DEF Place
<1> QED
  BY <1>1, <1>6, <1>7, <1>8, <1>9 DEF Keeper!TakeNone

\* A new connection is none of those that are kept or used.
LEMMA ConnectRefines ==
  ASSUME Inv, NEW w \in Workers, Connect(w)
  PROVE  Keeper!Make(w)
<1>1. /\ Types /\ Owned /\ ~destroyed /\ Go(w, "connect", "exchange")
      /\ UNCHANGED <<connections, host, server_socket, slot, destroyed>>
  BY DEF Inv, Owned, AllGone, Connect, Go, poolVars
<1> DEFINE f == server_socket[w]
<1>2. f \in Fds /\ f # NoFd
  BY <1>1 DEF Types, Owned, ServersOwn, Uses, Go
<1>3. f \notin Keeper!Numbers(Kept(Idle))
  BY <1>1, KeptIs DEF Owned, IdleOwn, Keeper!Numbers, Entries, Entry
<1>4. ASSUME NEW v \in Workers PROVE UsedBy[v] # f
  <2>1. UsedBy[v] = Using(v)
    BY DEF UsedBy
  <2>2. CASE pc[v] = "found"
    BY <1>1, <2>1, <2>2 DEF Using, Owned, FoundOwn
  <2>3. CASE pc[v] \in {"exchange", "return"}
    <3>1. v # w
      BY <1>1, <2>3 DEF Go
    <3> QED
      BY <1>1, <1>2, <2>1, <2>3, <3>1 DEF Using, Owned, ServersOwn
  <2> QED
    BY <1>2, <2>1, <2>2, <2>3 DEF Using
<1>5. Kept(Idle)' = Kept(Idle) /\ Kept(Lent)' = Kept(Lent) /\ Steady
  BY <1>1, PoolSame
<1>6. UsedBy' = [UsedBy EXCEPT ![w] = f]
  <2>1. Using(w)' = f /\ Others(w)
    BY <1>1 DEF Types, Go, Using, Others
  <2> HIDE DEF f
  <2> QED
    BY <1>1, <1>5, <2>1, UseChanges DEF Others
<1>7. Keeper!Go(w, "make", "use")
  BY <1>1, PlaceChanges DEF Place
<1> QED
  BY <1>1, <1>2, <1>3, <1>4, <1>5, <1>6, <1>7 DEF Keeper!Make

\* A connection that fails is closed, but what was lent stays lent.
LEMMA ServerFailsRefines ==
  ASSUME Inv, NEW w \in Workers, ServerFails(w)
  PROVE  Keeper!Lose(w)
<1>1. /\ Types /\ Owned /\ Go(w, "exchange", "done")
      /\ UNCHANGED <<connections, host, slot, destroyed>>
      /\ server_socket' = [server_socket EXCEPT ![w] = NoFd]
  BY DEF Inv, ServerFails, poolVars
<1>2. Kept(Idle)' = Kept(Idle) /\ Kept(Lent)' = Kept(Lent) /\ Steady
  BY <1>1, PoolSame
<1>3. UsedBy' = [UsedBy EXCEPT ![w] = NoFd]
  <2>1. Using(w)' = NoFd /\ Others(w)
    BY <1>1 DEF Types, Go, Using, Others
  <2> QED
    BY <1>1, <1>2, <2>1, UseChanges DEF Others
<1>4. Keeper!Go(w, "use", "done")
  BY <1>1, PlaceChanges DEF Place
<1> QED
  BY <1>1, <1>2, <1>3, <1>4 DEF Keeper!Lose

\* What is given back, and to which place.
LEMMA Returning ==
  ASSUME Inv, NEW w \in Workers, ReturnToSlot(w) \/ ReturnNew(w) \/ ReturnPoolFull(w)
  PROVE  /\ Types /\ Owned /\ Distinct /\ ~destroyed /\ ~destroyed'
         /\ UNCHANGED <<host, destroyed>>
         /\ server_socket[w] # NoFd /\ UsedBy[w] = server_socket[w]
         /\ Keeper!Go(w, "return", "done")
         /\ Steady => UsedBy' = [UsedBy EXCEPT ![w] = NoFd]
<1>1. /\ Types /\ Owned /\ Distinct /\ ~destroyed /\ ~destroyed' /\ Go(w, "return", "done")
      /\ UNCHANGED <<host, slot, destroyed>>
      /\ server_socket' = [server_socket EXCEPT ![w] = NoFd]
  BY DEF Inv, Owned, AllGone, ReturnToSlot, ReturnNew, ReturnPoolFull, Go
<1>2. server_socket[w] # NoFd /\ UsedBy[w] = server_socket[w]
  BY <1>1 DEF Owned, ServersOwn, Uses, Go, UsedBy, Using
<1>3. Using(w)' = NoFd /\ Others(w)
  BY <1>1 DEF Types, Go, Using, Others
<1>4. Steady => UsedBy' = [UsedBy EXCEPT ![w] = NoFd]
  BY <1>1, <1>3, UseChanges DEF Others
<1>5. Keeper!Go(w, "return", "done")
  BY <1>1, PlaceChanges DEF Place
<1> QED
  BY <1>1, <1>2, <1>4, <1>5

\* The pool finds the number in a slot: that slot is lent, for no idle connection is used.
LEMMA ReturnToSlotRefines ==
  ASSUME Inv, NEW w \in Workers, ReturnToSlot(w)
  PROVE  Keeper!Give(w)
<1>1. /\ Types /\ Owned /\ Distinct /\ ~destroyed /\ ~destroyed'
      /\ UNCHANGED <<host, destroyed>>
      /\ server_socket[w] # NoFd /\ UsedBy[w] = server_socket[w]
      /\ Keeper!Go(w, "return", "done")
      /\ Steady => UsedBy' = [UsedBy EXCEPT ![w] = NoFd]
  BY Returning
<1>2. PICK i \in Slots :
           /\ connections[i].socket_fd = server_socket[w]
           /\ connections'[i].socket_fd = connections[i].socket_fd
           /\ connections'[i].host = connections[i].host /\ ~connections'[i].in_use
           /\ \A j \in Slots \ {i} : connections'[j] = connections[j]
  BY <1>1, ReturnToSlotEffect
<1>3. i \in Lent
  <2>1. i \notin Idle
    BY <1>1, <1>2 DEF Owned, IdleOwn
  <2> QED
    BY <1>1, <1>2, <2>1 DEF Idle, Lent, Occupied
<1> DEFINE e == Entry(connections[i])
<1>4. Kept(Idle)' = Kept(Idle) \cup {e} /\ Kept(Lent)' = Kept(Lent) \ {e} /\ Steady
  BY <1>1, <1>2, <1>3, GiveBackShows
<1>5. e \in Kept(Lent) /\ e.socket_fd = UsedBy[w]
  BY <1>1, <1>2, <1>3, KeptIs DEF Entries, Entry
<1> HIDE DEF e
<1>6. Keeper!GiveBack(w)
  BY <1>4, <1>5 DEF Keeper!GiveBack, Keeper!Borrowed
<1> QED
  BY <1>1, <1>4, <1>6 DEF Keeper!Give

\* A number that no slot names is not lent.
LEMMA NotLent ==
  ASSUME ~destroyed, NEW f, \A j \in Slots : connections[j].socket_fd # f
  PROVE  {e \in Kept(Lent) : e.socket_fd = f} = {}
  BY KeptIs DEF Entries, Entry, Lent

LEMMA ReturnNewRefines ==
  ASSUME Inv, NEW w \in Workers, ReturnNew(w)
  PROVE  Keeper!Give(w)
<1>1. /\ Types /\ Owned /\ Distinct /\ ~destroyed /\ ~destroyed'
      /\ UNCHANGED <<host, destroyed>>
      /\ server_socket[w] # NoFd /\ UsedBy[w] = server_socket[w]
      /\ Keeper!Go(w, "return", "done")
      /\ Steady => UsedBy' = [UsedBy EXCEPT ![w] = NoFd]
  BY Returning
<1>2. PICK i \in Slots :
           /\ ~Occupied(connections[i])
           /\ \A j \in Slots : connections[j].socket_fd # server_socket[w]
           /\ connections'[i] = [socket_fd |-> server_socket[w], host |-> host[w], in_use |-> FALSE, unused |-> 0]
           /\ \A j \in Slots \ {i} : connections'[j] = connections[j]
  BY <1>1, ReturnNewEffect
<1>3. Kept(Idle)' = Kept(Idle) \cup {[socket_fd |-> server_socket[w], host |-> host[w]]} /\ Kept(Lent)' = Kept(Lent) /\ Steady
  BY <1>1, <1>2, AddShows
<1>4. Keeper!Borrowed(w) = {}
  BY <1>1, <1>2, NotLent DEF Keeper!Borrowed
<1>5. Keeper!HasRoom
  <2>1. EmptySlots # {}
    BY DEF ReturnNew
  <2> QED
    BY <1>1, <2>1, FullIs, KeeperCounts DEF Keeper!HasRoom
<1>6. Keeper!Made(w) = [socket_fd |-> server_socket[w], host |-> host[w]]
  BY <1>1 DEF Keeper!Made
<1>7. Keeper!GiveNew(w)
  BY <1>3, <1>4, <1>5, <1>6 DEF Keeper!GiveNew
<1> QED
  BY <1>1, <1>3, <1>7 DEF Keeper!Give

LEMMA ReturnPoolFullRefines ==
  ASSUME Inv, NEW w \in Workers, ReturnPoolFull(w)
  PROVE  Keeper!Give(w)
<1>1. /\ Types /\ Owned /\ Distinct /\ ~destroyed /\ ~destroyed'
      /\ UNCHANGED <<host, destroyed>>
      /\ server_socket[w] # NoFd /\ UsedBy[w] = server_socket[w]
      /\ Keeper!Go(w, "return", "done")
      /\ Steady => UsedBy' = [UsedBy EXCEPT ![w] = NoFd]
  BY Returning
<1>2. connections' = connections /\ EmptySlots = {} /\ \A j \in Slots : connections[j].socket_fd # server_socket[w]
  BY DEF ReturnPoolFull, poolVars, SlotsOf
<1>3. Kept(Idle)' = Kept(Idle) /\ Kept(Lent)' = Kept(Lent) /\ Steady
  BY <1>1, <1>2, PoolSame
<1>4. Keeper!Borrowed(w) = {}
  BY <1>1, <1>2, NotLent DEF Keeper!Borrowed
<1>5. ~Keeper!HasRoom
  BY <1>1, <1>2, FullIs, KeeperCounts DEF Keeper!HasRoom
<1>6. Keeper!GiveNew(w)
  BY <1>3, <1>4, <1>5 DEF Keeper!GiveNew
<1> QED
  BY <1>1, <1>3, <1>6 DEF Keeper!Give

LEMMA CleanupRefines ==
  ASSUME Inv, Cleanup
  PROVE  Keeper!Expire
<1>1. /\ Types /\ Owned /\ Distinct /\ ~destroyed /\ ~destroyed'
      /\ UNCHANGED <<pc, host, server_socket, slot, destroyed>>
  BY DEF Inv, Cleanup, workVars
<1>2. PICK gone \in SUBSET Slots :
           /\ Sweep(gone)
           /\ \A j \in Slots : connections'[j] = IF j \in gone THEN Empty ELSE connections[j]
  BY <1>1, CleanupEffect
<1>3. gone \in SUBSET Idle
  BY <1>2 DEF Sweep
<1>4. Kept(Idle)' = Kept(Idle) \ Kept(gone) /\ Kept(Lent)' = Kept(Lent) /\ Steady
  BY <1>1, <1>2, <1>3, SweepShows
<1>5. Kept(gone) \in SUBSET Kept(Idle)
  BY <1>1, <1>3, KeptIs DEF Entries
<1>6. PlaceOf' = PlaceOf /\ UsedBy' = UsedBy
  BY <1>1, <1>4, SameUse DEF PlaceOf
<1> QED
  BY <1>1, <1>4, <1>5, <1>6 DEF Keeper!Expire

LEMMA DestroyRefines ==
  ASSUME Inv, Destroy
  PROVE  Keeper!Destroy
<1>1. /\ destroyed' = TRUE /\ UNCHANGED <<connections, pc, host, server_socket, slot>>
      /\ \A w \in Workers : pc[w] = "idle"
  BY DEF Destroy, poolVars, workVars
<1>2. Kept(Idle)' = {} /\ Kept(Lent)' = {}
  BY <1>1 DEF Kept
<1>3. PlaceOf' = PlaceOf /\ UsedBy' = UsedBy /\ \A w \in Workers : PlaceOf[w] = "idle"
  BY <1>1 DEF PlaceOf, Place, UsedBy, Using
<1> QED
  BY <1>1, <1>2, <1>3 DEF Keeper!Destroy

LEMMA StepRefines == Inv /\ [Next]_vars => [Keeper!Next]_(Keeper!vars)
<1> SUFFICES ASSUME Inv, [Next]_vars PROVE [Keeper!Next]_(Keeper!vars)
  OBVIOUS
<1>1. CASE Tick \/ UNCHANGED vars
  <2>1. Types /\ Owned /\ UNCHANGED <<pc, host, server_socket, slot, destroyed>>
    BY <1>1 DEF Inv, Tick, vars, workVars
  <2>2. \A j \in Slots : /\ connections'[j].socket_fd = connections[j].socket_fd
                         /\ connections'[j].host = connections[j].host
                         /\ connections'[j].in_use = connections[j].in_use
    BY <1>1, <2>1, TickEffect DEF vars, poolVars
  <2>3. Kept(Idle)' = Kept(Idle) /\ Kept(Lent)' = Kept(Lent) /\ Steady
    BY <2>1, <2>2, SameShows
  <2>4. PlaceOf' = PlaceOf /\ UsedBy' = UsedBy
    BY <2>1, <2>3, SameUse DEF PlaceOf
  <2> QED
    BY <2>1, <2>3, <2>4 DEF Keeper!vars
<1>2. CASE Cleanup \/ Destroy
  BY <1>2, CleanupRefines, DestroyRefines DEF Keeper!Next
<1>3. CASE \E w \in Workers : \/ Begin(w) \/ End(w) \/ ReadSlot(w) \/ Resolve(w) \/ NoSocket(w)
                              \/ ConnectFails(w) \/ Exchange(w)
  BY <1>3, PassingRefines
<1>4. CASE \E w \in Workers : \/ Reuse(w) \/ NothingUsable(w) \/ Connect(w) \/ ServerFails(w)
                              \/ ReturnToSlot(w) \/ ReturnNew(w) \/ ReturnPoolFull(w)
  BY <1>4, ReuseRefines, NothingUsableRefines, ConnectRefines, ServerFailsRefines,
     ReturnToSlotRefines, ReturnNewRefines, ReturnPoolFullRefines DEF Keeper!Next
<1> QED
  BY <1>1, <1>2, <1>3, <1>4 DEF Next

-----------------------------------------------------------------------------
\* The pool keeps a bounded set of idle connections and lends each of them to one
\* worker, although a worker reads the descriptor it was lent after the mutex was
\* released; it makes a new connection only when it keeps none for the host; and a
\* connection goes back under another name than its host's only if its number was
\* lent before and never given back.
THEOREM PoolImplementsKeeper == Spec => ImplementsKeeper
  BY InitShows, AlwaysInv, StepRefines, PTL DEF Spec, ImplementsKeeper, Keeper!Spec
=============================================================================
