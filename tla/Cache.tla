------------------------------- MODULE Cache -------------------------------
(***************************************************************************)
(* The response cache (src/components/cache.c) and the worker threads that *)
(* use it: forward_request_to_server looks a URL up, sends the node it was *)
(* given or, on a miss, fetches the response from the server and adds it.  *)
(*                                                                         *)
(* An entry is a node, a block of memory that is allocated, freed and      *)
(* allocated again.  Every node is in the chain of its bucket (a sequence  *)
(* here) and in the doubly linked LRU list (kept as the pointers it is     *)
(* made of).  Each operation holds cache_mutex throughout and is one step, *)
(* but for the sweep of cache_remove_expired, which goes from node to      *)
(* node.  What a worker does with a node it was given is not protected.    *)
(***************************************************************************)
EXTENDS Integers, FiniteSets, SequencesExt

CONSTANTS
  Workers,
  Urls,
  Nodes,              \* bound: the addresses malloc has for nodes
  NULL,
  HASH_TABLE_SIZE,    \* cache.h
  CACHE_SIZE,         \* cache.h
  CACHE_EXPIRY_TIME,  \* cache.h, in ticks
  HashOf,             \* cache_hash: the bucket of each URL
  Sweeper             \* whether anybody calls cache_remove_expired

Buckets == 0..HASH_TABLE_SIZE - 1

ASSUME SizesAssumption == /\ HASH_TABLE_SIZE \in Nat \ {0}
                          /\ CACHE_SIZE \in Nat \ {0}
                          /\ CACHE_EXPIRY_TIME \in Nat \ {0}
ASSUME HashAssumption == HashOf \in [Urls -> Buckets]
ASSUME NodesAssumption == IsFiniteSet(Nodes) /\ NULL \notin Nodes
ASSUME UrlsAssumption == Urls # {}
ASSUME SweeperAssumption == Sweeper \in BOOLEAN

VARIABLES
  hash_table,    \* the chain of each bucket, first node first
  lru,           \* the LRU list: lru_head, lru_tail, and each node's lru_prev, lru_next
  current_size,
  url,           \* of each node; a freed one keeps what it held
  age,           \* time since the timestamp of each node, up to CACHE_EXPIRY_TIME
  allocated,     \* the nodes that are malloc'd
  sweep,         \* position of cache_remove_expired, which holds the mutex
  pc, arg,       \* per worker: where it is, and the URL it was asked for
  held,          \* per worker: the node cache_get returned
  older,         \* history: pairs of nodes, the first one used longer ago
  stale,         \* history: nodes whose URL was added again later
  dangling,      \* history: workers whose node was freed in their hands
  destroyed      \* cache_destroy was called

nodeVars == <<hash_table, lru, current_size, url, age, allocated, older, stale>>
workVars == <<pc, arg, held>>
vars == <<nodeVars, sweep, workVars, dangling, destroyed>>

AnyUrl == CHOOSE u \in Urls : TRUE  \* uninitialized, and never read

NotSweeping == [bucket |-> HASH_TABLE_SIZE, at |-> 1]
Unlocked    == sweep = NotSweeping

Init == /\ hash_table = [b \in Buckets |-> <<>>]
        /\ lru = [head |-> NULL, tail |-> NULL,
                  prev |-> [n \in Nodes |-> NULL], next |-> [n \in Nodes |-> NULL]]
        /\ current_size = 0
        /\ url = [n \in Nodes |-> AnyUrl]
        /\ age = [n \in Nodes |-> 0]
        /\ allocated = {}
        /\ sweep = NotSweeping
        /\ pc = [w \in Workers |-> "idle"]
        /\ arg = [w \in Workers |-> AnyUrl]
        /\ held = [w \in Workers |-> NULL]
        /\ older = {} /\ stale = {} /\ dangling = {}
        /\ destroyed = FALSE

-----------------------------------------------------------------------------
(* The LRU list.                                                           *)

\* cache.c:146-154 and 178-187: n becomes the head.
PushFront(l, n) ==
  LET prev1 == [l.prev EXCEPT ![n] = NULL]
  IN  [head |-> n,
       tail |-> IF l.head # NULL THEN l.tail ELSE n,
       prev |-> IF l.head # NULL THEN [prev1 EXCEPT ![l.head] = n] ELSE prev1,
       next |-> [l.next EXCEPT ![n] = l.head]]

\* Mutant: the tail is left alone when the last node moves to the front.
MoveToFrontKeepsTail(l, n) ==
  IF n = l.head THEN l
  ELSE LET p == l.prev[n]
           x == l.next[n]
       IN  PushFront([l EXCEPT !.next = IF p # NULL THEN [@ EXCEPT ![p] = x] ELSE @,
                               !.prev = IF x # NULL THEN [@ EXCEPT ![x] = p] ELSE @], n)

\* Mutant: a hit does not move its node.
MoveToFrontDoesNothing(l, n) == l

MoveToFront(l, n) ==
  IF n = l.head THEN l
  ELSE LET p == l.prev[n]
           x == l.next[n]
       IN  PushFront([l EXCEPT !.next = IF p # NULL THEN [@ EXCEPT ![p] = x] ELSE @,
                               !.prev = IF x # NULL THEN [@ EXCEPT ![x] = p] ELSE @,
                               !.tail = IF x # NULL THEN @ ELSE p], n)

\* cache.c:197-204: the tail leaves the list.
DropTail(l) ==
  LET p == l.prev[l.tail]
  IN  IF p # NULL THEN [l EXCEPT !.next[p] = NULL, !.tail = p]
                  ELSE [l EXCEPT !.head = NULL, !.tail = NULL]

\* cache.c:259-270: any node leaves the list.
Unlink(l, n) ==
  LET p == l.prev[n]
      x == l.next[n]
  IN  [head |-> IF p # NULL THEN l.head ELSE x,
       tail |-> IF x # NULL THEN l.tail ELSE p,
       next |-> IF p # NULL THEN [l.next EXCEPT ![p] = x] ELSE l.next,
       prev |-> IF x # NULL THEN [l.prev EXCEPT ![x] = p] ELSE l.prev]

-----------------------------------------------------------------------------
(* The order in which nodes were used last.                                *)

Forget(R, n)    == {p \in R : p[1] # n /\ p[2] # n}
Touch(R, S, n)  == Forget(R, n) \cup {<<m, n>> : m \in S \ {n}}

(* The chains.                                                             *)

Chain(u)   == hash_table[HashOf[u]]
Matches(u) == {i \in DOMAIN Chain(u) : url[Chain(u)[i]] = u}
Lookup(u)  == Chain(u)[Min(Matches(u))]

-----------------------------------------------------------------------------
(* cache_get and what forward_request_to_server does with its result.      *)

Request(w, u) == /\ pc[w] = "idle" /\ ~destroyed
                 /\ pc' = [pc EXCEPT ![w] = "get"]
                 /\ arg' = [arg EXCEPT ![w] = u]
                 /\ UNCHANGED <<nodeVars, sweep, held, dangling, destroyed>>

\* Mutant: the age is not looked at.
HitAnyAge(u) == Matches(u) # {}

Hit(u) == Matches(u) # {} /\ age[Lookup(u)] < CACHE_EXPIRY_TIME

GetHit(w) ==
  /\ pc[w] = "get" /\ Unlocked
  /\ Hit(arg[w])
  /\ LET n == Lookup(arg[w])
     IN  /\ lru' = MoveToFront(lru, n)
         /\ older' = Touch(older, allocated, n)
         /\ held' = [held EXCEPT ![w] = n]
  /\ pc' = [pc EXCEPT ![w] = "send"]
  /\ UNCHANGED <<hash_table, current_size, url, age, allocated, stale, sweep, arg, dangling, destroyed>>

\* No node, or an expired one, which stays where it is.
GetMiss(w) ==
  /\ pc[w] = "get" /\ Unlocked
  /\ ~Hit(arg[w])
  /\ pc' = [pc EXCEPT ![w] = "fetch"]
  /\ UNCHANGED <<nodeVars, sweep, arg, held, dangling, destroyed>>

\* send reads the node without the mutex.
SendCached(w) ==
  /\ pc[w] = "send"
  /\ pc' = [pc EXCEPT ![w] = "idle"]
  /\ held' = [held EXCEPT ![w] = NULL]
  /\ dangling' = dangling \ {w}
  /\ UNCHANGED <<nodeVars, sweep, arg, destroyed>>

\* The server answered (and the client got its response), or it did not.
Fetched(w) == /\ pc[w] = "fetch"
              /\ \E to \in {"add", "idle"} : pc' = [pc EXCEPT ![w] = to]
              /\ UNCHANGED <<nodeVars, sweep, arg, held, dangling, destroyed>>

-----------------------------------------------------------------------------
(* cache_add.                                                              *)

\* cache_remove_lru, called when the cache is full: these nodes are freed.
Evicted == IF current_size >= CACHE_SIZE /\ lru.tail # NULL THEN {lru.tail} ELSE {}

\* Mutant: the node is unlinked only if it is the first of its chain.
UnchainFirstOnly(table, n) ==
  [table EXCEPT ![HashOf[url[n]]] = IF @ # <<>> /\ Head(@) = n THEN Tail(@) ELSE @]

\* cache.c:206-222: a node is searched in its chain and taken out of it.
Unchain(table, n) == [table EXCEPT ![HashOf[url[n]]] = RemoveFirst(@, n)]

\* Mutant: cache_remove_lru does not count.
SizeAfterUncounted(gone) == current_size

SizeAfter(gone) == IF gone = {} THEN current_size ELSE current_size - 1
LruAfter(gone)  == IF gone = {} THEN lru ELSE DropTail(lru)
TableAfter(gone) == IF gone = {} THEN hash_table ELSE Unchain(hash_table, lru.tail)
OlderAfter(gone) == IF gone = {} THEN older ELSE Forget(older, lru.tail)
Robbed(gone) == {v \in Workers : held[v] \in gone}

\* Mutant: a new node goes to the end of its chain.
LinkAtEnd(table, n, u) == [table EXCEPT ![HashOf[u]] = Append(@, n)]

Link(table, n, u) == [table EXCEPT ![HashOf[u]] = <<n>> \o @]

CacheAdd(w) ==
  /\ pc[w] = "add" /\ Unlocked
  /\ LET u == arg[w]
         gone == Evicted
         kept == allocated \ gone
     IN  \E n \in Nodes \ kept :
           /\ hash_table' = Link(TableAfter(gone), n, u)
           /\ lru' = PushFront(LruAfter(gone), n)
           /\ current_size' = SizeAfter(gone) + 1
           /\ url' = [url EXCEPT ![n] = u]
           /\ age' = [age EXCEPT ![n] = 0]
           /\ allocated' = kept \cup {n}
           /\ older' = Touch(OlderAfter(gone), kept, n)
           /\ stale' = (stale \ (gone \cup {n})) \cup {m \in kept : url[m] = u}
           /\ dangling' = dangling \cup Robbed(gone)
  /\ pc' = [pc EXCEPT ![w] = "idle"]
  /\ UNCHANGED <<sweep, arg, held, destroyed>>

\* malloc fails for the node, its URL or its data: what was allocated for it is
\* freed again, but the eviction has happened.
CacheAddFails(w) ==
  /\ pc[w] = "add" /\ Unlocked
  /\ LET gone == Evicted
     IN  /\ hash_table' = TableAfter(gone)
         /\ lru' = LruAfter(gone)
         /\ current_size' = SizeAfter(gone)
         /\ allocated' = allocated \ gone
         /\ older' = OlderAfter(gone)
         /\ stale' = stale \ gone
         /\ dangling' = dangling \cup Robbed(gone)
  /\ pc' = [pc EXCEPT ![w] = "idle"]
  /\ UNCHANGED <<url, age, sweep, arg, held, destroyed>>

-----------------------------------------------------------------------------
(* cache_remove_expired: one pass over all chains.  (No code calls it.)    *)

SweepStart == /\ Sweeper /\ Unlocked /\ ~destroyed
              /\ sweep' = [bucket |-> 0, at |-> 1]
              /\ UNCHANGED <<nodeVars, workVars, dangling, destroyed>>

Current == hash_table[sweep.bucket][sweep.at]
AtNode  == ~Unlocked /\ sweep.at <= Len(hash_table[sweep.bucket])

SweepRemoves ==
  /\ AtNode /\ age[Current] >= CACHE_EXPIRY_TIME
  /\ LET n == Current
     IN  /\ hash_table' = [hash_table EXCEPT ![sweep.bucket] = RemoveAt(@, sweep.at)]
         /\ lru' = Unlink(lru, n)
         /\ current_size' = current_size - 1
         /\ allocated' = allocated \ {n}
         /\ older' = Forget(older, n)
         /\ stale' = stale \ {n}
         /\ dangling' = dangling \cup Robbed({n})
  /\ UNCHANGED <<url, age, sweep, workVars, destroyed>>

SweepKeeps ==
  /\ AtNode /\ age[Current] < CACHE_EXPIRY_TIME
  /\ sweep' = [sweep EXCEPT !.at = @ + 1]
  /\ UNCHANGED <<nodeVars, workVars, dangling, destroyed>>

\* The end of a chain; after the last one the mutex is released.
SweepNextBucket ==
  /\ ~Unlocked /\ ~AtNode
  /\ sweep' = [bucket |-> sweep.bucket + 1, at |-> 1]
  /\ UNCHANGED <<nodeVars, workVars, dangling, destroyed>>

-----------------------------------------------------------------------------
\* time(NULL) goes on.  (The sweep reads it once, at its start.)
Tick == /\ Unlocked /\ ~destroyed
        /\ age' = [n \in Nodes |-> IF age[n] < CACHE_EXPIRY_TIME THEN age[n] + 1 ELSE age[n]]
        /\ UNCHANGED <<hash_table, lru, current_size, url, allocated, older, stale,
                       sweep, workVars, dangling, destroyed>>

\* Mutant: only the first node of each chain is freed.
FreedByFirstOnly(table) == {table[b][1] : b \in {c \in Buckets : table[c] # <<>>}}

\* cache_destroy frees every node of every chain.
FreedBy(table) == UNION {{table[b][i] : i \in DOMAIN table[b]} : b \in Buckets}

\* proxy_server_shutdown, after the workers were joined: none is in a request, but for one
\* that carries the signal handler, of which nothing is said here.
CacheDestroy == /\ Unlocked /\ ~destroyed
                /\ \A w \in Workers : pc[w] = "idle"
                /\ allocated' = allocated \ FreedBy(hash_table)
                /\ destroyed' = TRUE
                /\ older' = {} /\ stale' = {}
                /\ UNCHANGED <<hash_table, lru, current_size, url, age, sweep, workVars, dangling>>

Next == \/ \E w \in Workers : \/ \E u \in Urls : Request(w, u)
                              \/ GetHit(w) \/ GetMiss(w) \/ SendCached(w) \/ Fetched(w)
                              \/ CacheAdd(w) \/ CacheAddFails(w)
        \/ SweepStart \/ SweepRemoves \/ SweepKeeps \/ SweepNextBucket
        \/ Tick \/ CacheDestroy

Spec == Init /\ [][Next]_vars

-----------------------------------------------------------------------------
(* What must hold.                                                         *)

\* The types; the cache never holds more than CACHE_SIZE nodes.
TypeOK ==
  /\ hash_table \in [Buckets -> Seq(Nodes)]
  /\ lru \in [head : Nodes \cup {NULL}, tail : Nodes \cup {NULL},
              prev : [Nodes -> Nodes \cup {NULL}], next : [Nodes -> Nodes \cup {NULL}]]
  /\ current_size \in 0..CACHE_SIZE
  /\ url \in [Nodes -> Urls] /\ age \in [Nodes -> 0..CACHE_EXPIRY_TIME]
  /\ allocated \subseteq Nodes
  /\ sweep \in [bucket : 0..HASH_TABLE_SIZE, at : Nat \ {0}]
  /\ pc \in [Workers -> {"idle", "get", "send", "fetch", "add"}]
  /\ arg \in [Workers -> Urls] /\ held \in [Workers -> Nodes \cup {NULL}]
  /\ older \subseteq allocated \X allocated /\ stale \subseteq allocated
  /\ dangling \subseteq Workers /\ destroyed \in BOOLEAN

\* R orders the nodes of S strictly and totally.
Orders(R, S) == /\ \A m, n \in S : <<m, n>> \in R \/ <<n, m>> \in R \/ m = n
                /\ \A m, n \in S : <<m, n>> \in R => <<n, m>> \notin R
                /\ \A k, m, n \in S : <<k, m>> \in R /\ <<m, n>> \in R => <<k, n>> \in R

\* l is a doubly linked list of exactly the nodes of S, the youngest in R first.
Linked(l, S, R) ==
  /\ l.head \in S \cup {NULL} /\ l.tail \in S \cup {NULL}
  /\ l.head = NULL <=> S = {}
  /\ l.tail = NULL <=> S = {}
  /\ \A n \in S : /\ l.next[n] = NULL <=> n = l.tail
                  /\ l.prev[n] = NULL <=> n = l.head
                  /\ l.next[n] # NULL => /\ l.next[n] \in S /\ l.prev[l.next[n]] = n
                                         /\ <<l.next[n], n>> \in R
                  /\ l.prev[n] # NULL => l.prev[n] \in S /\ l.next[l.prev[n]] = n
  /\ \A m, n \in S : <<m, n>> \in R => m = l.next[n] \/ <<m, l.next[n]>> \in R

\* After every step, those of the sweep included, the pointers of the LRU list
\* run through all allocated nodes in both directions, from the one used last to
\* the one used longest ago (cache.c:163-188, 197-204, 259-270).
LruList == ~destroyed => Orders(older, allocated) /\ Linked(lru, allocated, older)

\* A node is allocated if and only if it is in a chain, in the chain of its own
\* URL and only once there, and current_size counts them: nothing is leaked,
\* freed while a chain leads to it, or impossible to find.
Chained == UNION {{b} \X DOMAIN hash_table[b] : b \in Buckets}
ChainsExact ==
  ~destroyed =>
    /\ {hash_table[p[1]][p[2]] : p \in Chained} = allocated
    /\ \A p \in Chained : HashOf[url[hash_table[p[1]][p[2]]]] = p[1]
    /\ \A p, q \in Chained : hash_table[p[1]][p[2]] = hash_table[q[1]][q[2]] => p = q
    /\ current_size = Cardinality(allocated)

\* What a lookup finds is the response that was added last for its URL.  An
\* older node for the same URL, which cache_add leaves in the cache, never comes
\* to light, since it is evicted and swept before the newer one.
HitIsFresh == Unlocked => \A u \in Urls : Matches(u) # {} => Lookup(u) \notin stale

\* Only the node used longest ago or an expired one is dropped from the cache.
DropsOldest ==
  [][\A n \in allocated \ allocated' :
       \/ destroyed'
       \/ age[n] >= CACHE_EXPIRY_TIME
       \/ \A m \in allocated \ {n} : <<n, m>> \in older]_vars

\* The cache implements the abstract one: the nodes on the way from lru_head along
\* lru_next are its entries.  So a lookup through the chains finds what the list says,
\* and eviction, expiry and failing allocations leave the others in their order.
Along(l, size) == LET node[i \in 1..size] == IF i = 1 THEN l.head ELSE l.next[node[i - 1]]
                  IN  node
Walk == LET node == Along(lru, current_size)
        IN  [i \in 1..current_size |-> [url |-> url[node[i]], age |-> age[node[i]]]]
Shown == IF destroyed THEN <<>> ELSE Walk
Lru == INSTANCE LruCache WITH entries <- Shown, over <- destroyed
ImplementsLru == Lru!Spec

\* When the cache is destroyed, every node is freed.
DestroyFreesAll == destroyed => allocated = {}

\* A worker never sends from a node that was freed (README.md:31, "Memory Safety").
NoUseAfterFree == dangling = {}
=============================================================================
