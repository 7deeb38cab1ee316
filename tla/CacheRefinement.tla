--------------------------- MODULE CacheRefinement ---------------------------
(***************************************************************************)
(* Cache implements LruCache: to its callers the hash table, the chains    *)
(* and the pointers are a list of entries in the order of their last use.  *)
(*                                                                         *)
(* The mapping follows the pointers of the list.  The proof does not: it   *)
(* carries along the sequence of nodes that they run through, changes it   *)
(* as the abstract cache changes its list, and shows once that the         *)
(* pointers lead through such a sequence.                                  *)
(***************************************************************************)
EXTENDS CacheProofs

\* f holds the nodes of S from the one used last to the one used longest ago.
Enumerates(f, S, R) == /\ f \in Seq(Nodes) /\ Once(f)
                       /\ \A n : In(f, n) <=> n \in S
                       /\ \A m, k : Ahead(f, m, k) => <<k, m>> \in R

-----------------------------------------------------------------------------
(* The pointers lead through the sequence.                                 *)

LEMMA Successors ==
  ASSUME NEW l, NEW S, NEW R, NEW f, Ordered(l, S, R), Enumerates(f, S, R)
  PROVE  /\ Len(f) > 0 => f[1] = l.head /\ f[Len(f)] = l.tail
         /\ \A i \in 1..Len(f) : i > 1 => f[i] = l.next[f[i - 1]]
<1> USE NodesAssumption
<1>1. /\ Len(f) \in Nat /\ S \subseteq Nodes
      /\ \A m, n \in S : <<m, n>> \in R => <<n, m>> \notin R
      /\ \A m, n \in S : <<m, n>> \in R => m = l.next[n] \/ <<m, l.next[n]>> \in R
      /\ \A n \in S : l.next[n] # NULL => l.next[n] \in S /\ <<l.next[n], n>> \in R
      /\ l.head = NULL <=> S = {}
      /\ l.tail = NULL <=> S = {}
      /\ l.head \in S \cup {NULL} /\ l.tail \in S \cup {NULL}
      /\ \A m \in S \ {l.head} : <<m, l.head>> \in R
      /\ \A m \in S \ {l.tail} : <<l.tail, m>> \in R
      /\ R \subseteq S \X S
  BY DEF Ordered, Orders, Linked, Ends, Enumerates
<1>2. \A i \in 1..Len(f) : f[i] \in S
  BY DEF Enumerates, In
<1>3. \A n \in S : \E i \in 1..Len(f) : f[i] = n
  BY DEF Enumerates, In
<1>4. \A i, j \in 1..Len(f) : i < j => <<f[j], f[i]>> \in R
  BY DEF Enumerates, Ahead
<1>5. ASSUME Len(f) > 0 PROVE f[1] = l.head
  <2>1. 1 \in 1..Len(f) /\ f[1] \in S /\ l.head \in S
    BY <1>1, <1>2, <1>5
  <2>2. PICK j \in 1..Len(f) : f[j] = l.head
    BY <1>3, <2>1
  <2>3. CASE j > 1
    <3>1. <<l.head, f[1]>> \in R
      BY <1>4, <2>1, <2>2, <2>3
    <3>2. f[1] # l.head
      BY <1>1, <2>1, <3>1
    <3>3. <<f[1], l.head>> \in R
      BY <1>1, <2>1, <3>2
    <3> QED
      BY <1>1, <2>1, <3>1, <3>3
  <2> QED
    BY <1>1, <2>2, <2>3
<1>6. ASSUME Len(f) > 0 PROVE f[Len(f)] = l.tail
  <2>1. Len(f) \in 1..Len(f) /\ f[Len(f)] \in S /\ l.tail \in S
    BY <1>1, <1>2, <1>6
  <2>2. PICK j \in 1..Len(f) : f[j] = l.tail
    BY <1>3, <2>1
  <2>3. CASE j < Len(f)
    <3>1. <<f[Len(f)], l.tail>> \in R
      BY <1>4, <2>1, <2>2, <2>3
    <3>2. f[Len(f)] # l.tail
      BY <1>1, <2>1, <3>1
    <3>3. <<l.tail, f[Len(f)]>> \in R
      BY <1>1, <2>1, <3>2
    <3> QED
      BY <1>1, <2>1, <3>1, <3>3
  <2> QED
    BY <1>1, <2>2, <2>3
<1>7. ASSUME NEW i \in 1..Len(f), i > 1 PROVE f[i] = l.next[f[i - 1]]
  <2> DEFINE m == f[i - 1]
             x == l.next[m]
  <2>1. i - 1 \in 1..Len(f) /\ i - 1 < i /\ m \in S /\ f[i] \in S
    BY <1>1, <1>2, <1>7
  <2>2. <<f[i], m>> \in R
    BY <1>4, <2>1
  <2>3. SUFFICES ASSUME <<f[i], x>> \in R PROVE FALSE
    BY <1>1, <2>1, <2>2
  <2>4. x \in S /\ <<x, m>> \in R
    BY <1>1, <2>1, <2>3
  <2>5. PICK j \in 1..Len(f) : f[j] = x
    BY <1>3, <2>4
  <2> HIDE DEF m, x
  <2>6. j < i
    <3>1. j # i
      BY <1>1, <2>3, <2>4, <2>5
    <3>2. ~(i < j)
      BY <1>1, <1>4, <2>1, <2>3, <2>4, <2>5
    <3> QED
      BY <1>1, <3>1, <3>2
  <2>7. j # i - 1
    BY <1>1, <2>1, <2>4, <2>5 DEF m
  <2>8. j < i - 1
    BY <1>1, <2>6, <2>7
  <2>9. <<m, x>> \in R
    BY <1>4, <2>1, <2>5, <2>8 DEF m
  <2> QED
    BY <1>1, <2>1, <2>4, <2>9
<1> QED
  BY <1>5, <1>6, <1>7

\* Following lru_next from lru_head gives the sequence.
LEMMA AlongIs ==
  ASSUME NEW l, NEW S, NEW R, NEW f, Ordered(l, S, R), Enumerates(f, S, R)
  PROVE  Along(l, Len(f)) = f
<1> DEFINE P(g) == g = [i \in 1..Len(f) |-> IF i = 1 THEN l.head ELSE l.next[g[i - 1]]]
           g == CHOOSE h : P(h)
<1>1. Len(f) \in Nat /\ f = [i \in 1..Len(f) |-> f[i]]
  BY DEF Enumerates
<1>2. \A i \in 1..Len(f) : f[i] = IF i = 1 THEN l.head ELSE l.next[f[i - 1]]
  BY <1>1, Successors
<1>3. P(f)
  <2>1. [i \in 1..Len(f) |-> f[i]] = [i \in 1..Len(f) |-> IF i = 1 THEN l.head ELSE l.next[f[i - 1]]]
    BY <1>2
  <2> QED
    BY <1>1, <2>1
<1>4. P(g)
  <2> HIDE DEF P
  <2> QED
    BY <1>3
<1>5. g = Along(l, Len(f))
  BY DEF Along
<1> HIDE DEF g
<1>6. \A i \in 1..Len(f) : g[i] = IF i = 1 THEN l.head ELSE l.next[g[i - 1]]
  BY <1>4
<1> HIDE DEF P
<1> DEFINE D == {i \in 1..Len(f) : g[i] # f[i]}
<1>7. D = {}
  <2> SUFFICES ASSUME D # {} PROVE FALSE
    OBVIOUS
  <2>1. D \in SUBSET Nat
    BY <1>1
  <2> DEFINE m == Min(D)
  <2>2. m \in D /\ \A i \in D : m <= i
    BY <2>1, Smallest
  <2> HIDE DEF m
  <2>3. m \in 1..Len(f) /\ g[m] # f[m]
    BY <2>2
  <2>4. m # 1
    BY <1>2, <1>6, <2>3
  <2>5. m - 1 \in 1..Len(f) /\ ~(m <= m - 1)
    BY <1>1, <2>3, <2>4
  <2>6. g[m - 1] = f[m - 1]
    BY <2>2, <2>5
  <2> QED
    BY <1>2, <1>6, <2>3, <2>4, <2>6
<1>8. \A i \in 1..Len(f) : g[i] = f[i]
  BY <1>7
<1>9. g = [i \in 1..Len(f) |-> IF i = 1 THEN l.head ELSE l.next[g[i - 1]]]
  BY <1>4 DEF P
<1>10. g = [i \in 1..Len(f) |-> g[i]]
  BY <1>9
<1>11. g = f
  BY <1>1, <1>8, <1>10
<1> QED
  BY <1>5, <1>11

-----------------------------------------------------------------------------
(* What the operations do to the sequence, and to what its nodes show.     *)

LEMMA RemoveAtEnumerates ==
  ASSUME NEW S, NEW R, NEW f, Enumerates(f, S, R), NEW i \in 1..Len(f)
  PROVE  Enumerates(RemoveAt(f, i), S \ {f[i]}, Forget(R, f[i]))
<1>1. f \in Seq(Nodes) /\ Once(f)
  BY DEF Enumerates
<1>2. RemoveAt(f, i) \in Seq(Nodes)
  BY <1>1, RemoveAtIs
<1>3. /\ Once(RemoveAt(f, i))
      /\ \A m : In(RemoveAt(f, i), m) <=> In(f, m) /\ m # f[i]
      /\ \A m, k : Ahead(RemoveAt(f, i), m, k) <=> Ahead(f, m, k) /\ m # f[i] /\ k # f[i]
  BY <1>1, RemoveAtKeepsOthers
<1>4. \A n : In(RemoveAt(f, i), n) <=> n \in S \ {f[i]}
  BY <1>3 DEF Enumerates
<1>5. \A m, k : Ahead(RemoveAt(f, i), m, k) => <<k, m>> \in Forget(R, f[i])
  BY <1>3 DEF Enumerates, Forget
<1> QED
  BY <1>2, <1>3, <1>4, <1>5 DEF Enumerates

LEMMA ConsEnumerates ==
  ASSUME NEW S, NEW R, NEW f, Enumerates(f, S, R), NEW n \in Nodes \ S
  PROVE  Enumerates(<<n>> \o f, S \cup {n}, Touch(R, S, n))
<1>1. f \in Seq(Nodes) /\ Once(f) /\ ~In(f, n) /\ n \in Nodes
  BY DEF Enumerates
<1>2. /\ <<n>> \o f \in Seq(Nodes) /\ Once(<<n>> \o f)
      /\ \A m : In(<<n>> \o f, m) <=> In(f, m) \/ m = n
      /\ \A m, k : Ahead(<<n>> \o f, m, k) <=> Ahead(f, m, k) \/ (m = n /\ In(f, k))
  BY <1>1, ConsKeepsOthers
<1>3. \A m : In(<<n>> \o f, m) <=> m \in S \cup {n}
  BY <1>2 DEF Enumerates
<1>4. ASSUME NEW m, NEW k, Ahead(<<n>> \o f, m, k) PROVE <<k, m>> \in Touch(R, S, n)
  <2>1. CASE Ahead(f, m, k)
    <3>1. <<k, m>> \in R /\ In(f, m) /\ In(f, k)
      BY <2>1 DEF Enumerates, Ahead, In
    <3> QED
      BY <1>1, <3>1 DEF Touch, Forget
  <2>2. CASE m = n /\ In(f, k)
    <3>1. k \in S \ {n}
      BY <1>1, <2>2 DEF Enumerates
    <3> QED
      BY <2>2, <3>1 DEF Touch
  <2> QED
    BY <1>2, <1>4, <2>1, <2>2
<1> QED
  BY <1>2, <1>3, <1>4 DEF Enumerates

\* A hit: the node leaves its place and comes first.
LEMMA MoveEnumerates ==
  ASSUME NEW S, NEW R, NEW f, Enumerates(f, S, R), S \subseteq Nodes, NEW i \in 1..Len(f)
  PROVE  Enumerates(<<f[i]>> \o RemoveAt(f, i), S, Touch(R, S, f[i]))
<1> DEFINE n == f[i]
<1>1. n \in S /\ n \in Nodes \ (S \ {n}) /\ (S \ {n}) \cup {n} = S
  BY DEF Enumerates, In
<1>2. Enumerates(RemoveAt(f, i), S \ {n}, Forget(R, n))
  BY RemoveAtEnumerates
<1>3. Enumerates(<<n>> \o RemoveAt(f, i), (S \ {n}) \cup {n}, Touch(Forget(R, n), S \ {n}, n))
  BY <1>1, <1>2, ConsEnumerates
<1>4. Touch(Forget(R, n), S \ {n}, n) = Touch(R, S, n)
  BY DEF Touch, Forget
<1> QED
  BY <1>1, <1>3, <1>4

\* The entries that the nodes of a sequence hold.
View(f, v, a) == [i \in 1..Len(f) |-> [url |-> v[f[i]], age |-> a[f[i]]]]
Entry == [url : Urls, age : Nat]

LEMMA ViewIs ==
  ASSUME NEW f \in Seq(Nodes), NEW v \in [Nodes -> Urls], NEW a \in [Nodes -> Nat]
  PROVE  /\ View(f, v, a) \in Seq(Entry) /\ Len(View(f, v, a)) = Len(f)
         /\ DOMAIN View(f, v, a) = 1..Len(f)
         /\ \A i \in 1..Len(f) : View(f, v, a)[i] = [url |-> v[f[i]], age |-> a[f[i]]]
<1>1. Len(f) \in Nat /\ \A i \in 1..Len(f) : f[i] \in Nodes
  OBVIOUS
<1>2. \A i \in 1..Len(f) : [url |-> v[f[i]], age |-> a[f[i]]] \in Entry
  BY <1>1 DEF Entry
<1> QED
  BY <1>1, <1>2 DEF View

LEMMA ViewCons ==
  ASSUME NEW f \in Seq(Nodes), NEW v \in [Nodes -> Urls], NEW a \in [Nodes -> Nat], NEW n \in Nodes
  PROVE  View(<<n>> \o f, v, a) = <<[url |-> v[n], age |-> a[n]]>> \o View(f, v, a)
<1> DEFINE e == [url |-> v[n], age |-> a[n]]
           g == <<n>> \o f
           x == View(f, v, a)
           y == View(g, v, a)
<1>1. /\ g \in Seq(Nodes) /\ Len(g) = Len(f) + 1 /\ Len(f) \in Nat
      /\ g[1] = n /\ \A i \in 1..Len(f) : g[i + 1] = f[i]
  OBVIOUS
<1> HIDE DEF g
<1>2. /\ y \in Seq(Entry) /\ Len(y) = Len(g)
      /\ \A i \in 1..Len(g) : y[i] = [url |-> v[g[i]], age |-> a[g[i]]]
  BY <1>1, ViewIs
<1>3. /\ x \in Seq(Entry) /\ Len(x) = Len(f)
      /\ \A i \in 1..Len(f) : x[i] = [url |-> v[f[i]], age |-> a[f[i]]]
  BY ViewIs
<1>4. e \in Entry
  BY DEF Entry
<1> HIDE DEF x, y, e
<1>5. /\ <<e>> \o x \in Seq(Entry) /\ Len(<<e>> \o x) = Len(f) + 1
      /\ (<<e>> \o x)[1] = e /\ \A i \in 1..Len(f) : (<<e>> \o x)[i + 1] = x[i]
  BY <1>3, <1>4
<1>6. ASSUME NEW i \in 1..Len(f) + 1 PROVE y[i] = (<<e>> \o x)[i]
  <2>1. CASE i = 1
    BY <1>1, <1>2, <1>5, <2>1 DEF e
  <2>2. CASE i # 1
    <3>1. i - 1 \in 1..Len(f) /\ (i - 1) + 1 = i
      BY <1>1, <2>2
    <3>2. y[i] = x[i - 1]
      BY <1>1, <1>2, <1>3, <3>1
    <3> QED
      BY <1>5, <3>1, <3>2
  <2> QED
    BY <2>1, <2>2
<1>7. Len(y) = Len(<<e>> \o x) /\ Len(y) = Len(f) + 1
  BY <1>1, <1>2, <1>5
<1>8. y = <<e>> \o x
  BY <1>2, <1>5, <1>6, <1>7, SeqEqual
<1> QED
  BY <1>8 DEF x, y, e, g

LEMMA ViewRemoveAt ==
  ASSUME NEW f \in Seq(Nodes), NEW v \in [Nodes -> Urls], NEW a \in [Nodes -> Nat], NEW i \in 1..Len(f)
  PROVE  View(RemoveAt(f, i), v, a) = RemoveAt(View(f, v, a), i)
<1> DEFINE g == RemoveAt(f, i)
           x == View(f, v, a)
           y == View(g, v, a)
           z == RemoveAt(x, i)
<1>1. /\ g \in Seq(Nodes) /\ Len(g) = Len(f) - 1 /\ Len(f) \in Nat /\ i \in Nat
      /\ \A j \in 1..Len(f) - 1 : g[j] = IF j < i THEN f[j] ELSE f[j + 1]
  BY RemoveAtIs
<1>2. /\ x \in Seq(Entry) /\ Len(x) = Len(f)
      /\ \A j \in 1..Len(f) : x[j] = [url |-> v[f[j]], age |-> a[f[j]]]
  BY ViewIs
<1> HIDE DEF g
<1>3. /\ y \in Seq(Entry) /\ Len(y) = Len(g)
      /\ \A j \in 1..Len(g) : y[j] = [url |-> v[g[j]], age |-> a[g[j]]]
  BY <1>1, ViewIs
<1> HIDE DEF x, y
<1>4. i \in 1..Len(x)
  BY <1>2
<1>5. /\ z \in Seq(Entry) /\ Len(z) = Len(f) - 1
      /\ \A j \in 1..Len(f) - 1 : z[j] = IF j < i THEN x[j] ELSE x[j + 1]
  BY <1>2, <1>4, RemoveAtIs
<1> HIDE DEF z
<1>6. ASSUME NEW j \in 1..Len(f) - 1 PROVE y[j] = z[j]
  <2>1. j \in 1..Len(f) /\ j + 1 \in 1..Len(f) /\ j \in 1..Len(g) /\ (j < i \/ ~(j < i))
    BY <1>1
  <2>2. CASE j < i
    <3>1. g[j] = f[j] /\ z[j] = x[j]
      BY <1>1, <1>5, <2>2
    <3> QED
      BY <1>2, <1>3, <2>1, <3>1
  <2>3. CASE ~(j < i)
    <3>1. g[j] = f[j + 1] /\ z[j] = x[j + 1]
      BY <1>1, <1>5, <2>3
    <3> QED
      BY <1>2, <1>3, <2>1, <3>1
  <2> QED
    BY <2>1, <2>2, <2>3
<1>7. y = z
  BY <1>1, <1>3, <1>5, <1>6, SeqEqual
<1> QED
  BY <1>7 DEF g, x, y, z

LEMMA FrontIs ==
  ASSUME NEW T, NEW s \in Seq(T), Len(s) > 0
  PROVE  Front(s) = RemoveAt(s, Len(s))
<1>1. Len(s) \in Nat /\ Len(s) \in 1..Len(s)
  OBVIOUS
<1>2. /\ SubSeq(s, 1, Len(s) - 1) \in Seq(T) /\ Len(SubSeq(s, 1, Len(s) - 1)) = Len(s) - 1
      /\ \A i \in 1..Len(s) - 1 : SubSeq(s, 1, Len(s) - 1)[i] = s[i]
  <2>1. \A i \in 1..Len(s) - 1 : s[i] \in T
    BY <1>1
  <2>2. IF 1 <= Len(s) - 1 THEN (Len(s) - 1) - 1 + 1 = Len(s) - 1 ELSE Len(s) - 1 = 0
    BY <1>1
  <2> QED
    BY <1>1, <2>1, <2>2, SubSeqProperties
<1>3. /\ RemoveAt(s, Len(s)) \in Seq(T) /\ Len(RemoveAt(s, Len(s))) = Len(s) - 1
      /\ \A i \in 1..Len(s) - 1 : RemoveAt(s, Len(s))[i] = s[i]
  <2>1. /\ RemoveAt(s, Len(s)) \in Seq(T) /\ Len(RemoveAt(s, Len(s))) = Len(s) - 1
        /\ \A i \in 1..Len(s) - 1 : RemoveAt(s, Len(s))[i] = IF i < Len(s) THEN s[i] ELSE s[i + 1]
    BY <1>1, RemoveAtIs
  <2>2. \A i \in 1..Len(s) - 1 : i < Len(s)
    BY <1>1
  <2> QED
    BY <2>1, <2>2
<1>4. SubSeq(s, 1, Len(s) - 1) = RemoveAt(s, Len(s))
  BY <1>2, <1>3, SeqEqual
<1> QED
  BY <1>4 DEF Front

LEMMA ViewSame ==
  ASSUME NEW f \in Seq(Nodes), NEW v, NEW a, NEW w, NEW b,
         \A i \in 1..Len(f) : v[f[i]] = w[f[i]] /\ a[f[i]] = b[f[i]]
  PROVE  View(f, v, a) = View(f, w, b)
  BY DEF View

-----------------------------------------------------------------------------
(* What the abstract cache shows.                                          *)

Shows(f) == Enumerates(f, allocated, older) /\ Len(f) = current_size

LEMMA ShownIs ==
  ASSUME IInv, ~destroyed, NEW f, Shows(f)
  PROVE  Shown = View(f, url, age)
<1>1. Along(lru, current_size) = f /\ Len(f) = current_size
  BY AlongIs DEF IInv, Sound, Shows
<1>2. Walk = View(f, url, age)
  BY <1>1 DEF Walk, View
<1> QED
  BY <1>2 DEF Shown

LEMMA ShownNext ==
  ASSUME IInv', ~destroyed', NEW f, Shows(f)'
  PROVE  Shown' = View(f, url', age')
<1>1. Along(lru', current_size') = f /\ Len(f) = current_size'
  BY AlongIs DEF IInv, Sound, Shows
<1>2. Walk' = View(f, url', age')
  BY <1>1 DEF Walk, View
<1> QED
  BY <1>2 DEF Shown

\* Until the cache is destroyed there is such a sequence.
Represented == ~destroyed => \E f : Shows(f)

\* The nodes of the sequence, and their entries.
LEMMA ShowsAll ==
  ASSUME IInv, ~destroyed, NEW f, Shows(f)
  PROVE  /\ f \in Seq(Nodes) /\ Len(f) \in Nat /\ Once(f) /\ Enumerates(f, allocated, older)
         /\ url \in [Nodes -> Urls] /\ age \in [Nodes -> Nat]
         /\ allocated \subseteq Nodes
         /\ \A i \in 1..Len(f) : f[i] \in allocated
         /\ \A n \in allocated : \E i \in 1..Len(f) : f[i] = n
         /\ Shown = View(f, url, age) /\ Shown \in Seq(Entry)
         /\ Len(Shown) = Len(f) /\ DOMAIN Shown = 1..Len(f)
         /\ \A i \in 1..Len(f) : Shown[i] = [url |-> url[f[i]], age |-> age[f[i]]]
<1> USE SizesAssumption
<1>1. f \in Seq(Nodes) /\ Len(f) \in Nat /\ Once(f) /\ Enumerates(f, allocated, older)
  BY DEF Shows, Enumerates
<1>2. url \in [Nodes -> Urls] /\ age \in [Nodes -> Nat] /\ allocated \subseteq Nodes
  <2>1. age \in [Nodes -> 0..CACHE_EXPIRY_TIME] /\ 0..CACHE_EXPIRY_TIME \subseteq Nat
    BY DEF IInv, TypeOK
  <2> QED
    BY <2>1 DEF IInv, TypeOK
<1>3. /\ \A i \in 1..Len(f) : f[i] \in allocated
      /\ \A n \in allocated : \E i \in 1..Len(f) : f[i] = n
  BY <1>1 DEF Enumerates, In
<1>4. Shown = View(f, url, age)
  BY ShownIs
<1>5. /\ View(f, url, age) \in Seq(Entry) /\ Len(View(f, url, age)) = Len(f)
      /\ DOMAIN View(f, url, age) = 1..Len(f)
      /\ \A i \in 1..Len(f) : View(f, url, age)[i] = [url |-> url[f[i]], age |-> age[f[i]]]
  BY <1>1, <1>2, ViewIs
<1> QED
  BY ONLY <1>1, <1>2, <1>3, <1>4, <1>5

\* What a lookup finds in the chain comes before every other node for its URL in
\* the list: cache_add puts the new node before the old in both, and a hit moves
\* none but the first.
LEMMA LookupIsFirst ==
  ASSUME IInv, ~destroyed, NEW f, Shows(f), NEW u \in Urls, Matches(u) # {},
         NEW i \in 1..Len(f), f[i] = Lookup(u), NEW j \in 1..Len(f), url[f[j]] = u
  PROVE  i <= j
<1> DEFINE n == f[i]
           m == f[j]
           s == hash_table[HashOf[u]]
<1>1. /\ Hashed(hash_table, url, allocated) /\ Newest /\ TypeOK
      /\ \A p, q \in allocated : <<p, q>> \in older => <<q, p>> \notin older
  BY DEF IInv, Sound, Ordered, Orders
<1>2. n \in allocated /\ url[n] = u /\ ~Hidden(hash_table, url, allocated, n)
  BY <1>1, LookupFinds
<1>3. m \in allocated /\ url[m] = u
  BY ShowsAll
<1>4. i \in Nat /\ j \in Nat
  BY ShowsAll
<1> SUFFICES ASSUME j < i PROVE FALSE
  BY <1>4
<1>5. m # n /\ <<n, m>> \in older
  <2>1. Ahead(f, m, n)
    BY DEF Ahead
  <2> QED
    BY <1>4, <2>1, ShowsAll DEF Enumerates, Once
<1>6. HashOf[u] \in Buckets
  BY HashAssumption
<1>7. In(s, m) /\ In(s, n) /\ Len(s) \in Nat
  BY <1>1, <1>2, <1>3, <1>6 DEF Hashed
<1> HIDE DEF n, m, s
<1>8. PICK a \in 1..Len(s), b \in 1..Len(s) : s[a] = m /\ s[b] = n
  BY <1>7 DEF In
<1>9. a < b \/ b < a
  BY <1>5, <1>7, <1>8
<1>10. ~Ahead(s, m, n)
  BY <1>2, <1>3 DEF Hidden, s
<1>11. Ahead(s, n, m)
  BY <1>8, <1>9, <1>10 DEF Ahead
<1>12. <<m, n>> \in older
  BY <1>1, <1>2, <1>3, <1>11 DEF Newest, FirstIsNewer, s
<1> QED
  BY <1>1, <1>2, <1>3, <1>5, <1>12

\* The list and the table agree on what a lookup finds.
LEMMA FreshIs ==
  ASSUME IInv, ~destroyed, NEW f, Shows(f), NEW u \in Urls
  PROVE  /\ ~Hit(u) => Lru!Fresh(u) = {}
         /\ Hit(u) => \E i \in 1..Len(f) : f[i] = Lookup(u) /\ i \in Lru!Fresh(u)
<1> DEFINE S == {i \in DOMAIN Shown : Shown[i].url = u}
<1>1. /\ DOMAIN Shown = 1..Len(f) /\ Len(f) \in Nat
      /\ \A i \in 1..Len(f) : Shown[i].url = url[f[i]] /\ Shown[i].age = age[f[i]]
  <2>1. \A i \in 1..Len(f) : Shown[i] = [url |-> url[f[i]], age |-> age[f[i]]]
    BY ShowsAll
  <2>2. DOMAIN Shown = 1..Len(f) /\ Len(f) \in Nat
    BY ShowsAll
  <2> QED
    BY ONLY <2>1, <2>2
<1>2. Lru!Fresh(u) = {i \in S : /\ \A j \in S : i <= j
                                /\ Shown[i].age < CACHE_EXPIRY_TIME}
  BY DEF Lru!Fresh
<1>3. S = {i \in 1..Len(f) : url[f[i]] = u}
  BY <1>1
<1> HIDE DEF S
<1>4. CASE Matches(u) = {}
  <2>1. ASSUME NEW i \in S PROVE FALSE
    <3>1. f[i] \in allocated /\ url[f[i]] = u
      BY <1>3, ShowsAll
    <3>2. HashOf[u] \in Buckets /\ Hashed(hash_table, url, allocated)
      BY HashAssumption DEF IInv, Sound
    <3>3. In(Chain(u), f[i]) /\ Chain(u) \in Seq(Nodes)
      BY <3>1, <3>2 DEF Hashed, Chain
    <3>4. PICK j \in 1..Len(Chain(u)) : Chain(u)[j] = f[i]
      BY <3>3 DEF In
    <3>5. j \in Matches(u)
      BY <3>1, <3>3, <3>4 DEF Matches
    <3> QED
      BY <1>4, <3>5
  <2> QED
    BY <1>2, <1>4, <2>1 DEF Hit
<1>5. CASE Matches(u) # {}
  <2>1. Lookup(u) \in allocated /\ url[Lookup(u)] = u
    BY <1>5, LookupFinds DEF IInv, Sound
  <2>2. PICK i \in 1..Len(f) : f[i] = Lookup(u)
    BY <2>1, ShowsAll
  <2>3. i \in S /\ \A j \in S : i <= j
    BY <1>3, <1>5, <2>1, <2>2, LookupIsFirst
  <2>4. \A j \in S : j \in Nat /\ i \in Nat
    BY <1>3
  <2>5. \A j \in Lru!Fresh(u) : j = i /\ age[Lookup(u)] < CACHE_EXPIRY_TIME
    BY <1>1, <1>2, <1>3, <2>2, <2>3, <2>4
  <2>6. age[Lookup(u)] < CACHE_EXPIRY_TIME => i \in Lru!Fresh(u)
    BY <1>1, <1>2, <2>2, <2>3
  <2> QED
    BY <1>5, <2>2, <2>5, <2>6 DEF Hit
<1> QED
  BY <1>4, <1>5

\* The library's operators, as LruCache sees them.
LEMMA LruSequences ==
  /\ \A s : Lru!Front(s) = Front(s)
  /\ \A s, i : Lru!RemoveAt(s, i) = RemoveAt(s, i)
  BY DEF Front, RemoveAt, Lru!Front, Lru!RemoveAt

\* cache_remove_lru frees the last entry of a full list.
LEMMA RoomIs ==
  ASSUME IInv, ~destroyed, Unlocked, NEW f, Shows(f)
  PROVE  \E g : /\ Enumerates(g, allocated \ Evicted, OlderAfter(Evicted))
                /\ Len(g) = SizeAfter(Evicted)
                /\ View(g, url, age) = Lru!Room
<1> USE SizesAssumption
<1>1. /\ Len(f) = current_size /\ Shown = View(f, url, age) /\ Len(Shown) = current_size
      /\ Shown \in Seq(Entry) /\ Enumerates(f, allocated, older) /\ current_size \in 0..CACHE_SIZE
  BY ShowsAll DEF Shows, IInv, TypeOK
<1>2. SizeAfter(Evicted) \in 0..CACHE_SIZE - 1
  BY EvictionMakesRoom DEF IInv, Room
<1>3. CASE Evicted = {}
  <2>1. SizeAfter(Evicted) = current_size /\ OlderAfter(Evicted) = older /\ allocated \ Evicted = allocated
    BY <1>3 DEF SizeAfter, OlderAfter
  <2>2. Lru!Room = Shown
    BY <1>1, <1>2, <2>1 DEF Lru!Room
  <2> QED
    BY <1>1, <2>1, <2>2
<1>4. CASE Evicted # {}
  <2>1. Evicted = {lru.tail} /\ current_size >= CACHE_SIZE
    BY <1>4 DEF Evicted
  <2>2. current_size = CACHE_SIZE /\ Len(f) > 0 /\ Len(f) \in 1..Len(f)
    BY <1>1, <2>1
  <2>3. f[Len(f)] = lru.tail
    BY <1>1, <2>2, Successors DEF IInv, Sound
  <2>4. Enumerates(RemoveAt(f, Len(f)), allocated \ Evicted, OlderAfter(Evicted))
    BY <1>1, <2>1, <2>2, <2>3, RemoveAtEnumerates DEF OlderAfter
  <2>5. Len(RemoveAt(f, Len(f))) = SizeAfter(Evicted)
    BY <1>1, <1>4, <2>2, ShowsAll, RemoveAtIs DEF SizeAfter
  <2>6. Lru!Room = RemoveAt(Shown, Len(Shown))
    <3>1. Shown \in Seq(Entry) /\ Len(Shown) > 0 /\ Len(Shown) = CACHE_SIZE
      BY <1>1, <2>2
    <3>2. Front(Shown) = RemoveAt(Shown, Len(Shown))
      BY <3>1, FrontIs
    <3> QED
      BY <3>1, <3>2, LruSequences DEF Lru!Room
  <2>7. View(RemoveAt(f, Len(f)), url, age) = Lru!Room
    BY <1>1, <2>2, <2>6, ShowsAll, ViewRemoveAt
  <2> QED
    BY <2>4, <2>5, <2>7
<1> QED
  BY <1>3, <1>4

-----------------------------------------------------------------------------
(* Each step is one of the abstract cache, or none.                        *)

LEMMA InitShows == Init => Represented /\ Lru!Init
<1> SUFFICES ASSUME Init PROVE Represented /\ Lru!Init
  OBVIOUS
<1>1. IInv /\ ~destroyed
  BY InitIInv DEF Init
<1>2. Shows(<<>>)
  BY DEF Init, Shows, Enumerates, Once, In, Ahead
<1>3. Len(Shown) = 0 /\ Shown \in Seq(Entry)
  BY <1>1, <1>2, ShowsAll
<1>4. arg \in [Workers -> Urls]
  BY <1>1 DEF IInv, TypeOK
<1> QED
  BY <1>2, <1>3, <1>4 DEF Represented, Lru!Init, Init

\* What leaves the nodes alone shows the same entries.
LEMMA NodesSame ==
  ASSUME UNCHANGED <<nodeVars, destroyed>>, Represented
  PROVE  Represented' /\ Shown' = Shown
  BY DEF Represented, Shows, Enumerates, Shown, Walk, nodeVars

LEMMA WorkerRefines ==
  ASSUME IInv, Represented, NEW w \in Workers,
         \/ \E u \in Urls : Request(w, u)
         \/ GetMiss(w) \/ SendCached(w) \/ Fetched(w)
  PROVE  Represented' /\ Lru!Next
<1>1. UNCHANGED <<nodeVars, destroyed>> /\ ~destroyed
  BY DEF IInv, Gone, Request, GetMiss, SendCached, Fetched
<1>2. Represented' /\ Shown' = Shown
  BY <1>1, NodesSame
<1>3. CASE \E u \in Urls : Request(w, u)
  BY <1>2, <1>3 DEF Request, Lru!Next, Lru!Ask, Lru!Go
<1>4. CASE GetMiss(w)
  <2>1. PICK f : Shows(f)
    BY <1>1 DEF Represented
  <2>2. arg[w] \in Urls /\ ~Hit(arg[w])
    BY <1>4 DEF IInv, TypeOK, GetMiss
  <2>3. Lru!Fresh(arg[w]) = {}
    BY <1>1, <2>1, <2>2, FreshIs
  <2>4. Lru!FindNothing(w)
    BY <1>1, <1>2, <1>4, <2>3 DEF GetMiss, Lru!FindNothing, Lru!Go
  <2> QED
    BY <1>2, <2>4 DEF Lru!Next
<1>5. CASE SendCached(w)
  BY <1>2, <1>5 DEF SendCached, Lru!Next, Lru!Proceed, Lru!Go
<1>6. CASE Fetched(w)
  BY <1>2, <1>6 DEF Fetched, Lru!Next, Lru!Proceed, Lru!Go
<1> QED
  BY <1>3, <1>4, <1>5, <1>6

\* A hit moves the entry it finds to the front.
LEMMA GetHitRefines ==
  ASSUME IInv, Represented, NEW w \in Workers, GetHit(w)
  PROVE  Represented' /\ Lru!Find(w)
<1> DEFINE u == arg[w]
           n == Lookup(u)
<1>1. /\ older' = Touch(older, allocated, n) /\ Hit(u) /\ u \in Urls
      /\ pc[w] = "get" /\ pc' = [pc EXCEPT ![w] = "send"]
      /\ UNCHANGED <<current_size, url, age, allocated, arg, destroyed>>
  BY DEF GetHit, IInv, TypeOK
<1>2. ~destroyed /\ ~destroyed' /\ IInv'
  BY <1>1, GetHitKeeps DEF IInv, Gone
<1>3. PICK f : Shows(f)
  BY <1>2 DEF Represented
<1>4. PICK i \in 1..Len(f) : f[i] = n /\ i \in Lru!Fresh(u)
  BY <1>1, <1>2, <1>3, FreshIs
<1> DEFINE g == RemoveAt(f, i)
           h == <<f[i]>> \o g
<1>5. /\ f \in Seq(Nodes) /\ Enumerates(f, allocated, older) /\ allocated \subseteq Nodes
      /\ url \in [Nodes -> Urls] /\ age \in [Nodes -> Nat]
      /\ f[i] \in Nodes /\ Len(f) \in Nat /\ Len(f) = current_size
      /\ Shown = View(f, url, age) /\ Shown[i] = [url |-> url[f[i]], age |-> age[f[i]]]
  BY <1>2, <1>3, ShowsAll DEF Shows
<1>6. g \in Seq(Nodes) /\ Len(g) = Len(f) - 1
  BY <1>5, RemoveAtIs
<1>7. Shows(h)'
  <2>1. Enumerates(h, allocated, Touch(older, allocated, n))
    BY <1>4, <1>5, MoveEnumerates
  <2>2. Len(h) = Len(f)
    BY <1>5, <1>6
  <2> QED
    BY <1>1, <1>5, <2>1, <2>2 DEF Shows
<1>8. Shown' = <<Shown[i]>> \o Lru!RemoveAt(Shown, i)
  <2>1. View(h, url, age) = <<[url |-> url[f[i]], age |-> age[f[i]]]>> \o View(g, url, age)
    BY <1>5, <1>6, ViewCons
  <2>2. View(g, url, age) = RemoveAt(Shown, i)
    BY <1>5, ViewRemoveAt
  <2>3. Shown' = View(h, url, age)
    BY <1>1, <1>2, <1>7, ShownNext
  <2> QED
    BY <1>5, <2>1, <2>2, <2>3, LruSequences
<1>9. Represented'
  BY <1>7 DEF Represented
<1>10. Lru!Find(w)
  BY <1>1, <1>4, <1>8 DEF Lru!Find, Lru!Go
<1> QED
  BY <1>9, <1>10

\* A new entry comes first, after room was made at the end.
LEMMA CacheAddRefines ==
  ASSUME IInv, Represented, NEW w \in Workers, CacheAdd(w)
  PROVE  Represented' /\ Lru!Add(w)
<1> DEFINE u == arg[w]
           gone == Evicted
           kept == allocated \ gone
<1>1. PICK n \in Nodes \ kept :
        /\ current_size' = SizeAfter(gone) + 1
        /\ url' = [url EXCEPT ![n] = u]
        /\ age' = [age EXCEPT ![n] = 0]
        /\ allocated' = kept \cup {n}
        /\ older' = Touch(OlderAfter(gone), kept, n)
  BY DEF CacheAdd
<1>2. /\ pc[w] = "add" /\ pc' = [pc EXCEPT ![w] = "idle"]
      /\ UNCHANGED <<arg, destroyed>> /\ Unlocked
  BY DEF CacheAdd
<1>3. ~destroyed /\ ~destroyed' /\ IInv'
  BY <1>2, CacheAddKeeps DEF IInv, Gone
<1>4. PICK f : Shows(f)
  BY <1>3 DEF Represented
<1>5. PICK g : /\ Enumerates(g, kept, OlderAfter(gone)) /\ Len(g) = SizeAfter(gone)
               /\ View(g, url, age) = Lru!Room
  BY <1>2, <1>3, <1>4, RoomIs
<1> DEFINE h == <<n>> \o g
<1> HIDE DEF kept, gone
<1>6. /\ g \in Seq(Nodes) /\ Len(g) \in Nat /\ \A i \in 1..Len(g) : g[i] # n /\ g[i] \in Nodes
  BY <1>5 DEF Enumerates, In
<1>7. url \in [Nodes -> Urls] /\ age \in [Nodes -> Nat] /\ u \in Urls
  BY <1>3, <1>4, ShowsAll DEF IInv, TypeOK
<1>8. Shows(h)'
  <2>1. Enumerates(h, kept \cup {n}, Touch(OlderAfter(gone), kept, n))
    BY <1>5, ConsEnumerates
  <2>2. Len(h) = Len(g) + 1
    BY <1>6
  <2> QED
    BY <1>1, <1>5, <2>1, <2>2 DEF Shows
<1>9. Shown' = <<[url |-> u, age |-> 0]>> \o Lru!Room
  <2>1. url' \in [Nodes -> Urls] /\ age' \in [Nodes -> Nat] /\ url'[n] = u /\ age'[n] = 0
    BY <1>1, <1>7
  <2>2. View(h, url', age') = <<[url |-> u, age |-> 0]>> \o View(g, url', age')
    <3>0. \A v \in [Nodes -> Urls], a \in [Nodes -> Nat] :
            View(<<n>> \o g, v, a) = <<[url |-> v[n], age |-> a[n]]>> \o View(g, v, a)
      BY <1>6, ViewCons
    <3>1. View(h, url', age') = <<[url |-> url'[n], age |-> age'[n]]>> \o View(g, url', age')
      BY <2>1, <3>0
    <3> QED
      BY <2>1, <3>1
  <2>3. View(g, url', age') = View(g, url, age)
    <3>1. \A i \in 1..Len(g) : url'[g[i]] = url[g[i]] /\ age'[g[i]] = age[g[i]]
      BY <1>1, <1>6, <1>7
    <3> QED
      BY <1>6, <3>1, ViewSame
  <2>4. Shown' = View(h, url', age')
    BY <1>3, <1>8, ShownNext
  <2> QED
    BY <1>5, <2>2, <2>3, <2>4
<1>10. Represented'
  BY <1>8 DEF Represented
<1>11. Lru!Add(w)
  BY <1>2, <1>9 DEF Lru!Add, Lru!Go
<1> QED
  BY <1>10, <1>11

\* Without memory for the new entry, room was made all the same.
LEMMA CacheAddFailsRefines ==
  ASSUME IInv, Represented, NEW w \in Workers, CacheAddFails(w)
  PROVE  Represented' /\ Lru!Add(w)
<1>1. /\ current_size' = SizeAfter(Evicted) /\ allocated' = allocated \ Evicted
      /\ older' = OlderAfter(Evicted)
      /\ pc[w] = "add" /\ pc' = [pc EXCEPT ![w] = "idle"]
      /\ UNCHANGED <<url, age, arg, destroyed>> /\ Unlocked
  BY DEF CacheAddFails
<1>2. ~destroyed /\ ~destroyed' /\ IInv'
  BY <1>1, CacheAddFailsKeeps DEF IInv, Gone
<1>3. PICK f : Shows(f)
  BY <1>2 DEF Represented
<1>4. PICK g : /\ Enumerates(g, allocated \ Evicted, OlderAfter(Evicted)) /\ Len(g) = SizeAfter(Evicted)
               /\ View(g, url, age) = Lru!Room
  BY <1>1, <1>2, <1>3, RoomIs
<1>5. Shows(g)'
  BY <1>1, <1>4 DEF Shows
<1>6. Shown' = Lru!Room
  BY <1>1, <1>2, <1>4, <1>5, ShownNext
<1>7. Represented'
  BY <1>5 DEF Represented
<1>8. Lru!Add(w)
  BY <1>1, <1>6 DEF Lru!Add, Lru!Go
<1> QED
  BY <1>7, <1>8

\* The sweep drops an entry from anywhere in the list.
LEMMA SweepRemovesRefines ==
  ASSUME IInv, Represented, SweepRemoves
  PROVE  Represented' /\ Lru!Expire
<1> USE SizesAssumption
<1> DEFINE n == Current
<1>1. /\ age[n] >= CACHE_EXPIRY_TIME /\ current_size' = current_size - 1
      /\ allocated' = allocated \ {n} /\ older' = Forget(older, n)
      /\ UNCHANGED <<url, age, pc, arg, destroyed>>
  BY DEF SweepRemoves, workVars
<1>2. ~destroyed /\ ~destroyed' /\ IInv' /\ n \in allocated
  BY <1>1, SweepRemovesKeeps, CurrentAllocated DEF IInv, Gone, SweepRemoves, AtNode
<1>3. PICK f : Shows(f)
  BY <1>2 DEF Represented
<1>4. /\ f \in Seq(Nodes) /\ Enumerates(f, allocated, older)
      /\ url \in [Nodes -> Urls] /\ age \in [Nodes -> Nat]
      /\ Len(f) = current_size /\ Shown = View(f, url, age) /\ DOMAIN Shown = 1..Len(f)
  BY <1>2, <1>3, ShowsAll DEF Shows
<1>5. PICK i \in 1..Len(f) : f[i] = n
  BY <1>2, <1>3, ShowsAll
<1>6. Shows(RemoveAt(f, i))'
  <2>1. Enumerates(RemoveAt(f, i), allocated \ {n}, Forget(older, n))
    BY <1>4, <1>5, RemoveAtEnumerates
  <2>2. Len(RemoveAt(f, i)) = Len(f) - 1
    BY <1>4, RemoveAtIs
  <2> QED
    BY <1>1, <1>4, <2>1, <2>2 DEF Shows
<1>7. Shown' = Lru!RemoveAt(Shown, i)
  <2>1. View(RemoveAt(f, i), url, age) = RemoveAt(Shown, i)
    BY <1>4, ViewRemoveAt
  <2>2. Shown' = View(RemoveAt(f, i), url, age)
    BY <1>1, <1>2, <1>6, ShownNext
  <2> QED
    BY <2>1, <2>2, LruSequences
<1>8. Shown[i].age = CACHE_EXPIRY_TIME
  <2>1. age[n] \in 0..CACHE_EXPIRY_TIME
    BY <1>2 DEF IInv, TypeOK
  <2>2. age[n] = CACHE_EXPIRY_TIME
    BY <1>1, <2>1
  <2>3. Shown[i] = [url |-> url[f[i]], age |-> age[f[i]]]
    BY <1>2, <1>3, ShowsAll
  <2> QED
    BY <1>5, <2>2, <2>3
<1>9. Represented'
  BY <1>6 DEF Represented
<1>10. Lru!Expire
  BY <1>1, <1>4, <1>7, <1>8 DEF Lru!Expire
<1> QED
  BY <1>9, <1>10

LEMMA TickRefines ==
  ASSUME IInv, Represented, Tick
  PROVE  Represented' /\ Lru!Tick
<1>1. /\ age' = [n \in Nodes |-> IF age[n] < CACHE_EXPIRY_TIME THEN age[n] + 1 ELSE age[n]]
      /\ UNCHANGED <<current_size, url, allocated, older, pc, arg, destroyed>>
      /\ ~destroyed /\ ~destroyed' /\ IInv'
  BY TickKeeps DEF Tick, workVars
<1>2. PICK f : Shows(f)
  BY <1>1 DEF Represented
<1>3. Shows(f)'
  BY <1>1, <1>2 DEF Shows
<1>4. Represented'
  BY <1>3 DEF Represented
<1>5. /\ DOMAIN Shown = 1..Len(f) /\ \A i \in 1..Len(f) : f[i] \in Nodes
      /\ \A i \in 1..Len(f) : Shown[i] = [url |-> url[f[i]], age |-> age[f[i]]]
  BY <1>1, <1>2, ShowsAll
<1>6. Shown' = [i \in 1..Len(f) |-> [url |-> url[f[i]], age |-> age'[f[i]]]]
  BY <1>1, <1>3, ShownNext DEF View
<1>7. \A i \in 1..Len(f) : Lru!Older(Shown[i]) = [url |-> url[f[i]], age |-> age'[f[i]]]
  <2> SUFFICES ASSUME NEW i \in 1..Len(f)
               PROVE  Lru!Older(Shown[i]) = [url |-> url[f[i]], age |-> age'[f[i]]]
    OBVIOUS
  <2>1. Shown[i] = [url |-> url[f[i]], age |-> age[f[i]]]
    BY <1>5
  <2>2. age'[f[i]] = IF age[f[i]] < CACHE_EXPIRY_TIME THEN age[f[i]] + 1 ELSE age[f[i]]
    BY <1>1, <1>5
  <2> QED
    BY <2>1, <2>2 DEF Lru!Older
<1>8. Lru!Tick
  BY <1>1, <1>5, <1>6, <1>7 DEF Lru!Tick
<1> QED
  BY <1>4, <1>8

LEMMA CacheDestroyRefines ==
  ASSUME IInv, Represented, CacheDestroy
  PROVE  Represented' /\ Lru!Destroy
  BY DEF CacheDestroy, workVars, Represented, Shown, Lru!Destroy

LEMMA StepRefines == IInv /\ Represented /\ [Next]_vars => Represented' /\ [Lru!Next]_(Lru!vars)
<1> SUFFICES ASSUME IInv, Represented, [Next]_vars
             PROVE  Represented' /\ [Lru!Next]_(Lru!vars)
  OBVIOUS
<1>1. CASE UNCHANGED vars \/ SweepStart \/ SweepKeeps \/ SweepNextBucket
  <2>1. UNCHANGED <<nodeVars, workVars, destroyed>>
    BY <1>1 DEF vars, SweepStart, SweepKeeps, SweepNextBucket
  <2>2. Represented' /\ Shown' = Shown
    BY <2>1, NodesSame
  <2> QED
    BY <2>1, <2>2 DEF Lru!vars, workVars
<1>2. CASE \E w \in Workers : \/ \E u \in Urls : Request(w, u)
                              \/ GetMiss(w) \/ SendCached(w) \/ Fetched(w)
  BY <1>2, WorkerRefines
<1>3. CASE \E w \in Workers : GetHit(w) \/ CacheAdd(w) \/ CacheAddFails(w)
  BY <1>3, GetHitRefines, CacheAddRefines, CacheAddFailsRefines DEF Lru!Next
<1>4. CASE SweepRemoves \/ Tick \/ CacheDestroy
  BY <1>4, SweepRemovesRefines, TickRefines, CacheDestroyRefines DEF Lru!Next
<1> QED
  BY <1>1, <1>2, <1>3, <1>4 DEF Next

-----------------------------------------------------------------------------
\* The cache is a list of entries in the order of their last use that forgets
\* from its end: a lookup through the chains finds what the list says, an eviction
\* drops the last entry, and neither failing allocations nor a sweep reorder it.
THEOREM CacheImplementsLru == Spec => ImplementsLru
  BY InitShows, AlwaysIInv, StepRefines, PTL DEF Spec, ImplementsLru, Lru!Spec
=============================================================================
