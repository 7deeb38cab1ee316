---------------------------- MODULE CacheProofs ----------------------------
(***************************************************************************)
(* Theorems about Cache, for every set of workers, URLs and nodes, every   *)
(* hash function and every size of the cache and its table.                *)
(***************************************************************************)
EXTENDS Cache, TLAPS, FiniteSetTheorems, SequenceTheorems, MinFacts

-----------------------------------------------------------------------------
(* The LRU list, as an operation on pointers.                              *)

Lists == [head : Nodes \cup {NULL}, tail : Nodes \cup {NULL},
          prev : [Nodes -> Nodes \cup {NULL}], next : [Nodes -> Nodes \cup {NULL}]]

\* The head is the node used last, the tail the one used longest ago.
Ends(l, S, R) == /\ \A m \in S \ {l.head} : <<m, l.head>> \in R
                 /\ \A m \in S \ {l.tail} : <<l.tail, m>> \in R

Ordered(l, S, R) == /\ l \in Lists /\ S \subseteq Nodes /\ R \subseteq S \X S
                    /\ Orders(R, S) /\ Linked(l, S, R) /\ Ends(l, S, R)

LEMMA PushFrontOrdered ==
  ASSUME NEW l, NEW S, NEW R, Ordered(l, S, R), NEW n \in Nodes \ S
  PROVE  Ordered(PushFront(l, n), S \cup {n}, Touch(R, S, n))
<1> USE NodesAssumption
<1> DEFINE k == PushFront(l, n)
           Q == Touch(R, S, n)
<1>1. Q = R \cup {<<m, n>> : m \in S}
  BY DEF Touch, Forget, Ordered
<1>2. /\ k.head = n /\ k.tail = IF S = {} THEN n ELSE l.tail
      /\ \A m \in Nodes \ {n} : k.next[m] = l.next[m] /\ k.prev[m] = IF m = l.head THEN n ELSE l.prev[m]
      /\ k.next[n] = l.head /\ k.prev[n] = NULL
      /\ k \in Lists
  BY DEF PushFront, Ordered, Lists, Linked
<1> HIDE DEF k, Q
<1>3. Q \subseteq (S \cup {n}) \X (S \cup {n}) /\ Orders(Q, S \cup {n})
  BY <1>1 DEF Ordered, Orders
<1>4. Linked(k, S \cup {n}, Q)
  <2>1. k.head \in S \cup {n} /\ k.tail \in S \cup {n}
    BY <1>2 DEF Ordered, Linked
  <2>2. ASSUME NEW m \in S
        PROVE  /\ k.next[m] = NULL <=> m = k.tail
               /\ k.prev[m] = NULL <=> m = k.head
               /\ k.next[m] # NULL => /\ k.next[m] \in S /\ k.prev[k.next[m]] = m
                                      /\ <<k.next[m], m>> \in Q
               /\ k.prev[m] # NULL => k.prev[m] \in S \cup {n} /\ k.next[k.prev[m]] = m
    <3>1. m # n /\ m \in Nodes /\ k.next[m] = l.next[m]
      BY <1>2 DEF Ordered
    <3>2. /\ l.next[m] = NULL <=> m = l.tail
          /\ l.prev[m] = NULL <=> m = l.head
          /\ l.next[m] # NULL => /\ l.next[m] \in S /\ l.prev[l.next[m]] = m
                                 /\ <<l.next[m], m>> \in R
          /\ l.prev[m] # NULL => l.prev[m] \in S /\ l.next[l.prev[m]] = m
      BY DEF Ordered, Linked
    <3>3. l.next[m] # l.head \/ l.next[m] = NULL
      BY <3>2 DEF Ordered, Linked
    <3>4. k.next[m] # NULL => /\ k.next[m] \in S /\ k.prev[k.next[m]] = m
                             /\ <<k.next[m], m>> \in Q
      BY <1>1, <1>2, <3>1, <3>2, <3>3 DEF Ordered
    <3>5. k.prev[m] # NULL => k.prev[m] \in S \cup {n} /\ k.next[k.prev[m]] = m
      BY <1>2, <3>1, <3>2 DEF Ordered
    <3> QED
      BY <1>2, <3>1, <3>2, <3>4, <3>5
  <2>3. /\ k.next[n] = NULL <=> n = k.tail
        /\ k.next[n] # NULL => /\ k.next[n] \in S /\ k.prev[k.next[n]] = n
                               /\ <<k.next[n], n>> \in Q
    BY <1>1, <1>2 DEF Ordered, Linked
  <2>4. ASSUME NEW a \in S \cup {n}, NEW b \in S \cup {n}, <<a, b>> \in Q
        PROVE  a = k.next[b] \/ <<a, k.next[b]>> \in Q
    <3>1. CASE b = n
      BY <3>1, <2>4, <1>1, <1>2 DEF Ordered, Ends
    <3>2. CASE b # n
      <4>1. <<a, b>> \in R /\ a \in S /\ b \in S
        BY <3>2, <2>4, <1>1 DEF Ordered
      <4>2. a = l.next[b] \/ <<a, l.next[b]>> \in R
        BY <4>1 DEF Ordered, Linked
      <4> QED
        BY <3>2, <4>1, <4>2, <1>1, <1>2 DEF Ordered
    <3> QED
      BY <3>1, <3>2
  <2>5. k.head \in Nodes /\ k.tail \in Nodes /\ k.head = n /\ k.prev[n] = NULL
    BY <1>2, <2>1 DEF Ordered
  <2>6. S \cup {n} # {} /\ NULL \notin S \cup {n}
    BY DEF Ordered
  <2> QED
    BY <2>1, <2>2, <2>3, <2>4, <2>5, <2>6 DEF Linked
<1>5. Ends(k, S \cup {n}, Q)
  BY <1>1, <1>2 DEF Ordered, Ends, Linked
<1> QED
  BY <1>2, <1>3, <1>4, <1>5 DEF Ordered, k, Q

LEMMA UnlinkOrdered ==
  ASSUME NEW l, NEW S, NEW R, Ordered(l, S, R), NEW n \in S
  PROVE  Ordered(Unlink(l, n), S \ {n}, Forget(R, n))
<1> USE NodesAssumption
<1> DEFINE k == Unlink(l, n)
           Q == Forget(R, n)
           T == S \ {n}
<1>0. S \subseteq Nodes /\ NULL \notin S
  BY DEF Ordered
<1> USE <1>0
<1>1. \A a, b : <<a, b>> \in Q <=> <<a, b>> \in R /\ a # n /\ b # n
  BY DEF Forget
<1>2. /\ k.head = IF l.prev[n] # NULL THEN l.head ELSE l.next[n]
      /\ k.tail = IF l.next[n] # NULL THEN l.tail ELSE l.prev[n]
      /\ \A m \in Nodes : /\ k.next[m] = IF m = l.prev[n] THEN l.next[n] ELSE l.next[m]
                          /\ k.prev[m] = IF m = l.next[n] THEN l.prev[n] ELSE l.prev[m]
      /\ k \in Lists
  BY DEF Unlink, Ordered, Lists, Linked
<1> HIDE DEF k, Q
<1>3. Q \subseteq T \X T /\ Orders(Q, T)
  BY <1>1 DEF Ordered, Orders, Forget, Q
<1>4. \A m \in S : /\ l.next[m] = NULL <=> m = l.tail
                   /\ l.prev[m] = NULL <=> m = l.head
                   /\ l.next[m] # NULL => /\ l.next[m] \in S /\ l.prev[l.next[m]] = m
                                          /\ <<l.next[m], m>> \in R
                   /\ l.prev[m] # NULL => l.prev[m] \in S /\ l.next[l.prev[m]] = m
  BY DEF Ordered, Linked
<1>5. \A m \in S : l.prev[m] # NULL => <<m, l.prev[m]>> \in R
  BY <1>4
<1>6. \A m \in S : <<m, m>> \notin R
  BY DEF Ordered, Orders
<1>6a. ASSUME NEW m \in S PROVE l.next[m] # m /\ l.prev[m] # m
  <2>1. <<m, m>> \notin R /\ m # NULL
    BY <1>6
  <2>2. l.next[m] # NULL => <<l.next[m], m>> \in R
    BY <1>4
  <2>3. l.prev[m] # NULL => <<m, l.prev[m]>> \in R
    BY <1>5
  <2>4. l.next[m] # m
    BY <2>1, <2>2
  <2>5. l.prev[m] # m
    BY <2>1, <2>3
  <2> QED
    BY <2>4, <2>5
<1>6b. ASSUME NEW m \in S, NEW j \in S, l.next[m] = l.next[j], l.next[m] # NULL PROVE m = j
  <2>1. l.prev[l.next[m]] = m /\ l.prev[l.next[j]] = j
    BY <1>4, <1>6b
  <2> QED
    BY <1>6b, <2>1
<1>7. \A m \in S : <<n, m>> \in R => n = l.next[m] \/ <<n, l.next[m]>> \in R
  BY DEF Ordered, Linked
<1>8. T = {} <=> n = l.head /\ n = l.tail
  BY <1>6 DEF Ordered, Ends, Linked, Orders
<1>9. /\ k.head \in T \cup {NULL} /\ k.tail \in T \cup {NULL}
      /\ k.head = NULL <=> T = {}
      /\ k.tail = NULL <=> T = {}
  <2>1. l.head \in S /\ l.tail \in S
    BY DEF Ordered, Linked
  <2>2. l.next[n] # n /\ l.prev[n] # n
    BY <1>6a
  <2> QED
    BY <1>2, <1>4, <1>8, <2>1, <2>2
<1>10. Ends(k, T, Q)
  <2>1. \A m \in T \ {k.head} : <<m, k.head>> \in R
    <3>1. CASE l.prev[n] # NULL
      BY <3>1, <1>2 DEF Ordered, Ends
    <3>2. CASE l.prev[n] = NULL
      <4>1. n = l.head /\ k.head = l.next[n]
        BY <3>2, <1>2, <1>4
      <4>2. \A m \in T : <<m, n>> \in R
        BY <4>1 DEF Ordered, Ends
      <4> QED
        BY <4>1, <4>2 DEF Ordered, Linked
    <3> QED
      BY <3>1, <3>2
  <2>2. \A m \in T \ {k.tail} : <<k.tail, m>> \in R
    <3>1. CASE l.next[n] # NULL
      BY <3>1, <1>2 DEF Ordered, Ends
    <3>2. CASE l.next[n] = NULL
      <4>1. n = l.tail /\ k.tail = l.prev[n]
        BY <3>2, <1>2, <1>4
      <4>2. \A m \in T : <<n, m>> \in R
        BY <4>1 DEF Ordered, Ends
      <4>3. ASSUME NEW m \in T, m # k.tail PROVE <<k.tail, m>> \in R
        <5>1. k.tail \in S /\ l.next[k.tail] = n /\ k.tail # n
          <6>1. k.tail \in T /\ k.tail # NULL
            BY <1>9
          <6>2. l.prev[n] # NULL => l.next[l.prev[n]] = n
            BY <1>4
          <6> QED
            BY <4>1, <6>1, <6>2
        <5>2. <<m, k.tail>> \in R => m = n \/ <<m, n>> \in R
          BY <5>1 DEF Ordered, Linked
        <5>3. <<m, n>> \notin R
          BY <4>2 DEF Ordered, Orders
        <5> QED
          BY <4>3, <5>1, <5>2, <5>3 DEF Ordered, Orders
      <4> QED
        BY <4>3
    <3> QED
      BY <3>1, <3>2
  <2>3. \A m \in T : (k.head # m => k.head \in T) /\ (k.tail # m => k.tail \in T)
    BY <1>9
  <2> QED
    BY <1>1, <2>1, <2>2, <2>3 DEF Ends
<1>11. Linked(k, T, Q)
  <2>1. ASSUME NEW m \in T
        PROVE  /\ k.next[m] = NULL <=> m = k.tail
               /\ k.prev[m] = NULL <=> m = k.head
               /\ k.next[m] # NULL => /\ k.next[m] \in T /\ k.prev[k.next[m]] = m
                                      /\ <<k.next[m], m>> \in Q
               /\ k.prev[m] # NULL => k.prev[m] \in T /\ k.next[k.prev[m]] = m
    <3>1. m \in Nodes /\ n \in Nodes /\ m \in S /\ m # n
      BY DEF Ordered
    <3>2. l.next[n] # n /\ l.prev[n] # n /\ l.next[m] # m /\ l.prev[m] # m
      BY <1>6a, <3>1
    <3>a. /\ l.next[m] = NULL <=> m = l.tail
          /\ l.prev[m] = NULL <=> m = l.head
          /\ l.next[n] = NULL <=> n = l.tail
          /\ l.prev[n] = NULL <=> n = l.head
          /\ l.next[n] # NULL => l.prev[l.next[n]] = n
          /\ l.prev[n] # NULL => l.next[l.prev[n]] = n
          /\ l.prev[m] # NULL => l.prev[m] \in S /\ l.next[l.prev[m]] = m
      BY <1>4, <3>1
    <3>b. /\ k.next[m] = IF m = l.prev[n] THEN l.next[n] ELSE l.next[m]
          /\ k.prev[m] = IF m = l.next[n] THEN l.prev[n] ELSE l.prev[m]
      BY <1>2, <3>1
    <3>3. k.next[m] = NULL <=> m = k.tail
      BY <1>2, <3>1, <3>2, <3>a, <3>b
    <3>4. k.prev[m] = NULL <=> m = k.head
      BY <1>2, <3>1, <3>2, <3>a, <3>b
    <3>5. k.next[m] # NULL => /\ k.next[m] \in T /\ k.prev[k.next[m]] = m
                             /\ <<k.next[m], m>> \in Q
      <4>1. CASE m = l.prev[n]
        <5>1. ASSUME l.next[n] # NULL
              PROVE  /\ l.next[n] \in T /\ k.prev[l.next[n]] = m /\ <<l.next[n], m>> \in R
          <6>1. l.next[n] \in S /\ l.next[n] \in Nodes /\ <<l.next[n], n>> \in R /\ <<n, m>> \in R
            BY <4>1, <5>1, <1>4, <1>5, <3>1 DEF Ordered
          <6> QED
            BY <4>1, <6>1, <1>2, <3>1, <3>2 DEF Ordered, Orders
        <5> QED
          BY <4>1, <5>1, <1>1, <1>2, <3>1
      <4>2. CASE m # l.prev[n]
        <5>1. k.next[m] = l.next[m] /\ l.next[m] # n
          BY <4>2, <1>2, <1>4, <3>1
        <5>2. l.next[m] # NULL => l.next[m] # l.next[n]
          BY <1>6b, <3>1
        <5> QED
          BY <4>2, <5>1, <5>2, <1>1, <1>2, <1>4, <3>1 DEF Ordered
      <4> QED
        BY <4>1, <4>2
    <3>6. k.prev[m] # NULL => k.prev[m] \in T /\ k.next[k.prev[m]] = m
      <4>1. CASE m = l.next[n]
        <5>1. k.prev[m] = l.prev[n]
          BY <3>b, <4>1
        <5>2. l.prev[n] # NULL => l.prev[n] \in T /\ l.prev[n] \in Nodes
          BY <1>4, <3>2
        <5> QED
          BY <1>2, <4>1, <5>1, <5>2
      <4>2. CASE m # l.next[n]
        <5>1. k.prev[m] = l.prev[m] /\ (l.prev[m] # NULL => l.prev[m] \in S /\ l.prev[m] \in Nodes)
          BY <3>a, <3>b, <4>2
        <5>2. l.prev[m] # NULL => l.prev[m] # n /\ l.prev[m] # l.prev[n]
          BY <3>1, <3>a, <4>2
        <5> QED
          BY <1>2, <3>a, <5>1, <5>2
      <4> QED
        BY <4>1, <4>2
    <3> QED
      BY <3>3, <3>4, <3>5, <3>6
  <2>2. ASSUME NEW a \in T, NEW b \in T, <<a, b>> \in Q
        PROVE  a = k.next[b] \/ <<a, k.next[b]>> \in Q
    <3>1. /\ <<a, b>> \in R /\ a \in S /\ b \in S /\ b \in Nodes /\ a # n /\ b # n
      BY <1>1, <2>2 DEF Ordered
    <3>2. a = l.next[b] \/ <<a, l.next[b]>> \in R
      BY <3>1 DEF Ordered, Linked
    <3>3. CASE b # l.prev[n]
      <4>1. k.next[b] = l.next[b] /\ l.next[b] # n
        BY <3>3, <1>2, <1>4, <3>1
      <4> QED
        BY <4>1, <3>1, <3>2, <1>1
    <3>4. CASE b = l.prev[n]
      <4>1. l.next[b] = n /\ k.next[b] = l.next[n]
        BY <3>4, <1>2, <1>4, <3>1 DEF Linked
      <4>2. <<a, n>> \in R
        BY <4>1, <3>1, <3>2
      <4>3. a = l.next[n] \/ <<a, l.next[n]>> \in R
        BY <4>2, <3>1 DEF Ordered, Linked
      <4>4. l.next[n] # n
        BY <1>4, <1>6
      <4> QED
        BY <4>1, <4>3, <4>4, <3>1, <1>1
    <3> QED
      BY <3>3, <3>4
  <2> QED
    BY <1>9, <2>1, <2>2 DEF Linked
<1> QED
  BY <1>2, <1>3, <1>10, <1>11 DEF Ordered, k, Q

\* cache.c:163-188: taken out and pushed to the front.
LEMMA MoveToFrontOrdered ==
  ASSUME NEW l, NEW S, NEW R, Ordered(l, S, R), NEW n \in S
  PROVE  Ordered(MoveToFront(l, n), S, Touch(R, S, n))
<1> USE NodesAssumption
<1>0. l \in Lists /\ S \subseteq Nodes /\ n \in Nodes /\ R \subseteq S \X S
  BY DEF Ordered
<1>1. CASE n = l.head
  <2>1. /\ \A m \in S \ {n} : <<m, n>> \in R
        /\ \A m \in S : <<n, m>> \notin R
    BY <1>1 DEF Ordered, Ends, Orders
  <2>2. \A a, b : <<a, b>> \in R => a \in S /\ b \in S
    BY <1>0
  <2>3. \A p \in R : p = <<p[1], p[2]>> /\ p[1] \in S /\ p[2] \in S
    BY <1>0
  <2>4. R \subseteq Touch(R, S, n)
    BY <2>1, <2>3 DEF Touch, Forget
  <2>5. Touch(R, S, n) \subseteq R
    BY <2>1 DEF Touch, Forget
  <2>6. Touch(R, S, n) = R
    BY <2>4, <2>5
  <2> QED
    BY <1>1, <2>6 DEF MoveToFront
<1>2. CASE n # l.head
  <2>1. Ordered(Unlink(l, n), S \ {n}, Forget(R, n))
    BY UnlinkOrdered
  <2>2. Ordered(PushFront(Unlink(l, n), n), S, Touch(Forget(R, n), S \ {n}, n))
    <3>1. n \in Nodes \ (S \ {n}) /\ (S \ {n}) \cup {n} = S
      BY <1>0
    <3> QED
      BY <2>1, <3>1, PushFrontOrdered
  <2>3. Touch(Forget(R, n), S \ {n}, n) = Touch(R, S, n)
    BY DEF Touch, Forget
  <2>4. l.prev[n] # NULL
    BY <1>2 DEF Ordered, Linked
  <2>5. PushFront(Unlink(l, n), n) = MoveToFront(l, n)
    BY <1>0, <1>2, <2>4 DEF PushFront, Unlink, MoveToFront, Lists
  <2> QED
    BY <2>2, <2>3, <2>5
<1> QED
  BY <1>1, <1>2

\* cache.c:197-204: what happens to the tail is what the sweep does to any node.
LEMMA DropTailOrdered ==
  ASSUME NEW l, NEW S, NEW R, Ordered(l, S, R), l.tail # NULL
  PROVE  /\ l.tail \in S
         /\ Ordered(DropTail(l), S \ {l.tail}, Forget(R, l.tail))
<1> USE NodesAssumption
<1>1. /\ l \in Lists /\ S \subseteq Nodes /\ l.tail \in S /\ l.tail \in Nodes
      /\ l.next[l.tail] = NULL
      /\ l.prev[l.tail] = NULL <=> l.tail = l.head
  BY DEF Ordered, Linked
<1>2. DropTail(l) = Unlink(l, l.tail)
  <2>1. l.head \in Nodes \cup {NULL} /\ l.prev \in [Nodes -> Nodes \cup {NULL}] /\ l.next \in [Nodes -> Nodes \cup {NULL}]
        /\ l = [head |-> l.head, tail |-> l.tail, prev |-> l.prev, next |-> l.next]
    BY <1>1 DEF Lists
  <2> QED
    BY <1>1, <2>1 DEF DropTail, Unlink
<1> QED
  BY <1>1, <1>2, UnlinkOrdered

-----------------------------------------------------------------------------
(* The chains, as an operation on sequences.                               *)

LEMMA RemoveAtIs ==
  ASSUME NEW T, NEW s \in Seq(T), NEW i \in 1..Len(s)
  PROVE  /\ RemoveAt(s, i) \in Seq(T)
         /\ Len(RemoveAt(s, i)) = Len(s) - 1
         /\ \A j \in 1..Len(s) - 1 : RemoveAt(s, i)[j] = IF j < i THEN s[j] ELSE s[j + 1]
<1> DEFINE a == SubSeq(s, 1, i - 1)
           b == SubSeq(s, i + 1, Len(s))
<1>0. i \in Nat /\ Len(s) \in Nat /\ 1 <= i /\ i <= Len(s)
  OBVIOUS
<1>1. /\ a \in Seq(T) /\ Len(a) = i - 1
      /\ \A j \in 1..i - 1 : a[j] = s[j]
  BY SubSeqProperties
<1>2. /\ b \in Seq(T) /\ Len(b) = Len(s) - i
      /\ \A j \in 1..Len(s) - i : b[j] = s[i + j]
  BY SubSeqProperties
<1> HIDE DEF a, b
<1>3. /\ a \o b \in Seq(T) /\ Len(a \o b) = Len(a) + Len(b)
      /\ \A j \in 1..Len(a) + Len(b) : (a \o b)[j] = IF j <= Len(a) THEN a[j] ELSE b[j - Len(a)]
  BY <1>1, <1>2, ConcatProperties
<1>4. ASSUME NEW j \in 1..Len(s) - 1 PROVE (a \o b)[j] = IF j < i THEN s[j] ELSE s[j + 1]
  <2>1. j \in 1..Len(a) + Len(b)
    BY <1>0, <1>1, <1>2
  <2>2. CASE j < i
    BY <1>0, <1>1, <1>3, <2>1, <2>2
  <2>3. CASE j >= i
    <3>1. (a \o b)[j] = b[j - (i - 1)]
      BY <1>0, <1>1, <1>3, <2>1, <2>3
    <3>2. j - (i - 1) \in 1..Len(s) - i /\ i + (j - (i - 1)) = j + 1
      BY <1>0, <2>3
    <3> QED
      BY <1>0, <1>2, <2>3, <3>1, <3>2
  <2>4. j < i \/ j >= i
    BY <1>0
  <2> QED
    BY <2>2, <2>3, <2>4, Zenon
<1>5. Len(a) + Len(b) = Len(s) - 1
  BY <1>0, <1>1, <1>2
<1> QED
  BY <1>3, <1>4, <1>5, Zenon DEF RemoveAt, a, b

\* m comes before k in the chain s.
Ahead(s, m, k) == \E i, j \in 1..Len(s) : i < j /\ s[i] = m /\ s[j] = k

In(s, n) == \E i \in 1..Len(s) : s[i] = n

Once(s) == \A i, j \in 1..Len(s) : s[i] = s[j] => i = j

\* One node is taken out of a chain: the others stay, in their order.
LEMMA RemoveAtKeepsOthers ==
  ASSUME NEW T, NEW s \in Seq(T), Once(s), NEW i \in 1..Len(s)
  PROVE  /\ Once(RemoveAt(s, i))
         /\ \A m : In(RemoveAt(s, i), m) <=> In(s, m) /\ m # s[i]
         /\ \A m, k : Ahead(RemoveAt(s, i), m, k) <=> Ahead(s, m, k) /\ m # s[i] /\ k # s[i]
<1> DEFINE r == RemoveAt(s, i)
           Old(j) == IF j < i THEN j ELSE j + 1
           New(j) == IF j < i THEN j ELSE j - 1
<1>1. /\ Len(r) = Len(s) - 1 /\ Len(s) \in Nat
      /\ \A j \in 1..Len(r) : r[j] = s[Old(j)] /\ Old(j) \in 1..Len(s) /\ Old(j) # i
      /\ \A j \in 1..Len(s) : j # i => New(j) \in 1..Len(r) /\ Old(New(j)) = j
      /\ \A j \in 1..Len(r) : New(Old(j)) = j
      /\ \A j, k \in 1..Len(r) : j < k <=> Old(j) < Old(k)
  <2>1. Len(r) = Len(s) - 1 /\ Len(s) \in Nat /\ i \in Nat
        /\ \A j \in 1..Len(r) : r[j] = IF j < i THEN s[j] ELSE s[j + 1]
    BY RemoveAtIs
  <2> QED
    BY <2>1
<1> HIDE DEF r, Old, New
<1>2. \A j \in 1..Len(s) : s[j] = s[i] => j = i
  BY DEF Once
<1>3. Once(r)
  BY <1>1 DEF Once
<1>4. \A m : In(r, m) <=> In(s, m) /\ m # s[i]
  <2>1. ASSUME NEW m, In(r, m) PROVE In(s, m) /\ m # s[i]
    BY <1>1, <1>2, <2>1 DEF In
  <2>2. ASSUME NEW m, In(s, m), m # s[i] PROVE In(r, m)
    <3>1. PICK j \in 1..Len(s) : s[j] = m /\ j # i
      BY <2>2 DEF In
    <3>2. New(j) \in 1..Len(r) /\ r[New(j)] = m
      BY <1>1, <3>1
    <3> QED
      BY <3>2 DEF In
  <2> QED
    BY <2>1, <2>2
<1>5. ASSUME NEW m, NEW k, Ahead(r, m, k) PROVE Ahead(s, m, k) /\ m # s[i] /\ k # s[i]
  <2>1. PICK a, b \in 1..Len(r) : a < b /\ r[a] = m /\ r[b] = k
    BY <1>5 DEF Ahead
  <2>2. Old(a) \in 1..Len(s) /\ Old(b) \in 1..Len(s) /\ Old(a) < Old(b) /\ s[Old(a)] = m /\ s[Old(b)] = k
        /\ Old(a) # i /\ Old(b) # i
    BY <1>1, <2>1
  <2> QED
    BY <1>2, <2>2 DEF Ahead
<1>6. ASSUME NEW m, NEW k, Ahead(s, m, k), m # s[i], k # s[i] PROVE Ahead(r, m, k)
  <2>1. PICK a, b \in 1..Len(s) : a < b /\ s[a] = m /\ s[b] = k
    BY <1>6 DEF Ahead
  <2>2. a # i /\ b # i
    BY <1>6, <2>1
  <2>3. New(a) \in 1..Len(r) /\ New(b) \in 1..Len(r) /\ New(a) < New(b) /\ r[New(a)] = m /\ r[New(b)] = k
    BY <1>1, <2>1, <2>2
  <2> QED
    BY <2>3 DEF Ahead
<1> QED
  BY <1>3, <1>4, <1>5, <1>6 DEF r

\* A search that takes the first match takes the only one.
LEMMA RemoveFirstIs ==
  ASSUME NEW T, NEW s \in Seq(T), Once(s), NEW i \in 1..Len(s)
  PROVE  RemoveFirst(s, s[i]) = RemoveAt(s, i)
<1> DEFINE I == {j \in 1..Len(s) : s[j] = s[i]}
<1>1. I = {i}
  BY DEF Once
<1>2. Min(I) = i
  <2>1. I \in SUBSET Nat /\ I # {}
    BY <1>1
  <2> QED
    BY <1>1, <2>1, Smallest
<1>3. SelectInSeq(s, LAMBDA v : v = s[i]) = i
  BY <1>1, <1>2 DEF SelectInSeq
<1> QED
  BY <1>3 DEF RemoveFirst

\* A new node goes before the others.
LEMMA ConsKeepsOthers ==
  ASSUME NEW T, NEW s \in Seq(T), Once(s), NEW n \in T, ~In(s, n)
  PROVE  /\ <<n>> \o s \in Seq(T)
         /\ Once(<<n>> \o s)
         /\ \A m : In(<<n>> \o s, m) <=> In(s, m) \/ m = n
         /\ \A m, k : Ahead(<<n>> \o s, m, k) <=> Ahead(s, m, k) \/ (m = n /\ In(s, k))
<1> DEFINE r == <<n>> \o s
<1>1. /\ r \in Seq(T) /\ Len(r) = Len(s) + 1 /\ Len(s) \in Nat
      /\ r[1] = n /\ \A j \in 1..Len(s) : r[j + 1] = s[j]
  OBVIOUS
<1> HIDE DEF r
<1>2. \A j \in 1..Len(r) : j = 1 \/ (j - 1 \in 1..Len(s) /\ r[j] = s[j - 1])
  <2>1. ASSUME NEW j \in 1..Len(r), j # 1 PROVE j - 1 \in 1..Len(s) /\ r[j] = s[j - 1]
    <3>1. j - 1 \in 1..Len(s) /\ (j - 1) + 1 = j
      BY <1>1, <2>1
    <3> QED
      BY <1>1, <3>1
  <2> QED
    BY <2>1
<1>3. \A j \in 1..Len(s) : j + 1 \in 1..Len(r) /\ s[j] # n
  BY <1>1 DEF In
<1>4. 1 \in 1..Len(r)
  BY <1>1
<1>5. Once(r)
  BY <1>1, <1>2, <1>3 DEF Once
<1>6. \A m : In(r, m) <=> In(s, m) \/ m = n
  <2>1. ASSUME NEW m, In(r, m) PROVE In(s, m) \/ m = n
    <3>1. PICK j \in 1..Len(r) : r[j] = m
      BY <2>1 DEF In
    <3> QED
      BY <1>1, <1>2, <3>1 DEF In
  <2>2. ASSUME NEW m, In(s, m) PROVE In(r, m)
    <3>1. PICK j \in 1..Len(s) : s[j] = m
      BY <2>2 DEF In
    <3> QED
      BY <1>1, <1>3, <3>1 DEF In
  <2>3. In(r, n)
    BY <1>1, <1>4 DEF In
  <2> QED
    BY <2>1, <2>2, <2>3
<1>7. ASSUME NEW m, NEW k, Ahead(r, m, k) PROVE Ahead(s, m, k) \/ (m = n /\ In(s, k))
  <2>1. PICK a, b \in 1..Len(r) : a < b /\ r[a] = m /\ r[b] = k
    BY <1>7 DEF Ahead
  <2>2. b - 1 \in 1..Len(s) /\ s[b - 1] = k
    BY <1>2, <2>1
  <2>3. CASE a = 1
    BY <1>1, <2>1, <2>2, <2>3 DEF In
  <2>4. CASE a # 1
    <3>1. a - 1 \in 1..Len(s) /\ s[a - 1] = m /\ a - 1 < b - 1
      BY <1>1, <1>2, <2>1, <2>4
    <3> QED
      BY <2>2, <3>1 DEF Ahead
  <2> QED
    BY <2>3, <2>4
<1>8. ASSUME NEW m, NEW k, Ahead(s, m, k) \/ (m = n /\ In(s, k)) PROVE Ahead(r, m, k)
  <2>1. CASE Ahead(s, m, k)
    <3>1. PICK a, b \in 1..Len(s) : a < b /\ s[a] = m /\ s[b] = k
      BY <2>1 DEF Ahead
    <3>2. a + 1 \in 1..Len(r) /\ b + 1 \in 1..Len(r) /\ a + 1 < b + 1 /\ r[a + 1] = m /\ r[b + 1] = k
      BY <1>1, <1>3, <3>1
    <3> QED
      BY <3>2 DEF Ahead
  <2>2. CASE m = n /\ In(s, k)
    <3>1. PICK b \in 1..Len(s) : s[b] = k
      BY <2>2 DEF In
    <3>2. b + 1 \in 1..Len(r) /\ 1 < b + 1 /\ r[b + 1] = k
      BY <1>1, <1>3, <3>1
    <3> QED
      BY <1>1, <1>4, <2>2, <3>2 DEF Ahead
  <2> QED
    BY <1>8, <2>1, <2>2
<1> QED
  BY <1>1, <1>5, <1>6, <1>7, <1>8 DEF r

-----------------------------------------------------------------------------
(* The table, as an operation on its chains.                               *)

\* The chains of t hold the nodes of S, each once, in the chain of its URL.
Hashed(t, v, S) ==
  /\ t \in [Buckets -> Seq(Nodes)] /\ v \in [Nodes -> Urls] /\ S \subseteq Nodes
  /\ \A b \in Buckets : /\ Once(t[b])
                        /\ \A n : In(t[b], n) <=> n \in S /\ HashOf[v[n]] = b

\* Of two nodes of S for one URL, the one that comes first in the chain was used last
\* (R) and added last (a is their age).
FirstIsNewer(t, v, S, R, a) ==
  \A m, k \in S : v[m] = v[k] /\ Ahead(t[HashOf[v[k]]], m, k) => <<k, m>> \in R /\ a[m] <= a[k]

\* A node for the same URL comes before k in the chain.
Hidden(t, v, S, k) == \E m \in S : v[m] = v[k] /\ Ahead(t[HashOf[v[k]]], m, k)

\* c is t without the node n, which was there.
Removed(c, t, v, S, n) ==
  /\ n \in S
  /\ Hashed(c, v, S \ {n})
  /\ \A k \in S : \A m : Ahead(c[HashOf[v[k]]], m, k) <=> Ahead(t[HashOf[v[k]]], m, k) /\ m # n /\ k # n

\* c is t with the node n for u, w the URLs with its own.
Added(c, t, w, v, S, n, u) ==
  /\ Hashed(c, w, S \cup {n})
  /\ \A k \in S : \A m : Ahead(c[HashOf[v[k]]], m, k)
                         <=> Ahead(t[HashOf[v[k]]], m, k) \/ (m = n /\ HashOf[v[k]] = HashOf[u])
  /\ \A m : ~Ahead(c[HashOf[u]], m, n)

\* The node at i is taken out of the chain of b.
LEMMA TakenOut ==
  ASSUME NEW t, NEW v, NEW S, NEW c, NEW b, NEW i,
         Hashed(t, v, S), b \in Buckets, i \in 1..Len(t[b]), c \in [Buckets -> Seq(Nodes)],
         c[b] = RemoveAt(t[b], i), \A d \in Buckets \ {b} : c[d] = t[d]
  PROVE  Removed(c, t, v, S, t[b][i])
<1> DEFINE n == t[b][i]
<1> HIDE DEF n
<1>1. /\ t \in [Buckets -> Seq(Nodes)] /\ v \in [Nodes -> Urls] /\ S \subseteq Nodes
      /\ t[b] \in Seq(Nodes) /\ Once(t[b]) /\ In(t[b], n)
      /\ \A m : In(t[b], m) <=> m \in S /\ HashOf[v[m]] = b
  BY DEF Hashed, In, n
<1>2. n \in S /\ HashOf[v[n]] = b
  BY <1>1
<1>3. /\ RemoveAt(t[b], i) \in Seq(Nodes)
      /\ Once(RemoveAt(t[b], i))
      /\ \A m : In(RemoveAt(t[b], i), m) <=> In(t[b], m) /\ m # n
      /\ \A m, k : Ahead(RemoveAt(t[b], i), m, k) <=> Ahead(t[b], m, k) /\ m # n /\ k # n
  BY <1>1, RemoveAtIs, RemoveAtKeepsOthers DEF n
<1>4. c \in [Buckets -> Seq(Nodes)] /\ c[b] = RemoveAt(t[b], i) /\ \A d \in Buckets \ {b} : c[d] = t[d]
  OBVIOUS
<1>5. ASSUME NEW d \in Buckets
      PROVE  Once(c[d]) /\ \A m : In(c[d], m) <=> m \in S \ {n} /\ HashOf[v[m]] = d
  <2>1. CASE d = b
    BY <1>1, <1>3, <1>4, <2>1
  <2>2. CASE d # b
    <3>1. c[d] = t[d]
      BY <1>4, <2>2
    <3> QED
      BY <1>2, <2>2, <3>1 DEF Hashed
  <2> QED
    BY <2>1, <2>2
<1>6. Hashed(c, v, S \ {n})
  BY <1>1, <1>4, <1>5 DEF Hashed
<1>7. ASSUME NEW k \in S, NEW m
      PROVE  Ahead(c[HashOf[v[k]]], m, k) <=> Ahead(t[HashOf[v[k]]], m, k) /\ m # n /\ k # n
  <2>1. HashOf[v[k]] \in Buckets
    BY <1>1, HashAssumption
  <2>2. CASE HashOf[v[k]] = b
    BY <1>3, <1>4, <2>2
  <2>3. CASE HashOf[v[k]] # b
    <3>1. c[HashOf[v[k]]] = t[HashOf[v[k]]] /\ k # n
      BY <1>2, <1>4, <2>1, <2>3
    <3>2. ~In(t[HashOf[v[k]]], n)
      BY <1>2, <2>1, <2>3 DEF Hashed
    <3>3. Ahead(t[HashOf[v[k]]], m, k) => m # n
      BY <3>2 DEF Ahead, In
    <3> QED
      BY <3>1, <3>3
  <2> QED
    BY <2>2, <2>3
<1> QED
  BY <1>2, <1>6, <1>7 DEF n, Removed

\* What the eviction does to the table: a search for n finds its place.
LEMMA Unchained ==
  ASSUME NEW t, NEW v, NEW S, Hashed(t, v, S), NEW n \in S, NEW c,
         c \in [Buckets -> Seq(Nodes)],
         c[HashOf[v[n]]] = RemoveFirst(t[HashOf[v[n]]], n),
         \A d \in Buckets \ {HashOf[v[n]]} : c[d] = t[d]
  PROVE  Removed(c, t, v, S, n)
<1> DEFINE b == HashOf[v[n]]
<1>1. b \in Buckets /\ t[b] \in Seq(Nodes) /\ Once(t[b]) /\ In(t[b], n)
  BY HashAssumption DEF Hashed
<1>2. c[b] = RemoveFirst(t[b], n) /\ \A d \in Buckets \ {b} : c[d] = t[d]
  OBVIOUS
<1> HIDE DEF b
<1>3. PICK i \in 1..Len(t[b]) : t[b][i] = n
  BY <1>1 DEF In
<1>4. c[b] = RemoveAt(t[b], i)
  BY <1>1, <1>2, <1>3, RemoveFirstIs
<1>5. Removed(c, t, v, S, t[b][i])
  BY <1>1, <1>2, <1>4, TakenOut
<1> QED
  BY <1>3, <1>5

\* A new node is put before the others of its chain.
LEMMA LinkedIn ==
  ASSUME NEW t, NEW v, NEW S, Hashed(t, v, S), NEW n \in Nodes \ S, NEW u \in Urls, NEW c, NEW w,
         c = [t EXCEPT ![HashOf[u]] = <<n>> \o @], w = [v EXCEPT ![n] = u]
  PROVE  Added(c, t, w, v, S, n, u)
<1> DEFINE b == HashOf[u]
<1>1. /\ t \in [Buckets -> Seq(Nodes)] /\ v \in [Nodes -> Urls] /\ S \subseteq Nodes
      /\ b \in Buckets /\ t[b] \in Seq(Nodes) /\ Once(t[b])
      /\ \A m : In(t[b], m) <=> m \in S /\ HashOf[v[m]] = b
  BY HashAssumption DEF Hashed
<1> HIDE DEF b
<1>2. ~In(t[b], n) /\ n \in Nodes
  BY <1>1
<1>3. /\ <<n>> \o t[b] \in Seq(Nodes) /\ Once(<<n>> \o t[b])
      /\ \A m : In(<<n>> \o t[b], m) <=> In(t[b], m) \/ m = n
      /\ \A m, k : Ahead(<<n>> \o t[b], m, k) <=> Ahead(t[b], m, k) \/ (m = n /\ In(t[b], k))
  BY <1>1, <1>2, ConsKeepsOthers
<1>4. c \in [Buckets -> Seq(Nodes)] /\ c[b] = <<n>> \o t[b] /\ \A d \in Buckets \ {b} : c[d] = t[d]
  BY <1>1, <1>3 DEF b
<1>5. w \in [Nodes -> Urls] /\ w[n] = u /\ \A m \in S : w[m] = v[m]
  BY <1>1
<1>6. ASSUME NEW d \in Buckets
      PROVE  Once(c[d]) /\ \A m : In(c[d], m) <=> m \in S \cup {n} /\ HashOf[w[m]] = d
  <2>1. CASE d = b
    BY <1>1, <1>3, <1>4, <1>5, <2>1 DEF b
  <2>2. CASE d # b
    <3>1. c[d] = t[d] /\ HashOf[w[n]] # d
      BY <1>4, <1>5, <2>2 DEF b
    <3>2. Once(t[d]) /\ \A m : In(t[d], m) <=> m \in S /\ HashOf[v[m]] = d
      BY DEF Hashed
    <3> QED
      BY <1>5, <3>1, <3>2
  <2> QED
    BY <2>1, <2>2
<1>7. Hashed(c, w, S \cup {n})
  BY <1>1, <1>4, <1>5, <1>6 DEF Hashed
<1>8. ASSUME NEW k \in S, NEW m
      PROVE  Ahead(c[HashOf[v[k]]], m, k) <=> Ahead(t[HashOf[v[k]]], m, k) \/ (m = n /\ HashOf[v[k]] = b)
  <2>1. HashOf[v[k]] \in Buckets
    BY <1>1, HashAssumption
  <2>2. CASE HashOf[v[k]] = b
    BY <1>1, <1>3, <1>4, <2>2
  <2>3. CASE HashOf[v[k]] # b
    BY <1>4, <2>1, <2>3
  <2> QED
    BY <2>2, <2>3
<1>9. ASSUME NEW m PROVE ~Ahead(c[b], m, n)
  <2>1. ~Ahead(t[b], m, n)
    BY <1>2 DEF Ahead, In
  <2> QED
    BY <1>2, <1>3, <1>4, <2>1
<1> QED
  BY <1>7, <1>8, <1>9 DEF b, Added

-----------------------------------------------------------------------------
(* The order of the responses for one URL.                                 *)

LEMMA RemovedNewer ==
  ASSUME NEW t, NEW v, NEW S, NEW R, NEW a, NEW c, NEW n,
         Removed(c, t, v, S, n), FirstIsNewer(t, v, S, R, a)
  PROVE  FirstIsNewer(c, v, S \ {n}, Forget(R, n), a)
  BY DEF Removed, FirstIsNewer, Forget

\* The eviction never takes a node that hides an older one: it takes the oldest.
LEMMA OldestRemovedHides ==
  ASSUME NEW l, NEW t, NEW v, NEW S, NEW R, NEW a, NEW c, NEW k,
         Ordered(l, S, R), Removed(c, t, v, S, l.tail), FirstIsNewer(t, v, S, R, a),
         k \in S \ {l.tail}, Hidden(t, v, S, k)
  PROVE  Hidden(c, v, S \ {l.tail}, k)
<1>1. PICK m \in S : v[m] = v[k] /\ Ahead(t[HashOf[v[k]]], m, k)
  BY DEF Hidden
<1>2. <<k, m>> \in R
  BY <1>1 DEF FirstIsNewer
<1>3. l.tail \in S
  BY DEF Removed
<1>4. <<l.tail, k>> \in R
  BY DEF Ordered, Ends
<1>5. m # l.tail
  BY <1>2, <1>3, <1>4 DEF Ordered, Orders
<1> QED
  BY <1>1, <1>5 DEF Removed, Hidden

\* A new node is the newest for its URL, and hides the others for it.
LEMMA AddedNewer ==
  ASSUME NEW t, NEW v, NEW S, NEW R, NEW a, NEW c, NEW w, NEW b, NEW n, NEW u,
         Added(c, t, w, v, S, n, u), FirstIsNewer(t, v, S, R, a), n \notin S, S \subseteq Nodes,
         w[n] = u, \A m \in S : w[m] = v[m],
         b[n] = 0, \A m \in S : b[m] = a[m] /\ a[m] \in Nat
  PROVE  FirstIsNewer(c, w, S \cup {n}, Touch(R, S, n), b)
<1> SUFFICES ASSUME NEW m \in S \cup {n}, NEW k \in S \cup {n}, w[m] = w[k], Ahead(c[HashOf[w[k]]], m, k)
             PROVE  <<k, m>> \in Touch(R, S, n) /\ b[m] <= b[k]
  BY DEF FirstIsNewer
<1>1. k # n
  BY DEF Added
<1>2. Ahead(t[HashOf[v[k]]], m, k) \/ m = n
  BY <1>1 DEF Added
<1>3. CASE m = n
  BY <1>1, <1>3 DEF Touch
<1>4. CASE m # n
  <2>1. <<k, m>> \in R /\ a[m] <= a[k]
    BY <1>1, <1>2, <1>4 DEF FirstIsNewer
  <2> QED
    BY <1>1, <1>4, <2>1 DEF Touch, Forget
<1> QED
  BY <1>3, <1>4

LEMMA AddedHides ==
  ASSUME NEW t, NEW v, NEW S, NEW c, NEW w, NEW n, NEW u, NEW k,
         Added(c, t, w, v, S, n, u), n \notin S,
         w[n] = u, \A m \in S : w[m] = v[m],
         k \in S, v[k] = u \/ Hidden(t, v, S, k)
  PROVE  Hidden(c, w, S \cup {n}, k)
<1>1. CASE v[k] = u
  <2>1. Ahead(c[HashOf[v[k]]], n, k)
    BY <1>1 DEF Added
  <2> QED
    BY <1>1, <2>1 DEF Hidden
<1>2. CASE Hidden(t, v, S, k)
  <2>1. PICK m \in S : v[m] = v[k] /\ Ahead(t[HashOf[v[k]]], m, k)
    BY <1>2 DEF Hidden
  <2>2. Ahead(c[HashOf[v[k]]], m, k)
    BY <2>1 DEF Added
  <2> QED
    BY <2>1, <2>2 DEF Hidden
<1> QED
  BY <1>1, <1>2

\* A hit on the first node for a URL leaves it the one used last.
LEMMA TouchedNewer ==
  ASSUME NEW t, NEW v, NEW S, NEW R, NEW a, NEW n,
         Orders(R, S), FirstIsNewer(t, v, S, R, a), n \in S, ~Hidden(t, v, S, n)
  PROVE  FirstIsNewer(t, v, S, Touch(R, S, n), a)
<1> SUFFICES ASSUME NEW m \in S, NEW k \in S, v[m] = v[k], Ahead(t[HashOf[v[k]]], m, k)
             PROVE  <<k, m>> \in Touch(R, S, n) /\ a[m] <= a[k]
  BY DEF FirstIsNewer
<1>1. k # n
  BY DEF Hidden
<1>2. <<k, m>> \in R /\ a[m] <= a[k]
  BY DEF FirstIsNewer
<1> QED
  BY <1>1, <1>2 DEF Touch, Forget

-----------------------------------------------------------------------------
(* The inductive invariant.                                                *)

\* k waits for the sweep, which has yet to come to it and frees it when it does.
Doomed(k) ==
  /\ ~Unlocked /\ HashOf[url[k]] = sweep.bucket /\ age[k] >= CACHE_EXPIRY_TIME
  /\ \E j \in 1..Len(hash_table[sweep.bucket]) : j >= sweep.at /\ hash_table[sweep.bucket][j] = k

Counted  == current_size = Cardinality(allocated)
Newest   == FirstIsNewer(hash_table, url, allocated, older, age)
OldHidden == \A k \in stale : Hidden(hash_table, url, allocated, k) \/ Doomed(k)

Sound == /\ Ordered(lru, allocated, older)
         /\ Hashed(hash_table, url, allocated)
         /\ Counted /\ Newest /\ OldHidden

\* The sweep ends with the mutex released; nothing happens once the cache is gone.
Sweeping == sweep.bucket = HASH_TABLE_SIZE => sweep.at = 1
Gone     == destroyed => Unlocked /\ allocated = {} /\ \A w \in Workers : pc[w] = "idle"

IInv == TypeOK /\ Sweeping /\ Gone /\ (~destroyed => Sound)

LEMMA InitIInv == Init => IInv
<1> USE NodesAssumption, SizesAssumption
<1> SUFFICES ASSUME Init PROVE IInv
  OBVIOUS
<1>1. AnyUrl \in Urls
  BY UrlsAssumption DEF AnyUrl
<1>2. HASH_TABLE_SIZE \in Nat /\ 0 \in 0..CACHE_SIZE /\ 0 \in 0..CACHE_EXPIRY_TIME /\ HASH_TABLE_SIZE \in 0..HASH_TABLE_SIZE
  OBVIOUS
<1>3. TypeOK
  <2>1. hash_table \in [Buckets -> Seq(Nodes)]
    BY DEF Init
  <2>2. lru \in [head : Nodes \cup {NULL}, tail : Nodes \cup {NULL},
                prev : [Nodes -> Nodes \cup {NULL}], next : [Nodes -> Nodes \cup {NULL}]]
    BY DEF Init
  <2>3. /\ url \in [Nodes -> Urls] /\ age \in [Nodes -> 0..CACHE_EXPIRY_TIME]
        /\ arg \in [Workers -> Urls] /\ held \in [Workers -> Nodes \cup {NULL}]
        /\ pc \in [Workers -> {"idle", "get", "send", "fetch", "add"}]
    BY <1>1, <1>2 DEF Init
  <2>4. sweep \in [bucket : 0..HASH_TABLE_SIZE, at : Nat \ {0}]
    BY <1>2 DEF Init, NotSweeping
  <2> QED
    BY <1>2, <2>1, <2>2, <2>3, <2>4 DEF TypeOK, Init
<1>4. Sweeping /\ Gone
  BY DEF Init, NotSweeping, Sweeping, Gone
<1>5. Ordered(lru, allocated, older)
  BY DEF Init, Ordered, Lists, Orders, Linked, Ends
<1>6. Hashed(hash_table, url, allocated)
  <2>1. \A b \in Buckets : Once(hash_table[b]) /\ \A n : ~In(hash_table[b], n)
    BY DEF Init, Once, In
  <2> QED
    BY <1>1, <2>1 DEF Init, Hashed
<1>7. Counted
  BY FS_EmptySet DEF Init, Counted
<1>8. Newest /\ OldHidden
  BY DEF Init, Newest, OldHidden, FirstIsNewer
<1> QED
  BY <1>3, <1>4, <1>5, <1>6, <1>7, <1>8 DEF IInv, Sound

\* What a lookup finds is allocated, is for the URL, and nothing hides it.
LEMMA LookupFinds ==
  ASSUME TypeOK, Hashed(hash_table, url, allocated), NEW u \in Urls, Matches(u) # {}
  PROVE  /\ Lookup(u) \in allocated /\ url[Lookup(u)] = u
         /\ ~Hidden(hash_table, url, allocated, Lookup(u))
<1> DEFINE s == Chain(u)
           i == Min(Matches(u))
<1>1. HashOf[u] \in Buckets
  BY HashAssumption
<1>2. s \in Seq(Nodes) /\ Once(s) /\ \A n : In(s, n) <=> n \in allocated /\ HashOf[url[n]] = HashOf[u]
  BY <1>1 DEF Hashed, Chain
<1>3. Matches(u) \in SUBSET Nat /\ Matches(u) = {j \in 1..Len(s) : url[s[j]] = u}
  BY <1>2 DEF Matches
<1>4. i \in Matches(u) /\ \A j \in Matches(u) : i <= j
  BY <1>3, Smallest
<1>5. i \in 1..Len(s) /\ Lookup(u) = s[i] /\ url[s[i]] = u
  BY <1>3, <1>4 DEF Lookup
<1> HIDE DEF s, i
<1>6. Lookup(u) \in allocated
  BY <1>2, <1>5 DEF In
<1>7. ASSUME NEW m \in allocated, url[m] = u, Ahead(s, m, s[i]) PROVE FALSE
  <2>1. PICK a, b \in 1..Len(s) : a < b /\ s[a] = m /\ s[b] = s[i]
    BY <1>7 DEF Ahead
  <2>2. b = i
    BY <1>2, <1>5, <2>1 DEF Once
  <2>3. a \in Matches(u)
    BY <1>3, <1>7, <2>1
  <2> QED
    BY <1>2, <1>4, <1>5, <2>1, <2>2, <2>3
<1>8. s = hash_table[HashOf[u]]
  BY DEF s, Chain
<1> QED
  BY <1>5, <1>6, <1>7, <1>8 DEF Hidden

\* cache_remove_lru keeps everything in order, and leaves room.
Room(gone, S) ==
  /\ gone \subseteq allocated /\ S \subseteq Nodes /\ IsFiniteSet(S)
  /\ Ordered(LruAfter(gone), S, OlderAfter(gone))
  /\ Hashed(TableAfter(gone), url, S)
  /\ SizeAfter(gone) = Cardinality(S) /\ SizeAfter(gone) \in 0..CACHE_SIZE - 1
  /\ FirstIsNewer(TableAfter(gone), url, S, OlderAfter(gone), age)
  /\ \A k \in stale \ gone : Hidden(TableAfter(gone), url, S, k)

LEMMA EvictionMakesRoom ==
  ASSUME TypeOK, Unlocked, Sound
  PROVE  Room(Evicted, allocated \ Evicted)
<1> USE NodesAssumption, SizesAssumption
<1>1. IsFiniteSet(allocated) /\ allocated \subseteq Nodes /\ IsFiniteSet(allocated \ Evicted)
  BY FS_Subset DEF TypeOK
<1>2. current_size = Cardinality(allocated) /\ current_size \in 0..CACHE_SIZE
  BY DEF Sound, Counted, TypeOK
<1>3. \A k \in stale : Hidden(hash_table, url, allocated, k)
  BY DEF Sound, OldHidden, Doomed
<1>4. current_size >= CACHE_SIZE => lru.tail # NULL
  BY <1>1, <1>2, FS_EmptySet DEF Sound, Ordered, Linked
<1>5. CASE Evicted = {}
  <2>1. current_size < CACHE_SIZE
    BY <1>2, <1>4, <1>5 DEF Evicted
  <2>2. allocated \ Evicted = allocated /\ stale \ Evicted = stale
    BY <1>5
  <2> QED
    BY <1>1, <1>2, <1>3, <1>5, <2>1, <2>2
    DEF Room, Sound, Counted, Newest, LruAfter, OlderAfter, TableAfter, SizeAfter
<1>6. CASE Evicted # {}
  <2> DEFINE n == lru.tail
             T == allocated \ {n}
             c == Unchain(hash_table, n)
  <2>1. Evicted = {n} /\ n # NULL
    BY <1>6 DEF Evicted
  <2>2. n \in allocated /\ Ordered(DropTail(lru), T, Forget(older, n))
    BY <2>1, DropTailOrdered DEF Sound
  <2>3. Removed(c, hash_table, url, allocated, n)
    <3>1. HashOf[url[n]] \in Buckets /\ hash_table \in [Buckets -> Seq(Nodes)]
          /\ hash_table[HashOf[url[n]]] \in Seq(Nodes) /\ Once(hash_table[HashOf[url[n]]])
          /\ In(hash_table[HashOf[url[n]]], n)
      BY <1>1, <2>2, HashAssumption DEF TypeOK, Sound, Hashed
    <3>2. RemoveFirst(hash_table[HashOf[url[n]]], n) \in Seq(Nodes)
      <4>1. PICK i \in 1..Len(hash_table[HashOf[url[n]]]) : hash_table[HashOf[url[n]]][i] = n
        BY <3>1 DEF In
      <4> QED
        BY <3>1, <4>1, RemoveAtIs, RemoveFirstIs
    <3>3. /\ c \in [Buckets -> Seq(Nodes)]
          /\ c[HashOf[url[n]]] = RemoveFirst(hash_table[HashOf[url[n]]], n)
          /\ \A d \in Buckets \ {HashOf[url[n]]} : c[d] = hash_table[d]
      BY <3>1, <3>2 DEF Unchain
    <3> HIDE DEF c, n
    <3> QED
      BY <2>2, <3>3, Unchained DEF Sound
  <2>4. Hashed(c, url, T)
    BY <2>3 DEF Removed
  <2>5. FirstIsNewer(c, url, T, Forget(older, n), age)
    BY <2>3, RemovedNewer DEF Sound, Newest
  <2>6. ASSUME NEW k \in stale \ {n} PROVE Hidden(c, url, T, k)
    <3>1. k \in allocated \ {n} /\ Hidden(hash_table, url, allocated, k)
      BY <1>3 DEF TypeOK
    <3> HIDE DEF c
    <3> QED
      BY <2>3, <3>1, OldestRemovedHides DEF Sound, Newest
  <2>7. Cardinality(T) = current_size - 1 /\ current_size - 1 \in 0..CACHE_SIZE - 1
    <3>1. Cardinality(T) = Cardinality(allocated) - 1 /\ Cardinality(T) \in Nat
      BY <1>1, <2>2, FS_RemoveElement, FS_Subset, FS_CardinalityType
    <3> QED
      BY <1>2, <3>1
  <2>8. LruAfter(Evicted) = DropTail(lru) /\ OlderAfter(Evicted) = Forget(older, n)
        /\ TableAfter(Evicted) = c /\ SizeAfter(Evicted) = current_size - 1
    BY <2>1 DEF LruAfter, OlderAfter, TableAfter, SizeAfter
  <2> HIDE DEF c, n
  <2> QED
    BY <1>1, <2>1, <2>2, <2>4, <2>5, <2>6, <2>7, <2>8 DEF Room
<1> QED
  BY <1>5, <1>6

-----------------------------------------------------------------------------
(* The steps.                                                              *)

LEMMA GetHitKeeps ==
  ASSUME IInv, NEW w \in Workers, GetHit(w)
  PROVE  IInv'
<1> DEFINE n == Lookup(arg[w])
<1>1. TypeOK /\ ~destroyed /\ Sound /\ arg[w] \in Urls /\ Unlocked
  BY DEF IInv, Gone, GetHit, TypeOK
<1>2. /\ n \in allocated /\ n \in Nodes /\ ~Hidden(hash_table, url, allocated, n)
  <2>1. Matches(arg[w]) # {}
    BY DEF GetHit, Hit
  <2> QED
    BY <1>1, <2>1, LookupFinds DEF TypeOK, Sound
<1>3. /\ lru' = MoveToFront(lru, n) /\ older' = Touch(older, allocated, n)
      /\ held' = [held EXCEPT ![w] = n] /\ pc' = [pc EXCEPT ![w] = "send"]
      /\ UNCHANGED <<hash_table, current_size, url, age, allocated, stale, sweep, arg, dangling, destroyed>>
  BY DEF GetHit
<1> HIDE DEF n
<1>4. Ordered(lru', allocated', older')
  BY <1>1, <1>2, <1>3, MoveToFrontOrdered DEF Sound
<1>5. Newest'
  BY <1>1, <1>2, <1>3, TouchedNewer DEF Sound, Newest, Ordered
<1>6. Sound'
  BY <1>1, <1>3, <1>4, <1>5 DEF Sound, Hashed, Counted, OldHidden, Hidden, Doomed, Unlocked, NotSweeping
<1>7. TypeOK'
  <2>1. lru' \in Lists /\ older' \subseteq allocated' \X allocated'
    BY <1>4 DEF Ordered
  <2> QED
    BY <1>1, <1>2, <1>3, <2>1 DEF TypeOK, Lists
<1> QED
  BY <1>1, <1>3, <1>6, <1>7 DEF IInv, Sweeping, Gone

LEMMA CacheAddKeeps ==
  ASSUME IInv, NEW w \in Workers, CacheAdd(w)
  PROVE  IInv'
<1> USE NodesAssumption, SizesAssumption
<1> DEFINE u == arg[w]
           gone == Evicted
           kept == allocated \ gone
           t == TableAfter(gone)
<1>1. TypeOK /\ ~destroyed /\ Sound /\ u \in Urls /\ Unlocked
  BY DEF IInv, Gone, CacheAdd, TypeOK
<1>2. Room(gone, kept)
  BY <1>1, EvictionMakesRoom
<1>3. PICK n \in Nodes \ kept :
        /\ hash_table' = Link(t, n, u)
        /\ lru' = PushFront(LruAfter(gone), n)
        /\ current_size' = SizeAfter(gone) + 1
        /\ url' = [url EXCEPT ![n] = u]
        /\ age' = [age EXCEPT ![n] = 0]
        /\ allocated' = kept \cup {n}
        /\ older' = Touch(OlderAfter(gone), kept, n)
        /\ stale' = (stale \ (gone \cup {n})) \cup {m \in kept : url[m] = u}
        /\ dangling' = dangling \cup Robbed(gone)
  BY DEF CacheAdd
<1>4. pc' = [pc EXCEPT ![w] = "idle"] /\ UNCHANGED <<sweep, arg, held, destroyed>>
  BY DEF CacheAdd
<1> HIDE DEF u, gone, kept, t
<1>5. Ordered(lru', allocated', older')
  BY <1>2, <1>3, PushFrontOrdered DEF Room
<1>6. Added(hash_table', t, url', url, kept, n, u)
  <2>1. Hashed(t, url, kept)
    BY <1>2 DEF Room, t
  <2>2. hash_table' = [t EXCEPT ![HashOf[u]] = <<n>> \o @]
    BY <1>3 DEF Link
  <2> QED
    BY <1>1, <1>3, <2>1, <2>2, LinkedIn
<1>7. /\ url'[n] = u /\ \A m \in kept : url'[m] = url[m]
      /\ age'[n] = 0 /\ \A m \in kept : age'[m] = age[m] /\ age[m] \in Nat
      /\ kept \subseteq Nodes /\ n \in Nodes /\ n \notin kept
  BY <1>1, <1>2, <1>3 DEF TypeOK, Room
<1>8. Newest'
  <2>1. FirstIsNewer(t, url, kept, OlderAfter(gone), age)
    BY <1>2 DEF Room, t
  <2>2. FirstIsNewer(hash_table', url', kept \cup {n}, Touch(OlderAfter(gone), kept, n), age')
    BY <1>6, <1>7, <2>1, AddedNewer
  <2> QED
    BY <1>3, <2>2 DEF Newest
<1>9. OldHidden'
  <2> SUFFICES ASSUME NEW k \in stale' PROVE Hidden(hash_table', url', allocated', k)
    BY DEF OldHidden
  <2>1. k \in kept
    BY <1>1, <1>3 DEF TypeOK, kept
  <2>2. url[k] = u \/ Hidden(t, url, kept, k)
    BY <1>2, <1>3 DEF Room, t
  <2> QED
    BY <1>3, <1>6, <1>7, <2>1, <2>2, AddedHides
<1>10. Counted' /\ current_size' \in 0..CACHE_SIZE
  <2>1. Cardinality(kept \cup {n}) = Cardinality(kept) + 1
    BY <1>2, <1>7, FS_AddElement DEF Room
  <2> QED
    BY <1>2, <1>3, <2>1 DEF Room, Counted
<1>11. TypeOK'
  <2>1. lru' \in Lists /\ older' \subseteq allocated' \X allocated' /\ allocated' \subseteq Nodes
    BY <1>5 DEF Ordered
  <2>2. hash_table' \in [Buckets -> Seq(Nodes)] /\ url' \in [Nodes -> Urls]
    BY <1>3, <1>6 DEF Added, Hashed
  <2>3. age' \in [Nodes -> 0..CACHE_EXPIRY_TIME] /\ pc' \in [Workers -> {"idle", "get", "send", "fetch", "add"}]
    BY <1>1, <1>3, <1>4 DEF TypeOK
  <2>4. stale' \subseteq allocated' /\ dangling' \subseteq Workers
    BY <1>1, <1>3 DEF TypeOK, Robbed, kept
  <2> QED
    BY <1>1, <1>4, <1>10, <2>1, <2>2, <2>3, <2>4 DEF TypeOK, Lists
<1>12. Hashed(hash_table', url', allocated')
  BY <1>3, <1>6 DEF Added
<1> QED
  BY <1>1, <1>4, <1>5, <1>8, <1>9, <1>10, <1>11, <1>12 DEF IInv, Sound, Sweeping, Gone

LEMMA CacheAddFailsKeeps ==
  ASSUME IInv, NEW w \in Workers, CacheAddFails(w)
  PROVE  IInv'
<1> USE NodesAssumption, SizesAssumption
<1> DEFINE gone == Evicted
           kept == allocated \ gone
<1>1. TypeOK /\ ~destroyed /\ Sound /\ Unlocked
  BY DEF IInv, Gone, CacheAddFails, TypeOK
<1>2. Room(gone, kept)
  BY <1>1, EvictionMakesRoom
<1>3. /\ hash_table' = TableAfter(gone) /\ lru' = LruAfter(gone)
      /\ current_size' = SizeAfter(gone) /\ allocated' = kept
      /\ older' = OlderAfter(gone) /\ stale' = stale \ gone
      /\ dangling' = dangling \cup Robbed(gone)
      /\ pc' = [pc EXCEPT ![w] = "idle"]
      /\ UNCHANGED <<url, age, sweep, arg, held, destroyed>>
  BY DEF CacheAddFails
<1> HIDE DEF gone
<1>4. Sound'
  BY <1>2, <1>3 DEF Room, Sound, Counted, Newest, OldHidden
<1>5. TypeOK'
  <2>1. lru' \in Lists /\ older' \subseteq allocated' \X allocated'
    BY <1>4 DEF Sound, Ordered
  <2>2. hash_table' \in [Buckets -> Seq(Nodes)] /\ current_size' \in 0..CACHE_SIZE
    BY <1>2, <1>3 DEF Room, Hashed
  <2> QED
    BY <1>1, <1>3, <2>1, <2>2 DEF TypeOK, Lists, Robbed
<1> QED
  BY <1>1, <1>3, <1>4, <1>5 DEF IInv, Sweeping, Gone

\* The sweep is at a node of the chain of a bucket.
LEMMA CurrentAllocated ==
  ASSUME IInv, SweepRemoves
  PROVE  /\ ~destroyed /\ sweep.bucket \in Buckets
         /\ sweep.at \in 1..Len(hash_table[sweep.bucket])
         /\ Current = hash_table[sweep.bucket][sweep.at] /\ Current \in allocated
<1> USE SizesAssumption
<1> DEFINE b == sweep.bucket
           i == sweep.at
<1>1. TypeOK /\ ~destroyed /\ Sound /\ ~Unlocked
  BY DEF IInv, Gone, SweepRemoves, AtNode
<1>2. sweep = [bucket |-> b, at |-> i] /\ b \in 0..HASH_TABLE_SIZE /\ i \in Nat \ {0}
  BY <1>1 DEF TypeOK
<1>3. b # HASH_TABLE_SIZE
  BY <1>1, <1>2 DEF IInv, Sweeping, Unlocked, NotSweeping
<1>4. b \in Buckets
  BY <1>2, <1>3 DEF Buckets
<1>5. i <= Len(hash_table[b]) /\ Len(hash_table[b]) \in Nat
  BY <1>1, <1>4 DEF SweepRemoves, AtNode, TypeOK
<1>6. i \in 1..Len(hash_table[b]) /\ Current = hash_table[b][i]
  BY <1>2, <1>5 DEF Current
<1>7. Current \in allocated
  BY <1>1, <1>4, <1>6 DEF Sound, Hashed, In
<1> QED
  BY <1>1, <1>4, <1>6, <1>7

LEMMA SweepRemovesKeeps ==
  ASSUME IInv, SweepRemoves
  PROVE  IInv'
<1> USE NodesAssumption, SizesAssumption
<1> DEFINE n == Current
           b == sweep.bucket
           i == sweep.at
           T == allocated \ {n}
<1>1. TypeOK /\ ~destroyed /\ Sound /\ ~Unlocked
  BY DEF IInv, Gone, SweepRemoves, AtNode
<1>2. b \in Buckets /\ i \in 1..Len(hash_table[b]) /\ n = hash_table[b][i]
  BY CurrentAllocated
<1>3. /\ age[n] >= CACHE_EXPIRY_TIME
      /\ hash_table' = [hash_table EXCEPT ![b] = RemoveAt(@, i)]
      /\ lru' = Unlink(lru, n)
      /\ current_size' = current_size - 1
      /\ allocated' = T
      /\ older' = Forget(older, n)
      /\ stale' = stale \ {n}
      /\ dangling' = dangling \cup Robbed({n})
      /\ UNCHANGED <<url, age, sweep, workVars, destroyed>>
  BY DEF SweepRemoves
<1> HIDE DEF n
<1>4. hash_table' \in [Buckets -> Seq(Nodes)] /\ hash_table'[b] = RemoveAt(hash_table[b], i)
      /\ \A d \in Buckets \ {b} : hash_table'[d] = hash_table[d]
  <2>1. RemoveAt(hash_table[b], i) \in Seq(Nodes) /\ hash_table \in [Buckets -> Seq(Nodes)]
    BY <1>1, <1>2, RemoveAtIs DEF TypeOK
  <2> QED
    BY <1>2, <1>3, <2>1
<1>5. Removed(hash_table', hash_table, url, allocated, n)
  <2>1. Hashed(hash_table, url, allocated)
    BY <1>1 DEF Sound
  <2>2. Removed(hash_table', hash_table, url, allocated, hash_table[b][i])
    BY <1>2, <1>4, <2>1, TakenOut
  <2> QED
    BY <1>2, <2>2
<1>6. n \in allocated /\ Hashed(hash_table', url, T)
  BY <1>5 DEF Removed
<1>7. Ordered(lru', allocated', older')
  BY <1>1, <1>3, <1>6, UnlinkOrdered DEF Sound
<1>8. Newest'
  <2>1. FirstIsNewer(hash_table', url, T, Forget(older, n), age)
    BY <1>1, <1>5, RemovedNewer DEF Sound, Newest
  <2> QED
    BY <1>3, <2>1 DEF Newest
<1>9. OldHidden'
  <2> SUFFICES ASSUME NEW k \in stale, k # n PROVE Hidden(hash_table', url', allocated', k) \/ Doomed(k)'
    BY <1>3 DEF OldHidden
  <2>1. k \in T /\ k \in allocated /\ k \in Nodes
    BY <1>1 DEF TypeOK
  <2>2. \A m : Ahead(hash_table'[HashOf[url[k]]], m, k) <=> Ahead(hash_table[HashOf[url[k]]], m, k) /\ m # n
    BY <1>5, <2>1 DEF Removed
  <2>3. ASSUME age[k] >= CACHE_EXPIRY_TIME, HashOf[url[k]] = b,
               NEW j \in 1..Len(hash_table[b]), hash_table[b][j] = k, j > i
        PROVE  Doomed(k)'
    <3>1. Len(hash_table'[b]) = Len(hash_table[b]) - 1
          /\ \A q \in 1..Len(hash_table[b]) - 1 : hash_table'[b][q] = IF q < i THEN hash_table[b][q] ELSE hash_table[b][q + 1]
      <4>1. hash_table[b] \in Seq(Nodes)
        BY <1>1, <1>2 DEF TypeOK
      <4>2. Len(RemoveAt(hash_table[b], i)) = Len(hash_table[b]) - 1
        BY <1>2, <4>1, RemoveAtIs
      <4>3. ASSUME NEW q \in 1..Len(hash_table[b]) - 1
            PROVE  RemoveAt(hash_table[b], i)[q] = IF q < i THEN hash_table[b][q] ELSE hash_table[b][q + 1]
        BY <1>2, <4>1, RemoveAtIs
      <4> QED
        BY ONLY <1>4, <4>2, <4>3
    <3>2. j - 1 \in 1..Len(hash_table[b]) - 1 /\ j - 1 >= i /\ (j - 1) + 1 = j /\ ~(j - 1 < i)
      BY <1>1, <1>2, <2>3 DEF TypeOK
    <3>3. hash_table'[b][j - 1] = k
      BY <2>3, <3>1, <3>2
    <3> QED
      BY <1>1, <1>3, <2>3, <3>1, <3>2, <3>3 DEF Doomed, Unlocked, NotSweeping
  <2>4. CASE Hidden(hash_table, url, allocated, k)
    <3>1. PICK m \in allocated : url[m] = url[k] /\ Ahead(hash_table[HashOf[url[k]]], m, k)
      BY <2>4 DEF Hidden
    <3>2. CASE m # n
      BY <1>3, <2>2, <3>1, <3>2 DEF Hidden
    <3>3. CASE m = n
      <4>1. HashOf[url[k]] = b
        <5>1. In(hash_table[b], n)
          BY <1>2 DEF In
        <5> QED
          BY <1>1, <1>2, <3>1, <3>3, <5>1 DEF Sound, Hashed
      <4>2. PICK p, j \in 1..Len(hash_table[b]) : p < j /\ hash_table[b][p] = n /\ hash_table[b][j] = k
        BY <3>1, <3>3, <4>1 DEF Ahead
      <4>3. p = i
        BY <1>1, <1>2, <4>2 DEF Sound, Hashed, Once
      <4>4. age[n] <= age[k] /\ age[n] \in Int /\ age[k] \in Int
        <5>1. n \in Nodes /\ age \in [Nodes -> 0..CACHE_EXPIRY_TIME]
          BY <1>1, <1>6 DEF TypeOK
        <5>2. age[n] \in Int /\ age[k] \in Int
          BY <2>1, <5>1
        <5>3. FirstIsNewer(hash_table, url, allocated, older, age)
          BY <1>1 DEF Sound, Newest
        <5>4. url[n] = url[k] /\ Ahead(hash_table[HashOf[url[k]]], n, k)
          BY <3>1, <3>3
        <5> QED
          BY <1>6, <2>1, <5>2, <5>3, <5>4 DEF FirstIsNewer
      <4>5. age[k] >= CACHE_EXPIRY_TIME
        BY <1>3, <4>4
      <4> QED
        BY <2>3, <4>1, <4>2, <4>3, <4>5
    <3> QED
      BY <3>2, <3>3
  <2>5. CASE Doomed(k)
    <3>1. HashOf[url[k]] = b /\ age[k] >= CACHE_EXPIRY_TIME
      BY <2>5 DEF Doomed
    <3>2. PICK j \in 1..Len(hash_table[b]) : j >= i /\ hash_table[b][j] = k
      BY <2>5 DEF Doomed
    <3>3. j # i
      BY <1>2, <3>2
    <3>4. j > i
      BY <1>2, <3>2, <3>3
    <3> QED
      BY <2>3, <3>1, <3>2, <3>4
  <2> QED
    BY <1>1, <2>4, <2>5 DEF Sound, OldHidden
<1>10. Counted' /\ current_size' \in 0..CACHE_SIZE
  <2>1. IsFiniteSet(allocated)
    BY <1>1, FS_Subset DEF TypeOK
  <2>2. Cardinality(T) = Cardinality(allocated) - 1 /\ Cardinality(T) \in Nat
    BY <1>6, <2>1, FS_RemoveElement, FS_Subset, FS_CardinalityType
  <2> QED
    BY <1>1, <1>3, <2>2 DEF Sound, Counted, TypeOK
<1>11. TypeOK'
  <2>1. lru' \in Lists /\ older' \subseteq allocated' \X allocated'
    BY <1>7 DEF Ordered
  <2> QED
    BY <1>1, <1>3, <1>4, <1>10, <2>1 DEF TypeOK, Lists, Robbed, workVars
<1> QED
  BY <1>1, <1>3, <1>6, <1>7, <1>8, <1>9, <1>10, <1>11 DEF IInv, Sound, Sweeping, Gone, workVars, Unlocked, NotSweeping

\* The sweep goes on to the next node or the next chain: what it left behind is fresh.
LEMMA SweepMovesKeeps ==
  ASSUME IInv, SweepStart \/ SweepKeeps \/ SweepNextBucket
  PROVE  IInv'
<1> USE NodesAssumption, SizesAssumption
<1>1. TypeOK /\ ~destroyed /\ Sound /\ UNCHANGED <<nodeVars, workVars, dangling, destroyed>>
  BY DEF IInv, Gone, SweepStart, SweepKeeps, SweepNextBucket, AtNode
<1>2. \A k \in stale : Hidden(hash_table, url, allocated, k) \/ Doomed(k)
  BY <1>1 DEF Sound, OldHidden
<1>3. sweep = [bucket |-> sweep.bucket, at |-> sweep.at] /\ sweep.bucket \in 0..HASH_TABLE_SIZE /\ sweep.at \in Nat \ {0}
  BY <1>1 DEF TypeOK
<1>4. ~Unlocked => sweep.bucket \in Buckets
  BY <1>3 DEF IInv, Sweeping, Unlocked, NotSweeping, Buckets
<1>5. sweep' \in [bucket : 0..HASH_TABLE_SIZE, at : Nat \ {0}] /\ Sweeping'
  <2>1. CASE SweepStart
    BY <2>1 DEF SweepStart, Sweeping
  <2>2. CASE SweepKeeps
    <3>1. sweep' = [bucket |-> sweep.bucket, at |-> sweep.at + 1] /\ sweep.bucket \in Buckets
      BY <1>3, <1>4, <2>2 DEF SweepKeeps, AtNode
    <3> QED
      BY <1>3, <3>1 DEF Sweeping, Buckets
  <2>3. CASE SweepNextBucket
    BY <1>3, <1>4, <2>3 DEF SweepNextBucket, Sweeping, Buckets
  <2> QED
    BY <2>1, <2>2, <2>3
<1>6. ASSUME NEW k \in stale PROVE Hidden(hash_table, url, allocated, k) \/ Doomed(k)'
  <2>1. SUFFICES ASSUME Doomed(k), ~Hidden(hash_table, url, allocated, k) PROVE Doomed(k)'
    BY <1>2
  <2>2. ~Unlocked /\ HashOf[url[k]] = sweep.bucket /\ age[k] >= CACHE_EXPIRY_TIME
    BY <2>1 DEF Doomed
  <2>3. PICK j \in 1..Len(hash_table[sweep.bucket]) : j >= sweep.at /\ hash_table[sweep.bucket][j] = k
    BY <2>1 DEF Doomed
  <2>4. sweep.bucket \in Buckets /\ Len(hash_table[sweep.bucket]) \in Nat
    BY <1>1, <1>4, <2>2 DEF TypeOK
  <2>5. sweep.at <= Len(hash_table[sweep.bucket])
    BY <1>3, <2>3, <2>4
  <2>6. SweepKeeps
    BY <1>3, <2>2, <2>5 DEF SweepStart, SweepNextBucket, AtNode
  <2>7. sweep' = [bucket |-> sweep.bucket, at |-> sweep.at + 1] /\ age[hash_table[sweep.bucket][sweep.at]] < CACHE_EXPIRY_TIME
    BY <1>3, <2>6 DEF SweepKeeps, Current
  <2>8. j # sweep.at
    <3>1. k \in Nodes /\ age[k] \in Int
      BY <1>1 DEF TypeOK
    <3> QED
      BY <2>2, <2>3, <2>7, <3>1
  <2>9. j >= sweep.at + 1
    BY <1>3, <2>3, <2>4, <2>8
  <2>10. ~Unlocked'
    BY <1>3, <2>4, <2>7 DEF Unlocked, NotSweeping, Buckets
  <2> QED
    BY <1>1, <2>2, <2>3, <2>7, <2>9, <2>10 DEF Doomed, nodeVars
<1>7. OldHidden'
  BY <1>1, <1>6 DEF OldHidden, Hidden, nodeVars
<1> QED
  BY <1>1, <1>5, <1>7 DEF IInv, TypeOK, Sound, Hashed, Counted, Newest, Gone, nodeVars, workVars

LEMMA TickKeeps ==
  ASSUME IInv, Tick
  PROVE  IInv'
<1> USE SizesAssumption
<1>1. TypeOK /\ ~destroyed /\ Sound /\ Unlocked
      /\ UNCHANGED <<hash_table, lru, current_size, url, allocated, older, stale, sweep, workVars, dangling, destroyed>>
  BY DEF IInv, Tick
<1>2. age' = [n \in Nodes |-> IF age[n] < CACHE_EXPIRY_TIME THEN age[n] + 1 ELSE age[n]]
  BY DEF Tick
<1>3. age \in [Nodes -> 0..CACHE_EXPIRY_TIME] /\ allocated \subseteq Nodes
  BY <1>1 DEF TypeOK
<1>4. age' \in [Nodes -> 0..CACHE_EXPIRY_TIME]
  BY <1>2, <1>3
<1>5. ASSUME NEW m \in Nodes, NEW k \in Nodes, age[m] <= age[k] PROVE age'[m] <= age'[k]
  <2>1. age[m] \in 0..CACHE_EXPIRY_TIME /\ age[k] \in 0..CACHE_EXPIRY_TIME
    BY <1>3
  <2>2. age'[m] = IF age[m] < CACHE_EXPIRY_TIME THEN age[m] + 1 ELSE age[m]
    BY <1>2
  <2>3. age'[k] = IF age[k] < CACHE_EXPIRY_TIME THEN age[k] + 1 ELSE age[k]
    BY <1>2
  <2> QED
    BY <1>5, <2>1, <2>2, <2>3
<1>6. Newest'
  BY <1>1, <1>3, <1>5 DEF Sound, Newest, FirstIsNewer
<1>7. OldHidden'
  BY <1>1 DEF Sound, OldHidden, Doomed, Hidden
<1> QED
  BY <1>1, <1>4, <1>6, <1>7 DEF IInv, TypeOK, Sound, Hashed, Counted, Sweeping, Gone, Unlocked, NotSweeping, workVars

\* cache_destroy finds every node in its chain.
LEMMA CacheDestroyKeeps ==
  ASSUME IInv, CacheDestroy
  PROVE  IInv'
<1>1. TypeOK /\ ~destroyed /\ Sound /\ Unlocked /\ \A w \in Workers : pc[w] = "idle"
  BY DEF IInv, CacheDestroy
<1>2. allocated \subseteq FreedBy(hash_table)
  <2> SUFFICES ASSUME NEW n \in allocated PROVE n \in FreedBy(hash_table)
    OBVIOUS
  <2>1. HashOf[url[n]] \in Buckets /\ In(hash_table[HashOf[url[n]]], n)
    BY <1>1, HashAssumption DEF TypeOK, Sound, Hashed
  <2>2. DOMAIN hash_table[HashOf[url[n]]] = 1..Len(hash_table[HashOf[url[n]]])
    BY <1>1, <2>1 DEF TypeOK
  <2> QED
    BY <2>1, <2>2 DEF FreedBy, In
<1>3. allocated' = {} /\ older' = {} /\ stale' = {} /\ destroyed' = TRUE
      /\ UNCHANGED <<hash_table, lru, current_size, url, age, sweep, workVars, dangling>>
  BY <1>2 DEF CacheDestroy
<1> QED
  BY <1>1, <1>3 DEF IInv, TypeOK, Sweeping, Gone, Unlocked, NotSweeping, workVars

\* What leaves the nodes and the mutex alone.
LEMMA WorkerKeeps ==
  ASSUME IInv, NEW w \in Workers,
         \/ \E u \in Urls : Request(w, u)
         \/ GetMiss(w) \/ SendCached(w) \/ Fetched(w)
  PROVE  IInv'
<1> USE NodesAssumption
<1>1. UNCHANGED <<nodeVars, sweep, destroyed>> /\ TypeOK
  BY DEF IInv, Request, GetMiss, SendCached, Fetched
<1>2. ~destroyed
  BY DEF IInv, Gone, Request, GetMiss, SendCached, Fetched
<1>3. Sound'
  BY <1>1, <1>2 DEF IInv, Sound, Hashed, Counted, Newest, OldHidden, Hidden, Doomed, Unlocked, NotSweeping, nodeVars
<1>4. /\ pc' \in [Workers -> {"idle", "get", "send", "fetch", "add"}]
      /\ arg' \in [Workers -> Urls] /\ held' \in [Workers -> Nodes \cup {NULL}]
      /\ dangling' \subseteq Workers
  <2>1. /\ pc \in [Workers -> {"idle", "get", "send", "fetch", "add"}]
        /\ arg \in [Workers -> Urls] /\ held \in [Workers -> Nodes \cup {NULL}]
        /\ dangling \subseteq Workers
    BY <1>1 DEF TypeOK
  <2>2. CASE \E u \in Urls : Request(w, u)
    BY <2>1, <2>2 DEF Request
  <2>3. CASE GetMiss(w)
    BY <2>1, <2>3 DEF GetMiss
  <2>4. CASE SendCached(w)
    BY <2>1, <2>4 DEF SendCached
  <2>5. CASE Fetched(w)
    BY <2>1, <2>5 DEF Fetched
  <2> QED
    BY <2>2, <2>3, <2>4, <2>5
<1>5. TypeOK'
  BY <1>1, <1>4 DEF TypeOK, nodeVars
<1> QED
  BY <1>1, <1>2, <1>3, <1>5 DEF IInv, Sweeping, Gone

LEMMA StutterKeeps ==
  ASSUME IInv, UNCHANGED vars
  PROVE  IInv'
<1>1. TypeOK' /\ Sweeping' /\ Gone'
  BY DEF IInv, TypeOK, Sweeping, Gone, vars, nodeVars, workVars, Unlocked, NotSweeping
<1>2. Sound => Sound'
  BY DEF Sound, Hashed, Counted, Newest, OldHidden, Hidden, Doomed, Unlocked, NotSweeping, vars, nodeVars
<1> QED
  BY <1>1, <1>2 DEF IInv, vars

LEMMA NextIInv == IInv /\ [Next]_vars => IInv'
  BY GetHitKeeps, CacheAddKeeps, CacheAddFailsKeeps, SweepRemovesKeeps, SweepMovesKeeps, TickKeeps,
     CacheDestroyKeeps, WorkerKeeps, StutterKeeps DEF Next

LEMMA AlwaysIInv == Spec => []IInv
  BY InitIInv, NextIInv, PTL DEF Spec

-----------------------------------------------------------------------------
(* The theorems.                                                           *)

\* The types hold, and the cache never holds more than CACHE_SIZE nodes.
THEOREM TypeCorrect == Spec => []TypeOK
  BY AlwaysIInv, PTL DEF IInv

\* The pointers of the LRU list, which five functions of cache.c rewrite, run
\* through all allocated nodes in both directions in the order of their last use.
THEOREM LruListKept == Spec => []LruList
<1>1. IInv => LruList
  BY DEF IInv, Sound, Ordered, LruList
<1> QED
  BY <1>1, AlwaysIInv, PTL

\* The chains hold the allocated nodes, each once and where a lookup searches it,
\* and current_size is their number.
THEOREM ChainsKept == Spec => []ChainsExact
<1>1. IInv => ChainsExact
  <2> SUFFICES ASSUME IInv, ~destroyed PROVE ChainsExact
    BY DEF ChainsExact
  <2>1. Hashed(hash_table, url, allocated) /\ Counted
    BY DEF IInv, Sound
  <2>2. \A p \in Chained : p[1] \in Buckets /\ p[2] \in 1..Len(hash_table[p[1]])
    BY <2>1 DEF Chained, Hashed
  <2>3. \A b \in Buckets : \A i \in 1..Len(hash_table[b]) : <<b, i>> \in Chained
    BY <2>1 DEF Chained, Hashed
  <2>4. \A p \in Chained : LET n == hash_table[p[1]][p[2]] IN n \in allocated /\ HashOf[url[n]] = p[1]
    BY <2>1, <2>2 DEF Hashed, In
  <2>5. ASSUME NEW n \in allocated PROVE \E p \in Chained : hash_table[p[1]][p[2]] = n
    <3>1. HashOf[url[n]] \in Buckets /\ In(hash_table[HashOf[url[n]]], n)
      BY <2>1, HashAssumption DEF Hashed
    <3>2. PICK i \in 1..Len(hash_table[HashOf[url[n]]]) : hash_table[HashOf[url[n]]][i] = n
      BY <3>1 DEF In
    <3>3. <<HashOf[url[n]], i>> \in Chained
      BY <2>3, <3>1
    <3> QED
      BY <3>2, <3>3
  <2>6. ASSUME NEW p \in Chained, NEW q \in Chained, hash_table[p[1]][p[2]] = hash_table[q[1]][q[2]]
        PROVE  p = q
    <3>1. p[1] = q[1]
      BY <2>4, <2>6
    <3>2. p[2] = q[2]
      BY <2>1, <2>2, <2>6, <3>1 DEF Hashed, Once
    <3>3. p = <<p[1], p[2]>> /\ q = <<q[1], q[2]>>
      BY DEF Chained
    <3> QED
      BY <3>1, <3>2, <3>3
  <2> QED
    BY <2>1, <2>4, <2>5, <2>6 DEF ChainsExact, Counted
<1> QED
  BY <1>1, AlwaysIInv, PTL

\* A lookup never finds an older response than the one added last for its URL,
\* although cache_add leaves the older one in its chain.
THEOREM HitsAreFresh == Spec => []HitIsFresh
<1>1. IInv => HitIsFresh
  <2> SUFFICES ASSUME IInv, Unlocked, NEW u \in Urls, Matches(u) # {} PROVE Lookup(u) \notin stale
    BY DEF HitIsFresh
  <2>1. CASE destroyed
    BY <2>1 DEF IInv, Gone, TypeOK
  <2>2. CASE ~destroyed
    BY <2>2, LookupFinds DEF IInv, Sound, OldHidden, Doomed
  <2> QED
    BY <2>1, <2>2
<1> QED
  BY <1>1, AlwaysIInv, PTL

\* Only an expired node or the one used longest ago leaves the cache.
THEOREM OldestGoes == Spec => DropsOldest
<1> DEFINE Fair == \A n \in allocated \ allocated' :
                     \/ destroyed'
                     \/ age[n] >= CACHE_EXPIRY_TIME
                     \/ \A m \in allocated \ {n} : <<n, m>> \in older
<1>1. IInv /\ [Next]_vars => [Fair]_vars
  <2> SUFFICES ASSUME IInv, Next, NEW n \in allocated, n \notin allocated'
               PROVE  \/ destroyed'
                      \/ age[n] >= CACHE_EXPIRY_TIME
                      \/ \A m \in allocated \ {n} : <<n, m>> \in older
    OBVIOUS
  <2>1. ASSUME n \in Evicted, ~destroyed PROVE \A m \in allocated \ {n} : <<n, m>> \in older
    BY <2>1 DEF IInv, Sound, Ordered, Ends, Evicted
  <2>2. CASE \E w \in Workers : CacheAdd(w) \/ CacheAddFails(w)
    <3>1. n \in Evicted /\ ~destroyed
      BY <2>2 DEF CacheAdd, CacheAddFails, IInv, Gone
    <3> QED
      BY <2>1, <3>1
  <2>3. CASE SweepRemoves
    BY <2>3 DEF SweepRemoves
  <2>4. CASE CacheDestroy
    BY <2>4 DEF CacheDestroy
  <2>5. CASE UNCHANGED allocated
    BY <2>5
  <2> QED
    BY <2>2, <2>3, <2>4, <2>5
    DEF Next, Request, GetHit, GetMiss, SendCached, Fetched, SweepStart, SweepKeeps, SweepNextBucket, Tick, nodeVars
<1> QED
  BY <1>1, AlwaysIInv, PTL DEF DropsOldest, Spec

\* cache_destroy frees every node.
THEOREM DestroyFrees == Spec => []DestroyFreesAll
<1>1. IInv => DestroyFreesAll
  BY DEF IInv, Gone, DestroyFreesAll
<1> QED
  BY <1>1, AlwaysIInv, PTL

-----------------------------------------------------------------------------
\* A worker has a node only until it has sent it, and without a sweep nothing but
\* an insertion frees nodes before the end.
Empty(w)  == pc[w] # "send" => held[w] = NULL
InHand    == /\ \A w \in Workers : Empty(w)
             /\ Unlocked /\ dangling = {}

\* One worker alone, without a sweep, never sends from a node that was freed: it
\* takes a second worker that inserts while the first one sends.
THEOREM AloneIsSafe ==
  ASSUME ~Sweeper, \A v, w \in Workers : v = w
  PROVE  Spec => []NoUseAfterFree
<1>1. Init => InHand
  BY DEF Init, InHand, Empty, Unlocked
<1>2. IInv /\ InHand /\ [Next]_vars => InHand'
  <2> SUFFICES ASSUME IInv, InHand, [Next]_vars PROVE InHand'
    OBVIOUS
  <2>1. /\ pc \in [Workers -> {"idle", "get", "send", "fetch", "add"}] 
        /\ held \in [Workers -> Nodes \cup {NULL}] /\ Evicted \subseteq Nodes
        /\ Unlocked /\ dangling = {} /\ NULL \notin Nodes
    BY NodesAssumption DEF IInv, TypeOK, InHand, Evicted
  <2>2. CASE \E w \in Workers : CacheAdd(w) \/ CacheAddFails(w)
    <3>1. PICK w \in Workers : CacheAdd(w) \/ CacheAddFails(w)
      BY <2>2
    <3>2. pc[w] = "add" /\ held[w] = NULL /\ Workers = {w}
      BY <3>1 DEF InHand, Empty, CacheAdd, CacheAddFails
    <3>3. Robbed(Evicted) = {}
      BY <2>1, <3>2 DEF Robbed
    <3>4. /\ pc' = [pc EXCEPT ![w] = "idle"] /\ held' = held /\ sweep' = sweep
          /\ dangling' = dangling \cup Robbed(Evicted)
      BY <3>1 DEF CacheAdd, CacheAddFails
    <3> QED
      BY <2>1, <3>2, <3>3, <3>4 DEF InHand, Empty, Unlocked
  <2>3. CASE \E w \in Workers : \/ \E u \in Urls : Request(w, u)
                                \/ GetHit(w) \/ GetMiss(w) \/ SendCached(w) \/ Fetched(w)
    BY <2>1, <2>3 DEF InHand, Empty, Unlocked, Request, GetHit, GetMiss, SendCached, Fetched
  <2>4. CASE Tick \/ CacheDestroy \/ UNCHANGED vars
    BY <2>4 DEF InHand, Empty, Unlocked, Tick, CacheDestroy, vars, workVars
  <2>5. ~(SweepStart \/ SweepRemoves \/ SweepKeeps \/ SweepNextBucket)
    BY <2>1 DEF SweepStart, SweepRemoves, SweepKeeps, SweepNextBucket, AtNode
  <2> QED
    BY <2>2, <2>3, <2>4, <2>5 DEF Next
<1>3. InHand => NoUseAfterFree
  BY DEF InHand, NoUseAfterFree
<1> QED
  BY <1>1, <1>2, <1>3, AlwaysIInv, PTL DEF Spec
=============================================================================
