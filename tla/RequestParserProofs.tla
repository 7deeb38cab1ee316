------------------------- MODULE RequestParserProofs -------------------------
(***************************************************************************)
(* Where strtok keeps a place per thread, parsing in parallel is safe: the *)
(* other case, in which it is not, is what TLC refutes.                    *)
(***************************************************************************)
EXTENDS RequestParser, TLAPS

Token == [line : Clients \cup {NoClient}, at : 1..End]

\* The worker has the first tokens of its own client's line, strtok goes on with the
\* next one, and nobody frees the line.
Own(w) ==
  /\ client[w] \in Clients /\ client[w] \in lines /\ parsed[client[w]] = None
  /\ tokens[w] \in Seq(Token) /\ Len(tokens[w]) \in 1..3
  /\ \A i \in 1..Len(tokens[w]) : tokens[w][i] = [line |-> client[w], at |-> i]
  /\ pc[w] = "next" => /\ Len(tokens[w]) < 3
                       /\ position[w] = [line |-> client[w], at |-> Len(tokens[w]) + 1]
  /\ pc[w] = "copy" => Len(tokens[w]) = 3

\* No two workers parse for the same client.
Apart == \A v, w \in Workers : client[v] = client[w] /\ v # w => client[v] = NoClient

\* A token is cut off by the worker that parses its line, when it gets there.
CutBy(w, t) == /\ client[w] = t.line
               /\ \/ t.at < Len(tokens[w])
                  \/ t.at = Len(tokens[w]) /\ pc[w] # "store"
CutInOrder == \A t \in cut : parsed[t.line] # None \/ \E w \in Workers : CutBy(w, t)

TypeOK == /\ pc \in [Workers -> {"idle", "store", "next", "copy"}]
          /\ client \in [Workers -> Clients \cup {NoClient}]
          /\ position \in [Workers -> Token]
          /\ DOMAIN tokens = Workers /\ DOMAIN parsed = Clients
          /\ cut \subseteq [line : Clients, at : 1..3]

Each(w) == IF pc[w] = "idle" THEN client[w] = NoClient ELSE Own(w)

IInv == /\ TypeOK /\ Apart /\ CutInOrder /\ OwnRequest /\ undefined = FALSE
        /\ \A w \in Workers : Each(w)

LEMMA InitIInv == Init => IInv
<1> SUFFICES ASSUME Init PROVE IInv
  OBVIOUS
<1>1. TypeOK
  BY DEF Init, TypeOK, Token, Nothing, End
<1>2. Apart /\ CutInOrder /\ OwnRequest /\ \A w \in Workers : Each(w)
  BY DEF Init, Apart, CutInOrder, OwnRequest, Each
<1> QED
  BY <1>1, <1>2 DEF Init, IInv

\* A step of one worker leaves the line, the place and the tokens of another alone.
LEMMA OthersKeep ==
  ASSUME IInv, NEW v \in Workers,
         pc'[v] = pc[v], client'[v] = client[v], tokens'[v] = tokens[v], position'[v] = position[v],
         client[v] \in lines => client[v] \in lines',
         client[v] \in Clients => parsed'[client[v]] = parsed[client[v]]
  PROVE  Each(v)'
  BY DEF IInv, Each, Own

LEMMA BeginKeeps ==
  ASSUME NoClient \notin Clients, IInv, NEW w \in Workers, NEW c \in Clients, Begin(w, c)
  PROVE  IInv'
<1> DEFINE t == [line |-> c, at |-> 1]
<1>1. /\ TypeOK /\ pc[w] = "idle" /\ c \notin {client[v] : v \in Workers} /\ parsed[c] = None
      /\ pc' = [pc EXCEPT ![w] = "store"] /\ client' = [client EXCEPT ![w] = c]
      /\ lines' = lines \cup {c} /\ tokens' = [tokens EXCEPT ![w] = <<t>>]
      /\ UNCHANGED <<position, cut, parsed, undefined>>
  BY DEF Begin, Go, IInv
<1>2. TypeOK'
  BY <1>1 DEF TypeOK
<1>3. /\ tokens'[w] = <<t>> /\ pc'[w] = "store" /\ client'[w] = c
      /\ \A v \in Workers \ {w} : tokens'[v] = tokens[v] /\ pc'[v] = pc[v] /\ client'[v] = client[v]
  BY <1>1 DEF TypeOK
<1>4. Apart'
  BY <1>1, <1>3 DEF IInv, Apart
<1>5. Own(w)'
  <2>1. t \in Token
    BY DEF Token, End
  <2>2. <<t>> \in Seq(Token) /\ Len(<<t>>) = 1 /\ <<t>>[1] = t
    BY <2>1
  <2>3. tokens'[w] \in Seq(Token) /\ Len(tokens'[w]) \in 1..3
    BY <1>3, <2>2
  <2>4. \A i \in 1..Len(tokens'[w]) : tokens'[w][i] = [line |-> c, at |-> i]
    BY <1>3, <2>2
  <2>5. c \in lines' /\ parsed'[c] = None /\ pc'[w] = "store" /\ client'[w] = c
    BY <1>1, <1>3
  <2> QED
    BY ONLY <2>3, <2>4, <2>5, c \in Clients DEF Own
<1>6. ASSUME NEW v \in Workers PROVE Each(v)'
  <2>1. CASE v = w
    BY <1>3, <1>5, <2>1 DEF Each
  <2>2. CASE v # w
    BY <1>1, <1>3, <2>2, OthersKeep
  <2> QED
    BY <2>1, <2>2
<1>7. CutInOrder'
  <2> SUFFICES ASSUME NEW s \in cut, parsed[s.line] = None PROVE \E v \in Workers : CutBy(v, s)'
    BY <1>1 DEF CutInOrder
  <2>1. PICK v \in Workers : CutBy(v, s)
    BY DEF IInv, CutInOrder
  <2>2. client[v] \in Clients
    BY <1>1, <2>1 DEF CutBy, TypeOK
  <2>3. v # w
    BY <1>1, <2>2 DEF IInv, Each
  <2> QED
    BY <1>3, <2>1, <2>3 DEF CutBy
<1> QED
  BY <1>1, <1>2, <1>4, <1>6, <1>7 DEF IInv, OwnRequest

\* strtok goes on in the worker's own line, where nothing was cut yet but by itself.
LEMMA StoresKeeps ==
  ASSUME ~SharedStrtok, NoClient \notin Clients, IInv, NEW w \in Workers, StrtokStores(w)
  PROVE  IInv'
<1> DEFINE k == Len(tokens[w])
           t == tokens[w][k]
<1>1. /\ TypeOK /\ Own(w) /\ pc[w] = "store" /\ Apart /\ CutInOrder
      /\ pc' = [pc EXCEPT ![w] = IF k = 3 THEN "copy" ELSE "next"]
      /\ cut' = cut \cup {t}
      /\ UNCHANGED <<client, lines, tokens, parsed, undefined>>
  BY DEF StrtokStores, Go, IInv, Each
<1>2. PICK at \in Behind(t) : Remember(w, [line |-> t.line, at |-> at])
  BY DEF StrtokStores
<1>3. k \in 1..3 /\ t = [line |-> client[w], at |-> k] /\ client[w] \in Clients
  <2>1. k \in 1..3 /\ client[w] \in Clients /\ \A i \in 1..k : tokens[w][i] = [line |-> client[w], at |-> i]
    BY <1>1 DEF Own
  <2>2. \A j \in 1..3 : j \in 1..j
    OBVIOUS
  <2> QED
    BY <2>1, <2>2
<1> HIDE DEF k, t
<1>4. t \notin cut
  <2> SUFFICES ASSUME t \in cut PROVE FALSE
    OBVIOUS
  <2>1. parsed[t.line] = None
    BY <1>1, <1>3 DEF Own
  <2>2. PICK v \in Workers : CutBy(v, t)
    BY <1>1, <2>1 DEF CutInOrder
  <2>3. v = w
    BY <1>1, <1>3, <2>2 DEF CutBy, Apart
  <2> QED
    BY <1>1, <1>3, <2>2, <2>3 DEF CutBy, k
<1>5. at = IF k = 3 THEN End ELSE k + 1
  BY <1>2, <1>3, <1>4 DEF Behind
<1>6. position' = [v \in Workers |-> IF v = w THEN [line |-> client[w], at |-> at] ELSE position[v]]
  BY <1>2, <1>3 DEF Remember
<1>7. [line |-> client[w], at |-> at] \in Token
  BY <1>3, <1>5 DEF Token, End
<1>8. TypeOK'
  <2>1. position' \in [Workers -> Token]
    BY <1>1, <1>6, <1>7 DEF TypeOK
  <2>2. cut' \subseteq [line : Clients, at : 1..3]
    BY <1>1, <1>3 DEF TypeOK
  <2> QED
    BY <1>1, <2>1, <2>2 DEF TypeOK
<1>9. /\ pc'[w] = IF k = 3 THEN "copy" ELSE "next"
      /\ position'[w] = [line |-> client[w], at |-> at]
      /\ \A v \in Workers \ {w} : pc'[v] = pc[v] /\ position'[v] = position[v]
  BY <1>1, <1>6 DEF TypeOK
<1>10. Own(w)'
  BY <1>1, <1>3, <1>5, <1>9 DEF Own, k
<1>11. ASSUME NEW v \in Workers PROVE Each(v)'
  <2>1. CASE v = w
    BY <1>9, <1>10, <2>1 DEF Each
  <2>2. CASE v # w
    BY <1>1, <1>9, <2>2, OthersKeep
  <2> QED
    BY <2>1, <2>2
<1>12. CutInOrder'
  <2> SUFFICES ASSUME NEW s \in cut \cup {t}, parsed[s.line] = None
               PROVE  \E v \in Workers : CutBy(v, s)'
    BY <1>1 DEF CutInOrder
  <2>1. CASE s = t
    BY <1>1, <1>3, <1>9, <2>1 DEF CutBy, k
  <2>2. CASE s \in cut
    <3>1. PICK v \in Workers : CutBy(v, s)
      BY <1>1, <2>2 DEF CutInOrder
    <3>2. pc'[v] # "store" \/ pc'[v] = pc[v]
      BY <1>9
    <3> QED
      BY <1>1, <3>1, <3>2 DEF CutBy
  <2> QED
    BY <2>1, <2>2
<1> QED
  BY <1>1, <1>8, <1>11, <1>12 DEF IInv, Apart, OwnRequest

\* The next token is the one after the last.
LEMMA GoesOnKeeps ==
  ASSUME NoClient \notin Clients, IInv, NEW w \in Workers, StrtokGoesOn(w)
  PROVE  IInv'
<1> DEFINE s == tokens[w]
           p == position[w]
<1>1. /\ TypeOK /\ Own(w) /\ pc[w] = "next" /\ Apart /\ CutInOrder
      /\ pc' = [pc EXCEPT ![w] = "store"]
      /\ tokens' = [tokens EXCEPT ![w] = Append(s, p)]
      /\ UNCHANGED <<client, lines, position, cut, parsed, undefined>>
  BY DEF StrtokGoesOn, Go, IInv, Each
<1>2. /\ s \in Seq(Token) /\ Len(s) \in 1..2 /\ p = [line |-> client[w], at |-> Len(s) + 1]
      /\ p \in Token /\ \A i \in 1..Len(s) : s[i] = [line |-> client[w], at |-> i]
  BY <1>1 DEF Own, TypeOK
<1>3. /\ pc'[w] = "store" /\ tokens'[w] = Append(s, p)
      /\ \A v \in Workers \ {w} : pc'[v] = pc[v] /\ tokens'[v] = tokens[v]
  BY <1>1 DEF TypeOK
<1> HIDE DEF s, p
<1>4. /\ Append(s, p) \in Seq(Token) /\ Len(Append(s, p)) = Len(s) + 1
      /\ \A i \in 1..Len(s) + 1 : Append(s, p)[i] = [line |-> client[w], at |-> i]
  BY <1>2
<1>5. Own(w)'
  <2>1. tokens'[w] \in Seq(Token) /\ Len(tokens'[w]) \in 1..3
    BY <1>2, <1>3, <1>4
  <2>2. \A i \in 1..Len(tokens'[w]) : tokens'[w][i] = [line |-> client'[w], at |-> i]
    BY <1>1, <1>3, <1>4
  <2>3. client'[w] \in Clients /\ client'[w] \in lines' /\ parsed'[client'[w]] = None /\ pc'[w] = "store"
    BY <1>1, <1>3 DEF Own
  <2> QED
    BY ONLY <2>1, <2>2, <2>3 DEF Own
<1>6. ASSUME NEW v \in Workers PROVE Each(v)'
  <2>1. CASE v = w
    BY <1>3, <1>5, <2>1 DEF Each
  <2>2. CASE v # w
    BY <1>1, <1>3, <2>2, OthersKeep
  <2> QED
    BY <2>1, <2>2
<1>7. CutInOrder'
  <2> SUFFICES ASSUME NEW t \in cut, parsed[t.line] = None PROVE \E v \in Workers : CutBy(v, t)'
    BY <1>1 DEF CutInOrder
  <2>1. PICK v \in Workers : CutBy(v, t)
    BY <1>1 DEF CutInOrder
  <2>2. CASE v = w
    <3>1. t.at \in 1..3 /\ t.at <= Len(s)
      BY <1>1, <1>2, <2>1, <2>2 DEF CutBy, TypeOK, s
    <3> QED
      BY <1>1, <1>2, <1>3, <1>4, <2>1, <2>2, <3>1 DEF CutBy
  <2>3. CASE v # w
    BY <1>1, <1>3, <2>1, <2>3 DEF CutBy
  <2> QED
    BY <2>2, <2>3
<1> QED
  BY <1>1, <1>6, <1>7 DEF IInv, TypeOK, Apart, OwnRequest

\* What is copied are the tokens of the worker's own client.
LEMMA CopyKeeps ==
  ASSUME NoClient \notin Clients, IInv, NEW w \in Workers, Copy(w)
  PROVE  IInv'
<1> DEFINE c == client[w]
<1>1. /\ TypeOK /\ Own(w) /\ pc[w] = "copy" /\ Apart /\ CutInOrder /\ OwnRequest
      /\ pc' = [pc EXCEPT ![w] = "idle"]
      /\ lines' = lines \ {c} /\ client' = [client EXCEPT ![w] = NoClient]
      /\ tokens' = [tokens EXCEPT ![w] = <<>>]
      /\ UNCHANGED <<position, cut, undefined>>
  BY DEF Copy, Go, IInv, Each
<1>2. PICK host : parsed' = [parsed EXCEPT ![c] = [method |-> tokens[w][1], path |-> tokens[w][2],
                                                    version |-> tokens[w][3], host |-> host]]
  BY DEF Copy
<1>3. /\ c \in Clients /\ tokens[w][1] = [line |-> c, at |-> 1] /\ tokens[w][2] = [line |-> c, at |-> 2]
  BY <1>1 DEF Own
<1> HIDE DEF c
<1>4. /\ parsed'[c].method = [line |-> c, at |-> 1] /\ parsed'[c].path = [line |-> c, at |-> 2]
      /\ parsed'[c] # None /\ \A d \in Clients \ {c} : parsed'[d] = parsed[d]
  BY <1>1, <1>2, <1>3 DEF TypeOK, None
<1>5. OwnRequest'
  BY <1>1, <1>4 DEF OwnRequest
<1>6. TypeOK'
  BY <1>1, <1>2 DEF TypeOK
<1>7. /\ pc'[w] = "idle" /\ client'[w] = NoClient
      /\ \A v \in Workers \ {w} : /\ pc'[v] = pc[v] /\ tokens'[v] = tokens[v]
                                  /\ client'[v] = client[v] /\ client[v] # c
  BY <1>1, <1>3 DEF TypeOK, Apart, c
<1>8. Apart'
  BY <1>1, <1>7 DEF Apart
<1>9. ASSUME NEW v \in Workers PROVE Each(v)'
  <2>1. CASE v = w
    BY <1>7, <2>1 DEF Each
  <2>2. CASE v # w
    BY <1>1, <1>4, <1>7, <2>2, OthersKeep
  <2> QED
    BY <2>1, <2>2
<1>10. CutInOrder'
  <2> SUFFICES ASSUME NEW t \in cut, parsed'[t.line] = None PROVE \E v \in Workers : CutBy(v, t)'
    BY <1>1 DEF CutInOrder
  <2>1. t.line \in Clients /\ t.line # c
    BY <1>1, <1>4 DEF TypeOK
  <2>2. PICK v \in Workers : CutBy(v, t)
    BY <1>1, <1>4, <2>1 DEF CutInOrder
  <2>3. v # w
    BY <2>1, <2>2 DEF CutBy, c
  <2> QED
    BY <1>7, <2>2, <2>3 DEF CutBy
<1> QED
  BY <1>1, <1>5, <1>6, <1>8, <1>9, <1>10 DEF IInv

\* No worker reads a line that was freed, or goes on without a path.
LEMMA NeverUndefined ==
  ASSUME NoClient \notin Clients, IInv, NEW w \in Workers
  PROVE  ~Undefined(w)
<1> SUFFICES ASSUME pc[w] \in {"next", "copy"} 
             PROVE  /\ pc[w] = "next" => position[w].line \in lines
                    /\ pc[w] = "copy" => Sound(w)
  BY DEF Undefined
<1>1. Own(w)
  BY DEF IInv, Each
<1>2. CASE pc[w] = "next"
  BY <1>1, <1>2 DEF Own
<1>3. CASE pc[w] = "copy"
  <2>1. /\ client[w] \in lines /\ Len(tokens[w]) = 3
        /\ \A i \in 1..3 : tokens[w][i] = [line |-> client[w], at |-> i]
    BY <1>1, <1>3 DEF Own
  <2> QED
    BY <1>3, <2>1 DEF Sound, End
<1> QED
  BY <1>2, <1>3

LEMMA NextIInv ==
  ASSUME ~SharedStrtok, NoClient \notin Clients
  PROVE  IInv /\ [Next]_vars => IInv'
<1>1. IInv /\ UNCHANGED vars => IInv'
  BY DEF IInv, TypeOK, Apart, CutInOrder, CutBy, OwnRequest, Each, Own, vars
<1> QED
  BY <1>1, BeginKeeps, StoresKeeps, GoesOnKeeps, CopyKeeps, NeverUndefined DEF Next

-----------------------------------------------------------------------------
\* Where strtok keeps a place for each thread, what is asked of the server comes
\* from the client's own request line, and no worker meets a freed line or a
\* missing path, however many workers parse at once.
THEOREM OwnPlaceIsSafe ==
  ASSUME ~SharedStrtok, NoClient \notin Clients
  PROVE  Spec => [](OwnRequest /\ undefined = FALSE)
<1>1. IInv /\ [Next]_vars => IInv'
  BY NextIInv
<1>2. IInv => OwnRequest /\ undefined = FALSE
  BY DEF IInv
<1> QED
  BY <1>1, <1>2, InitIInv, PTL DEF Spec
=============================================================================
