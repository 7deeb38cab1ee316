------------------------ MODULE RequestHandlerProofs ------------------------
(***************************************************************************)
(* Theorems about RequestHandler, for every set of workers, clients,       *)
(* requests, connections and every size of the response buffer.            *)
(*                                                                         *)
(* The invariants, each proved from those before it:                       *)
(*   Types      the types; buffers are never longer than their room        *)
(*   Handling   which client, request and connection a worker has at which *)
(*              place, and that no two workers share one                   *)
(*   Account    how many answers each client has at which place            *)
(*   Sources    what is in streams, buffers and cache, and whence          *)
(*   Repeats    what is cached, or is about to be, was an answer           *)
(***************************************************************************)
EXTENDS RequestHandler, TLAPS, SequenceTheorems

AnswerSet == [error : {0, 400, 500, 502}, parts : Seq(AllParts)]

Types ==
  /\ pc \in [Workers -> Places]
  /\ client \in [Workers -> Clients \cup {NoClient}]
  /\ arrived \in [Workers -> Pieces]
  /\ request \in [Workers -> Requests \cup {NoRequest}]
  /\ conn \in [Workers -> Conns \cup {NoConn}]
  /\ received \in [Workers -> Seq(AllParts)]
  /\ target \in [Conns -> Servers \cup {NoServer}]
  /\ stream \in [Conns -> Seq(AllParts)]
  /\ idle \subseteq Conns
  /\ cache \in [Paths -> Seq(AllParts)]
  /\ answers \in [Clients -> Seq(AnswerSet)]
  /\ closed \subseteq Clients /\ silent \subseteq closed

\* What a worker has at which place.
Parsed   == {"lookup", "connect"} \cup Connected
Handling ==
  /\ \A w \in Workers :
       /\ client[w] = NoClient <=> pc[w] = "idle"
       /\ client[w] \notin closed
       /\ pc[w] \in Parsed => request[w] = RequestOf[client[w]]
       /\ pc[w] \in Connected => /\ conn[w] \in Conns \ idle
                                 /\ target[conn[w]] = Server(request[w].host)
       /\ pc[w] \notin Connected => conn[w] = NoConn
  /\ \A v, w \in Workers : v # w => /\ client[v] = client[w] => client[v] = NoClient
                                    /\ conn[v] = conn[w] => conn[v] = NoConn

\* A client has its answer exactly when the worker has said it.
Said    == {"add", "return", "end"}
Account ==
  \A c \in Clients :
    /\ \A w \in Workers : client[w] = c => Len(answers[c]) = IF pc[w] \in Said THEN 1 ELSE 0
    /\ c \in closed => Len(answers[c]) = IF c \in silent THEN 0 ELSE 1
    /\ c \notin Taken => Len(answers[c]) = 0

\* Nothing is longer than the response buffer.
Fits == /\ \A w \in Workers : Len(received[w]) <= MAX_RESPONSE_SIZE
        /\ \A k \in Paths : Len(cache[k]) <= MAX_RESPONSE_SIZE

\* Where parts come from.  An idle connection holds leftovers only, one that a worker
\* has, and its buffer, leftovers and the response to its client; a cached part is a
\* leftover or belongs to the path.
Honest(p, c) == Own(p, c) \/ p \in leftover
Sources ==
  /\ \A f \in Unused : stream[f] = <<>>
  /\ \A f \in idle : ToSet(stream[f]) \subseteq leftover
  /\ \A w \in Workers : pc[w] \in Connected => \A p \in ToSet(stream[conn[w]]) : Honest(p, client[w])
  /\ \A w \in Workers : pc[w] \in Connected \ {"send"} =>
                         \A p \in ToSet(received[w]) : Honest(p, client[w])
  /\ \A k \in Paths : \A p \in ToSet(cache[k]) : p \in leftover \/ p.path = k

\* What a worker is about to add was its answer.
Repeats ==
  /\ \A w \in Workers : pc[w] = "add" => Success(received[w]) \in ToSet(answers[client[w]])
  /\ CacheRepeatsAnswers

-----------------------------------------------------------------------------
(* Sequences, and the sets of their elements.                              *)

LEMMA Elements ==
  ASSUME NEW S, NEW s \in Seq(S)
  PROVE  ToSet(s) = {s[i] : i \in 1..Len(s)}
  BY DOMAIN s = 1..Len(s) DEF ToSet

LEMMA ConcatElements ==
  ASSUME NEW S, NEW s \in Seq(S), NEW t \in Seq(S)
  PROVE  s \o t \in Seq(S) /\ ToSet(s \o t) = ToSet(s) \cup ToSet(t)
<1>1. s \o t \in Seq(S) /\ Len(s \o t) = Len(s) + Len(t)
  BY ConcatProperties
<1>2. ASSUME NEW i \in 1..Len(s \o t) PROVE (s \o t)[i] \in ToSet(s) \cup ToSet(t)
  <2>1. CASE i <= Len(s)
    BY <1>1, <2>1, ConcatProperties DEF ToSet
  <2>2. CASE i > Len(s)
    <3>1. i - Len(s) \in 1..Len(t) /\ (s \o t)[i] = t[i - Len(s)]
      BY <1>1, <2>2, ConcatProperties
    <3> QED
      BY <3>1 DEF ToSet
  <2> QED
    BY <2>1, <2>2, <1>1
<1>3. ASSUME NEW i \in 1..Len(s) PROVE s[i] \in ToSet(s \o t)
  <2>1. i \in 1..Len(s \o t) /\ (s \o t)[i] = s[i]
    BY <1>1, ConcatProperties
  <2> QED
    BY <2>1, <1>1 DEF ToSet
<1>4. ASSUME NEW i \in 1..Len(t) PROVE t[i] \in ToSet(s \o t)
  <2>1. i + Len(s) \in 1..Len(s \o t) /\ (s \o t)[i + Len(s)] = t[i]
    BY <1>1, ConcatProperties
  <2> QED
    BY <2>1, <1>1 DEF ToSet
<1> QED
  <2>1. /\ ToSet(s \o t) = {(s \o t)[i] : i \in 1..Len(s \o t)}
        /\ ToSet(s) = {s[i] : i \in 1..Len(s)}
        /\ ToSet(t) = {t[i] : i \in 1..Len(t)}
    BY <1>1, Elements
  <2>2. ToSet(s \o t) \subseteq ToSet(s) \cup ToSet(t)
    BY <1>2, <2>1
  <2>3. ToSet(s) \cup ToSet(t) \subseteq ToSet(s \o t)
    BY <1>3, <1>4, <2>1
  <2> QED
    BY <1>1, <2>2, <2>3

LEMMA MinOfTwo ==
  ASSUME NEW m \in Int, NEW n \in Int
  PROVE  Min({m, n}) \in Int /\ Min({m, n}) <= m /\ Min({m, n}) <= n
  BY m <= n \/ n <= m DEF Min

LEMMA AppendElements ==
  ASSUME NEW S, NEW s \in Seq(S), NEW e \in S
  PROVE  /\ Append(s, e) \in Seq(S) /\ Len(Append(s, e)) = Len(s) + 1
         /\ ToSet(Append(s, e)) = ToSet(s) \cup {e}
  BY AppendProperties DEF ToSet

LEMMA SplitElements ==
  ASSUME NEW S, NEW s \in Seq(S), NEW n \in 1..Len(s)
  PROVE  /\ SubSeq(s, 1, n) \in Seq(S) /\ Len(SubSeq(s, 1, n)) = n
         /\ ToSet(SubSeq(s, 1, n)) \subseteq ToSet(s)
         /\ SubSeq(s, n + 1, Len(s)) \in Seq(S)
         /\ ToSet(SubSeq(s, n + 1, Len(s))) \subseteq ToSet(s)
<1>1. /\ SubSeq(s, 1, n) \in Seq(S) /\ Len(SubSeq(s, 1, n)) = n
      /\ \A i \in 1..n : SubSeq(s, 1, n)[i] = s[i]
  BY SubSeqProperties
<1>2. /\ SubSeq(s, n + 1, Len(s)) \in Seq(S) /\ Len(SubSeq(s, n + 1, Len(s))) = Len(s) - n
      /\ \A i \in 1..Len(s) - n : SubSeq(s, n + 1, Len(s))[i] = s[n + i]
  BY SubSeqProperties
<1> QED
  BY <1>1, <1>2 DEF ToSet

-----------------------------------------------------------------------------
(* Types.                                                                  *)

LEMMA ResponseType ==
  ASSUME NEW r \in Requests, NEW s \in Servers
  PROVE  Response(r, s) \in Seq(AllParts)
<1>1. Part(r, s, "header") \in AllParts /\ Part(r, s, "body") \in AllParts
  BY DEF AllParts
<1> QED
  BY <1>1 DEF Response

LEMMA RequestTypes ==
  ASSUME NEW c \in Clients
  PROVE  RequestOf[c] \in Requests /\ Server(RequestOf[c].host) \in Servers
  BY DEF Requests, Servers

\* What a recv does, without sequences: some elements of the stream move to the buffer.
LEMMA RecvEffect ==
  ASSUME Types, Handling, NEW w \in Workers, Recv(w)
  PROVE  \E got, rest \in Seq(AllParts) :
           /\ received' = [received EXCEPT ![w] = got]
           /\ stream' = [stream EXCEPT ![conn[w]] = rest]
           /\ ToSet(got) \subseteq ToSet(received[w]) \cup ToSet(stream[conn[w]])
           /\ ToSet(rest) \subseteq ToSet(stream[conn[w]])
           /\ Len(received[w]) <= MAX_RESPONSE_SIZE => Len(got) <= MAX_RESPONSE_SIZE
           /\ pc' \in {[pc EXCEPT ![w] = "recv"], [pc EXCEPT ![w] = "answer"]}
<1> DEFINE s == stream[conn[w]]
           b == received[w]
<1>1. pc[w] = "recv" /\ conn[w] \in Conns /\ s \in Seq(AllParts) /\ b \in Seq(AllParts)
  BY DEF Recv, Types, Handling, Connected
<1>2. PICK n \in 1..Min({Len(s), Room(w)}) :
        /\ received' = [received EXCEPT ![w] = b \o SubSeq(s, 1, n)]
        /\ stream' = [stream EXCEPT ![conn[w]] = SubSeq(s, n + 1, Len(s))]
        /\ pc' \in {[pc EXCEPT ![w] = "recv"], [pc EXCEPT ![w] = "answer"]}
  BY <1>1 DEF Recv, Go, Types
<1>3. /\ Len(s) \in Nat /\ Len(s) \in Int /\ Room(w) \in Int /\ Len(b) \in Nat
  BY <1>1, SizeAssumption DEF Room
<1> HIDE DEF s, b
<1>4. n \in 1..Len(s) /\ n <= Room(w)
  <2>1. Min({Len(s), Room(w)}) <= Len(s) /\ Min({Len(s), Room(w)}) <= Room(w) /\ Min({Len(s), Room(w)}) \in Int
    BY <1>3, MinOfTwo, Zenon
  <2> QED
    BY <2>1, <1>3
<1>5. /\ SubSeq(s, 1, n) \in Seq(AllParts) /\ Len(SubSeq(s, 1, n)) = n
      /\ ToSet(SubSeq(s, 1, n)) \subseteq ToSet(s)
      /\ SubSeq(s, n + 1, Len(s)) \in Seq(AllParts)
      /\ ToSet(SubSeq(s, n + 1, Len(s))) \subseteq ToSet(s)
  BY <1>1, <1>4, SplitElements
<1>6. /\ b \o SubSeq(s, 1, n) \in Seq(AllParts)
      /\ ToSet(b \o SubSeq(s, 1, n)) = ToSet(b) \cup ToSet(SubSeq(s, 1, n))
      /\ Len(b \o SubSeq(s, 1, n)) = Len(b) + n
  BY <1>1, <1>5, ConcatElements, ConcatProperties
<1>7. Room(w) = MAX_RESPONSE_SIZE - Len(b)
  BY DEF Room, b
<1>8. Len(b \o SubSeq(s, 1, n)) <= MAX_RESPONSE_SIZE
  BY <1>3, <1>4, <1>6, <1>7, SizeAssumption
<1> DEFINE got == b \o SubSeq(s, 1, n)
           rest == SubSeq(s, n + 1, Len(s))
<1>9. /\ got \in Seq(AllParts) /\ rest \in Seq(AllParts)
      /\ received' = [received EXCEPT ![w] = got]
      /\ stream' = [stream EXCEPT ![conn[w]] = rest]
      /\ ToSet(got) \subseteq ToSet(b) \cup ToSet(s)
      /\ ToSet(rest) \subseteq ToSet(s)
      /\ Len(got) <= MAX_RESPONSE_SIZE
  BY <1>2, <1>5, <1>6, <1>8
<1> HIDE DEF got, rest
<1> QED
  BY <1>2, <1>9 DEF s, b

\* What a worker has while it handles a request.
LEMMA InHand ==
  ASSUME Types, Handling, NEW w \in Workers, pc[w] # "idle"
  PROVE  /\ client[w] \in Clients /\ client[w] \notin closed
         /\ pc[w] \in Parsed => /\ request[w] = RequestOf[client[w]]
                               /\ request[w] \in Requests
                               /\ Server(request[w].host) \in Servers
                               /\ Key(w) = RequestOf[client[w]].path /\ Key(w) \in Paths
         /\ pc[w] \in Connected => /\ conn[w] \in Conns /\ conn[w] \notin idle
                                  /\ target[conn[w]] = Server(request[w].host)
<1>1. client[w] \in Clients /\ client[w] \notin closed
  BY DEF Types, Handling
<1>2. RequestOf[client[w]] \in Requests /\ Server(RequestOf[client[w]].host) \in Servers
  BY <1>1, RequestTypes
<1>3. RequestOf[client[w]].path \in Paths
  BY <1>1, RequestAssumption
<1>4. pc[w] \in Parsed => request[w] = RequestOf[client[w]]
  BY DEF Handling
<1>5. pc[w] \in Connected => /\ conn[w] \in Conns \ idle
                            /\ target[conn[w]] = Server(request[w].host)
  BY DEF Handling
<1> QED
  BY <1>1, <1>2, <1>3, <1>4, <1>5 DEF Key

LEMMA InitTypes == Init => Types /\ Handling
<1> SUFFICES ASSUME Init PROVE Types /\ Handling
  OBVIOUS
<1> QED
  BY NobodyAssumption DEF Init, Types, Handling, Places, Connected, Parsed, Pieces, None

LEMMA StepTypes == Types /\ Handling /\ [Next]_vars => Types'
<1> SUFFICES ASSUME Types, Handling, [Next]_vars PROVE Types'
  OBVIOUS
<1> USE NobodyAssumption DEF Go, Refuse, CloseConn, connVars, doneVars, Types, Connected, Places, Parsed
<1>0. ASSUME NEW w \in Workers, NEW code \in {400, 500, 502}, client[w] \in Clients, Say(w, Failure(code))
      PROVE  answers' \in [Clients -> Seq(AnswerSet)]
  <2>1. Failure(code) \in AnswerSet
    BY DEF Failure, AnswerSet
  <2> QED
    BY <1>0, <2>1, AppendElements DEF Say
<1>b. <<>> \in Seq(AllParts)
  OBVIOUS
<1>c. ASSUME NEW f \in Conns, CloseConn(f)
      PROVE  target' \in [Conns -> Servers \cup {NoServer}] /\ stream' \in [Conns -> Seq(AllParts)]
  BY <1>b, <1>c DEF CloseConn
<1> HIDE DEF CloseConn
<1>a. ASSUME NEW w \in Workers, NEW s \in Seq(AllParts), client[w] \in Clients, Say(w, Success(s))
      PROVE  answers' \in [Clients -> Seq(AnswerSet)]
  <2>1. Success(s) \in AnswerSet
    BY DEF Success, AnswerSet
  <2> QED
    BY <1>a, <2>1, AppendElements DEF Say
<1>1. ASSUME NEW w \in Workers, NEW c \in Clients, ClientGone(w, c) PROVE Types'
  BY <1>1 DEF ClientGone
<1>2. ASSUME NEW w \in Workers, NEW c \in Clients, NEW much \in Pieces, Receive(w, c, much) PROVE Types'
  BY <1>2 DEF Receive
<1>3. ASSUME NEW w \in Workers, Invalid(w) \/ ParseFails(w) \/ CreateFails(w) \/ BadGateway(w) PROVE Types'
  <2>1. pc[w] # "idle" /\ client[w] \in Clients
    BY <1>3, InHand DEF Invalid, ParseFails, CreateFails, BadGateway
  <2>2. answers' \in [Clients -> Seq(AnswerSet)]
    BY <1>0, <1>3, <2>1 DEF Invalid, ParseFails, CreateFails, BadGateway
  <2> QED
    BY <1>3, <2>2 DEF Invalid, ParseFails, CreateFails, BadGateway
<1>4. ASSUME NEW w \in Workers, Parse(w) PROVE Types'
  BY InHand, <1>4, RequestTypes DEF Parse
<1>5. ASSUME NEW w \in Workers, AnswerFromCache(w) PROVE Types'
  <2>1. client[w] \in Clients /\ Key(w) \in Paths
    BY <1>5, InHand DEF AnswerFromCache
  <2> QED
    BY <1>5, <1>a, <2>1 DEF AnswerFromCache
<1>6. ASSUME NEW w \in Workers, Miss(w) \/ CreateConnFails(w) \/ RecvEnds(w) PROVE Types'
  BY <1>6 DEF Miss, CreateConnFails, RecvEnds
<1>7. ASSUME NEW k \in Paths, Forget(k) PROVE Types'
  BY <1>7 DEF Forget, None
<1>8. ASSUME NEW w \in Workers, Reuse(w) \/ Create(w) PROVE Types'
  <2>1. Server(request[w].host) \in Servers
    BY <1>8, InHand DEF Reuse, Create
  <2>2. CASE Reuse(w)
    BY <2>2 DEF Reuse
  <2>3. CASE Create(w)
    BY <2>1, <2>3 DEF Create, Unused
  <2> QED
    BY <1>8, <2>2, <2>3
<1>9. ASSUME NEW f \in Conns, Expire(f) PROVE Types'
  BY <1>c, <1>9 DEF Expire
<1>10. ASSUME NEW w \in Workers, Send(w) PROVE Types'
  <2>1. /\ conn[w] \in Conns /\ request[w] \in Requests /\ target[conn[w]] \in Servers
    BY <1>10, InHand DEF Send
  <2>2. ASSUME NEW s \in {<<>>, Response(request[w], target[conn[w]])} PROVE stream[conn[w]] \o s \in Seq(AllParts)
    <3>1. stream[conn[w]] \in Seq(AllParts)
      BY <2>1
    <3>2. s \in Seq(AllParts)
      <4>1. Response(request[w], target[conn[w]]) \in Seq(AllParts)
        BY <2>1, ResponseType, Zenon
      <4> QED
        BY <4>1, <1>b, Zenon
    <3> QED
      BY <3>1, <3>2, ConcatElements
  <2> QED
    <3>1. PICK s \in Seq(AllParts) : stream' = [stream EXCEPT ![conn[w]] = s]
      BY <1>10, <2>2 DEF Send
    <3>2. stream' \in [Conns -> Seq(AllParts)]
      BY <3>1
    <3>3. received' \in [Workers -> Seq(AllParts)]
      BY <1>10, <1>b DEF Send
    <3> QED
      BY <1>10, <3>2, <3>3 DEF Send
<1>11. ASSUME NEW w \in Workers, SendFails(w) \/ NoResponse(w) PROVE Types'
  <2>1. conn[w] \in Conns
    BY <1>11, InHand DEF SendFails, NoResponse
  <2> QED
    BY <1>11, <1>c, <2>1 DEF SendFails, NoResponse, Abort
<1>12. ASSUME NEW w \in Workers, Recv(w) PROVE Types'
  <2>1. received' \in [Workers -> Seq(AllParts)] /\ stream' \in [Conns -> Seq(AllParts)]
    <3>1. PICK got \in Seq(AllParts), rest \in Seq(AllParts) :
            /\ received' = [received EXCEPT ![w] = got]
            /\ stream' = [stream EXCEPT ![conn[w]] = rest]
      BY <1>12, RecvEffect
    <3> QED
      BY <3>1
  <2>2. pc' \in [Workers -> Places]
    BY <1>12, RecvEffect
  <2> QED
    BY <1>12, <2>1, <2>2 DEF Recv
<1>13. ASSUME NEW w \in Workers, Answer(w) PROVE Types'
  BY InHand, <1>13, <1>a DEF Answer
<1>14. ASSUME NEW w \in Workers, Add(w) PROVE Types'
  <2>1. Key(w) \in Paths
    BY <1>14, InHand DEF Add
  <2> QED
    BY <1>14, <2>1 DEF Add
<1>15. ASSUME NEW w \in Workers, Return(w) PROVE Types'
  <2>1. conn[w] \in Conns
    BY <1>15, InHand DEF Return
  <2> QED
    BY <1>15, <1>c, <2>1 DEF Return
<1>16. ASSUME NEW w \in Workers, End(w) PROVE Types'
  <2>1. client[w] \in Clients
    BY <1>16, InHand DEF End
  <2> QED
    <3>1. received' \in [Workers -> Seq(AllParts)] /\ request' \in [Workers -> Requests \cup {NoRequest}]
      BY <1>16, <1>b DEF End
    <3>2. arrived' \in [Workers -> Pieces]
      BY <1>16 DEF End, Pieces
    <3> QED
      BY <1>16, <2>1, <3>1, <3>2 DEF End
<1>17. CASE UNCHANGED vars
  BY <1>17 DEF vars
<1> QED
  BY <1>1, <1>2, <1>3, <1>4, <1>5, <1>6, <1>7, <1>8, <1>9, <1>10, <1>11, <1>12, <1>13, <1>14, <1>15,
     <1>16, <1>17 DEF Next, WorkerStep

LEMMA StepHandling == Types /\ Handling /\ [Next]_vars => Handling'
<1> SUFFICES ASSUME Types, Handling, [Next]_vars PROVE Handling'
  OBVIOUS
<1> USE NobodyAssumption DEF Go, Refuse, connVars, doneVars, Connected, Parsed
<1>0. /\ pc \in [Workers -> Places] /\ client \in [Workers -> Clients \cup {NoClient}]
      /\ request \in [Workers -> Requests \cup {NoRequest}]
      /\ conn \in [Workers -> Conns \cup {NoConn}]
      /\ target \in [Conns -> Servers \cup {NoServer}]
      /\ idle \subseteq Conns /\ closed \subseteq Clients
  BY DEF Types
<1> USE DEF Handling
<1>1. ASSUME NEW w \in Workers, NEW c \in Clients, ClientGone(w, c) PROVE Handling'
  BY <1>0, <1>1 DEF ClientGone, Taken
<1>2. ASSUME NEW w \in Workers, NEW c \in Clients, NEW much \in Pieces, Receive(w, c, much) PROVE Handling'
  BY <1>0, <1>2 DEF Receive, Taken
<1>3. ASSUME NEW w \in Workers, Invalid(w) \/ ParseFails(w) \/ CreateFails(w) \/ BadGateway(w) \/ AnswerFromCache(w)
      PROVE  Handling'
  BY <1>0, <1>3 DEF Invalid, ParseFails, CreateFails, BadGateway, AnswerFromCache
<1>4. ASSUME NEW w \in Workers, Parse(w) PROVE Handling'
  BY <1>0, <1>4 DEF Parse
<1>5. ASSUME NEW w \in Workers, Miss(w) \/ CreateConnFails(w) \/ RecvEnds(w) PROVE Handling'
  BY <1>0, <1>5 DEF Miss, CreateConnFails, RecvEnds
<1>6. ASSUME NEW k \in Paths, Forget(k) PROVE Handling'
  BY <1>0, <1>6 DEF Forget
<1>7. ASSUME NEW w \in Workers, Reuse(w) PROVE Handling'
  BY <1>0, <1>7 DEF Reuse
<1>8. ASSUME NEW w \in Workers, Create(w) PROVE Handling'
  BY <1>0, <1>8 DEF Create, Unused
<1>9. ASSUME NEW f \in Conns, Expire(f) PROVE Handling'
  BY <1>0, <1>9 DEF Expire, CloseConn
<1>10. ASSUME NEW w \in Workers, Send(w) PROVE Handling'
  BY <1>0, <1>10 DEF Send
<1>11. ASSUME NEW w \in Workers, SendFails(w) \/ NoResponse(w) PROVE Handling'
  BY <1>0, <1>11 DEF SendFails, NoResponse, Abort, CloseConn
<1>12. ASSUME NEW w \in Workers, Recv(w) PROVE Handling'
  <2>1. pc[w] = "recv" /\ pc' \in {[pc EXCEPT ![w] = "recv"], [pc EXCEPT ![w] = "answer"]}
    BY <1>12, RecvEffect DEF Recv
  <2> QED
    BY <1>0, <1>12, <2>1 DEF Recv
<1>13. ASSUME NEW w \in Workers, Answer(w) \/ Add(w) PROVE Handling'
  BY <1>0, <1>13 DEF Answer, Add
<1>14. ASSUME NEW w \in Workers, Return(w) PROVE Handling'
  BY <1>0, <1>14 DEF Return, CloseConn
<1>15. ASSUME NEW w \in Workers, End(w) PROVE Handling'
  BY <1>0, <1>15 DEF End
<1>16. CASE UNCHANGED vars
  BY <1>16 DEF vars
<1> QED
  BY <1>1, <1>2, <1>3, <1>4, <1>5, <1>6, <1>7, <1>8, <1>9, <1>10, <1>11, <1>12, <1>13, <1>14, <1>15,
     <1>16 DEF Next, WorkerStep

-----------------------------------------------------------------------------
(* Answers.                                                                *)

\* What Say does, without sequences.
LEMMA SayEffect ==
  ASSUME Types, NEW w \in Workers, client[w] \in Clients, NEW a \in AnswerSet, Say(w, a)
  PROVE  /\ Len(answers'[client[w]]) = Len(answers[client[w]]) + 1
         /\ ToSet(answers'[client[w]]) = ToSet(answers[client[w]]) \cup {a}
         /\ \A c \in Clients \ {client[w]} : answers'[c] = answers[c]
<1>1. answers[client[w]] \in Seq(AnswerSet)
  BY DEF Types
<1>2. answers'[client[w]] = Append(answers[client[w]], a)
  BY DEF Say, Types
<1>3. \A c \in Clients \ {client[w]} : answers'[c] = answers[c]
  BY DEF Say, Types
<1> QED
  BY <1>1, <1>2, <1>3, AppendElements

LEMMA ErrorAnswers == \A code \in {400, 500, 502} : Failure(code) \in AnswerSet
BY DEF Failure, AnswerSet

LEMMA SuccessAnswers == \A s \in Seq(AllParts) : Success(s) \in AnswerSet
BY DEF Success, AnswerSet

LEMMA StepAccount == Types /\ Handling /\ Account /\ [Next]_vars => Account'
<1> SUFFICES ASSUME Types, Handling, Account, [Next]_vars PROVE Account'
  OBVIOUS
<1>0. /\ pc \in [Workers -> Places] /\ client \in [Workers -> Clients \cup {NoClient}]
      /\ \A c \in Clients : Len(answers[c]) \in Nat
      /\ closed \subseteq Clients /\ silent \subseteq closed
      /\ \A v, w \in Workers : v # w /\ client[v] = client[w] => client[v] = NoClient
      /\ \A w \in Workers : client[w] \notin closed /\ (client[w] = NoClient <=> pc[w] = "idle")
  BY LenProperties DEF Types, Handling
<1>a. ASSUME NEW w \in Workers, NEW a \in AnswerSet, Say(w, a), pc[w] \notin Said \cup {"idle"},
             NEW to \in Said, pc' = [pc EXCEPT ![w] = to], UNCHANGED <<client, closed, silent>>
      PROVE  Account'
  <2>1. client[w] \in Clients
    BY <1>0, <1>a
  <2>2. /\ Len(answers'[client[w]]) = 1
        /\ \A c \in Clients \ {client[w]} : answers'[c] = answers[c]
    <3>1. Len(answers[client[w]]) = 0
      BY <1>a, <2>1 DEF Account
    <3>2. /\ Len(answers'[client[w]]) = Len(answers[client[w]]) + 1
          /\ \A c \in Clients \ {client[w]} : answers'[c] = answers[c]
      BY <1>a, <2>1, SayEffect
    <3> QED
      BY <3>1, <3>2
  <2>3. Taken' = Taken /\ pc'[w] \in Said /\ \A v \in Workers \ {w} : pc'[v] = pc[v]
    BY <1>0, <1>a DEF Taken
  <2>4. client[w] \in Taken /\ client[w] \notin closed /\ \A v \in Workers \ {w} : client[v] # client[w]
    BY <1>0, <1>a, <2>1, NobodyAssumption DEF Taken
  <2>5. ASSUME NEW c \in Clients
        PROVE  /\ \A v \in Workers : client'[v] = c => Len(answers'[c]) = IF pc'[v] \in Said THEN 1 ELSE 0
               /\ c \in closed' => Len(answers'[c]) = IF c \in silent' THEN 0 ELSE 1
               /\ c \notin Taken' => Len(answers'[c]) = 0
    <3>1. CASE c = client[w]
      BY <1>a, <2>2, <2>3, <2>4, <3>1
    <3>2. CASE c # client[w]
      BY <1>a, <2>2, <2>3, <3>2 DEF Account
    <3> QED
      BY <3>1, <3>2
  <2> QED
    BY <2>5 DEF Account
<1>b. ASSUME UNCHANGED <<client, answers, closed, silent>>,
             \A w \in Workers : pc'[w] \in Said <=> pc[w] \in Said
      PROVE  Account'
  BY <1>b DEF Account, Taken
<1> USE NobodyAssumption DEF Go, Refuse, connVars, doneVars
<1>1. ASSUME NEW w \in Workers, NEW c \in Clients, ClientGone(w, c) PROVE Account'
  BY <1>0, <1>1 DEF ClientGone, Account, Taken
<1>2. ASSUME NEW w \in Workers, NEW c \in Clients, NEW much \in Pieces, Receive(w, c, much) PROVE Account'
  BY <1>0, <1>2 DEF Receive, Account, Taken, Said
<1>3. ASSUME NEW w \in Workers, Invalid(w) \/ ParseFails(w) \/ CreateFails(w) \/ BadGateway(w) PROVE Account'
  BY <1>3, <1>a, ErrorAnswers DEF Invalid, ParseFails, CreateFails, BadGateway, Said
<1>4. ASSUME NEW w \in Workers, AnswerFromCache(w) PROVE Account'
  <2>1. cache[Key(w)] \in Seq(AllParts)
    BY <1>4, InHand DEF AnswerFromCache, Parsed, Types
  <2> QED
    BY <1>4, <1>a, <2>1, SuccessAnswers DEF AnswerFromCache, Said
<1>5. ASSUME NEW w \in Workers, Answer(w) PROVE Account'
  <2>1. received[w] \in Seq(AllParts)
    BY DEF Types
  <2> QED
    BY <1>5, <1>a, <2>1, SuccessAnswers DEF Answer, Said
<1>6. ASSUME NEW w \in Workers, End(w) PROVE Account'
  BY <1>0, <1>6 DEF End, Account, Taken, Said
<1>7. ASSUME NEW w \in Workers,
             \/ Parse(w) \/ Miss(w) \/ Reuse(w) \/ Create(w) \/ CreateConnFails(w) \/ Send(w)
             \/ SendFails(w) \/ RecvEnds(w) \/ NoResponse(w) \/ Add(w) \/ Return(w)
      PROVE  Account'
  BY <1>0, <1>7, <1>b DEF Parse, Miss, Reuse, Create, CreateConnFails, Send, SendFails, RecvEnds, NoResponse,
     Abort, Add, Return, Said
<1>8. ASSUME NEW w \in Workers, Recv(w) PROVE Account'
  <2>1. pc[w] = "recv" /\ pc' \in {[pc EXCEPT ![w] = "recv"], [pc EXCEPT ![w] = "answer"]}
    BY <1>8, RecvEffect DEF Recv
  <2> QED
    BY <1>0, <1>8, <1>b, <2>1 DEF Recv, Said
<1>9. CASE (\E k \in Paths : Forget(k)) \/ (\E f \in Conns : Expire(f)) \/ UNCHANGED vars
  BY <1>9, <1>b DEF Forget, Expire, vars
<1> QED
  BY <1>1, <1>2, <1>3, <1>4, <1>5, <1>6, <1>7, <1>8, <1>9 DEF Next, WorkerStep

LEMMA StepFits == Types /\ Handling /\ Fits /\ [Next]_vars => Fits'
<1> SUFFICES ASSUME Types, Handling, Fits, [Next]_vars PROVE Fits'
  OBVIOUS
<1>0. /\ received \in [Workers -> Seq(AllParts)] /\ cache \in [Paths -> Seq(AllParts)]
      /\ Len(<<>>) <= MAX_RESPONSE_SIZE
  BY SizeAssumption DEF Types
<1> USE DEF Fits, Go, Refuse, connVars, doneVars
<1>1. ASSUME NEW w \in Workers, Recv(w) PROVE Fits'
  BY <1>0, <1>1, RecvEffect DEF Recv
<1>2. ASSUME NEW w \in Workers, Send(w) \/ End(w) PROVE Fits'
  BY <1>0, <1>2 DEF Send, End
<1>3. ASSUME NEW w \in Workers, Add(w) PROVE Fits'
  BY <1>0, <1>3 DEF Add
<1>4. ASSUME NEW k \in Paths, Forget(k) PROVE Fits'
  BY <1>0, <1>4 DEF Forget, None
<1>5. CASE UNCHANGED <<received, cache>>
  BY <1>5
<1>6. ASSUME NEW w \in Workers,
             \/ Invalid(w) \/ ParseFails(w) \/ CreateFails(w) \/ BadGateway(w) \/ Parse(w) \/ AnswerFromCache(w)
             \/ Miss(w) \/ Reuse(w) \/ Create(w) \/ CreateConnFails(w) \/ SendFails(w) \/ RecvEnds(w)
             \/ NoResponse(w) \/ Answer(w) \/ Return(w)
      PROVE  UNCHANGED <<received, cache>>
  BY <1>6 DEF Invalid, ParseFails, CreateFails, BadGateway, Parse, AnswerFromCache, Miss, Reuse, Create,
     CreateConnFails, SendFails, RecvEnds, NoResponse, Abort, Answer, Return
<1>7. CASE \/ \E w \in Workers, c \in Clients : ClientGone(w, c) \/ \E much \in Pieces : Receive(w, c, much)
           \/ \E f \in Conns : Expire(f)
           \/ UNCHANGED vars
  BY <1>5, <1>7 DEF ClientGone, Receive, Expire, vars
<1> QED
  BY <1>1, <1>2, <1>3, <1>4, <1>5, <1>6, <1>7 DEF Next, WorkerStep

-----------------------------------------------------------------------------
(* Where parts come from.                                                  *)

LEMMA NoElements == ToSet(<<>>) = {}
BY DEF ToSet

\* The server that is asked answers the request of the worker's client.
LEMMA ResponseOwn ==
  ASSUME NEW c \in Clients, NEW p \in ToSet(Response(RequestOf[c], Server(RequestOf[c].host)))
  PROVE  Own(p, c)
BY DEF Response, Part, Own, ToSet

LEMMA OwnPath ==
  ASSUME NEW c \in Clients, NEW p, Own(p, c)
  PROVE  p.path = RequestOf[c].path
BY DEF Own

\* The unread parts of a connection that is closed are gone.
LEMMA CloseEffect ==
  ASSUME Types, NEW f \in Conns, CloseConn(f)
  PROVE  stream'[f] = <<>> /\ \A g \in Conns \ {f} : stream'[g] = stream[g]
BY DEF Types, CloseConn

LEMMA LeftoverGrows == [Next]_vars => leftover \subseteq leftover'
<1> SUFFICES ASSUME [Next]_vars PROVE leftover \subseteq leftover'
  OBVIOUS
<1> USE DEF Refuse
<1>1. ASSUME NEW w \in Workers, WorkerStep(w) PROVE leftover \subseteq leftover'
  BY <1>1 DEF WorkerStep, Invalid, ParseFails, CreateFails, BadGateway, Parse, AnswerFromCache, Miss, Reuse,
     Create, CreateConnFails, Send, SendFails, NoResponse, Abort, Recv, RecvEnds, Answer, Add, Return, End
<1>2. CASE \/ \E w \in Workers, c \in Clients : ClientGone(w, c) \/ \E much \in Pieces : Receive(w, c, much)
           \/ (\E k \in Paths : Forget(k)) \/ (\E f \in Conns : Expire(f)) \/ UNCHANGED vars
  BY <1>2 DEF ClientGone, Receive, Forget, Expire, vars
<1> QED
  BY <1>1, <1>2 DEF Next

LEMMA StepSources == Types /\ Handling /\ Sources /\ [Next]_vars => Sources'
<1> SUFFICES ASSUME Types, Handling, Sources, [Next]_vars PROVE Sources'
  OBVIOUS
<1>0. /\ pc \in [Workers -> Places] /\ client \in [Workers -> Clients \cup {NoClient}]
      /\ conn \in [Workers -> Conns \cup {NoConn}] /\ idle \subseteq Conns
      /\ stream \in [Conns -> Seq(AllParts)]
      /\ received \in [Workers -> Seq(AllParts)]
      /\ cache \in [Paths -> Seq(AllParts)]
      /\ \A w \in Workers : /\ pc[w] \in Connected => conn[w] \in Conns \ idle
                            /\ pc[w] \notin Connected => conn[w] = NoConn
      /\ \A v, w \in Workers : v # w /\ conn[v] = conn[w] => conn[v] = NoConn
      /\ leftover \subseteq leftover'
      /\ NoConn \notin Conns
  BY NobodyAssumption, LeftoverGrows DEF Types, Handling
<1>s. /\ \A f \in Unused : stream[f] = <<>>
      /\ \A f \in idle : ToSet(stream[f]) \subseteq leftover
      /\ \A w \in Workers : pc[w] \in Connected => \A p \in ToSet(stream[conn[w]]) : Own(p, client[w]) \/ p \in leftover
      /\ \A w \in Workers : pc[w] \in Connected \ {"send"} =>
                             \A p \in ToSet(received[w]) : Own(p, client[w]) \/ p \in leftover
      /\ \A k \in Paths : \A p \in ToSet(cache[k]) : p \in leftover \/ p.path = k
  BY DEF Sources, Honest
\* What is unread in connections without a worker; a worker that the step does not
\* touch; one that it does; the cache.
<1> DEFINE Quiet == /\ \A f \in Unused' : stream'[f] = <<>>
                    /\ \A f \in idle' : ToSet(stream'[f]) \subseteq leftover'
           Same(v) == pc'[v] \in Connected =>
                        /\ pc[v] \in Connected /\ (pc'[v] # "send" => pc[v] # "send")
                        /\ client'[v] = client[v] /\ conn'[v] = conn[v] /\ received'[v] = received[v]
                        /\ stream'[conn[v]] = stream[conn[v]]
           Mine(v) == /\ pc'[v] \in Connected =>
                           \A p \in ToSet(stream'[conn'[v]]) : Own(p, client'[v]) \/ p \in leftover'
                      /\ pc'[v] \in Connected \ {"send"} =>
                           \A p \in ToSet(received'[v]) : Own(p, client'[v]) \/ p \in leftover'
           Cached == \A k \in Paths : \A p \in ToSet(cache'[k]) : p \in leftover' \/ p.path = k
<1>a. ASSUME Quiet, Cached, \A v \in Workers : Same(v) \/ Mine(v) PROVE Sources'
  <2>1. ASSUME NEW v \in Workers PROVE Mine(v)
    <3>1. CASE Mine(v)
      BY <3>1
    <3>2. CASE Same(v)
      BY <1>0, <1>s, <3>2
    <3> QED
      BY <1>a, <3>1, <3>2
  <2> HIDE DEF Quiet, Cached
  <2> QED
    BY <1>a, <2>1 DEF Sources, Honest, Own, Unused, Quiet, Cached
<1>b. cache' = cache => Cached
  BY <1>0, <1>s
<1>c. ASSUME UNCHANGED <<conn, stream, idle>>, Cached, \A v \in Workers : Same(v) PROVE Sources'
  <2>1. Quiet
    BY <1>0, <1>c, <1>s DEF Unused
  <2> QED
    BY <1>a, <1>c, <2>1
<1> USE DEF Go, Refuse, connVars, doneVars
<1>1. ASSUME NEW w \in Workers, NEW c \in Clients,
             ClientGone(w, c) \/ \E much \in Pieces : Receive(w, c, much)
      PROVE  Sources'
  <2>1. \A v \in Workers : Same(v)
    BY <1>0, <1>1 DEF ClientGone, Receive, Connected
  <2> QED
    BY <1>1, <1>b, <1>c, <2>1 DEF ClientGone, Receive
<1>2. ASSUME NEW w \in Workers,
             \/ Invalid(w) \/ ParseFails(w) \/ CreateFails(w) \/ BadGateway(w) \/ Parse(w) \/ AnswerFromCache(w)
             \/ Miss(w) \/ CreateConnFails(w) \/ RecvEnds(w) \/ Answer(w) \/ End(w)
      PROVE  Sources'
  <2>1. UNCHANGED <<conn, stream, idle, cache>>
    BY <1>2 DEF Invalid, ParseFails, CreateFails, BadGateway, Parse, AnswerFromCache, Miss, CreateConnFails,
       RecvEnds, Answer, End
  <2>2. \A v \in Workers : Same(v)
    <3>1. CASE End(w)
      BY <1>0, <3>1 DEF End, Connected
    <3>2. CASE ~ End(w)
      BY <1>0, <1>2, <3>2 DEF Invalid, ParseFails, CreateFails, BadGateway, Parse, AnswerFromCache, Miss,
         CreateConnFails, RecvEnds, Answer, Connected
    <3> QED
      BY <3>1, <3>2
  <2> QED
    BY <1>b, <1>c, <2>1, <2>2
<1>3. ASSUME NEW k \in Paths, Forget(k) PROVE Sources'
  <2>1. Cached
    BY <1>0, <1>3, <1>s, NoElements DEF Forget, None
  <2>2. \A v \in Workers : Same(v)
    BY <1>3 DEF Forget
  <2> QED
    BY <1>3, <1>c, <2>1, <2>2 DEF Forget
<1>4. ASSUME NEW w \in Workers, Add(w) PROVE Sources'
  <2>1. /\ client[w] \in Clients /\ Key(w) = RequestOf[client[w]].path
        /\ pc[w] = "add" /\ pc[w] \in Connected \ {"send"}
    BY <1>4, InHand DEF Add, Parsed, Connected
  <2>2. \A p \in ToSet(received[w]) : p \in leftover \/ p.path = Key(w)
    BY <1>s, <2>1, OwnPath
  <2>3. Cached
    BY <1>0, <1>4, <1>s, <2>2 DEF Add
  <2>4. \A v \in Workers : Same(v)
    BY <1>0, <1>4 DEF Add, Connected
  <2> QED
    BY <1>4, <1>c, <2>3, <2>4 DEF Add
\* The steps that move a connection: the other workers have others.
<1>d. ASSUME NEW w \in Workers, NEW v \in Workers \ {w}, pc[v] \in Connected,
             conn[w] \in Conns
      PROVE  conn[v] # conn[w] /\ conn[v] \in Conns
  BY <1>0, <1>d
<1>5. ASSUME NEW w \in Workers, Reuse(w) PROVE Sources'
  <2>1. PICK f \in idle : /\ conn' = [conn EXCEPT ![w] = f] /\ idle' = idle \ {f}
    BY <1>5 DEF Reuse
  <2>2. conn[w] = NoConn /\ pc'[w] = "send" /\ conn'[w] = f /\ f \in Conns
    BY <1>0, <1>5, <2>1 DEF Reuse, Connected
  <2>3. Unused' = Unused /\ stream' = stream
    BY <1>0, <1>5, <2>1, <2>2 DEF Reuse, Unused
  <2>4. Quiet
    BY <1>0, <1>s, <2>1, <2>3
  <2>5. \A v \in Workers \ {w} : Same(v)
    BY <1>0, <1>5, <2>1 DEF Reuse
  <2>6. Mine(w)
    BY <1>0, <1>s, <2>2, <2>3
  <2>7. Cached
    BY <1>5, <1>b DEF Reuse
  <2> QED
    BY <1>a, <2>4, <2>5, <2>6, <2>7
<1>6. ASSUME NEW w \in Workers, Create(w) PROVE Sources'
  <2>1. PICK f \in Unused : conn' = [conn EXCEPT ![w] = f]
    BY <1>6 DEF Create
  <2>2. conn[w] = NoConn /\ pc'[w] = "send" /\ conn'[w] = f /\ f \in Conns
    BY <1>0, <1>6, <2>1 DEF Create, Connected, Unused
  <2>3. Unused' \subseteq Unused /\ stream' = stream /\ idle' = idle
    BY <1>0, <1>6, <2>1, <2>2 DEF Create, Unused
  <2>4. Quiet
    BY <1>0, <1>s, <2>3
  <2>5. \A v \in Workers \ {w} : Same(v)
    BY <1>0, <1>6, <2>1 DEF Create
  <2>6. Mine(w)
    BY <1>s, <2>1, <2>2, <2>3, NoElements
  <2>7. Cached
    BY <1>6, <1>b DEF Create
  <2> QED
    BY <1>a, <2>4, <2>5, <2>6, <2>7
<1>7. ASSUME NEW f \in Conns, Expire(f) PROVE Sources'
  <2>1. stream'[f] = <<>> /\ \A g \in Conns \ {f} : stream'[g] = stream[g]
    BY <1>7, CloseEffect DEF Expire
  <2>2. /\ idle' = idle \ {f} /\ f \in idle /\ Unused' = Unused \cup {f}
    BY <1>0, <1>7 DEF Expire, Unused
  <2>3. Quiet
    <3>1. \A g \in Unused \cup (idle \ {f}) : g \in Conns \ {f} /\ stream'[g] = stream[g]
      BY <1>0, <2>1, <2>2 DEF Unused
    <3>2. \A g \in Unused' : stream'[g] = <<>>
      BY <1>s, <2>1, <2>2, <3>1
    <3>3. \A g \in idle' : ToSet(stream'[g]) \subseteq leftover'
      BY <1>0, <1>s, <2>2, <3>1
    <3> QED
      BY <3>2, <3>3
  <2>4. \A v \in Workers : Same(v)
    BY <1>0, <1>7, <2>1, <2>2 DEF Expire
  <2>5. Cached
    BY <1>7, <1>b DEF Expire
  <2> QED
    BY <1>a, <2>3, <2>4, <2>5
<1>8. ASSUME NEW w \in Workers, SendFails(w) \/ NoResponse(w) PROVE Sources'
  <2>1. /\ pc[w] \in Connected /\ pc' = [pc EXCEPT ![w] = "failed"] /\ Abort(w)
        /\ conn[w] \in Conns
    BY <1>0, <1>8 DEF SendFails, NoResponse, Connected
  <2>2. stream'[conn[w]] = <<>> /\ \A g \in Conns \ {conn[w]} : stream'[g] = stream[g]
    BY <2>1, CloseEffect DEF Abort
  <2>3. /\ conn' = [conn EXCEPT ![w] = NoConn] /\ idle' = idle
        /\ UNCHANGED <<client, received, cache>>
    BY <2>1 DEF Abort
  <2>4. Unused' \subseteq Unused \cup {conn[w]}
    BY <1>0, <2>3 DEF Unused
  <2>5. Quiet
    <3>1. \A g \in (Unused \cup idle) \ {conn[w]} : stream'[g] = stream[g]
      BY <1>0, <2>2 DEF Unused
    <3>2. \A g \in Unused' : stream'[g] = <<>>
      BY <1>s, <2>2, <2>4, <3>1
    <3>3. \A g \in idle' : ToSet(stream'[g]) \subseteq leftover'
      BY <1>0, <1>s, <2>1, <2>3, <3>1
    <3> QED
      BY <3>2, <3>3
  <2>6. \A v \in Workers \ {w} : Same(v)
    BY <1>0, <1>d, <2>1, <2>2, <2>3
  <2>7. Mine(w)
    BY <1>0, <2>1 DEF Connected
  <2> QED
    BY <1>a, <1>b, <2>3, <2>5, <2>6, <2>7
<1>9. ASSUME NEW w \in Workers, Return(w) PROVE Sources'
  <2>1. /\ pc[w] \in Connected /\ pc' = [pc EXCEPT ![w] = "end"]
        /\ conn[w] \in Conns
        /\ conn' = [conn EXCEPT ![w] = NoConn]
        /\ UNCHANGED <<client, received, cache>>
    BY <1>0, <1>9 DEF Return, Connected
  <2>2. /\ \A v \in Workers \ {w} : conn'[v] = conn[v]
        /\ Unused' \subseteq Unused \cup {conn[w]}
        /\ idle' = idle \cup {conn[w]} => Unused' \subseteq Unused
    <3>1. idle \subseteq idle'
      BY <1>9 DEF Return
    <3> QED
      BY <1>0, <2>1, <3>1 DEF Unused
  <2>3. CASE /\ idle' = idle \cup {conn[w]} /\ leftover' = leftover \cup ToSet(stream[conn[w]])
             /\ stream' = stream
    <3>1. Quiet
      BY <1>0, <1>s, <2>2, <2>3
    <3>2. \A v \in Workers \ {w} : Same(v)
      BY <1>0, <2>1, <2>3
    <3>3. Mine(w)
      BY <1>0, <2>1 DEF Connected
    <3> QED
      BY <1>a, <1>b, <2>1, <3>1, <3>2, <3>3
  <2>4. CASE CloseConn(conn[w]) /\ idle' = idle
    <3>1. stream'[conn[w]] = <<>> /\ \A g \in Conns \ {conn[w]} : stream'[g] = stream[g]
      BY <2>1, <2>4, CloseEffect
    <3>2. Quiet
      <4>1. \A g \in (Unused \cup idle) \ {conn[w]} : stream'[g] = stream[g]
        BY <1>0, <3>1 DEF Unused
      <4>2. \A g \in Unused' : stream'[g] = <<>>
        BY <1>s, <2>2, <3>1, <4>1
      <4>3. \A g \in idle' : ToSet(stream'[g]) \subseteq leftover'
        BY <1>0, <1>s, <2>1, <2>4, <4>1
      <4> QED
        BY <4>2, <4>3
    <3>3. \A v \in Workers \ {w} : Same(v)
      BY <1>0, <1>d, <2>1, <3>1
    <3>4. Mine(w)
      BY <1>0, <2>1 DEF Connected
    <3> QED
      BY <1>a, <1>b, <2>1, <3>2, <3>3, <3>4
  <2> QED
    BY <1>9, <2>3, <2>4 DEF Return
<1>10. ASSUME NEW w \in Workers, Recv(w) PROVE Sources'
  <2>1. /\ pc[w] = "recv" /\ pc[w] \in Connected \ {"send"} /\ conn[w] \in Conns
        /\ UNCHANGED <<client, conn, idle, cache>>
    BY <1>0, <1>10 DEF Recv, Connected
  <2>2. PICK got \in Seq(AllParts), rest \in Seq(AllParts) :
          /\ received' = [received EXCEPT ![w] = got]
          /\ stream' = [stream EXCEPT ![conn[w]] = rest]
          /\ ToSet(got) \subseteq ToSet(received[w]) \cup ToSet(stream[conn[w]])
          /\ ToSet(rest) \subseteq ToSet(stream[conn[w]])
          /\ pc' \in {[pc EXCEPT ![w] = "recv"], [pc EXCEPT ![w] = "answer"]}
    BY <1>10, RecvEffect
  <2>3. /\ received'[w] = got /\ stream'[conn[w]] = rest
        /\ \A g \in Conns \ {conn[w]} : stream'[g] = stream[g]
        /\ \A v \in Workers \ {w} : received'[v] = received[v] /\ pc'[v] = pc[v]
    BY <1>0, <2>1, <2>2
  <2>4. Quiet
    <3>1. Unused' = Unused /\ conn[w] \notin Unused /\ conn[w] \notin idle
      BY <1>0, <2>1 DEF Unused
    <3>2. \A f \in Unused \cup idle : stream'[f] = stream[f]
      BY <1>0, <2>3, <3>1 DEF Unused
    <3> QED
      BY <1>0, <1>s, <2>1, <3>1, <3>2
  <2>5. \A v \in Workers \ {w} : Same(v)
    BY <1>0, <1>d, <2>1, <2>3
  <2>6. Mine(w)
    BY <1>0, <1>s, <2>1, <2>2, <2>3
  <2> QED
    BY <1>a, <1>b, <2>1, <2>4, <2>5, <2>6
<1>11. ASSUME NEW w \in Workers, Send(w) PROVE Sources'
  <2> DEFINE c == client[w]
             f == conn[w]
             r == Response(RequestOf[c], Server(RequestOf[c].host))
  <2>1. /\ pc[w] \in Connected /\ pc' = [pc EXCEPT ![w] = "recv"]
        /\ UNCHANGED <<client, conn, idle, cache>>
        /\ received' = [received EXCEPT ![w] = <<>>]
    BY <1>11 DEF Send, Connected
  <2>2. /\ c \in Clients /\ f \in Conns
        /\ request[w] = RequestOf[c] /\ target[f] = Server(RequestOf[c].host)
        /\ RequestOf[c] \in Requests /\ Server(RequestOf[c].host) \in Servers
    <3>1. pc[w] # "idle" /\ pc[w] \in Parsed
      BY <1>11 DEF Send, Parsed, Connected
    <3> QED
      BY <2>1, <3>1, InHand, RequestTypes
  <2>3. stream' = [stream EXCEPT ![f] = @ \o <<>>] \/ stream' = [stream EXCEPT ![f] = @ \o r]
    BY <1>11, <2>2 DEF Send
  <2>4. r \in Seq(AllParts) /\ \A p \in ToSet(r) : Own(p, c)
    BY <2>2, ResponseType, ResponseOwn
  <2>5. stream[f] \in Seq(AllParts) /\ <<>> \in Seq(AllParts)
    BY <1>0, <2>2
  <2> HIDE DEF r
  <2>6. \A p \in ToSet(stream'[f]) : p \in ToSet(stream[f]) \/ Own(p, c)
    <3>1. ToSet(stream[f] \o <<>>) = ToSet(stream[f]) \cup ToSet(<<>>)
      BY <2>5, ConcatElements
    <3>2. ToSet(stream[f] \o r) = ToSet(stream[f]) \cup ToSet(r)
      BY <2>4, <2>5, ConcatElements
    <3>3. stream'[f] = stream[f] \o <<>> \/ stream'[f] = stream[f] \o r
      BY <1>0, <2>2, <2>3
    <3> QED
      BY <2>4, <3>1, <3>2, <3>3, NoElements
  <2>7. \A g \in Conns \ {f} : stream'[g] = stream[g]
    BY <1>0, <2>3
  <2>8. Quiet
    <3>1. Unused' = Unused /\ f \notin Unused /\ f \notin idle
      BY <1>0, <2>1 DEF Unused
    <3>2. \A g \in Unused \cup idle : stream'[g] = stream[g]
      BY <1>0, <2>7, <3>1 DEF Unused
    <3> QED
      BY <1>0, <1>s, <2>1, <3>1, <3>2
  <2>9. \A v \in Workers \ {w} : Same(v)
    BY <1>0, <1>d, <2>1, <2>2, <2>7
  <2>10. Mine(w)
    BY <1>0, <1>s, <2>1, <2>6, NoElements
  <2> QED
    BY <1>a, <1>b, <2>1, <2>8, <2>9, <2>10
<1>12. CASE UNCHANGED vars
  <2>1. \A v \in Workers : Same(v)
    BY <1>12 DEF vars
  <2> QED
    BY <1>12, <1>b, <1>c, <2>1 DEF vars
<1> HIDE DEF Quiet, Same, Mine, Cached
<1> QED
  BY <1>1, <1>2, <1>3, <1>4, <1>5, <1>6, <1>7, <1>8, <1>9, <1>10, <1>11, <1>12 DEF Next, WorkerStep

-----------------------------------------------------------------------------
(* What clients are sent.                                                  *)

\* A step takes no answer back, and adds an error, what is cached for the path or
\* what was received.
LEMMA AnswerEffect ==
  ASSUME Types, Handling, [Next]_vars, NEW c \in Clients
  PROVE  /\ ToSet(answers[c]) \subseteq ToSet(answers'[c])
         /\ \A a \in ToSet(answers'[c]) :
              \/ a \in ToSet(answers[c])
              \/ a.parts = <<>>
              \/ \E w \in Workers : client[w] = c /\ pc[w] = "lookup" /\ a = Success(cache[Key(w)])
              \/ \E w \in Workers : client[w] = c /\ pc[w] = "answer" /\ a = Success(received[w])
<1> DEFINE Goal == /\ ToSet(answers[c]) \subseteq ToSet(answers'[c])
                   /\ \A a \in ToSet(answers'[c]) :
                        \/ a \in ToSet(answers[c])
                        \/ a.parts = <<>>
                        \/ \E w \in Workers : client[w] = c /\ pc[w] = "lookup" /\ a = Success(cache[Key(w)])
                        \/ \E w \in Workers : client[w] = c /\ pc[w] = "answer" /\ a = Success(received[w])
<1>1. ASSUME NEW w \in Workers, NEW b \in AnswerSet, Say(w, b), pc[w] # "idle",
             \/ b.parts = <<>>
             \/ pc[w] = "lookup" /\ b = Success(cache[Key(w)])
             \/ pc[w] = "answer" /\ b = Success(received[w])
      PROVE  Goal
  <2>1. client[w] \in Clients
    BY <1>1, InHand
  <2>2. /\ ToSet(answers'[client[w]]) = ToSet(answers[client[w]]) \cup {b}
        /\ \A d \in Clients \ {client[w]} : answers'[d] = answers[d]
    BY <1>1, <2>1, SayEffect
  <2>3. CASE c = client[w]
    BY <1>1, <2>2, <2>3
  <2>4. CASE c # client[w]
    BY <2>2, <2>4
  <2> QED
    BY <2>3, <2>4
<1>2. answers' = answers => Goal
  OBVIOUS
<1> HIDE DEF Goal
<1> USE DEF Go, Refuse, connVars, doneVars
<1>3. ASSUME NEW w \in Workers, Invalid(w) \/ ParseFails(w) \/ CreateFails(w) \/ BadGateway(w) PROVE Goal
  <2>1. PICK code \in {400, 500, 502} : Say(w, Failure(code))
    BY <1>3 DEF Invalid, ParseFails, CreateFails, BadGateway
  <2>2. Failure(code) \in AnswerSet /\ Failure(code).parts = <<>>
    BY ErrorAnswers DEF Failure
  <2>3. pc[w] # "idle"
    BY <1>3 DEF Invalid, ParseFails, CreateFails, BadGateway
  <2> QED
    BY <1>1, <2>1, <2>2, <2>3
<1>4. ASSUME NEW w \in Workers, AnswerFromCache(w) PROVE Goal
  <2>1. pc[w] = "lookup" /\ Say(w, Success(cache[Key(w)]))
    BY <1>4 DEF AnswerFromCache
  <2>2. cache[Key(w)] \in Seq(AllParts)
    BY <2>1, InHand DEF Parsed, Types
  <2> QED
    BY <1>1, <2>1, <2>2, SuccessAnswers
<1>5. ASSUME NEW w \in Workers, Answer(w) PROVE Goal
  <2>1. pc[w] = "answer" /\ Say(w, Success(received[w])) /\ received[w] \in Seq(AllParts)
    BY <1>5 DEF Answer, Types
  <2> QED
    BY <1>1, <2>1, SuccessAnswers
<1>6. ASSUME NEW w \in Workers,
             \/ Parse(w) \/ Miss(w) \/ Reuse(w) \/ Create(w) \/ CreateConnFails(w) \/ Send(w)
             \/ SendFails(w) \/ Recv(w) \/ RecvEnds(w) \/ NoResponse(w) \/ Add(w) \/ Return(w) \/ End(w)
      PROVE  answers' = answers
  BY <1>6 DEF Parse, Miss, Reuse, Create, CreateConnFails, Send, SendFails, Recv, RecvEnds, NoResponse,
     Abort, Add, Return, End
<1>7. ASSUME \/ \E w \in Workers, d \in Clients : ClientGone(w, d) \/ \E much \in Pieces : Receive(w, d, much)
             \/ (\E k \in Paths : Forget(k)) \/ (\E f \in Conns : Expire(f)) \/ UNCHANGED vars
      PROVE  Goal
  BY <1>2, <1>7 DEF ClientGone, Receive, Forget, Expire, vars
<1>8. ASSUME NEW w \in Workers, WorkerStep(w) PROVE Goal
  BY <1>2, <1>3, <1>4, <1>5, <1>6, <1>8 DEF WorkerStep
<1>9. Goal
  BY <1>7, <1>8 DEF Next
<1> QED
  BY <1>9 DEF Goal

LEMMA StepRepeats == Types /\ Handling /\ Repeats /\ [Next]_vars => Repeats'
<1> SUFFICES ASSUME Types, Handling, Repeats, [Next]_vars PROVE Repeats'
  OBVIOUS
<1>0. /\ pc \in [Workers -> Places] /\ client \in [Workers -> Clients \cup {NoClient}]
      /\ received \in [Workers -> Seq(AllParts)] /\ cache \in [Paths -> Seq(AllParts)]
      /\ answers \in [Clients -> Seq(AnswerSet)]
      /\ \A w \in Workers : pc[w] = "add" => client[w] \in Clients
      /\ \A c \in Clients : ToSet(answers[c]) \subseteq ToSet(answers'[c])
  BY InHand, AnswerEffect DEF Types
<1>s. /\ \A w \in Workers : pc[w] = "add" => Success(received[w]) \in ToSet(answers[client[w]])
      /\ \A k \in Paths : cache[k] # None =>
           \E c \in Clients : RequestOf[c].path = k /\ Success(cache[k]) \in ToSet(answers[c])
  BY DEF Repeats, CacheRepeatsAnswers
<1> DEFINE Same(v) == pc'[v] = "add" => pc[v] = "add" /\ client'[v] = client[v] /\ received'[v] = received[v]
           Kept(k) == cache'[k] = cache[k] \/ cache'[k] = None
<1>a. ASSUME NEW v \in Workers, Same(v), pc'[v] = "add"
      PROVE  Success(received'[v]) \in ToSet(answers'[client'[v]])
  <2>1. /\ Success(received[v]) \in ToSet(answers[client[v]]) /\ client[v] \in Clients
        /\ received'[v] = received[v] /\ client'[v] = client[v]
    BY <1>0, <1>a, <1>s
  <2> QED
    BY <1>0, <2>1
<1>b. ASSUME NEW k \in Paths, Kept(k), cache'[k] # None
      PROVE  \E c \in Clients : RequestOf[c].path = k /\ Success(cache'[k]) \in ToSet(answers'[c])
  <2>1. cache'[k] = cache[k] /\ cache[k] # None
    BY <1>b
  <2>2. PICK c \in Clients : RequestOf[c].path = k /\ Success(cache[k]) \in ToSet(answers[c])
    BY <1>s, <2>1
  <2>3. Success(cache'[k]) = Success(cache[k])
    BY <2>1 DEF Success
  <2> QED
    BY <1>0, <2>2, <2>3
<1>c. ASSUME \A v \in Workers : Same(v), \A k \in Paths : Kept(k) PROVE Repeats'
  BY <1>a, <1>b, <1>c DEF Repeats, CacheRepeatsAnswers, Success, None
<1> USE DEF Go, Refuse, connVars, doneVars
<1>1. ASSUME NEW w \in Workers, Answer(w) PROVE Repeats'
  <2>1. /\ pc[w] = "answer" /\ client[w] \in Clients /\ received[w] \in Seq(AllParts)
        /\ Success(received[w]) \in AnswerSet
    BY <1>0, <1>1, InHand, SuccessAnswers DEF Answer
  <2>5. Say(w, Success(received[w]))
    BY <1>1 DEF Answer
  <2>6. Success(received[w]) \in ToSet(answers'[client[w]])
    BY <2>1, <2>5, SayEffect
  <2>2. /\ client' = client /\ received' = received /\ cache' = cache /\ pc' = [pc EXCEPT ![w] = "add"]
    BY <1>1 DEF Answer
  <2>3. \A v \in Workers \ {w} : Same(v)
    BY <1>0, <2>2
  <2>4. ASSUME NEW v \in Workers, pc'[v] = "add"
        PROVE  Success(received'[v]) \in ToSet(answers'[client'[v]])
    <3>1. CASE v = w
      BY <2>2, <2>6, <3>1 DEF Success
    <3>2. CASE v # w
      BY <1>a, <2>3, <2>4, <3>2
    <3> QED
      BY <3>1, <3>2
  <2> QED
    BY <1>b, <2>2, <2>4 DEF Repeats, CacheRepeatsAnswers, Success, None
<1>2. ASSUME NEW w \in Workers, Add(w) PROVE Repeats'
  <2>1. /\ pc[w] = "add" /\ client[w] \in Clients
        /\ Key(w) = RequestOf[client[w]].path /\ Key(w) \in Paths
    BY <1>2, InHand DEF Add, Parsed, Connected
  <2>2. /\ pc' = [pc EXCEPT ![w] = "return"] /\ UNCHANGED <<client, received>>
        /\ cache' = [cache EXCEPT ![Key(w)] = received[w]] \/ cache' = cache
    BY <1>2 DEF Add
  <2>3. \A v \in Workers : Same(v)
    BY <1>0, <2>2
  <2>4. ASSUME NEW k \in Paths, cache'[k] # None
        PROVE  \E c \in Clients : RequestOf[c].path = k /\ Success(cache'[k]) \in ToSet(answers'[c])
    <3>1. CASE Kept(k)
      BY <1>b, <2>4, <3>1
    <3>2. CASE ~ Kept(k)
      <4>1. k = Key(w) /\ cache'[k] = received[w]
        BY <1>0, <2>1, <2>2, <3>2
      <4>2. Success(cache'[k]) = Success(received[w])
        BY <4>1 DEF Success
      <4>3. Success(received[w]) \in ToSet(answers'[client[w]])
        BY <1>0, <1>s, <2>1
      <4> QED
        BY <2>1, <4>1, <4>2, <4>3
    <3> QED
      BY <3>1, <3>2
  <2> QED
    BY <1>a, <2>3, <2>4 DEF Repeats, CacheRepeatsAnswers, Success, None
<1>3. ASSUME NEW k \in Paths, Forget(k) PROVE Repeats'
  BY <1>0, <1>3, <1>c DEF Forget
<1>4. ASSUME NEW w \in Workers, End(w) PROVE Repeats'
  BY <1>0, <1>4, <1>c DEF End
<1>5. ASSUME NEW w \in Workers, Send(w) PROVE Repeats'
  BY <1>0, <1>5, <1>c DEF Send
<1>6. ASSUME NEW w \in Workers, Recv(w) PROVE Repeats'
  <2>1. /\ pc' \in {[pc EXCEPT ![w] = "recv"], [pc EXCEPT ![w] = "answer"]}
        /\ \A v \in Workers \ {w} : received'[v] = received[v]
        /\ client' = client /\ cache' = cache
    BY <1>0, <1>6, RecvEffect DEF Recv
  <2> QED
    BY <1>0, <1>c, <2>1
<1>7. ASSUME NEW w \in Workers,
             \/ Invalid(w) \/ ParseFails(w) \/ CreateFails(w) \/ BadGateway(w) \/ Parse(w) \/ AnswerFromCache(w)
             \/ Miss(w) \/ Reuse(w) \/ Create(w) \/ CreateConnFails(w) \/ SendFails(w) \/ NoResponse(w)
             \/ RecvEnds(w) \/ Return(w)
      PROVE  Repeats'
  <2>1. UNCHANGED <<client, received, cache>>
    BY <1>7 DEF Invalid, ParseFails, CreateFails, BadGateway, Parse, AnswerFromCache, Miss, Reuse, Create,
       CreateConnFails, SendFails, NoResponse, Abort, RecvEnds, Return
  <2>2. \A v \in Workers : pc'[v] = "add" => pc[v] = "add"
    BY <1>0, <1>7 DEF Invalid, ParseFails, CreateFails, BadGateway, Parse, AnswerFromCache, Miss, Reuse, Create,
       CreateConnFails, SendFails, NoResponse, RecvEnds, Return
  <2> QED
    BY <1>c, <2>1, <2>2
<1>8. ASSUME NEW w \in Workers, NEW c \in Clients,
             ClientGone(w, c) \/ \E much \in Pieces : Receive(w, c, much)
      PROVE  Repeats'
  BY <1>0, <1>8, <1>c DEF ClientGone, Receive
<1>9. CASE (\E f \in Conns : Expire(f)) \/ UNCHANGED vars
  BY <1>9, <1>c DEF Expire, vars
<1> HIDE DEF Same, Kept
<1> QED
  BY <1>1, <1>2, <1>3, <1>4, <1>5, <1>6, <1>7, <1>8, <1>9 DEF Next, WorkerStep

\* The step that keeps OwnUnlessLeftOver: what is answered is honest.
LEMMA StepOwn == Types /\ Handling /\ Sources /\ OwnUnlessLeftOver /\ [Next]_vars => OwnUnlessLeftOver'
<1> SUFFICES ASSUME Types, Handling, Sources, OwnUnlessLeftOver, [Next]_vars,
                    NEW c \in Clients, NEW p \in Parts(c)'
             PROVE  (Own(p, c) \/ p \in leftover \/ p.path = RequestOf[c].path)'
  BY DEF OwnUnlessLeftOver
<1>1. leftover \subseteq leftover'
  BY LeftoverGrows
<1>2. PICK a \in ToSet(answers'[c]) : p \in ToSet(a.parts)
  BY DEF Parts, ToSet
<1>3. ASSUME NEW w \in Workers, client[w] = c, pc[w] = "lookup", a = Success(cache[Key(w)])
      PROVE  p \in leftover \/ p.path = RequestOf[c].path
  <2>1. Key(w) = RequestOf[c].path /\ Key(w) \in Paths
    BY <1>3, InHand DEF Parsed
  <2>2. p \in ToSet(cache[Key(w)])
    BY <1>2, <1>3 DEF Success
  <2> QED
    BY <2>1, <2>2 DEF Sources
<1>4. ASSUME NEW w \in Workers, client[w] = c, pc[w] = "answer", a = Success(received[w])
      PROVE  Own(p, c) \/ p \in leftover
  <2>1. p \in ToSet(received[w])
    BY <1>2, <1>4 DEF Success
  <2> QED
    BY <1>4, <2>1 DEF Sources, Honest, Connected
<1>5. Own(p, c) \/ p \in leftover \/ p.path = RequestOf[c].path
  <2>1. CASE a \in ToSet(answers[c])
    <3>1. p \in Parts(c)
      BY <1>2, <2>1 DEF Parts, ToSet
    <3> QED
      BY <3>1 DEF OwnUnlessLeftOver
  <2>2. CASE a.parts = <<>>
    BY <1>2, <2>2, NoElements
  <2> QED
    BY <1>3, <1>4, <2>1, <2>2, AnswerEffect
<1> QED
  BY <1>1, <1>5 DEF Own

-----------------------------------------------------------------------------
(* The theorems.                                                           *)

\* What always holds, as one invariant.
Inv == Types /\ Handling /\ Account /\ Fits /\ Sources /\ Repeats /\ OwnUnlessLeftOver

LEMMA InitInv == Init => Inv
<1> SUFFICES ASSUME Init PROVE Inv
  OBVIOUS
<1>1. Types /\ Handling
  BY InitTypes
<1>2. /\ \A w \in Workers : pc[w] = "idle" /\ client[w] = NoClient /\ received[w] = <<>>
      /\ \A f \in Conns : stream[f] = <<>>
      /\ \A k \in Paths : cache[k] = <<>>
      /\ \A c \in Clients : answers[c] = <<>>
      /\ idle = {} /\ closed = {} /\ silent = {}
  BY DEF Init, None
<1>3. Account
  BY <1>2, NobodyAssumption DEF Account
<1>4. Fits
  BY <1>2, SizeAssumption DEF Fits
<1>5. Sources
  BY <1>2, NoElements DEF Sources, Unused, Connected
<1>6. Repeats
  BY <1>2 DEF Repeats, CacheRepeatsAnswers, None
<1>7. OwnUnlessLeftOver
  BY <1>2 DEF OwnUnlessLeftOver, Parts
<1> QED
  BY <1>1, <1>3, <1>4, <1>5, <1>6, <1>7 DEF Inv

LEMMA StepInv == Inv /\ [Next]_vars => Inv'
BY StepTypes, StepHandling, StepAccount, StepFits, StepSources, StepRepeats, StepOwn DEF Inv

LEMMA AlwaysInv == Spec => []Inv
BY InitInv, StepInv, PTL DEF Spec

\* Whatever the workers do, the types are right; in particular response_buffer never
\* overflows, and a worker holds a connection exactly while it talks on it.
THEOREM TypeCorrect == Spec => []TypeOK
<1>1. Inv => TypeOK
  <2> SUFFICES ASSUME Inv PROVE TypeOK
    OBVIOUS
  <2>1. ASSUME NEW s \in Seq(AllParts), Len(s) <= MAX_RESPONSE_SIZE PROVE s \in Buffers
    <3>1. s \in [1..Len(s) -> AllParts] /\ Len(s) \in 0..MAX_RESPONSE_SIZE
      BY <2>1, SizeAssumption, LenProperties
    <3> QED
      BY <3>1 DEF Buffers, BoundedSeq, SeqOf
  <2>2. received \in [Workers -> Buffers] /\ cache \in [Paths -> Buffers]
    BY <2>1 DEF Inv, Types, Fits
  <2>3. \A w \in Workers : IF pc[w] \in Connected THEN conn[w] \in Conns \ idle ELSE conn[w] = NoConn
    BY DEF Inv, Handling
  <2> QED
    BY <2>2, <2>3 DEF Inv, Types, TypeOK
<1> QED
  BY <1>1, AlwaysInv, PTL

\* Every client whose socket is closed got one answer, a response or an error, or none
\* if it went away (proxy_server.c:205-208, 381); and nobody gets two.
THEOREM Answered == Spec => []AnsweredOnce
<1>1. Inv => AnsweredOnce
  <2> SUFFICES ASSUME Inv, NEW c \in Clients
               PROVE  /\ Len(answers[c]) <= 1
                      /\ c \in closed => Len(answers[c]) = IF c \in silent THEN 0 ELSE 1
    BY DEF AnsweredOnce
  <2>1. CASE c \in Taken
    BY <2>1 DEF Inv, Account, Taken
  <2>2. CASE c \notin Taken
    BY <2>2 DEF Inv, Account, Taken
  <2> QED
    BY <2>1, <2>2
<1> QED
  BY <1>1, AlwaysInv, PTL

\* A client gets parts of another response in two ways only: they were unread in a
\* connection that was given back, or the cache kept them for the same path.
THEOREM StrayOnlyLeftOver == Spec => []OwnUnlessLeftOver
BY AlwaysInv, PTL DEF Inv

\* What the cache returns for a path was, whole, the answer to a client that asked for it.
THEOREM CacheFaithful == Spec => []CacheRepeatsAnswers
<1>1. Inv => CacheRepeatsAnswers
  BY DEF Inv, Repeats
<1> QED
  BY <1>1, AlwaysInv, PTL
=============================================================================
