--------------------------- MODULE RequestHandler ---------------------------
(***************************************************************************)
(* What a worker does with one client: handle_client_request and           *)
(* forward_request_to_server, from the recv of the request to the close of *)
(* the client's socket.  The parser, the cache and the connection pool are *)
(* here what they promise: a map that may forget, and a set of idle        *)
(* connections, each to the server under whose name it is kept.  How far   *)
(* they keep that promise is the subject of their own modules.             *)
(*                                                                         *)
(* The question is which bytes a client gets, so a response is a sequence  *)
(* of parts, each of which knows the request that it answers: the header   *)
(* with the blank line that ends it, and the body.  A connection is a      *)
(* stream of parts: what the server has sent, or will send, and nobody has *)
(* received.  recv returns some of them, or gives up after its timeout.    *)
(***************************************************************************)
EXTENDS Integers, Sequences, SequencesExt, FiniteSetsExt

CONSTANTS
  Workers,
  Clients,            \* bound: each one sends one request
  RequestOf,          \* per client: method, path (of the request line), host (header)
  Methods, Paths, Names, Ports,
  NoPort,             \* a Host header without a port
  Conns,              \* bound: connections to servers that exist at a time
  NoConn, NoClient,
  MAX_RESPONSE_SIZE   \* proxy_server.h:16, in parts

ASSUME RequestAssumption ==
  RequestOf \in [Clients -> [method : Methods, path : Paths,
                             host : [name : Names, port : Ports \cup {NoPort}]]]
ASSUME PortsAssumption == Ports \subseteq Int /\ NoPort \notin Ports
ASSUME NobodyAssumption == NoConn \notin Conns /\ NoClient \notin Clients
ASSUME SizeAssumption == MAX_RESPONSE_SIZE \in Nat \ {0}

VARIABLES
  pc, client,     \* per worker: where it is, and whose request it handles
  arrived,        \* per worker: how much of the request its one recv returned
  request,        \* per worker: the parsed request
  conn, received, \* per worker: server_socket, and response_buffer
  target, stream, \* per connection: its server, and the parts not yet received
  idle,           \* the connections in the pool
  cache,          \* the response cached for each path, or none
  answers,        \* per client: what was handed to send for it
  closed,         \* clients whose socket was closed
  silent,         \* history: clients whose recv failed
  leftover        \* history: parts still unread when their connection was pooled

connVars == <<target, stream, idle>>
doneVars == <<answers, closed, silent>>
vars == <<pc, client, arrived, request, conn, received, connVars, cache,
          doneVars, leftover>>

-----------------------------------------------------------------------------
(* Requests and responses.                                                 *)

ValidMethods == {"GET", "POST", "PUT", "DELETE", "HEAD"}

\* extract_host_port.
PortOf(p) == IF p = NoPort \/ p <= 0 \/ p > 65535 THEN 80 ELSE p
Server(h) == [name |-> h.name, port |-> PortOf(h.port)]

Part(r, s, kind) == [method |-> r.method, path |-> r.path, server |-> s, kind |-> kind]

\* The response of server s; there is no body for HEAD.
Response(r, s) == IF r.method = "HEAD" THEN <<Part(r, s, "header")>>
                  ELSE <<Part(r, s, "header"), Part(r, s, "body")>>

None == <<>>
NoServer == [name |-> NoConn, port |-> 0]
NoRequest == [method |-> "GET", path |-> NoClient, host |-> [name |-> NoConn, port |-> NoPort]]

Init == /\ pc = [w \in Workers |-> "idle"]
        /\ client = [w \in Workers |-> NoClient]
        /\ arrived = [w \in Workers |-> "whole"]
        /\ request = [w \in Workers |-> NoRequest]
        /\ conn = [w \in Workers |-> NoConn]
        /\ received = [w \in Workers |-> <<>>]
        /\ target = [f \in Conns |-> NoServer]
        /\ stream = [f \in Conns |-> <<>>]
        /\ idle = {}
        /\ cache = [k \in Paths |-> None]
        /\ answers = [c \in Clients |-> <<>>]
        /\ closed = {} /\ silent = {} /\ leftover = {}

Go(w, from, to) == pc[w] = from /\ pc' = [pc EXCEPT ![w] = to]

Say(w, a) == answers' = [answers EXCEPT ![client[w]] = Append(@, a)]
Failure(code) == [error |-> code, parts |-> <<>>]
Success(s)    == [error |-> 0, parts |-> s]

-----------------------------------------------------------------------------
(* handle_client_request: one recv, then validate_http_request.            *)

Taken == closed \cup {client[w] : w \in Workers}

\* The client went away without a request.
ClientGone(w, c) ==
  /\ pc[w] = "idle" /\ c \notin Taken
  /\ closed' = closed \cup {c}
  /\ silent' = silent \cup {c}
  /\ UNCHANGED <<pc, client, arrived, request, conn, received, connVars, cache,
                 answers, leftover>>

\* What has arrived by then: a piece of the method, of the first line, of the lines
\* before the Host header, or all that matters.
Pieces == {"method", "line", "headers", "whole"}
Valid(c, much) == much # "method" /\ RequestOf[c].method \in ValidMethods

Receive(w, c, much) ==
  /\ Go(w, "idle", IF Valid(c, much) THEN "parse" ELSE "invalid")
  /\ c \notin Taken
  /\ client' = [client EXCEPT ![w] = c]
  /\ arrived' = [arrived EXCEPT ![w] = much]
  /\ UNCHANGED <<request, conn, received, connVars, cache, doneVars, leftover>>

\* send_error_response of handle_client_request.
Refuse(w, code) ==
  /\ Say(w, Failure(code))
  /\ UNCHANGED <<client, arrived, request, conn, received, connVars, cache,
                 closed, silent, leftover>>

Invalid(w) == Go(w, "invalid", "end") /\ Refuse(w, 400)

\* No end of the first line, or no memory for the copy of the request.
ParseFails(w) == Go(w, "parse", "end") /\ Refuse(w, 400)

\* No memory for the ParsedRequest.
CreateFails(w) == Go(w, "parse", "end") /\ Refuse(w, 500)

\* ParsedRequest_parse, and the first checks of forward_request_to_server: without a
\* Host header there is nothing to forward.  (What strtok does when two threads parse
\* at once is the subject of RequestParser.)
Parse(w) ==
  /\ Go(w, "parse", IF arrived[w] = "whole" THEN "lookup" ELSE "failed")
  /\ arrived[w] # "line"
  /\ request' = [request EXCEPT ![w] = RequestOf[client[w]]]
  /\ UNCHANGED <<client, arrived, conn, received, connVars, cache, doneVars, leftover>>

-----------------------------------------------------------------------------
(* forward_request_to_server: the cache.  The key is the path of the       *)
(* request line.                                                           *)

Key(w) == request[w].path

\* Mutant: a hit does not return.
AnswerFromCacheGoesOn(w) ==
  /\ Go(w, "lookup", "connect") /\ cache[Key(w)] # None
  /\ Say(w, Success(cache[Key(w)]))
  /\ UNCHANGED <<client, arrived, request, conn, received, connVars, cache,
                 closed, silent, leftover>>

AnswerFromCache(w) ==
  /\ Go(w, "lookup", "end") /\ cache[Key(w)] # None
  /\ Say(w, Success(cache[Key(w)]))
  /\ UNCHANGED <<client, arrived, request, conn, received, connVars, cache,
                 closed, silent, leftover>>

Miss(w) ==
  /\ Go(w, "lookup", "connect") /\ cache[Key(w)] = None
  /\ UNCHANGED <<client, arrived, request, conn, received, connVars, cache,
                 doneVars, leftover>>

\* Eviction and expiry.
Forget(k) ==
  /\ cache[k] # None
  /\ cache' = [cache EXCEPT ![k] = None]
  /\ UNCHANGED <<pc, client, arrived, request, conn, received, connVars,
                 doneVars, leftover>>

-----------------------------------------------------------------------------
(* ... the connection.                                                     *)

Reuse(w) ==
  /\ Go(w, "connect", "send")
  /\ \E f \in idle : /\ target[f] = Server(request[w].host)
                     /\ conn' = [conn EXCEPT ![w] = f]
                     /\ idle' = idle \ {f}
  /\ UNCHANGED <<client, arrived, request, received, target, stream, cache,
                 doneVars, leftover>>

Unused == Conns \ (idle \cup {conn[w] : w \in Workers})

Create(w) ==
  /\ Go(w, "connect", "send")
  /\ \A f \in idle : target[f] # Server(request[w].host)
  /\ \E f \in Unused : /\ conn' = [conn EXCEPT ![w] = f]
                       /\ target' = [target EXCEPT ![f] = Server(request[w].host)]
  /\ UNCHANGED <<client, arrived, request, received, stream, idle, cache,
                 doneVars, leftover>>

CreateConnFails(w) ==
  /\ Go(w, "connect", "failed")
  /\ \A f \in idle : target[f] # Server(request[w].host)
  /\ UNCHANGED <<client, arrived, request, conn, received, connVars, cache,
                 doneVars, leftover>>

\* socket_close: what was not received is gone.
CloseConn(f) == /\ target' = [target EXCEPT ![f] = NoServer]
                /\ stream' = [stream EXCEPT ![f] = <<>>]

\* A pooled connection times out.
Expire(f) == /\ f \in idle
             /\ idle' = idle \ {f}
             /\ CloseConn(f)
             /\ UNCHANGED <<pc, client, arrived, request, conn, received, cache,
                            doneVars, leftover>>

-----------------------------------------------------------------------------
(* ... the exchange with the server.                                       *)

\* The server answers, or never does: it has closed a pooled connection (it was
\* told "Connection: close"), or it hangs.
Send(w) ==
  /\ Go(w, "send", "recv")
  /\ \E s \in {<<>>, Response(request[w], target[conn[w]])} :
       stream' = [stream EXCEPT ![conn[w]] = @ \o s]
  /\ received' = [received EXCEPT ![w] = <<>>]
  /\ UNCHANGED <<client, arrived, request, conn, target, idle, cache,
                 doneVars, leftover>>

\* Mutant: the connection is given back to the pool.
AbortKeepsConnection(w) ==
  /\ idle' = idle \cup {conn[w]}
  /\ conn' = [conn EXCEPT ![w] = NoConn]
  /\ UNCHANGED <<client, arrived, request, received, target, stream, cache,
                 doneVars, leftover>>

\* send fails, or nothing comes in time: the connection is closed.
Abort(w) ==
  /\ CloseConn(conn[w])
  /\ conn' = [conn EXCEPT ![w] = NoConn]
  /\ UNCHANGED <<client, arrived, request, received, idle, cache,
                 doneVars, leftover>>

SendFails(w) == Go(w, "send", "failed") /\ Abort(w)

\* Mutant: recv is called again.
NoResponseRetries(w) ==
  Go(w, "recv", "recv") /\ received[w] = <<>>
  /\ UNCHANGED <<client, arrived, request, conn, received, connVars, cache,
                 doneVars, leftover>>

NoResponse(w) == Go(w, "recv", "failed") /\ received[w] = <<>> /\ Abort(w)

\* Room for more in response_buffer.  Mutant: the same at every recv.
RoomAlways(w) == MAX_RESPONSE_SIZE

Room(w) == MAX_RESPONSE_SIZE - Len(received[w])

\* The loop ends with the first recv after which the buffer holds the end of a
\* header: total_received < 2048 or > 1024.
HeaderEnds(s) == \E i \in DOMAIN s : s[i].kind = "header"
Enough(s)     == HeaderEnds(s) \/ Len(s) = MAX_RESPONSE_SIZE

Recv(w) ==
  /\ pc[w] = "recv"
  /\ \E n \in 1..Min({Len(stream[conn[w]]), Room(w)}) :
       LET got == received[w] \o SubSeq(stream[conn[w]], 1, n)
       IN  /\ Go(w, "recv", IF Enough(got) THEN "answer" ELSE "recv")
           /\ received' = [received EXCEPT ![w] = got]
           /\ stream' = [stream EXCEPT ![conn[w]] = SubSeq(@, n + 1, Len(@))]
  /\ UNCHANGED <<client, arrived, request, conn, target, idle, cache,
                 doneVars, leftover>>

\* Nothing more comes in time, or the server has closed: that is the response.
RecvEnds(w) ==
  /\ Go(w, "recv", "answer") /\ received[w] # <<>>
  /\ UNCHANGED <<client, arrived, request, conn, received, connVars, cache,
                 doneVars, leftover>>

\* The response is handed to send.  If that fails, or takes a part only, the code
\* does no more than say so: it caches the response, pools the connection and
\* returns 0, as if the client had got it.
Answer(w) ==
  /\ Go(w, "answer", "add")
  /\ Say(w, Success(received[w]))
  /\ UNCHANGED <<client, arrived, request, conn, received, connVars, cache,
                 closed, silent, leftover>>

\* Mutant: the size of one recv is given to cache_add.
AddOnePart(w) ==
  /\ Go(w, "add", "return")
  /\ cache' = [cache EXCEPT ![Key(w)] = <<Head(received[w])>>]
  /\ UNCHANGED <<client, arrived, request, conn, received, connVars,
                 doneVars, leftover>>

\* cache_add, which may fail.
Add(w) ==
  /\ Go(w, "add", "return")
  /\ \/ cache' = [cache EXCEPT ![Key(w)] = received[w]]
     \/ UNCHANGED cache
  /\ UNCHANGED <<client, arrived, request, conn, received, connVars,
                 doneVars, leftover>>

\* connection_pool_return; a full pool closes it.
Return(w) ==
  /\ Go(w, "return", "end")
  /\ \/ /\ idle' = idle \cup {conn[w]}
        /\ leftover' = leftover \cup ToSet(stream[conn[w]])
        /\ UNCHANGED <<target, stream>>
     \/ CloseConn(conn[w]) /\ UNCHANGED <<idle, leftover>>
  /\ conn' = [conn EXCEPT ![w] = NoConn]
  /\ UNCHANGED <<client, arrived, request, received, cache, doneVars>>

-----------------------------------------------------------------------------
(* ... and the end of handle_client_request.                               *)

BadGateway(w) == Go(w, "failed", "end") /\ Refuse(w, 502)

End(w) ==
  /\ Go(w, "end", "idle")
  /\ closed' = closed \cup {client[w]}
  /\ client' = [client EXCEPT ![w] = NoClient]
  /\ request' = [request EXCEPT ![w] = NoRequest]
  /\ arrived' = [arrived EXCEPT ![w] = "whole"]
  /\ received' = [received EXCEPT ![w] = <<>>]
  /\ UNCHANGED <<conn, connVars, cache, answers, silent, leftover>>

WorkerStep(w) ==
  \/ Invalid(w) \/ ParseFails(w) \/ CreateFails(w) \/ Parse(w)
  \/ AnswerFromCache(w) \/ Miss(w)
  \/ Reuse(w) \/ Create(w) \/ CreateConnFails(w)
  \/ Send(w) \/ SendFails(w) \/ Recv(w) \/ RecvEnds(w) \/ NoResponse(w)
  \/ Answer(w) \/ Add(w) \/ Return(w) \/ BadGateway(w) \/ End(w)

Next == \/ \E w \in Workers, c \in Clients :
             \/ ClientGone(w, c)
             \/ \E much \in Pieces : Receive(w, c, much)
        \/ \E w \in Workers : WorkerStep(w)
        \/ \E k \in Paths : Forget(k)
        \/ \E f \in Conns : Expire(f)

Spec == Init /\ [][Next]_vars

\* A worker goes on: its recv from a server has a timeout.  That its client reads
\* what it is sent is an assumption, for that send has none.
FairSpec == Spec /\ \A w \in Workers : WF_vars(WorkerStep(w))

-----------------------------------------------------------------------------
(* What must hold.                                                         *)

Requests == {RequestOf[c] : c \in Clients}
Servers  == {Server(r.host) : r \in Requests}
AllParts == {Part(r, s, k) : r \in Requests, s \in Servers, k \in {"header", "body"}}
Buffers  == BoundedSeq(AllParts, MAX_RESPONSE_SIZE)

Connected == {"send", "recv", "answer", "add", "return"}
Places    == {"idle", "invalid", "parse", "lookup", "connect", "failed", "end"} \cup Connected

\* The types; response_buffer never overflows (proxy_server.c:325-328), and a worker
\* holds a connection exactly while it exchanges messages on it.
TypeOK ==
  /\ pc \in [Workers -> Places]
  /\ client \in [Workers -> Clients \cup {NoClient}]
  /\ arrived \in [Workers -> Pieces]
  /\ request \in [Workers -> Requests \cup {NoRequest}]
  /\ received \in [Workers -> Buffers]
  /\ \A w \in Workers : IF pc[w] \in Connected
                         THEN conn[w] \in Conns \ idle ELSE conn[w] = NoConn
  /\ target \in [Conns -> Servers \cup {NoServer}]
  /\ idle \subseteq Conns /\ closed \subseteq Clients /\ silent \subseteq closed
  /\ cache \in [Paths -> Buffers]

\* For every client exactly one answer is handed to send before its socket is closed,
\* a response or an error and never both, unless it went away (proxy_server.c:205-208,
\* 381); nothing is sent a second time where send itself has failed.
AnsweredOnce ==
  \A c \in Clients : /\ Len(answers[c]) <= 1
                     /\ c \in closed => Len(answers[c]) = IF c \in silent THEN 0 ELSE 1

\* The part answers the request of client c.
Own(p, c) == LET r == RequestOf[c]
             IN  p.method = r.method /\ p.path = r.path /\ p.server = Server(r.host)
Parts(c) == UNION {ToSet(answers[c][i].parts) : i \in DOMAIN answers[c]}

\* A client gets nothing but the response to its own request.
OwnResponse == \A c \in Clients : \A p \in Parts(c) : Own(p, c)

\* It can get parts of another one in two ways only: they were left unread in a
\* connection that was given back, or the other request had the same path.
OwnUnlessLeftOver ==
  \A c \in Clients : \A p \in Parts(c) : Own(p, c) \/ p \in leftover \/ p.path = RequestOf[c].path

\* Whatever the cache returns for a path was, whole, the answer handed to send for a
\* client that asked for that path.
CacheRepeatsAnswers == \A k \in Paths : cache[k] # None =>
  \E c \in Clients : RequestOf[c].path = k /\ Success(cache[k]) \in ToSet(answers[c])

\* A request that was received is answered and its socket closed in the end.
EveryRequestEnds == \A c \in Clients : (\E w \in Workers : client[w] = c) ~> c \in closed
=============================================================================
