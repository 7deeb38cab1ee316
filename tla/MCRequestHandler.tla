-------------------------- MODULE MCRequestHandler --------------------------
(* The requests of the clients.                                            *)
EXTENDS RequestHandler

CONSTANTS a, b, g, h, c1, c2, c3

Ask(m, p, n, q) == [method |-> m, path |-> p, host |-> [name |-> n, port |-> q]]

\* c1 and c3 ask one server for different paths, c2 another one for the path of c1.
TwoServers == c1 :> Ask("GET", a, h, NoPort) @@ c2 :> Ask("HEAD", a, g, 80) @@ c3 :> Ask("GET", b, h, 65536)

\* The same without the other server: no two requests have the same path.
OneServer == c1 :> Ask("GET", a, h, NoPort) @@ c3 :> Ask("GET", b, h, 65536)
=============================================================================
