---------------------------- MODULE MCHttpServer ----------------------------
(* Three clients; between them the requests name every kind of program.    *)
EXTENDS HttpServer
CONSTANTS c1, c2, c3
MCRequests == {(c1 :> "ok") @@ (c2 :> "ok") @@ (c3 :> "missing"),
               (c1 :> "ok") @@ (c2 :> "broken") @@ (c3 :> "stuck")}
=============================================================================
