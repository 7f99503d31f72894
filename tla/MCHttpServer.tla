---------------------------- MODULE MCHttpServer ----------------------------
(* TLC instances of HttpServer; the bounds are in the .cfg files.            *)
EXTENDS HttpServer

\* One connection pipelines, later ones send a single request.
MCQuota == [c \in Conns |-> IF c = 1 THEN MaxReqs ELSE 1]
=============================================================================
