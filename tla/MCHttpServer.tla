---------------------------- MODULE MCHttpServer ----------------------------
(* HttpServer with one client that pipelines and one that does not. *)
EXTENDS HttpServer

CONSTANTS a, b

RequestsOf == [c \in Conns |-> IF c = a THEN 2 ELSE 1]
=============================================================================
