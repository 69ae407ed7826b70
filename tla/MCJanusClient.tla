--------------------------- MODULE MCJanusClient ---------------------------
(* JanusClient with a few calls of the repository. *)
EXTENDS JanusClient
=============================================================================
