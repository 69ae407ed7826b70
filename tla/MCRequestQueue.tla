--------------------------- MODULE MCRequestQueue ---------------------------
(* RequestQueue with a few producers. *)
EXTENDS RequestQueue
=============================================================================
