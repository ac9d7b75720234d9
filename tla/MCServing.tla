----------------------------- MODULE MCServing ------------------------------
(* TLC instances of Serving. *)
EXTENDS Serving

CONSTANTS h1, h2
=============================================================================
