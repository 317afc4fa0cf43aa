--------------------------- MODULE MCServerRequest ---------------------------
(***************************************************************************)
(* OCServerRequest: two messages with one token, each delivered up to      *)
(* twice, and a collection of two resources.                               *)
(***************************************************************************)
EXTENDS OCServerRequest

=============================================================================
