----------------------------- MODULE MCBlockwise -----------------------------
(***************************************************************************)
(* CABlockwiseTransfer with payloads of a few blocks.                      *)
(***************************************************************************)
EXTENDS CABlockwiseTransfer

=============================================================================
