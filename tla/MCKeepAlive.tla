---------------------------- MODULE MCKeepAlive -----------------------------
(***************************************************************************)
(* OICKeepAlive with the first two of the six default intervals.           *)
(***************************************************************************)
EXTENDS OICKeepAlive

TwoIntervals == <<2, 4>>

=============================================================================
