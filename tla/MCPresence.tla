----------------------------- MODULE MCPresence -----------------------------
(***************************************************************************)
(* OCPresence with one timer, or two, instead of the code's four.  The     *)
(* last bound is the time to live.                                         *)
(***************************************************************************)
EXTENDS OCPresence

OneTimer == <<1, 2>>
TwoTimers == <<1, 1, 2>>

=============================================================================
