------------------------------ MODULE MCObserve ------------------------------
(* Model values for OCObserve.                                             *)
EXTENDS OCObserve, TLC

CONSTANTS a, b

One == {a}
Two == {a, b}
OneLow == a :> "LOW"
LowHigh == a :> "LOW" @@ b :> "HIGH"
TwoLow == a :> "LOW" @@ b :> "LOW"
Either == Permutations({a, b})
OneId == {1}
TwoIds == {1, 2}
=============================================================================
