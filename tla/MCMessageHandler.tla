-------------------------- MODULE MCMessageHandler --------------------------
(* Model values for CAMessageHandler: c1 and c2 are confirmable, n1 is not; *)
(* two messages of a run share their message id and adapter.               *)
EXTENDS CAMessageHandler, TLC

CONSTANTS c1, c2, n1, k1

OneConfirmable == {c1}
OneAndNon == {c1, n1}
TwoConfirmable == {c1, c2}
OneKey == c1 :> k1
SharedKey == c1 :> k1 @@ n1 :> k1
SameKey == c1 :> k1 @@ c2 :> k1
OneTick == {1}
Alike == Permutations(TwoConfirmable)
=============================================================================
