-------------------------- MODULE MCRetransmission --------------------------
(* Model values for CARetransmission: c1 and c2 share a message id on one  *)
(* adapter, c3 has an id of its own.                                       *)
EXTENDS CARetransmission, TLC

CONSTANTS c1, c2, c3, k1, k2

ThreeConfirmable == {c1, c2, c3}
SharedKey == c1 :> k1 @@ c2 :> k1 @@ c3 :> k2
OneTick == {1}
=============================================================================
