------------------------------ MODULE MCHistory ------------------------------
(* Model values for CAHistory: m1 and m2 of two senders share the message   *)
(* id and the token, n1 is a request without token, c1 a confirmable one;  *)
(* x1 has the message id of n1 and the token of m1.                        *)
EXTENDS CAHistory, TLC

CONSTANTS m1, m2, n1, c1, x1, t1, t2

FiveRequests == {m1, m2, n1, c1, x1}
Confirmable == {c1}
RequestId == m1 :> 1 @@ m2 :> 1 @@ n1 :> 2 @@ c1 :> 2 @@ x1 :> 2
RequestToken == m1 :> t1 @@ m2 :> t1 @@ n1 :> NoToken @@ c1 :> t2 @@ x1 :> t1
=============================================================================
