-------------------------- MODULE MCQueueingThread --------------------------
(* Model values for CAQueueingThread.                                      *)
EXTENDS CAQueueingThread, TLC

CONSTANTS m1, m2, m3, w1, w2

ThreeMessages == {m1, m2, m3}
TwoWorkers == {w1, w2}
=============================================================================
