----------------------------- MODULE CAWorkQueue -----------------------------
(***************************************************************************)
(* What a queueing thread of the CA layer promises to its users: messages  *)
(* are taken from a FIFO queue one at a time in the order they were added, *)
(* every message taken is handed to the task once, and the messages still  *)
(* queued when the queue is closed are destroyed, never processed.         *)
(*                                                                         *)
(* CAQueueingThread implements this specification.                         *)
(***************************************************************************)
EXTENDS Naturals, Sequences

CONSTANTS Messages      \* what the queue carries; each is added at most once

VARIABLES
  queue,      \* messages waiting, oldest first
  inHand,     \* messages a worker has taken and not finished
  finished,   \* messages whose task has run
  discarded,  \* messages destroyed without being processed
  closed      \* the queue has been destroyed

workVars == <<queue, inHand, finished, discarded, closed>>

Elements(s) == {s[i] : i \in DOMAIN s}

Known == Elements(queue) \cup inHand \cup finished \cup discarded

WQInit ==
  /\ queue = <<>>
  /\ inHand = {}
  /\ finished = {}
  /\ discarded = {}
  /\ closed = FALSE

Put(m) ==
  /\ ~closed
  /\ m \notin Known
  /\ queue' = Append(queue, m)
  /\ UNCHANGED <<inHand, finished, discarded, closed>>

Take ==
  /\ ~closed
  /\ queue # <<>>
  /\ inHand' = inHand \cup {Head(queue)}
  /\ queue' = Tail(queue)
  /\ UNCHANGED <<finished, discarded, closed>>

Finish(m) ==
  /\ m \in inHand
  /\ inHand' = inHand \ {m}
  /\ finished' = finished \cup {m}
  /\ UNCHANGED <<queue, discarded, closed>>

(* The queue is closed only when nothing is in hand: the workers have been *)
(* joined.                                                                 *)
Close ==
  /\ ~closed
  /\ inHand = {}
  /\ discarded' = discarded \cup Elements(queue)
  /\ queue' = <<>>
  /\ closed' = TRUE
  /\ UNCHANGED <<inHand, finished>>

WQNext ==
  \/ \E m \in Messages : Put(m) \/ Finish(m)
  \/ Take
  \/ Close

WQSpec == WQInit /\ [][WQNext]_workVars
=============================================================================
