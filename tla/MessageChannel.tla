--------------------------- MODULE MessageChannel ---------------------------
(***************************************************************************)
(* What the server expects of the queue between its epoll thread and its   *)
(* workers: every message sent is received once, in the order of sending.  *)
(* Messages are named 1, 2, ... in that order.                             *)
(***************************************************************************)
EXTENDS Naturals, Sequences

VARIABLES sent,      \* how many messages were sent
          received   \* the messages received so far

Init == sent = 0 /\ received = <<>>

Send == sent' = sent + 1 /\ UNCHANGED received

Receive ==
  /\ Len(received) < sent
  /\ received' = Append(received, Len(received) + 1)
  /\ UNCHANGED sent

Next == Send \/ Receive

Spec == Init /\ [][Next]_<<sent, received>>
=============================================================================
