----------------------------- MODULE MCDelivery -----------------------------
(***************************************************************************)
(* Model checking of Delivery: what the comments of the agent and of the   *)
(* models say the server's counter is.                                     *)
(***************************************************************************)
EXTENDS Delivery

\* cmd/agent/main.go:35: PollCount counts the updates of the metrics; the server's
\* counter of that name accumulates it, so it is never more than the polls made.
CounterCountsPolls == counter <= pollCount
=============================================================================
