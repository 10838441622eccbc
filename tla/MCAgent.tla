------------------------------ MODULE MCAgent ------------------------------
(***************************************************************************)
(* Model checking of Agent: small sets of gauges, and what the comments    *)
(* and the names of cmd/agent promise about its shutdown.                  *)
(***************************************************************************)
EXTENDS Agent

\* main.go:259-263: after the signal ("graceful shutdown") main waits for the
\* producers and the workers, and the agent ends.
AgentStops == ctxDone ~> (mainPC = "done" \/ crash # "no")

\* main.go:269: main waits until the workers have read and sent what is left in
\* the channel.
LeftoversSent == mainPC = "done" => jobs = <<>>
=============================================================================
