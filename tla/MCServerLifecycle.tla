-------------------------- MODULE MCServerLifecycle --------------------------
(***************************************************************************)
(* Model checking of ServerLifecycle, and what the comments of cmd/server/ *)
(* main.go say of saving.                                                  *)
(***************************************************************************)
EXTENDS ServerLifecycle

\* main.go:387: on a signal the metrics are saved a last time, so a clean exit with
\* no failed save leaves them in the file.
FinalSaveStays == ended = "clean" /\ damage # "error" /\ mem \cap Unsaveable = {} => file = Whole(mem)
=============================================================================
