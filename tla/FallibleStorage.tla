-------------------------- MODULE FallibleStorage --------------------------
(***************************************************************************)
(* What is left of the promise of Storage when the storage is a database   *)
(* that may fail: an update takes effect as a whole, at one instant, but   *)
(* perhaps not at all, or once more with each retry; a batch never twice,  *)
(* and exactly once if no error is returned; a read shows each table as it *)
(* was at one instant, of GetAllMetrics perhaps only a part of it, or of     *)
(* none.                                                                   *)
(***************************************************************************)
EXTENDS StorageData

CONSTANTS
    Callers,   \* the goroutines, each of which calls the storage once
    MaxRetries

VARIABLES
    data,      \* the metrics
    request,   \* what each caller asks for: the kind of the request and its items
    outcome,   \* of its call: "none" (not made), "open", "ok", "error"
    times,     \* how often it has taken effect
    answer     \* what it has shown the caller, Absent for a row that was not read

fvars == <<data, request, outcome, times, answer>>

Writes(c) == request[c].op \in {"update", "updates"}

Call(c) ==
    /\ outcome[c] = "none" /\ outcome' = [outcome EXCEPT ![c] = "open"]
    /\ UNCHANGED <<data, request, times, answer>>

Effect(c) ==
    /\ Writes(c) /\ times[c] <= IF request[c].op = "updates" THEN 0 ELSE MaxRetries
    /\ data' = ApplyAll(data, request[c].items)
    /\ times' = [times EXCEPT ![c] = @ + 1]

\* The call returns; without an error only if an update has taken effect.
Return(c) ==
    \E o \in {"ok", "error"} :
      /\ outcome' = [outcome EXCEPT ![c] = o]
      /\ o = "ok" /\ Writes(c) => times'[c] > 0

\* An attempt: it takes effect or not, is the last or not.
Attempt(c) ==
    /\ outcome[c] = "open"
    /\ Effect(c) \/ UNCHANGED <<data, times>>
    /\ Return(c) \/ UNCHANGED outcome
    /\ UNCHANGED <<request, answer>>

Read(c, table, names) ==
    /\ outcome[c] = "open" /\ ~Writes(c)
    /\ answer' = [answer EXCEPT ![c][table] =
                    [n \in Names |-> IF n \in names THEN data[table][n] ELSE Absent]]
    /\ Return(c) \/ UNCHANGED outcome
    /\ UNCHANGED <<data, request, times>>

\* A read gives up: nothing is shown, of what it has read before neither.
Drop(c) ==
    /\ outcome[c] = "open" /\ ~Writes(c)
    /\ answer' = [answer EXCEPT ![c] = Empty]
    /\ Return(c)
    /\ UNCHANGED <<data, request, times>>

Init ==
    /\ data = Empty
    /\ \A c \in Callers : outcome[c] = "none" /\ times[c] = 0 /\ answer[c] = Empty

Next == \E c \in Callers :
    \/ Call(c) \/ Attempt(c) \/ Drop(c)
    \/ \E table \in {"gauge", "counter"}, names \in SUBSET Names : Read(c, table, names)

Spec == Init /\ [][Next]_fvars
=============================================================================
