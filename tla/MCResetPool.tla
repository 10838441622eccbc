---------------------------- MODULE MCResetPool ----------------------------
(***************************************************************************)
(* Model checking of ResetPool: a parent with a field of every type, and a *)
(* blank field, and a child in a file of its own, whose field may lead     *)
(* back to the parent.                                                     *)
(***************************************************************************)
EXTENDS ResetPool

MCFieldsOf == [s \in {"Parent", "Child"} |-> IF s = "Parent" THEN {"f", "_"} ELSE {"h"}]
MCFileOf == [s \in {"Parent", "Child"} |-> IF s = "Parent" THEN "parent.go" ELSE "child.go"]

Of(wrap, base) == [wrap |-> wrap, base |-> base, own |-> "none"]

\* Types with a name and a Reset, of this package or another.
WithReset == [wrap : {0, 1}, base : {"simple", "badZero", "slice", "interface", "struct"},
              own : {"plain", "results", "parameters"}]

\* A struct cannot be a field of itself.
MCTypesOf ==
    [f \in {"f", "_", "h"} |->
       CASE f = "f" -> {Of(w, b) : w \in 0 .. 2, b \in Bases \ {"Parent"}}
                         \cup {Of(w, "Parent") : w \in 1 .. 2} \cup WithReset
         [] f = "_" -> {Of(0, "simple"), Of(0, "struct")}
         [] f = "h" -> {Of(0, "simple"), Of(1, "Parent"), Of(1, "slice"), Of(0, "interface")}]

Symmetry == Permutations(Objects) \cup Permutations(Clients)
=============================================================================
