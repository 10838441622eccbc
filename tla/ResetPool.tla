----------------------------- MODULE ResetPool -----------------------------
(***************************************************************************)
(* The generator of Reset methods, cmd/reset, and the pool that calls      *)
(* them, internal/pool.  A developer edits the types of a package and runs *)
(* the generator, which reads the package together with the reset.gen.go   *)
(* of its last run; then the program is built, and its clients share       *)
(* objects of one of the types through a pool.                             *)
(***************************************************************************)
EXTENDS Naturals, FiniteSets, TLC

CONSTANTS
    Structs,     \* the struct types of the package
    Root,        \* the one the pool holds pointers to
    FieldsOf,    \* struct -> its fields
    FileOf,      \* struct -> the source file that declares it
    TypesOf,     \* field -> the types it may have, each a Type
    Blank,       \* the fields with the name _
    Objects, Clients,
    None,
    MaxEdits     \* bound: edits of the sources

\* What a field is, under 0, 1 or 2 pointers.  "simple": its zero is nil, 0, false, "" or
\* the literal of an array; "badZero": the zero that is written for it is none
\* (unsafe.Pointer) or needs an import (an array of a named type); a slice, a map, an
\* interface; an alias (any); a struct that has no name or is of another package; or one
\* of Structs.  (No field is embedded or called Reset.)
Kinds == {"simple", "badZero", "slice", "map", "interface", "alias", "struct"}
Bases == Kinds \cup Structs

\* The Reset of a type: Reset(), one that returns something, one with parameters, none.
Signatures == {"plain", "results", "parameters", "none"}

\* own: the Reset of a type with a name that is not one of Structs.
Type == {t \in [wrap : 0 .. 2, base : Bases, own : Signatures] :
           t.base \in Structs \cup {"alias"} => t.own = "none"}

IsStruct(t) == t.base \in Structs \cup {"struct"}

Fields == UNION {FieldsOf[s] : s \in Structs}
Named(s) == FieldsOf[s] \ Blank

ASSUME ResetPoolAssumption ==
    /\ Root \in Structs /\ Structs \cap Kinds = {} /\ MaxEdits \in Nat
    /\ Clients \cap {None, "pool"} = {} /\ None # "pool"
    /\ \A f \in Fields : TypesOf[f] \subseteq Type

VARIABLES
    phase,       \* "edit", "run"
    type,        \* field -> its type
    marker,      \* the files with the marker generate:reset in some comment
    handmade,    \* struct -> the Reset that is written by hand
    gen,         \* reset.gen.go: struct -> field -> what its Reset does with it
    fresh,       \* history: runs of the generator since the last edit (2: or more)
    edits,
    place,       \* object -> None (not made), "pool", or the client that holds it
    doing,       \* client -> "use", or "put" between v.Reset() and p.Put(v)
    dirty        \* object -> the fields that hold something no Reset was applied to

sourceVars == <<type, marker, handmade, edits>>
toolVars == <<gen, fresh>>
poolVars == <<place, doing, dirty>>
vars == <<phase, sourceVars, toolVars, poolVars>>

Effects == {"zero", "truncate", "clear", "call", "assert", "nothing", "broken"}

TypeOK ==
    /\ phase \in {"edit", "run"}
    /\ \A f \in Fields : type[f] \in TypesOf[f]
    /\ marker \subseteq {FileOf[s] : s \in Structs} /\ handmade \in [Structs -> Signatures]
    /\ DOMAIN gen \subseteq Structs
    /\ \A s \in DOMAIN gen : gen[s] \in [FieldsOf[s] -> Effects]
    /\ fresh \in 0 .. 2 /\ edits \in 0 .. MaxEdits
    /\ place \in [Objects -> {None, "pool"} \cup Clients]
    /\ doing \in [Clients -> {"use", "put"}]
    /\ dirty \in [Objects -> SUBSET FieldsOf[Root]]
    /\ \A c \in Clients : Cardinality({o \in Objects : place[o] = c}) <= 1

Init ==
    /\ phase = "edit"
    /\ type \in {t \in [Fields -> UNION {TypesOf[f] : f \in Fields}] :
                  \A f \in Fields : t[f] \in TypesOf[f]}
    /\ marker = {} /\ handmade = [s \in Structs |-> "none"] /\ gen = << >> /\ fresh = 0 /\ edits = 0
    /\ place = [o \in Objects |-> None] /\ doing = [c \in Clients |-> "use"]
    /\ dirty = [o \in Objects |-> {}]

----------------------------------------------------------------------------
(* The developer.                                                          *)

Edit ==
    /\ phase = "edit" /\ edits < MaxEdits
    /\ edits' = edits + 1 /\ fresh' = 0
    /\ \/ /\ \E s \in Structs :
               marker' = IF FileOf[s] \in marker THEN marker \ {FileOf[s]}
                         ELSE marker \cup {FileOf[s]}
          /\ UNCHANGED <<type, handmade>>
       \/ /\ \E s \in Structs, signature \in Signatures :
               handmade' = [handmade EXCEPT ![s] = signature]
          /\ UNCHANGED <<type, marker>>
    /\ UNCHANGED <<phase, gen, poolVars>>

----------------------------------------------------------------------------
(* The generator.                                                          *)

\* hasInlineMarker: a comment anywhere in the file marks every struct of the file.
Targets == {s \in Structs : FileOf[s] \in marker}

\* The Reset of a type, in the package as it was loaded.
Signature(t) ==
    IF t.base \notin Structs THEN t.own
    ELSE IF handmade[t.base] = "none" /\ t.base \in DOMAIN gen THEN "plain"
    ELSE handmade[t.base]

\* hasResetMethod: a method of that name.
HasReset(t) == Signature(t) # "none"

\* genResetForField, genResetPointed.  Behind a pointer any type with a Reset has it
\* called, an interface too, and the code for a slice is *p = *p[:0], which does not
\* compile; an alias is a type of its own.
Effect(t) ==
    IF HasReset(t) /\ (IsStruct(t) \/ t.wrap > 0) THEN "call"
    ELSE CASE IsStruct(t) \/ t.base = "alias" -> "nothing"
           [] t.base = "slice" -> IF t.wrap = 0 THEN "truncate" ELSE "broken"
           [] t.base = "map" -> "clear"
           [] t.base = "badZero" -> "broken"
           [] t.base = "interface" -> "assert"
           [] OTHER -> "zero"

\* generateResetMethod; nothing can be done with a field that cannot be named.
EffectOn(f) ==
    IF f \in Blank /\ Effect(type[f]) # "nothing" THEN "broken" ELSE Effect(type[f])

Generated == [s \in Targets |-> [f \in FieldsOf[s] |-> EffectOn(f)]]

\* Mutant: the new methods are added to those of the last run.
Generate_Merges ==
    /\ phase = "edit"
    /\ gen' = Generated @@ gen
    /\ fresh' = IF fresh < 2 THEN fresh + 1 ELSE 2
    /\ UNCHANGED <<phase, sourceVars, poolVars>>

\* run: the file is written anew if there is a struct to write; if there is none, the
\* file of the last run stays.
Generate ==
    /\ phase = "edit"
    /\ gen' = IF Targets = {} THEN gen ELSE Generated
    /\ fresh' = IF fresh < 2 THEN fresh + 1 ELSE 2
    /\ UNCHANGED <<phase, sourceVars, poolVars>>

\* The go compiler: one Reset a type, no call of a method that is not there or wants
\* arguments, no code that is broken.
Compiles ==
    \A s \in DOMAIN gen :
      /\ handmade[s] = "none"
      /\ \A f \in FieldsOf[s] :
           /\ gen[s][f] # "broken"
           /\ gen[s][f] = "call" => Signature(type[f]) \in {"plain", "results"}

\* The program has a pool of pointers to Root, which must be Resettable.
Resettable == handmade[Root] = "plain" \/ (handmade[Root] = "none" /\ Root \in DOMAIN gen)

Build ==
    /\ phase = "edit" /\ Compiles /\ Resettable
    /\ phase' = "run"
    /\ UNCHANGED <<sourceVars, toolVars, poolVars>>

----------------------------------------------------------------------------
(* The pool.                                                               *)

Holds(c) == {o \in Objects : place[o] = c}

\* Mutant: a pool of one object that two clients may get.
Get_Shared(c) ==
    /\ phase = "run"
    /\ \E o \in Objects : place' = [place EXCEPT ![o] = c]
    /\ UNCHANGED <<phase, sourceVars, toolVars, doing, dirty>>

\* Get: an object of the pool, or a new one (sync.Pool may have dropped the others).
Get(c) ==
    /\ phase = "run" /\ Holds(c) = {}
    /\ \E o \in Objects :
         /\ place[o] \in {None, "pool"}
         /\ place' = [place EXCEPT ![o] = c]
    /\ UNCHANGED <<phase, sourceVars, toolVars, doing, dirty>>

\* The client leaves something in every field that has a name.
Use(c) ==
    /\ doing[c] = "use"
    /\ \E o \in Holds(c) : dirty' = [dirty EXCEPT ![o] = Named(Root)]
    /\ UNCHANGED <<phase, sourceVars, toolVars, place, doing>>

\* Reset of s may leave something in f: it does nothing with it; or what f holds is known
\* only when the program runs, and may have no Reset (the generated one is a method of
\* the pointer) or one that leaves something; or it calls the Reset of a struct that is
\* not among those that are reset whole.  A slice that is truncated is taken as reset.
Keeps(s, f, whole) ==
    \/ gen[s][f] \in {"nothing", "assert"}
    \/ gen[s][f] = "call" /\ type[f].base \in {"interface"} \cup (Structs \ whole)

\* A Reset written by hand, or of another package, is taken to leave nothing.
AllReset(structs) ==
    \A s \in structs :
      handmade[s] # "none" \/ (s \in DOMAIN gen /\ \A f \in Named(s) : ~Keeps(s, f, structs))

\* The structs that are reset whole, with all that they lead to.
Whole == UNION {structs \in SUBSET Structs : AllReset(structs)}

Left(s) == IF handmade[s] # "none" THEN {} ELSE {f \in Named(s) : Keeps(s, f, Whole)}

\* Mutant: the object is back in the pool before it is reset.
PutReset_Late(c) ==
    /\ doing[c] = "use"
    /\ \E o \in Holds(c) : place' = [place EXCEPT ![o] = "pool"]
    /\ UNCHANGED <<phase, sourceVars, toolVars, doing, dirty>>

\* Put: v.Reset(), then p.Put(v).  (A Reset that does not return, over cyclic data or a nil
\* interface behind a pointer, takes no step: its object never reaches the pool.)
PutReset(c) ==
    /\ doing[c] = "use"
    /\ \E o \in Holds(c) : dirty' = [dirty EXCEPT ![o] = @ \cap Left(Root)]
    /\ doing' = [doing EXCEPT ![c] = "put"]
    /\ UNCHANGED <<phase, sourceVars, toolVars, place>>

PutBack(c) ==
    /\ doing[c] = "put"
    /\ \E o \in Holds(c) : place' = [place EXCEPT ![o] = "pool"]
    /\ doing' = [doing EXCEPT ![c] = "use"]
    /\ UNCHANGED <<phase, sourceVars, toolVars, dirty>>

Next ==
    \/ Edit \/ Generate \/ Build
    \/ \E c \in Clients : Get(c) \/ Use(c) \/ PutReset(c) \/ PutBack(c)

Spec == Init /\ [][Next]_vars

----------------------------------------------------------------------------
\* The generated code for f is none: a slice behind a pointer, a zero that cannot be
\* written, a field without a name, a call of a Reset that has parameters.
Unwritable(f) ==
    LET t == type[f]
    IN  \/ t.base = "slice" /\ t.wrap > 0 /\ ~HasReset(t)
        \/ t.base = "badZero" /\ (t.wrap > 0 => ~HasReset(t))
        \/ f \in Blank
        \/ Signature(t) = "parameters"

\* The generator reads its own last output, so one run may miss the Reset of a field or
\* call one it is about to remove.  Two runs settle it: a third would write the same
\* file, and the package compiles, unless a marked struct has a Reset of its own or a
\* field the generator cannot handle.  (If no marker is left, the old file stays.)
TwoRunsSettle ==
    fresh = 2 /\ Targets # {} =>
      /\ gen = Generated
      /\ \/ Compiles
         \/ \E s \in Targets : handmade[s] # "none" \/ \E f \in FieldsOf[s] : Unwritable(f)

\* What the type of f is hides it from a generated Reset: an interface or an alias, or a
\* struct that has no Reset.
Hidden(f) ==
    LET t == type[f]
    IN  t.base \in {"interface", "alias"} \/ (IsStruct(t) /\ ~HasReset(t))

\* The structs that f leads to, through structs whose Reset is generated: those in
\* every set that is closed.
LeadsTo(f) ==
    LET closed(structs) ==
          /\ type[f].base \in Structs => type[f].base \in structs
          /\ \A s \in structs : handmade[s] = "none" =>
               \A g \in Named(s) : type[g].base \in Structs => type[g].base \in structs
    IN  {s \in Structs : \A structs \in SUBSET Structs : closed(structs) => s \in structs}

\* An object in the pool carries nothing of its last client into the hands of the next,
\* after two runs of the generator, but in fields that are hidden from their Reset or
\* lead, through any number of structs, to one that is.
PoolIsClean ==
    fresh = 2 /\ Targets # {} =>
      \A o \in Objects : place[o] = "pool" =>
        \A f \in dirty[o] :
          \/ Hidden(f)
          \/ \E s \in LeadsTo(f) : handmade[s] = "none" /\ \E g \in Named(s) : Hidden(g)
=============================================================================
