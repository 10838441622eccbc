-------------------------- MODULE ResetPoolProofs --------------------------
(***************************************************************************)
(* Theorems about ResetPool, for any structs, fields and types, any number *)
(* of edits, clients and objects: two runs of the generator settle its     *)
(* output, and what the pool hands on is clean.                            *)
(***************************************************************************)
EXTENDS ResetPool, FiniteSetTheorems, TLAPS

----------------------------------------------------------------------------
(* The inductive invariant.                                                *)

\* TypeOK, without the count of the objects a client holds.
Types ==
    /\ phase \in {"edit", "run"}
    /\ \A f \in Fields : type[f] \in TypesOf[f]
    /\ marker \subseteq {FileOf[s] : s \in Structs} /\ handmade \in [Structs -> Signatures]
    /\ DOMAIN gen \subseteq Structs
    /\ \A s \in DOMAIN gen : gen[s] \in [FieldsOf[s] -> Effects]
    /\ fresh \in 0 .. 2 /\ edits \in 0 .. MaxEdits
    /\ place \in [Objects -> {None, "pool"} \cup Clients]
    /\ doing \in [Clients -> {"use", "put"}]
    /\ dirty \in [Objects -> SUBSET FieldsOf[Root]]

\* A client holds one object.
HoldsOne == \A c \in Clients : \A o, p \in Holds(c) : o = p

\* After one run the methods are those of the marked structs; after two, the generated
\* code is the one the generator would write again.
Settled ==
    Targets # {} =>
      /\ fresh >= 1 => DOMAIN gen = Targets
      /\ fresh = 2 => gen = Generated

\* No object is made before the program runs; then Root has a Reset.
Running ==
    /\ phase = "edit" => \A o \in Objects : place[o] = None
    /\ phase = "run" => Resettable

\* What is in the pool, or about to be put back, has been reset.
IsReset ==
    \A o \in Objects :
      \/ place[o] = None /\ dirty[o] = {}
      \/ place[o] = "pool" /\ dirty[o] \subseteq Left(Root)
      \/ place[o] \in Clients /\ (doing[place[o]] = "put" => dirty[o] \subseteq Left(Root))

RInv == Types /\ HoldsOne /\ Settled /\ Running /\ IsReset

----------------------------------------------------------------------------
(* The generated code.                                                     *)

LEMMA FieldsTyped ==
    ASSUME Types
    PROVE  \A s \in Structs : \A f \in FieldsOf[s] : type[f] \in Type
  BY ResetPoolAssumption DEF Types, Fields

\* What the generator may do with a field.
LEMMA EffectType ==
    ASSUME NEW t \in Type
    PROVE  Effect(t) \in Effects
<1>1. t.base \in Bases
  BY DEF Type
<1> QED
  BY <1>1, ResetPoolAssumption DEF Effect, Effects, Bases, Kinds, IsStruct

LEMMA GeneratedType ==
    ASSUME Types
    PROVE  /\ DOMAIN Generated = Targets /\ Targets \subseteq Structs
           /\ \A s \in Targets : Generated[s] \in [FieldsOf[s] -> Effects]
<1>1. \A s \in Structs : \A f \in FieldsOf[s] : type[f] \in Type
  BY FieldsTyped
<1>2. \A s \in Structs : \A f \in FieldsOf[s] : EffectOn(f) \in Effects
  BY <1>1, EffectType DEF EffectOn, Effects
<1> QED
  BY <1>2 DEF Generated, Targets

\* The effect of a field depends on the structs that have a Reset, and on nothing else.
LEMMA SameGenerated ==
    ASSUME DOMAIN gen' = DOMAIN gen, UNCHANGED <<type, marker, handmade>>
    PROVE  Generated' = Generated
<1>1. \A t : Signature(t)' = Signature(t)
  BY DEF Signature
<1>2. \A t : HasReset(t)' = HasReset(t)
  BY <1>1 DEF HasReset
<1>3. \A t : Effect(t)' = Effect(t)
  BY <1>2 DEF Effect
<1>4. \A f : EffectOn(f)' = EffectOn(f)
  BY <1>3 DEF EffectOn
<1> QED
  BY <1>4 DEF Generated, Targets

\* What each kind of code for a field says of its type.
LEMMA Unreached ==
    ASSUME Types, NEW s \in Structs, NEW f \in FieldsOf[s]
    PROVE  /\ EffectOn(f) \in {"nothing", "assert"} => Hidden(f)
           /\ EffectOn(f) = "call" => HasReset(type[f])
           /\ EffectOn(f) = "broken" => Unwritable(f)
<1> DEFINE t == type[f]
<1>1. t \in Type
  BY FieldsTyped
<1>2. t.base \in Bases /\ t.wrap \in 0 .. 2
  BY <1>1 DEF Type
<1>3. /\ Effect(t) \in {"nothing", "assert"} => Hidden(f)
      /\ Effect(t) = "call" => HasReset(t)
  BY <1>2 DEF Effect, Hidden, Bases, Kinds, IsStruct
<1>4. Effect(t) = "broken" => Unwritable(f)
  <2> SUFFICES ASSUME Effect(t) = "broken" PROVE Unwritable(f)
    OBVIOUS
  <2>1. CASE HasReset(t) /\ t.wrap > 0
    BY <2>1 DEF Effect
  <2>2. CASE ~HasReset(t) \/ t.wrap = 0
    <3>1. ~IsStruct(t)
      BY <2>2, ResetPoolAssumption DEF Effect, Kinds, IsStruct
    <3>2. t.base \in {"slice", "badZero"}
      BY <1>2, <2>2, <3>1 DEF Effect, Bases, Kinds, IsStruct
    <3>3. t.base = "slice" => t.wrap > 0 /\ ~HasReset(t)
      BY <1>2, <2>2 DEF Effect
    <3> QED
      BY <1>2, <2>2, <3>2, <3>3 DEF Unwritable
  <2> QED
    BY <1>2, <2>1, <2>2
<1> QED
  BY <1>3, <1>4 DEF EffectOn, Unwritable

\* The count of TypeOK.
LEMMA OneObject ==
    ASSUME HoldsOne, NEW c \in Clients
    PROVE  Cardinality({o \in Objects : place[o] = c}) <= 1
<1> DEFINE held == {o \in Objects : place[o] = c}
<1>1. \A o, p \in held : o = p
  BY DEF HoldsOne, Holds
<1>2. CASE held = {}
  BY <1>2, FS_EmptySet
<1>3. CASE held # {}
  <2>1. PICK o \in held : held = {o}
    BY <1>1, <1>3
  <2>2. Cardinality({o}) = 1
    BY FS_Singleton
  <2> QED
    BY <2>1, <2>2
<1> QED
  BY <1>2, <1>3

----------------------------------------------------------------------------
(* The steps.                                                              *)

LEMMA InitRInv == Init => RInv
<1> SUFFICES ASSUME Init PROVE RInv
  OBVIOUS
<1>1. Types
  BY ResetPoolAssumption DEF Init, Types, Signatures
<1>2. HoldsOne
  BY ResetPoolAssumption DEF Init, HoldsOne, Holds
<1>3. Settled /\ Running /\ IsReset
  BY DEF Init, Settled, Running, IsReset
<1> QED
  BY <1>1, <1>2, <1>3 DEF RInv

LEMMA EditKeeps == RInv /\ Edit => RInv'
<1> SUFFICES ASSUME RInv, Edit PROVE RInv'
  OBVIOUS
<1>1. /\ phase = "edit" /\ fresh' = 0 /\ edits' = edits + 1 /\ edits < MaxEdits
      /\ UNCHANGED <<phase, gen, type, place, doing, dirty>>
      /\ marker' \subseteq marker \cup {FileOf[s] : s \in Structs}
      /\ \/ handmade' = handmade
         \/ \E s \in Structs, signature \in Signatures : handmade' = [handmade EXCEPT ![s] = signature]
  BY DEF Edit, poolVars
<1>2. Types'
  <2>1. handmade' \in [Structs -> Signatures]
    BY <1>1 DEF RInv, Types
  <2> QED
    BY <1>1, <2>1, ResetPoolAssumption DEF RInv, Types
<1>3. HoldsOne' /\ Settled' /\ Running' /\ IsReset'
  BY <1>1, ResetPoolAssumption DEF RInv, HoldsOne, Holds, Settled, Running, IsReset
<1> QED
  BY <1>2, <1>3 DEF RInv

\* One run makes the methods those of the marked structs; once they are, a run writes
\* what it finds.
LEMMA GenerateKeeps == RInv /\ Generate => RInv'
<1> SUFFICES ASSUME RInv, Generate PROVE RInv'
  OBVIOUS
<1>1. /\ phase = "edit" /\ gen' = (IF Targets = {} THEN gen ELSE Generated)
      /\ fresh' = (IF fresh < 2 THEN fresh + 1 ELSE 2)
      /\ UNCHANGED <<phase, type, marker, handmade, edits, place, doing, dirty>>
  BY DEF Generate, sourceVars, poolVars
<1>2. Types /\ Settled /\ fresh \in 0 .. 2
  BY DEF RInv, Types
<1>3. Targets' = Targets
  BY <1>1 DEF Targets
<1>4. Types'
  <2>1. DOMAIN gen' \subseteq Structs /\ \A s \in DOMAIN gen' : gen'[s] \in [FieldsOf[s] -> Effects]
    BY <1>1, <1>2, GeneratedType DEF Types
  <2>2. fresh' \in 0 .. 2
    BY <1>1, <1>2
  <2> QED
    BY <1>1, <1>2, <2>1, <2>2 DEF Types
<1>5. Settled'
  <2>1. SUFFICES ASSUME Targets # {}
                 PROVE  /\ DOMAIN gen' = Targets
                        /\ fresh' = 2 => gen' = Generated'
    BY <1>3 DEF Settled
  <2>2. gen' = Generated /\ DOMAIN gen' = Targets
    BY <1>1, <1>2, <2>1, GeneratedType
  <2>3. ASSUME fresh' = 2 PROVE gen' = Generated'
    <3>1. fresh >= 1
      BY <1>1, <1>2, <2>3
    <3>2. DOMAIN gen' = DOMAIN gen
      BY <1>2, <2>1, <2>2, <3>1 DEF Settled
    <3> QED
      BY <1>1, <2>2, <3>2, SameGenerated
  <2> QED
    BY <2>2, <2>3
<1>6. HoldsOne' /\ Running' /\ IsReset'
  BY <1>1, ResetPoolAssumption DEF RInv, HoldsOne, Holds, Running, IsReset
<1> QED
  BY <1>4, <1>5, <1>6 DEF RInv

LEMMA BuildKeeps == RInv /\ Build => RInv'
<1> SUFFICES ASSUME RInv, Build PROVE RInv'
  OBVIOUS
<1>1. /\ phase' = "run" /\ Resettable /\ phase = "edit"
      /\ UNCHANGED <<type, marker, handmade, edits, gen, fresh, place, doing, dirty>>
  BY DEF Build, sourceVars, toolVars, poolVars
<1>2. Types' /\ HoldsOne'
  BY <1>1 DEF RInv, Types, HoldsOne, Holds
<1>3. Settled'
  BY <1>1, SameGenerated DEF RInv, Settled, Targets
<1>4. Running' /\ IsReset'
  BY <1>1, ResetPoolAssumption DEF RInv, Running, IsReset, Resettable
<1> QED
  BY <1>2, <1>3, <1>4 DEF RInv

\* The steps of the clients leave the sources and the generated code alone.
LEMMA PoolStepKeeps ==
    ASSUME RInv, UNCHANGED <<phase, sourceVars, toolVars>>, phase = "run",
           place' \in [Objects -> {None, "pool"} \cup Clients],
           doing' \in [Clients -> {"use", "put"}],
           dirty' \in [Objects -> SUBSET FieldsOf[Root]],
           HoldsOne', IsReset'
    PROVE  RInv'
<1>1. UNCHANGED <<phase, type, marker, handmade, edits, gen, fresh>>
  BY DEF sourceVars, toolVars
<1>2. Types'
  BY <1>1 DEF RInv, Types
<1>3. Settled'
  BY <1>1, SameGenerated DEF RInv, Settled, Targets
<1>4. Running'
  BY <1>1 DEF RInv, Running, Resettable
<1> QED
  BY <1>2, <1>3, <1>4 DEF RInv

LEMMA SameLeft ==
    ASSUME UNCHANGED <<sourceVars, toolVars>>
    PROVE  Left(Root)' = Left(Root)
<1>1. \A s, f, whole : Keeps(s, f, whole)' = Keeps(s, f, whole)
  BY DEF sourceVars, toolVars, Keeps
<1>2. \A structs : AllReset(structs)' = AllReset(structs)
  BY <1>1 DEF sourceVars, toolVars, AllReset
<1>3. Whole' = Whole
  BY <1>2 DEF Whole
<1> QED
  BY <1>1, <1>3 DEF sourceVars, toolVars, Left

\* A client holds objects only while the program runs.
LEMMA HoldersRun ==
    ASSUME RInv, NEW c \in Clients, Holds(c) # {}
    PROVE  phase = "run"
  BY ResetPoolAssumption DEF RInv, Types, Running, Holds

LEMMA ClientKeeps ==
    ASSUME RInv, NEW c \in Clients, Get(c) \/ Use(c) \/ PutReset(c) \/ PutBack(c)
    PROVE  RInv'
<1>0. /\ place \in [Objects -> {None, "pool"} \cup Clients]
      /\ doing \in [Clients -> {"use", "put"}]
      /\ dirty \in [Objects -> SUBSET FieldsOf[Root]]
      /\ HoldsOne /\ IsReset
      /\ None \notin Clients /\ "pool" \notin Clients /\ None # "pool"
  BY ResetPoolAssumption DEF RInv, Types
<1>1. CASE Get(c)
  <2>1. PICK o \in Objects : place[o] \in {None, "pool"} /\ place' = [place EXCEPT ![o] = c]
    BY <1>1 DEF Get
  <2>2. UNCHANGED <<phase, sourceVars, toolVars, doing, dirty>> /\ phase = "run" /\ Holds(c) = {}
    BY <1>1 DEF Get
  <2>3. HoldsOne'
    BY <1>0, <2>1, <2>2 DEF HoldsOne, Holds
  <2>4. IsReset'
    BY <1>0, <2>1, <2>2, SameLeft DEF IsReset
  <2> QED
    BY <1>0, <2>1, <2>2, <2>3, <2>4, PoolStepKeeps
<1>2. CASE Use(c)
  <2>1. PICK o \in Holds(c) : dirty' = [dirty EXCEPT ![o] = Named(Root)]
    BY <1>2 DEF Use
  <2>2. UNCHANGED <<phase, sourceVars, toolVars, place, doing>> /\ doing[c] = "use" /\ phase = "run"
    BY <1>2, <2>1, HoldersRun DEF Use
  <2>5. Named(Root) \subseteq FieldsOf[Root]
    BY DEF Named
  <2>3. HoldsOne'
    BY <1>0, <2>2 DEF HoldsOne, Holds
  <2>4. IsReset'
    BY <1>0, <2>1, <2>2, SameLeft DEF IsReset, Holds
  <2> QED
    BY <1>0, <2>1, <2>2, <2>3, <2>4, <2>5, PoolStepKeeps
<1>3. CASE PutReset(c)
  <2>1. PICK o \in Holds(c) : dirty' = [dirty EXCEPT ![o] = @ \cap Left(Root)]
    BY <1>3 DEF PutReset
  <2>2. /\ UNCHANGED <<phase, sourceVars, toolVars, place>> /\ phase = "run"
        /\ doing[c] = "use" /\ doing' = [doing EXCEPT ![c] = "put"]
    BY <1>3, <2>1, HoldersRun DEF PutReset
  <2>3. HoldsOne'
    BY <1>0, <2>2 DEF HoldsOne, Holds
  <2>4. IsReset'
    <3>1. \A p \in Objects : place[p] = c => p = o
      BY <1>0, <2>1 DEF HoldsOne, Holds
    <3>2. o \in Objects /\ place[o] = c /\ dirty'[o] = dirty[o] \cap Left(Root)
      BY <1>0, <2>1 DEF Holds
    <3>3. ASSUME NEW p \in Objects
          PROVE  \/ place[p] = None /\ dirty'[p] = {}
                 \/ place[p] = "pool" /\ dirty'[p] \subseteq Left(Root)
                 \/ place[p] \in Clients /\ (doing'[place[p]] = "put" => dirty'[p] \subseteq Left(Root))
      <4>1. CASE p = o
        BY <3>2, <4>1
      <4>2. CASE p # o
        BY <1>0, <2>1, <2>2, <3>1, <4>2 DEF IsReset
      <4> QED
        BY <4>1, <4>2
    <3> QED
      BY <2>2, <3>3, SameLeft DEF IsReset
  <2> QED
    BY <1>0, <2>1, <2>2, <2>3, <2>4, PoolStepKeeps
<1>4. CASE PutBack(c)
  <2>1. PICK o \in Holds(c) : place' = [place EXCEPT ![o] = "pool"]
    BY <1>4 DEF PutBack
  <2>2. /\ UNCHANGED <<phase, sourceVars, toolVars, dirty>> /\ phase = "run"
        /\ doing[c] = "put" /\ doing' = [doing EXCEPT ![c] = "use"]
    BY <1>4, <2>1, HoldersRun DEF PutBack
  <2>3. HoldsOne'
    BY <1>0, <2>1, <2>2 DEF HoldsOne, Holds
  <2>4. IsReset'
    BY <1>0, <2>1, <2>2, SameLeft DEF IsReset, Holds
  <2> QED
    BY <1>0, <2>1, <2>2, <2>3, <2>4, PoolStepKeeps
<1> QED
  BY <1>1, <1>2, <1>3, <1>4

\* RInv is an inductive invariant.
THEOREM ResetPoolInvariant == Spec => []RInv
<1>1. RInv /\ [Next]_vars => RInv'
  <2> SUFFICES ASSUME RInv, [Next]_vars PROVE RInv'
    OBVIOUS
  <2>1. CASE UNCHANGED vars
    <3>1. UNCHANGED <<phase, type, marker, handmade, edits, gen, fresh, place, doing, dirty>>
      BY <2>1 DEF vars, sourceVars, toolVars, poolVars
    <3>2. Settled' /\ IsReset'
      BY <3>1, SameGenerated, SameLeft DEF RInv, Settled, Targets, IsReset, sourceVars, toolVars
    <3> QED
      BY <3>1, <3>2 DEF RInv, Types, HoldsOne, Holds, Running, Resettable
  <2> QED
    BY <2>1, EditKeeps, GenerateKeeps, BuildKeeps, ClientKeeps DEF Next
<1> QED
  BY <1>1, InitRInv, PTL DEF Spec

----------------------------------------------------------------------------
(* The theorems.                                                           *)

\* Every variable keeps its type, and a client holds at most one object.
THEOREM TypeCorrect == Spec => []TypeOK
<1>1. RInv => TypeOK
  BY OneObject DEF RInv, Types, TypeOK
<1> QED
  BY <1>1, ResetPoolInvariant, PTL

\* cmd/reset/main.go:92-205: after two runs the generator writes the same file again,
\* and the package compiles but for the cases named.
THEOREM GeneratorSettles == Spec => []TwoRunsSettle
<1>1. RInv => TwoRunsSettle
  <2> SUFFICES ASSUME RInv, fresh = 2, Targets # {}, ~Compiles,
                      \A s \in Targets : handmade[s] = "none"
               PROVE  \E s \in Targets : \E f \in FieldsOf[s] : Unwritable(f)
    BY DEF RInv, Settled, TwoRunsSettle
  <2>1. gen = Generated /\ DOMAIN gen = Targets /\ Targets \subseteq Structs /\ Types
    BY GeneratedType DEF RInv, Settled
  <2>0. PICK s \in Targets : \E f \in FieldsOf[s] :
          gen[s][f] = "broken" \/ (gen[s][f] = "call" /\ Signature(type[f]) \notin {"plain", "results"})
    BY <2>1 DEF Compiles
  <2>2. PICK f \in FieldsOf[s] :
          gen[s][f] = "broken" \/ (gen[s][f] = "call" /\ Signature(type[f]) \notin {"plain", "results"})
    BY <2>0
  <2>3. gen[s][f] = EffectOn(f)
    BY <2>1, <2>2 DEF Generated
  <2>4. CASE gen[s][f] = "broken"
    BY <2>1, <2>2, <2>3, <2>4, Unreached
  <2>5. CASE gen[s][f] = "call" /\ Signature(type[f]) \notin {"plain", "results"}
    <3>1. Signature(type[f]) \in Signatures
      <4>1. type[f] \in Type
        BY <2>1, <2>2, FieldsTyped
      <4> QED
        BY <2>1, <4>1 DEF Signature, Signatures, Type, Types
    <3>2. Signature(type[f]) # "none"
      BY <2>1, <2>2, <2>3, <2>5, Unreached DEF HasReset
    <3> QED
      BY <2>2, <2>5, <3>1, <3>2 DEF Signatures, Unwritable
  <2> QED
    BY <2>2, <2>4, <2>5
<1> QED
  BY <1>1, ResetPoolInvariant, PTL

\* What f leads to is closed, and every closed set holds it.
LEMMA Leads ==
    ASSUME NEW f
    PROVE  /\ type[f].base \in Structs => type[f].base \in LeadsTo(f)
           /\ \A s \in LeadsTo(f) : handmade[s] = "none" =>
                \A g \in Named(s) : type[g].base \in Structs => type[g].base \in LeadsTo(f)
           /\ \A structs \in SUBSET Structs :
                /\ type[f].base \in Structs => type[f].base \in structs
                /\ \A s \in structs : handmade[s] = "none" =>
                     \A g \in Named(s) : type[g].base \in Structs => type[g].base \in structs
                => LeadsTo(f) \subseteq structs
  BY DEF LeadsTo

\* If no field that f leads to is hidden, the structs on the way are reset whole.
LEMMA NothingHidden ==
    ASSUME Types, gen = Generated, DOMAIN gen = Targets,
           NEW r \in Structs, NEW f \in Named(r), ~Hidden(f),
           \A s \in LeadsTo(f) : handmade[s] # "none" \/ \A g \in Named(s) : ~Hidden(g)
    PROVE  LeadsTo(f) \subseteq Whole
<1> DEFINE made == {s \in LeadsTo(f) : handmade[s] # "none" \/ s \in DOMAIN gen}
<1>1. LeadsTo(f) \subseteq Structs
  BY DEF LeadsTo
<1>2. \A g : type[g].base \in Structs /\ ~Hidden(g) =>
             handmade[type[g].base] # "none" \/ type[g].base \in DOMAIN gen
  BY DEF Hidden, HasReset, Signature, IsStruct
<1>3. LeadsTo(f) \subseteq made
  <2>1. made \in SUBSET Structs
    BY <1>1
  <2>2. type[f].base \in Structs => type[f].base \in made
    BY <1>2, Leads
  <2>3. ASSUME NEW s \in made, handmade[s] = "none", NEW g \in Named(s), type[g].base \in Structs
        PROVE  type[g].base \in made
    BY <1>2, <2>3, Leads
  <2> HIDE DEF made
  <2> QED
    BY <2>1, <2>2, <2>3, Leads
<1>4. ASSUME NEW s \in LeadsTo(f), handmade[s] = "none", NEW g \in Named(s)
      PROVE  s \in DOMAIN gen /\ ~Keeps(s, g, LeadsTo(f))
  <2>1. s \in DOMAIN gen /\ s \in Structs /\ ~Hidden(g) /\ g \in FieldsOf[s]
    BY <1>1, <1>3, <1>4 DEF Named
  <2>2. gen[s][g] = EffectOn(g)
    BY <2>1 DEF Generated
  <2>3. gen[s][g] \notin {"nothing", "assert"}
    BY <2>1, <2>2, Unreached
  <2>4. type[g].base # "interface"
    BY <2>1 DEF Hidden
  <2>5. type[g].base \in Structs => type[g].base \in LeadsTo(f)
    BY <1>4, Leads
  <2> QED
    BY <2>1, <2>3, <2>4, <2>5 DEF Keeps
<1>5. \A s \in LeadsTo(f) : handmade[s] # "none" \/ s \in DOMAIN gen
  BY <1>3
<1>6. AllReset(LeadsTo(f))
  BY <1>4, <1>5 DEF AllReset
<1> QED
  BY <1>1, <1>6 DEF Whole

\* pool.go:38-51 over the generated Reset: an object of the pool keeps something of its
\* last client only in fields that are hidden from their Reset, or lead to one that is.
THEOREM PooledIsReset == Spec => []PoolIsClean
<1>1. RInv => PoolIsClean
  <2> SUFFICES ASSUME RInv, fresh = 2, Targets # {},
                      NEW o \in Objects, place[o] = "pool", NEW f \in dirty[o], ~Hidden(f),
                      \A s \in LeadsTo(f) : handmade[s] # "none" \/ \A g \in Named(s) : ~Hidden(g)
               PROVE  FALSE
    BY DEF PoolIsClean
  <2>1. gen = Generated /\ DOMAIN gen = Targets /\ Types
    BY GeneratedType DEF RInv, Settled
  <2>2. phase = "run" /\ Resettable /\ f \in Left(Root)
    BY ResetPoolAssumption DEF RInv, Types, Running, IsReset
  <2>3. handmade[Root] = "none" /\ f \in Named(Root) /\ Keeps(Root, f, Whole)
    BY <2>2 DEF Left
  <2>4. Root \in DOMAIN gen /\ Root \in Structs /\ f \in FieldsOf[Root]
    BY <2>2, <2>3, ResetPoolAssumption DEF Resettable, Named
  <2>5. gen[Root][f] = EffectOn(f)
    BY <2>1, <2>4 DEF Generated
  <2>6. gen[Root][f] \notin {"nothing", "assert"} /\ type[f].base # "interface"
    BY <2>1, <2>4, <2>5, Unreached DEF Hidden
  <2>7. type[f].base \in Structs => type[f].base \in Whole
    BY <2>1, <2>3, <2>4, NothingHidden, Leads
  <2> QED
    BY <2>3, <2>6, <2>7 DEF Keeps
<1> QED
  BY <1>1, ResetPoolInvariant, PTL
=============================================================================
