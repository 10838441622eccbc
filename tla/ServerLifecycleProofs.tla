------------------------ MODULE ServerLifecycleProofs ------------------------
(***************************************************************************)
(* Theorems about ServerLifecycle, for any set of updates, encodable or    *)
(* not, and any number of starts.                                          *)
(***************************************************************************)
EXTENDS ServerLifecycle, TLAPS

----------------------------------------------------------------------------
(* Type correctness. *)

\* The types at the beginning.
LEMMA InitType == ASSUME Init PROVE TypeOK
  <1>1. unread \in BOOLEAN
    BY Zenon DEF Init
  <1>2. /\ mem \in SUBSET Updates /\ due \in SUBSET Updates /\ saved \in SUBSET Updates
        /\ saver \in [Savers -> {"idle", "copied", "truncated"}]
        /\ copy \in [Savers -> SUBSET Updates]
        /\ update \in [Updates -> {"new", "handling", "applied", "acked", "cut"}]
    BY DEF Init
  <1>3. file = Missing /\ phase = "down" /\ ended = "not" /\ flags \in Flags /\ starts = 0
        /\ damage = "no"
    BY DEF Init
  <1> QED BY <1>1, <1>2, <1>3 DEF TypeOK

\* What a start, and the end of a process, do to the types.
LEMMA ProcessType ==
  ASSUME TypeOK, Start \/ Kill \/ ListenFails \/ ShutdownTimeout \/ Exit
  PROVE  TypeOK'
  <1>1. CASE Start
    <2>1. file.content \in SUBSET Updates
      BY DEF TypeOK, Missing, Broken, Whole
    <2>2. mem' \in SUBSET Updates /\ unread' \in BOOLEAN
      BY <1>1, <2>1 DEF Start, Restore
    <2>3. starts' \in Nat /\ flags' \in Flags /\ phase' = "serving" /\ ended' = "not" /\ due' = {}
      BY <1>1 DEF Start, Launch, TypeOK
    <2>4. UNCHANGED <<file, saver, copy, update, saved, damage>>
      BY <1>1 DEF Start, Launch
    <2> QED BY <2>2, <2>3, <2>4 DEF TypeOK
  <1>2. ASSUME NEW how \in {"clean", "timeout", "listen", "killed"}, End(how)
        PROVE  TypeOK'
    BY <1>2 DEF End, TypeOK
  <1> QED BY <1>1, <1>2 DEF Kill, ListenFails, ShutdownTimeout, Exit

\* The steps of a request keep the types.
LEMMA HandlerType ==
  ASSUME TypeOK, NEW u \in Updates, Arrive(u) \/ Apply(u) \/ Respond(u)
  PROVE  TypeOK'
  BY DEF Arrive, Apply, Respond, TypeOK

\* A save that begins keeps the types.
LEMMA CopyType ==
  ASSUME TypeOK, PeriodicSave \/ ShutdownDone \/ Signal
  PROVE  TypeOK'
  BY DEF PeriodicSave, ShutdownDone, Signal, Copy, Savers, TypeOK

\* The steps of a save keep the types, and the file is missing, broken or whole.
LEMMA SaverType ==
  ASSUME TypeOK, NEW s \in Savers, EncodeFails(s) \/ Truncate(s) \/ Write(s) \/ SaveFails(s)
  PROVE  TypeOK'
  <1>1. CASE EncodeFails(s) BY <1>1 DEF EncodeFails, SaveReturns, TypeOK
  <1>2. CASE Truncate(s) BY <1>2 DEF Truncate, TypeOK
  <1>3. CASE Write(s)
    <2>1. copy[s] \in SUBSET Updates BY DEF TypeOK
    <2> QED BY <1>3, <2>1 DEF Write, SaveReturns, TypeOK
  <1>4. CASE SaveFails(s) BY <1>4 DEF SaveFails, SaveReturns, TypeOK
  <1> QED BY <1>1, <1>2, <1>3, <1>4

\* Every variable keeps its type; the file is always missing, broken or whole.
THEOREM TypeCorrect == Spec => []TypeOK
  <1>1. Init => TypeOK
    BY InitType
  <1>2. TypeOK /\ [Next]_vars => TypeOK'
    <2> SUFFICES ASSUME TypeOK, [Next]_vars PROVE TypeOK'
      OBVIOUS
    <2>1. CASE UNCHANGED vars BY <2>1 DEF vars, TypeOK
    <2>2. CASE Next BY <2>2, ProcessType, HandlerType, CopyType, SaverType DEF Next
    <2> QED BY <2>1, <2>2
  <1> QED BY <1>1, <1>2, PTL DEF Spec

----------------------------------------------------------------------------
(* The inductive invariant. *)

\* A saver works only while the process runs, on the memory as it is (the read lock
\* keeps updates out); the periodic one only if there is one, the final one only
\* when main is in it.
SaversHoldMemory ==
    /\ \A s \in Savers : saver[s] # "idle" => phase # "down" /\ copy[s] = mem
    /\ saver["periodic"] # "idle" => flags.periodic
    /\ saver["final"] # "idle" => phase = "saving"

\* An update that was applied, or acknowledged, by the process is in its memory.
AppliedInMemory ==
    /\ due \subseteq mem
    /\ \A u \in Updates : update[u] = "applied" => phase # "down" /\ u \in mem

\* How a process ended is known only while none runs.
EndedIsDown == ended # "not" => phase = "down"

\* Once the final save has returned, the last completed save is of all the memory,
\* unless a save failed or the memory cannot be encoded.
FinalSaveComplete ==
    phase = "saved" /\ mem \cap Unsaveable = {} /\ damage # "error"
      => saved = mem /\ damage = "no" /\ file # Missing

LInv ==
    /\ TypeOK /\ SaversHoldMemory /\ AppliedInMemory /\ EndedIsDown /\ FinalSaveComplete
    /\ FileIsLastSave /\ OnlyUnsavedLost /\ CleanExitSaves

\* The three forms of the file differ.
LEMMA FileForms ==
  /\ Missing # Broken
  /\ \A S : Whole(S) # Missing /\ Whole(S) # Broken /\ Whole(S).content = S
            /\ Whole(S).kind = "whole"
  /\ Missing.kind = "missing" /\ Broken.kind = "broken"
  /\ Missing.content = {} /\ Broken.content = {}
  BY DEF Missing, Broken, Whole

\* A start restores what the last save has left, if nothing came to grief.
LEMMA StartInv ==
  ASSUME LInv, Start
  PROVE  LInv'
  <1>1. TypeOK' BY ProcessType DEF LInv
  <1>2. \A s \in Savers : saver[s] = "idle"
    BY DEF LInv, SaversHoldMemory, Start, Launch, Restore
  <1>3. SaversHoldMemory' /\ EndedIsDown' /\ FinalSaveComplete' /\ CleanExitSaves'
    BY <1>2 DEF Start, Launch, Restore, SaversHoldMemory, Savers, EndedIsDown, FinalSaveComplete, CleanExitSaves
  <1>4. AppliedInMemory'
    BY DEF LInv, AppliedInMemory, Start, Launch, Restore
  <1>5. FileIsLastSave'
    BY DEF LInv, FileIsLastSave, Start, Launch, Restore
  <1>6. OnlyUnsavedLost'
    <2> SUFFICES ASSUME damage = "no", flags'.restore, ~unread' PROVE saved \subseteq mem'
      BY DEF OnlyUnsavedLost, Start, Launch, Restore
    <2>1. file = Whole(saved) \/ saved = {}
      BY <1>2 DEF LInv, FileIsLastSave
    <2> QED BY <2>1, FileForms DEF Start, Launch, Restore
  <1> QED BY <1>1, <1>3, <1>4, <1>5, <1>6 DEF LInv

\* The end of a process, however it comes.  A process that ends inside a save leaves a
\* mark; one that ends after its final save has saved everything.
LEMMA EndInv ==
  ASSUME LInv, NEW how, End(how), phase # "down", TypeOK',
         how = "clean" => phase = "saved"
  PROVE  LInv'
  <1>1. SaversHoldMemory' /\ EndedIsDown' /\ FinalSaveComplete' /\ OnlyUnsavedLost'
    BY DEF End, SaversHoldMemory, Savers, EndedIsDown, FinalSaveComplete, OnlyUnsavedLost
  <1>2. AppliedInMemory'
    <2>1. \A u \in Updates : update'[u] # "applied"
      BY DEF End, InFlight
    <2> QED BY <2>1 DEF LInv, AppliedInMemory, End
  <1>3. FileIsLastSave'
    <2> SUFFICES ASSUME damage' = "no"
                 PROVE  file = Whole(saved) \/ (file = Missing /\ saved = {})
      BY DEF FileIsLastSave, End
    <2>1. damage = "no" /\ \A s \in Savers : saver[s] # "truncated"
      BY DEF End
    <2> QED BY <2>1 DEF LInv, FileIsLastSave
  <1>4. CleanExitSaves'
    <2> SUFFICES ASSUME how = "clean", mem \cap Unsaveable = {},
                        damage' = "no" \/ (damage' = "died" /\ ~flags.periodic)
                 PROVE  file = Whole(mem) /\ due \subseteq mem
      BY DEF CleanExitSaves, End
    <2>1. damage # "error"
      BY DEF End
    <2>2. saved = mem /\ damage = "no" /\ file # Missing
      BY <2>1 DEF LInv, FinalSaveComplete
    <2>3. \A s \in Savers : saver[s] # "truncated"
      <3>1. CASE damage' = "no" BY <3>1, <2>2 DEF End
      <3>2. CASE damage' = "died" /\ ~flags.periodic
        BY <3>2 DEF LInv, SaversHoldMemory, Savers
      <3> QED BY <3>1, <3>2
    <2> QED BY <2>2, <2>3 DEF LInv, FileIsLastSave, AppliedInMemory
  <1> QED BY <1>1, <1>2, <1>3, <1>4 DEF LInv

\* A request changes the memory only while no save is in progress.
LEMMA HandlerInv ==
  ASSUME LInv, NEW u \in Updates, Arrive(u) \/ Apply(u) \/ Respond(u)
  PROVE  LInv'
  <1>1. TypeOK' BY HandlerType DEF LInv
  <1>2. mem \subseteq mem' /\ UNCHANGED <<phase, ended, flags, unread, file, saver, copy, saved, damage>>
    BY DEF Arrive, Apply, Respond
  <1>3. phase \in {"serving", "draining"}
    BY DEF Arrive, Apply, Respond, Handlers
  <1>4. SaversHoldMemory'
    <2>1. (\A s \in Savers : saver[s] = "idle") \/ mem' = mem
      BY DEF Arrive, Apply, Respond, Saving
    <2> QED BY <1>2, <2>1 DEF LInv, SaversHoldMemory, Savers
  <1>5. AppliedInMemory'
    BY <1>2, <1>3 DEF LInv, AppliedInMemory, TypeOK, Arrive, Apply, Respond
  <1>6. EndedIsDown' /\ FinalSaveComplete' /\ FileIsLastSave' /\ OnlyUnsavedLost' /\ CleanExitSaves'
    BY <1>2, <1>3 DEF LInv, EndedIsDown, FinalSaveComplete, FileIsLastSave, OnlyUnsavedLost,
                      CleanExitSaves
  <1> QED BY <1>1, <1>4, <1>5, <1>6 DEF LInv

\* The signal, and a save that begins.
LEMMA CopyInv ==
  ASSUME LInv, PeriodicSave \/ ShutdownDone \/ Signal
  PROVE  LInv'
  <1>1. TypeOK' BY CopyType DEF LInv
  <1>2. UNCHANGED <<ended, flags, unread, mem, file, update, due, saved, damage>>
        /\ phase # "down" /\ phase' # "down" /\ (phase' = "saved" => phase = "saved")
    BY DEF PeriodicSave, ShutdownDone, Signal
  <1>3. \A s \in Savers : saver'[s] = "truncated" <=> saver[s] = "truncated"
    BY DEF LInv, TypeOK, SaversHoldMemory, PeriodicSave, ShutdownDone, Signal, Copy, Savers
  <1>4. SaversHoldMemory'
    BY DEF LInv, TypeOK, SaversHoldMemory, PeriodicSave, ShutdownDone, Signal, Copy, Savers
  <1>5. AppliedInMemory' /\ EndedIsDown' /\ FinalSaveComplete' /\ OnlyUnsavedLost' /\ CleanExitSaves'
    BY <1>2 DEF LInv, AppliedInMemory, EndedIsDown, FinalSaveComplete, OnlyUnsavedLost, CleanExitSaves
  <1>6. FileIsLastSave'
    BY <1>2, <1>3 DEF LInv, FileIsLastSave
  <1> QED BY <1>1, <1>4, <1>5, <1>6 DEF LInv

\* The steps of a save, of which two may be in progress.
LEMMA SaverInv ==
  ASSUME LInv, NEW s \in Savers, EncodeFails(s) \/ Truncate(s) \/ Write(s) \/ SaveFails(s)
  PROVE  LInv'
  <1>1. TypeOK' BY SaverType DEF LInv
  <1>2. UNCHANGED <<ended, flags, unread, mem, update, due>> /\ phase # "down" /\ phase' # "down"
        /\ copy[s] = mem /\ (phase' = phase \/ (s = "final" /\ phase' = "saved"))
    BY DEF LInv, SaversHoldMemory, EncodeFails, Truncate, Write, SaveFails, SaveReturns
  <1>3. SaversHoldMemory'
    <2>1. CASE Truncate(s)
      BY <2>1 DEF LInv, TypeOK, SaversHoldMemory, Truncate, Savers
    <2>2. CASE SaveReturns(s)
      BY <2>2 DEF LInv, TypeOK, SaversHoldMemory, SaveReturns, Savers
    <2> QED BY <2>1, <2>2 DEF EncodeFails, Write, SaveFails
  <1>4. AppliedInMemory' /\ EndedIsDown'
    BY <1>2 DEF LInv, AppliedInMemory, EndedIsDown
  <1>5. CleanExitSaves'
    BY <1>2 DEF LInv, CleanExitSaves, EndedIsDown
  <1>6. FileIsLastSave'
    <2>1. CASE EncodeFails(s)
      BY <2>1 DEF LInv, TypeOK, FileIsLastSave, EncodeFails, SaveReturns
    <2>2. CASE Truncate(s)
      BY <2>2 DEF LInv, TypeOK, FileIsLastSave, Truncate
    <2>3. CASE Write(s) BY <2>3 DEF FileIsLastSave, Write
    <2>4. CASE SaveFails(s) BY <2>4 DEF FileIsLastSave, SaveFails
    <2> QED BY <2>1, <2>2, <2>3, <2>4
  <1>7. OnlyUnsavedLost'
    BY <1>2 DEF LInv, OnlyUnsavedLost, EncodeFails, Truncate, Write, SaveFails
  <1>8. FinalSaveComplete'
    <2>1. CASE EncodeFails(s)
      BY <2>1, <1>2 DEF LInv, FinalSaveComplete, EncodeFails
    <2>2. CASE Truncate(s)
      BY <2>2, <1>2, FileForms DEF LInv, FinalSaveComplete, Truncate
    <2>3. CASE Write(s) BY <2>3, <1>2, FileForms DEF FinalSaveComplete, Write
    <2>4. CASE SaveFails(s) BY <2>4 DEF FinalSaveComplete, SaveFails
    <2> QED BY <2>1, <2>2, <2>3, <2>4
  <1> QED BY <1>1, <1>3, <1>4, <1>5, <1>6, <1>7, <1>8 DEF LInv

\* LInv is an inductive invariant.
THEOREM LifecycleInvariant == Spec => []LInv
  <1>1. Init => LInv
    <2> SUFFICES ASSUME Init PROVE LInv
      OBVIOUS
    <2>1. TypeOK BY InitType
    <2> QED BY <2>1 DEF Init, LInv, SaversHoldMemory, Savers, AppliedInMemory, EndedIsDown,
                        FinalSaveComplete, FileIsLastSave, OnlyUnsavedLost, CleanExitSaves
  <1>2. LInv /\ [Next]_vars => LInv'
    <2> SUFFICES ASSUME LInv, [Next]_vars PROVE LInv'
      OBVIOUS
    <2>1. CASE UNCHANGED vars
      BY <2>1 DEF vars, LInv, TypeOK, SaversHoldMemory, AppliedInMemory, EndedIsDown,
                  FinalSaveComplete, FileIsLastSave, OnlyUnsavedLost, CleanExitSaves
    <2>2. CASE Kill \/ ListenFails \/ ShutdownTimeout \/ Exit
      <3>1. TypeOK' BY <2>2, ProcessType DEF LInv
      <3> QED BY <2>2, <3>1, EndInv DEF Kill, ListenFails, ShutdownTimeout, Exit
    <2> QED BY <2>1, <2>2, StartInv, HandlerInv, CopyInv, SaverInv DEF Next
  <1> QED BY <1>1, <1>2, PTL DEF Spec

\* A clean exit leaves the memory, and every acknowledged update with it, in the file.
THEOREM CleanExitIsSaved == Spec => []CleanExitSaves
  BY LifecycleInvariant, PTL DEF LInv

\* A process that dies loses no more than the updates since the last completed save, if
\* the next one can read the file (MemStorage.LoadFromFile, memstorage.go:137).
THEOREM SavedIsNotLost == Spec => []OnlyUnsavedLost
  BY LifecycleInvariant, PTL DEF LInv

\* Between saves the file is the last completed save.
THEOREM FileIsWhole == Spec => []FileIsLastSave
  BY LifecycleInvariant, PTL DEF LInv
=============================================================================
