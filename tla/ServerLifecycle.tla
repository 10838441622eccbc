--------------------------- MODULE ServerLifecycle ---------------------------
(***************************************************************************)
(* The life of the server process with MemStorage and a storage file: the  *)
(* restore at start, the handlers of POST requests, the periodic saver,    *)
(* the shutdown on a signal with its deadline and its final save, and the  *)
(* ways a process ends early.  The file survives the process.              *)
(*                                                                         *)
(* The metrics are abstracted to the set of the updates applied to them,   *)
(* the file to a set of updates or to bytes that are no JSON document.     *)
(***************************************************************************)
EXTENDS Naturals, FiniteSets

CONSTANTS
    Updates,    \* the update requests of all clients
    Unsaveable, \* those that set a gauge to NaN or an infinity, which JSON cannot say
    MaxStarts   \* bound on the starts of the process

ASSUME LifecycleAssumption == Unsaveable \subseteq Updates /\ MaxStarts \in Nat

\* flagRestore, and flagStoreInterval > 0.  FILE_STORAGE_PATH is set, DATABASE_DSN not.
Flags == [restore : BOOLEAN, periodic : BOOLEAN]

Savers == {"periodic", "final"}

\* No file yet; and a file that LoadFromFile cannot parse (empty, or cut off).
Missing == [kind |-> "missing", content |-> {}]
Broken  == [kind |-> "broken", content |-> {}]
Whole(S) == [kind |-> "whole", content |-> S]

VARIABLES
    phase,     \* "down", "serving", "draining" (in Shutdown), "saving", "saved"
    ended,     \* how the last process ended: "not", "clean", "timeout", "listen", "killed"
    flags,     \* the flags of the current or last process
    unread,    \* the current or last process found the file it was to restore, and could
               \* not read it (no permission, an I/O error)
    starts,    \* processes started (bounded)
    mem,       \* the MemStorage; of a dead process, its last state
    file,      \* the storage file
    saver,     \* each caller of SaveToFile: "idle", "copied", "truncated"
    copy,      \* the data it has marshalled
    update,    \* each request: "new", "handling", "applied", "acked", "cut"
    due,       \* history: the updates acknowledged by the current process
    saved,     \* history: the content of the last completed save
    damage     \* history: what has happened to the file since then: "no", "error" (a
               \* save has failed), "died" (the process ended inside a save)

vars == <<phase, ended, flags, unread, starts, mem, file, saver, copy, update, due, saved, damage>>

TypeOK ==
    /\ phase \in {"down", "serving", "draining", "saving", "saved"}
    /\ ended \in {"not", "clean", "timeout", "listen", "killed"}
    /\ flags \in Flags /\ unread \in BOOLEAN /\ starts \in Nat
    /\ mem \in SUBSET Updates
    /\ file \in {Missing, Broken} \cup {Whole(S) : S \in SUBSET Updates}
    /\ saver \in [Savers -> {"idle", "copied", "truncated"}]
    /\ copy \in [Savers -> SUBSET Updates]
    /\ update \in [Updates -> {"new", "handling", "applied", "acked", "cut"}]
    /\ due \in SUBSET Updates /\ saved \in SUBSET Updates /\ damage \in {"no", "error", "died"}

Init ==
    /\ phase = "down" /\ ended = "not" /\ flags \in Flags /\ unread = FALSE /\ starts = 0
    /\ mem = {} /\ file = Missing
    /\ saver = [s \in Savers |-> "idle"] /\ copy = [s \in Savers |-> {}]
    /\ update = [u \in Updates |-> "new"]
    /\ due = {} /\ saved = {} /\ damage = "no"

InFlight == {u \in Updates : update[u] \in {"handling", "applied"}}
Saving == {s \in Savers : saver[s] # "idle"}

----------------------------------------------------------------------------
(* Start and end of the process. *)

Launch ==
    /\ phase = "down" /\ starts < MaxStarts
    /\ phase' = "serving" /\ starts' = starts + 1 /\ ended' = "not" /\ flags' \in Flags
    /\ due' = {}
    /\ UNCHANGED <<saver, copy, update, saved, damage>>

\* LoadFromFile: a missing file restores nothing; neither does one that cannot be read
\* or parsed, of which run only logs a warning.
Restore ==
    /\ unread' \in IF flags'.restore /\ file # Missing THEN BOOLEAN ELSE {FALSE}
    /\ mem' = IF flags'.restore /\ ~unread' /\ file.kind = "whole" THEN file.content ELSE {}

\* Mutant: nothing is restored.
Start_NoRestore == Launch /\ mem' = {} /\ UNCHANGED <<file, unread>>

\* Mutant: the file is created anew at every start.
Start_CreatesFile == Launch /\ Restore /\ file' = Broken

\* run, up to ListenAndServe.
Start == Launch /\ Restore /\ UNCHANGED file

\* The process is gone: the goroutines stop where they are, the connections of the
\* requests in flight are cut.
End(how) ==
    /\ phase' = "down" /\ ended' = how
    /\ saver' = [s \in Savers |-> "idle"] /\ copy' = [s \in Savers |-> {}]
    /\ update' = [u \in Updates |-> IF u \in InFlight THEN "cut" ELSE update[u]]
    /\ damage' = IF damage = "no" /\ \E s \in Savers : saver[s] = "truncated"
                   THEN "died" ELSE damage
    /\ UNCHANGED <<flags, unread, starts, mem, file, due, saved>>

\* The process crashes, or gets a signal it does not handle; the machine goes on, so what
\* was written to the file is there (it is not synced, a loss of power is another matter).
Kill == phase # "down" /\ End("killed")

\* ListenAndServe fails: run returns its error, with no save.
ListenFails == phase = "serving" /\ End("listen")

----------------------------------------------------------------------------
(* The handlers: the storage is updated under its write lock, so not while a save *)
(* holds the read lock; then the audit, then the answer.                          *)

Handlers == phase \in {"serving", "draining"}

Arrive(u) ==
    /\ phase = "serving" /\ update[u] = "new"
    /\ update' = [update EXCEPT ![u] = "handling"]
    /\ UNCHANGED <<phase, ended, flags, unread, starts, mem, file, saver, copy, due, saved, damage>>

\* Mutant: an update does not wait for the save.
Apply_Unlocked(u) ==
    /\ Handlers /\ update[u] = "handling"
    /\ mem' = mem \cup {u}
    /\ update' = [update EXCEPT ![u] = "applied"]
    /\ UNCHANGED <<phase, ended, flags, unread, starts, file, saver, copy, due, saved, damage>>

Apply(u) ==
    /\ Handlers /\ update[u] = "handling" /\ Saving = {}
    /\ mem' = mem \cup {u}
    /\ update' = [update EXCEPT ![u] = "applied"]
    /\ UNCHANGED <<phase, ended, flags, unread, starts, file, saver, copy, due, saved, damage>>

Respond(u) ==
    /\ Handlers /\ update[u] = "applied"
    /\ update' = [update EXCEPT ![u] = "acked"] /\ due' = due \cup {u}
    /\ UNCHANGED <<phase, ended, flags, unread, starts, mem, file, saver, copy, saved, damage>>

----------------------------------------------------------------------------
(* SaveToFile: a copy under the read lock, held to the end, and encoded;           *)
(* os.WriteFile truncates the file, then writes it.                                *)

Copy(s) == saver' = [saver EXCEPT ![s] = "copied"] /\ copy' = [copy EXCEPT ![s] = mem]

\* A tick of PeriodicStore, whose goroutine runs until the process ends.
PeriodicSave ==
    /\ flags.periodic /\ phase # "down" /\ saver["periodic"] = "idle"
    /\ Copy("periodic")
    /\ UNCHANGED <<phase, ended, flags, unread, starts, mem, file, update, due, saved, damage>>

\* The rest of the state when SaveToFile returns; the final save takes main on.
SaveReturns(s) ==
    /\ saver' = [saver EXCEPT ![s] = "idle"] /\ copy' = [copy EXCEPT ![s] = {}]
    /\ phase' = IF s = "final" THEN "saved" ELSE phase
    /\ UNCHANGED <<ended, flags, unread, starts, mem, update, due>>

\* json.MarshalIndent fails, before the file is opened; the error is dropped
\* (periodic) or logged (final).
EncodeFails(s) ==
    /\ saver[s] = "copied" /\ copy[s] \cap Unsaveable # {}
    /\ SaveReturns(s) /\ UNCHANGED <<file, saved, damage>>

\* Mutant: the file is opened without truncating it.
Truncate_KeepsContent(s) ==
    /\ saver[s] = "copied"
    /\ saver' = [saver EXCEPT ![s] = "truncated"] /\ file' = [file EXCEPT !.kind = "broken"]
    /\ UNCHANGED <<phase, ended, flags, unread, starts, mem, copy, update, due, saved, damage>>

Truncate(s) ==
    /\ saver[s] = "copied" /\ copy[s] \cap Unsaveable = {}
    /\ saver' = [saver EXCEPT ![s] = "truncated"] /\ file' = Broken
    /\ UNCHANGED <<phase, ended, flags, unread, starts, mem, copy, update, due, saved, damage>>

Write(s) ==
    /\ saver[s] = "truncated"
    /\ file' = Whole(copy[s]) /\ saved' = copy[s] /\ damage' = "no"
    /\ SaveReturns(s)

\* The file cannot be opened, or not written, with the same effect on the caller.
SaveFails(s) ==
    /\ saver[s] # "idle" /\ copy[s] \cap Unsaveable = {}
    /\ file' \in IF saver[s] = "truncated" THEN {file, Broken} ELSE {file}
    /\ damage' = "error"
    /\ SaveReturns(s) /\ UNCHANGED saved

----------------------------------------------------------------------------
(* The shutdown. *)

\* The first signal: Shutdown closes the listener and waits for the handlers.
Signal ==
    /\ phase = "serving" /\ phase' = "draining"
    /\ UNCHANGED <<ended, flags, unread, starts, mem, file, saver, copy, update, due, saved, damage>>

\* Shutdown returns nil: the final save begins.
ShutdownDone ==
    /\ phase = "draining" /\ InFlight = {}
    /\ phase' = "saving" /\ Copy("final")
    /\ UNCHANGED <<ended, flags, unread, starts, mem, file, update, due, saved, damage>>

\* Mutant: Shutdown with a context that has no deadline.
ShutdownTimeout_Never == FALSE /\ UNCHANGED vars

\* Five seconds are over: run returns the error of Shutdown at once.
ShutdownTimeout == phase = "draining" /\ InFlight # {} /\ End("timeout")

\* run returns nil, and main with it.
Exit == phase = "saved" /\ End("clean")

----------------------------------------------------------------------------
Next ==
    \/ Start \/ Kill \/ ListenFails
    \/ \E u \in Updates : Arrive(u) \/ Apply(u) \/ Respond(u)
    \/ PeriodicSave
    \/ \E s \in Savers : EncodeFails(s) \/ Truncate(s) \/ Write(s) \/ SaveFails(s)
    \/ Signal \/ ShutdownDone \/ ShutdownTimeout \/ Exit

Spec == Init /\ [][Next]_vars

\* main goes on and file operations end; nothing is assumed of the handlers (an
\* audit sink or a slow client may keep one for long) nor of the ticks.
FairSpec ==
    /\ Spec
    /\ WF_vars(ShutdownDone) /\ WF_vars(ShutdownTimeout) /\ WF_vars(Exit)
    /\ \A s \in Savers : WF_vars(EncodeFails(s) \/ Truncate(s) \/ Write(s) \/ SaveFails(s))

----------------------------------------------------------------------------
(* Properties. *)

\* After a shutdown that ran to its end the file holds the memory of the process, and
\* with it every update it has acknowledged.  Three things are allowed for: a value that
\* cannot be encoded, a save that failed, and, with a periodic saver, a process that
\* ended inside its save.
CleanExitSaves ==
    /\ ended = "clean" /\ mem \cap Unsaveable = {}
    /\ damage = "no" \/ (damage = "died" /\ ~flags.periodic)
    => file = Whole(mem) /\ due \subseteq mem

\* A process that dies, at whatever step, loses no more than the updates since the
\* last completed save, unless it died inside a save, a save failed, or the next process
\* cannot read the file: it then serves an empty memory, and its saves overwrite the file.
OnlyUnsavedLost ==
    phase # "down" /\ damage = "no" /\ flags.restore /\ ~unread => saved \subseteq mem

\* While no save is being written and none has come to grief, the file is whole, with
\* the content of the last completed save, though two savers may write at once and
\* others may find nothing they can encode.
FileIsLastSave ==
    damage = "no" /\ (\A s \in Savers : saver[s] # "truncated")
        => file = Whole(saved) \/ (file = Missing /\ saved = {})

\* A shutdown always ends, whatever the handlers do: the deadline sees to it.
ShutdownEnds == phase = "draining" ~> phase = "down"
=============================================================================
