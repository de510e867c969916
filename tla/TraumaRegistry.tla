---------------------------- MODULE TraumaRegistry ----------------------------
(***************************************************************************)
(* packages/soul/src/eidolon/TraumaRegistry.ts: records of failed actions, *)
(* kept in a map and in the Rust registry beside it, and saved by a        *)
(* debounced timer.  A hit is named by a number of its own, 0 for none,    *)
(* and inhibits while it is in `recent': the first hour, the shortest of   *)
(* the windows of 1, 2, 4, 8, 16 and 24 hours.                             *)
(*                                                                         *)
(* Windows are those of the first 31 repetitions: the 32nd shifts into the *)
(* sign bit and has none.  The Rust registry is there, which is the        *)
(* default: without WASM a stand-in of WasmAdapter.ts takes its place.     *)
(***************************************************************************)
EXTENDS Integers, Sequences

CONSTANTS
  Contexts,      \* pairs of mode and action
  MaxTraumas,    \* bound: traumas in all
  MaxFaults      \* bound: crashes and failed saves in all

VARIABLES
  records,       \* the map: a hit per context
  rust,          \* the Rust registry
  recent,        \* hits whose first hour is not over
  persistence,   \* "none", "loading" or "ready"
  saved,         \* what load() has read, while "loading"
  armed,         \* persistTimer is set
  inFlight,      \* <<what is being saved>>, or <<>>
  file,          \* the file
  traumas, faults,
  due,           \* history: the hit that has to inhibit, per context
  missed         \* history: something is unsaved that no save was started for

vars == <<records, rust, recent, persistence, saved, armed, inFlight, file,
          traumas, faults, due, missed>>

Hits == [Contexts -> 0 .. MaxTraumas]
NoHits == [c \in Contexts |-> 0]

TypeOK ==
  /\ records \in Hits /\ rust \in Hits /\ file \in Hits /\ saved \in Hits /\ due \in Hits
  /\ recent \subseteq 1 .. MaxTraumas
  /\ persistence \in {"none", "loading", "ready"}
  /\ armed \in BOOLEAN /\ missed \in BOOLEAN
  /\ inFlight = <<>> \/ (Len(inFlight) = 1 /\ inFlight[1] \in Hits)
  /\ traumas \in 0 .. MaxTraumas /\ faults \in 0 .. MaxFaults

Init ==
  /\ records = NoHits /\ rust = NoHits /\ file = NoHits /\ saved = NoHits /\ due = NoHits
  /\ recent = {}
  /\ persistence = "none"
  /\ armed = FALSE /\ inFlight = <<>> /\ missed = FALSE
  /\ traumas = 0 /\ faults = 0

Inhibiting(hit) == hit \in recent

(* mutant: both registries have to agree *)
isInhibited_both(c) == Inhibiting(records[c]) /\ Inhibiting(rust[c])

isInhibited(c) == Inhibiting(records[c]) \/ Inhibiting(rust[c])

(* schedulePersist(): one timer at a time, none without a storage. *)
schedulePersist ==
  /\ armed' = (armed \/ persistence # "none")
  /\ missed' = (missed \/ persistence = "none")

(* persistNow(): a copy of the records is saved, unless a save is in flight:
   that one is awaited, whatever it does not contain. *)
persistNow ==
  IF persistence = "none" \/ inFlight # <<>>
    THEN /\ missed' = (missed \/ (inFlight # <<>> /\ inFlight # <<records>>))
         /\ UNCHANGED inFlight
    ELSE inFlight' = <<records>> /\ missed' = FALSE

(* initPersistence(), up to its load. *)
initPersistence ==
  /\ persistence = "none"
  /\ persistence' = "loading"
  /\ saved' = file
  /\ UNCHANGED <<records, rust, recent, armed, inFlight, file, traumas, faults, due, missed>>

(* What the file will hold when no save follows the one in flight. *)
Stored == IF inFlight = <<>> THEN file ELSE inFlight[1]

(* The load is back: a file with records replaces the map, together with what
   was recorded or healed meanwhile. *)
loaded ==
  /\ persistence = "loading"
  /\ persistence' = "ready"
  /\ records' = IF saved = NoHits THEN records ELSE saved
  /\ due' = [c \in Contexts |-> IF due[c] = 0 /\ saved # NoHits THEN saved[c] ELSE due[c]]
  /\ saved' = NoHits
  /\ missed' = (missed \/ (~armed /\ records' # Stored))
  /\ UNCHANGED <<rust, recent, armed, inFlight, file, traumas, faults>>

recordTrauma(c) ==
  /\ traumas < MaxTraumas
  /\ traumas' = traumas + 1
  /\ records' = [records EXCEPT ![c] = traumas + 1]
  /\ rust' = [rust EXCEPT ![c] = traumas + 1]
  /\ recent' = recent \union {traumas + 1}
  /\ due' = [due EXCEPT ![c] = traumas + 1]
  /\ schedulePersist
  /\ UNCHANGED <<persistence, saved, inFlight, file, faults>>

heal(c) ==
  /\ records' = [records EXCEPT ![c] = 0]
  /\ rust' = [rust EXCEPT ![c] = 0]
  /\ due' = [due EXCEPT ![c] = 0]
  /\ schedulePersist
  /\ UNCHANGED <<recent, persistence, saved, inFlight, file, traumas, faults>>

timerFires ==
  /\ armed
  /\ armed' = FALSE
  /\ persistNow
  /\ UNCHANGED <<records, rust, recent, persistence, saved, file, traumas, faults, due>>

(* flush(), on teardown. *)
flush ==
  /\ armed' = FALSE
  /\ persistNow
  /\ UNCHANGED <<records, rust, recent, persistence, saved, file, traumas, faults, due>>

(* The adapter has renamed the new file into place. *)
saveDone ==
  /\ inFlight # <<>>
  /\ file' = inFlight[1]
  /\ inFlight' = <<>>
  /\ UNCHANGED <<records, rust, recent, persistence, saved, armed, traumas, faults, due, missed>>

(* The error of a save is logged; nobody tries again. *)
saveFails ==
  /\ inFlight # <<>> /\ faults < MaxFaults
  /\ faults' = faults + 1
  /\ inFlight' = <<>>
  /\ missed' = TRUE
  /\ UNCHANGED <<records, rust, recent, persistence, saved, armed, file, traumas, due>>

(* The first hour of a hit ends. *)
hourEnds ==
  /\ \E h \in recent : recent' = recent \ {h}
  /\ UNCHANGED <<records, rust, persistence, saved, armed, inFlight, file, traumas, faults, due, missed>>

(* The process ends and starts again; the Rust registry starts empty. *)
crash ==
  /\ faults < MaxFaults
  /\ faults' = faults + 1
  /\ records' = NoHits /\ rust' = NoHits /\ due' = NoHits /\ saved' = NoHits
  /\ persistence' = "none"
  /\ armed' = FALSE /\ inFlight' = <<>> /\ missed' = FALSE
  /\ UNCHANGED <<recent, file, traumas>>

Next ==
  \/ initPersistence \/ loaded
  \/ \E c \in Contexts : recordTrauma(c) \/ heal(c)
  \/ timerFires \/ flush \/ saveDone \/ saveFails
  \/ hourEnds \/ crash

Spec == Init /\ [][Next]_vars

-----------------------------------------------------------------------------
(* Properties *)

(* A trauma inhibits its action for at least an hour unless it is healed,
   although a load may wipe the map and a restart empties the Rust registry:
   due is what was recorded in this run or, failing that, loaded from disk. *)
InhibitionHolds == \A c \in Contexts : Inhibiting(due[c]) => isInhibited(c)

(* Once nothing is scheduled or in flight, the file holds the records, unless
   a save failed, was skipped because another was in flight, was written
   before the load was over, or was not scheduled because the records were
   made before initPersistence. *)
QuietMeansSaved ==
  (persistence = "ready" /\ ~armed /\ inFlight = <<>> /\ ~missed) => file = records
=============================================================================
