---------------------------- MODULE EmotionalCore ----------------------------
(***************************************************************************)
(* packages/soul/src/eidolon/EmotionalCore.ts: a state that every event    *)
(* changes in place, and a snapshot of it that is written behind: at once  *)
(* on danger, 15 s after a large change, after 60 s in any case, and on    *)
(* dispose.                                                                *)
(*                                                                         *)
(* Of the state, stress stands for what loadState merges by taking the     *)
(* worse value (cortisol, glucose) and mood for what it overwrites.  A     *)
(* change of 2 is significant.  Saves run one at a time in the order of    *)
(* their calls (Exclusion and Fifo of AsyncLock), each in two steps: the   *)
(* object is turned into text once the lock is held, and the file is       *)
(* replaced later.                                                         *)
(***************************************************************************)
EXTENDS Integers, Sequences

CONSTANTS
  MaxEvents,    \* bound: changes of the state in all
  MaxFaults     \* bound: crashes and failed saves in all

VARIABLES
  state,
  former,           \* the object that loadState replaced
  lastPersisted,    \* lastPersistedState
  stale,            \* lastPersistedAt is 60 s ago
  flushTimer,       \* armed
  saves,            \* calls of save, first come first: object, and callers to save next
  text,             \* what the first of them writes, <<>> until it is stringified
  busy,             \* persistInFlight is set: it is the last of saves
  load,             \* loadState: "reading", "merging" or "done"
  found,            \* what it has read, <<>> for no file
  disposed,
  file,             \* the snapshot file, <<>> for none
  events, faults,
  unsure            \* history: disposed before the load was over, or a save failed since

vars == <<state, former, lastPersisted, stale, flushTimer, saves, text, busy, load,
          found, disposed, file, events, faults, unsure>>

saving == <<saves, text, busy>>
memory == <<state, former, lastPersisted, stale>>
startup == <<load, found>>
counters == <<events, faults>>

Level == 0 .. 2
State == [stress : Level, mood : Level]
Default == [stress |-> 0, mood |-> 1]

TypeOK ==
  /\ state \in State /\ former \in State /\ lastPersisted \in State
  /\ \A b \in {stale, flushTimer, busy, disposed, unsure} : b \in BOOLEAN
  /\ \A i \in 1 .. Len(saves) : saves[i].object \in {"current", "former"} /\ saves[i].next \in Nat
  /\ \A opt \in {text, found, file} : opt = <<>> \/ opt[1] \in State
  /\ load \in {"reading", "merging", "done"}
  /\ busy => saves # <<>>

Init ==
  /\ state = Default /\ former = Default /\ lastPersisted = Default
  /\ stale = FALSE /\ flushTimer = FALSE
  /\ saves = <<>> /\ text = <<>> /\ busy = FALSE
  /\ load = "reading" /\ found = <<>>
  /\ disposed = FALSE /\ unsure = FALSE
  /\ file = <<>> /\ events = 0 /\ faults = 0

hasSignificantChange(a, b) ==
  \/ a.stress - b.stress \in {-2, 2}
  \/ a.mood - b.mood \in {-2, 2}

NewSave == [object |-> "current", next |-> 0]

(* flushSnapshotPersist(true), called n times: each saves behind the save in
   flight, and the first starts one if there is none. *)
flushForced(n) ==
  /\ saves' = IF busy THEN [saves EXCEPT ![Len(saves)].next = @ + n]
                      ELSE Append(saves, [NewSave EXCEPT !.next = n - 1])
  /\ busy' = TRUE
  /\ UNCHANGED text

(* flushSnapshotPersist(false): nothing if a save is in flight. *)
flushUnforced ==
  IF ~busy /\ (stale \/ hasSignificantChange(lastPersisted, state))
    THEN flushForced(1)
    ELSE UNCHANGED saving

(* maybePersistState(). *)
maybePersist(before, after) ==
  flushTimer' = (flushTimer \/ stale \/ hasSignificantChange(before, after))

(* tick(): a change of its own, or none; called for every block and price once
   the listeners are there. *)
tick ==
  /\ ~disposed /\ load = "done"
  /\ \E next \in State :
       /\ next # state => events < MaxEvents
       /\ events' = IF next = state THEN events ELSE events + 1
       /\ state' = next
       /\ maybePersist(state, next)
  /\ UNCHANGED <<former, lastPersisted, stale, saving, startup, disposed, file, faults, unsure>>

(* A tick that has nothing to change. *)
quietTick ==
  /\ ~disposed /\ load = "done"
  /\ maybePersist(state, state)
  /\ UNCHANGED <<memory, saving, startup, disposed, file, counters, unsure>>

(* The tick at the end of stimulate() reads before after the change, so only
   the age of the snapshot makes it schedule a save; within the millisecond of
   the last tick it returns at once. *)
tickAfter(s) == maybePersist(s, s) \/ UNCHANGED flushTimer

(* stimulate() with a profit or a loss. *)
stimulate ==
  /\ ~disposed /\ events < MaxEvents
  /\ events' = events + 1
  /\ \E next \in State \ {state} : state' = next /\ tickAfter(next)
  /\ UNCHANGED <<former, lastPersisted, stale, saving, startup, disposed, file, faults, unsure>>

(* stimulate() with danger, as by inducePanic(); a TRAUMA event, once somebody
   listens, forces a save of its own after that. *)
danger ==
  /\ ~disposed /\ events < MaxEvents
  /\ events' = events + 1
  /\ state' = [state EXCEPT !.stress = IF @ = 2 THEN 2 ELSE @ + 1]
  /\ flushForced(1) \/ (load = "done" /\ flushForced(2))
  /\ tickAfter(state')
  /\ UNCHANGED <<former, lastPersisted, stale, startup, disposed, file, faults, unsure>>

timerFires ==
  /\ flushTimer
  /\ flushTimer' = FALSE
  /\ flushUnforced
  /\ UNCHANGED <<memory, startup, disposed, file, counters, unsure>>

(* The save has the lock: JSON.stringify of the object it was called with. *)
stringify ==
  /\ saves # <<>> /\ text = <<>>
  /\ text' = <<IF Head(saves).object = "current" THEN state ELSE former>>
  /\ UNCHANGED <<memory, flushTimer, saves, busy, startup, disposed, file, counters, unsure>>

(* The end of a save clears persistInFlight, also a later one's, and the calls
   that waited for it save in their turn. *)
settled ==
  LET n == Head(saves).next
  IN /\ saves' = Tail(saves) \o [i \in 1 .. n |-> NewSave]
     /\ busy' = (n > 0)
     /\ text' = <<>>

saveDone ==
  /\ text # <<>>
  /\ file' = text
  /\ lastPersisted' = state
  /\ stale' = FALSE
  /\ settled
  /\ UNCHANGED <<state, former, flushTimer, startup, disposed, counters, unsure>>

(* appendState() logs the error of a save. *)
saveFails ==
  /\ text # <<>> /\ faults < MaxFaults
  /\ faults' = faults + 1
  /\ settled
  /\ unsure' = TRUE
  /\ UNCHANGED <<memory, flushTimer, startup, disposed, file, events>>

(* Sixty seconds without a snapshot. *)
ages ==
  /\ ~stale
  /\ stale' = TRUE
  /\ UNCHANGED <<state, former, lastPersisted, flushTimer, saving, startup, disposed, file, counters, unsure>>

(* loadState(): the file is read, ... *)
read ==
  /\ load = "reading"
  /\ load' = "merging"
  /\ found' = file
  /\ UNCHANGED <<memory, flushTimer, saving, disposed, file, counters, unsure>>

(* ... and a new object takes the place of the state. *)
merge ==
  /\ load = "merging"
  /\ load' = "done" /\ found' = <<>>
  /\ IF found = <<>>
       THEN UNCHANGED <<memory, saves>>
       ELSE /\ state' = [found[1] EXCEPT !.stress = IF state.stress > @ THEN state.stress ELSE @]
            /\ former' = state
            /\ lastPersisted' = state'
            /\ stale' = FALSE
            /\ saves' = [i \in DOMAIN saves |-> [saves[i] EXCEPT !.object = "former"]]
  /\ UNCHANGED <<flushTimer, text, busy, disposed, file, counters, unsure>>

(* mutant: the last save is one like any other *)
dispose_unforced ==
  /\ ~disposed
  /\ disposed' = TRUE
  /\ flushTimer' = FALSE
  /\ flushUnforced
  /\ unsure' = (load # "done")
  /\ UNCHANGED <<memory, startup, file, counters>>

dispose ==
  /\ ~disposed
  /\ disposed' = TRUE
  /\ flushTimer' = FALSE
  /\ flushForced(1)
  /\ unsure' = (load # "done")
  /\ UNCHANGED <<memory, startup, file, counters>>

(* Events, ticks and dispose() return at once after dispose(). *)
ignored == disposed /\ UNCHANGED vars

(* The process ends and starts again. *)
crash ==
  /\ faults < MaxFaults
  /\ faults' = faults + 1
  /\ state' = Default /\ former' = Default /\ lastPersisted' = Default
  /\ stale' = FALSE /\ flushTimer' = FALSE
  /\ saves' = <<>> /\ text' = <<>> /\ busy' = FALSE
  /\ load' = "reading" /\ found' = <<>>
  /\ disposed' = FALSE /\ unsure' = FALSE
  /\ UNCHANGED <<file, events>>

Next ==
  \/ tick \/ quietTick \/ stimulate \/ danger
  \/ timerFires \/ stringify \/ saveDone \/ saveFails \/ ages
  \/ read \/ merge \/ dispose \/ ignored \/ crash

(* Blocks arrive, timers fire, time passes and file operations end. *)
Fairness ==
  /\ WF_vars(quietTick) /\ WF_vars(timerFires) /\ WF_vars(ages)
  /\ WF_vars(stringify) /\ WF_vars(saveDone)
  /\ WF_vars(read) /\ WF_vars(merge)

Spec == Init /\ [][Next]_vars /\ Fairness

-----------------------------------------------------------------------------
(* Properties *)

(* While the core lives, its snapshot catches up with it again and again:
   whatever a race between a load, a save and a change has left in the file,
   or a failed save has left out of it, is put right by its age. *)
SnapshotCatchesUp == []<>(disposed \/ file = <<state>>)

(* The last state of a core that is disposed after its load is saved, behind
   whatever save is in flight, unless that save fails or the process ends. *)
DisposedIsSaved == disposed ~> (file = <<state>> \/ unsure \/ ~disposed)
=============================================================================
