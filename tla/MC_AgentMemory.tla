---------------------------- MODULE MC_AgentMemory ----------------------------
(* What an agent remembers, the lock its storage uses, and its gateway to
   external APIs.  The five share no state (each has a storage and files of its
   own), so they are checked side by side: `active' names the one that runs, the
   others never start.  The gateway has as many calls at a time as there are
   failures to a trip, the least with which its circuit can open at all, and a
   call is worth two ticks of refill. *)
EXTENDS ApiGateway

CONSTANTS
  Components,
  Tasks, Impatient,                                                     \* AsyncLock
  States, SnapshotEvery, BatchSize, MaxUpdates, MaxMishaps, RotateAt,   \* ActiveLearning
  Contexts, MaxTraumas, MaxFaults,                                      \* TraumaRegistry
  MaxEvents                                                             \* EmotionalCore

VARIABLES
  active,
  locked, queue, phase,
  q, dirty, pending, sinceSnapshot, timer, job, snapshot, deltas, clock, mishaps, last, raced,
  records, rust, recent, persistence, saved, armed, inFlight, file, traumas, faults, due, missed,
  state, former, lastPersisted, stale, flushTimer, saves, text, busy, load, found, disposed,
  soulFile, events, soulFaults, unsure

Lock == INSTANCE AsyncLock
Learning == INSTANCE ActiveLearning
Registry == INSTANCE TraumaRegistry
Core == INSTANCE EmotionalCore WITH file <- soulFile, faults <- soulFaults

lockVars == <<locked, queue, phase>>
learningVars ==
  <<q, dirty, pending, sinceSnapshot, timer, job, snapshot, deltas, clock, mishaps, last, raced>>
registryVars ==
  <<records, rust, recent, persistence, saved, armed, inFlight, file, traumas, faults, due, missed>>
coreVars ==
  <<state, former, lastPersisted, stale, flushTimer, saves, text, busy, load, found, disposed,
    soulFile, events, soulFaults, unsure>>

MCInit ==
  /\ active \in Components
  /\ Init /\ Lock!Init /\ Learning!Init /\ Registry!Init /\ Core!Init

MCNext ==
  /\ UNCHANGED active
  /\ \/ active = "api" /\ Next
        /\ UNCHANGED <<lockVars, learningVars, registryVars, coreVars>>
     \/ active = "lock" /\ Lock!Next /\ UNCHANGED <<vars, learningVars, registryVars, coreVars>>
     \/ active = "learning" /\ Learning!Next /\ UNCHANGED <<vars, lockVars, registryVars, coreVars>>
     \/ active = "registry" /\ Registry!Next /\ UNCHANGED <<vars, lockVars, learningVars, coreVars>>
     \/ active = "core" /\ Core!Next /\ UNCHANGED <<vars, lockVars, learningVars, registryVars>>

MCVars == <<active, vars, lockVars, learningVars, registryVars, coreVars>>

(* The fairness of ApiGateway, AsyncLock and EmotionalCore, of the one that
   runs. *)
MCFairness ==
  /\ WF_vars(active = "api" /\ Tick)
  /\ \A r \in Requests : WF_vars(active = "api" /\ Wake(r))
  /\ \A t \in Tasks : /\ WF_lockVars(active = "lock" /\ Lock!enter(t))
                      /\ WF_lockVars(active = "lock" /\ Lock!release(t))
  /\ WF_coreVars(active = "core" /\ Core!quietTick)
  /\ WF_coreVars(active = "core" /\ Core!timerFires)
  /\ WF_coreVars(active = "core" /\ Core!ages)
  /\ WF_coreVars(active = "core" /\ Core!stringify)
  /\ WF_coreVars(active = "core" /\ Core!saveDone)
  /\ WF_coreVars(active = "core" /\ Core!read)
  /\ WF_coreVars(active = "core" /\ Core!merge)

MCSpec == MCInit /\ [][MCNext]_MCVars /\ MCFairness

(* The lock belongs to one task, is neither lost nor forgotten, and its queue is
   the tasks that wait. *)
LockSound == active = "lock" => Lock!LockSound

(* Nobody gets the lock before a task that queued up earlier and still waits. *)
FirstComeFirstServed == Lock!FirstComeFirstServed

(* Every call that sleeps for a token wakes, and every waiter without a timeout
   gets the lock in the end. *)
WaitersServed == WaitEnds /\ Lock!PatientServed

(* The files keep up: a torn append costs at most one acknowledged entry of the
   delta log, and a quiet registry is saved, but for the races and faults it
   names. *)
FilesKeepUp ==
  /\ active = "learning" => Learning!OneEntryPerTear
  /\ active = "registry" => Registry!QuietMeansSaved

(* What saveToDisk has not written is marked for the next save, unless it was
   learnt behind a running write. *)
MarksLostOnlyByRace == active = "learning" => Learning!MarksLostOnlyByRace

(* What a restart restores is never older than the snapshot it reads. *)
RestartKeepsSnapshot == Learning!RestartKeepsSnapshot

(* A trauma inhibits for an hour, through loads and restarts. *)
InhibitionHolds == active = "registry" => Registry!InhibitionHolds

(* The snapshot of a living core catches up with it, and the last state of a
   disposed one is saved. *)
CoreIsSaved == (active = "core" => Core!SnapshotCatchesUp) /\ Core!DisposedIsSaved
=============================================================================
