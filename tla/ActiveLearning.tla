---------------------------- MODULE ActiveLearning ----------------------------
(***************************************************************************)
(* How packages/soul/src/eidolon/ActiveLearning.ts keeps its Q-table: a    *)
(* snapshot file, a log of deltas written between two snapshots, a set of  *)
(* states that changed since the last save, and a debounced save that     *)
(* never overlaps another.  A value of the table is the number of the      *)
(* update that wrote it, 0 for none: what the properties ask is only which *)
(* of two values is newer.                                                 *)
(*                                                                         *)
(* An action is what runs between two awaits.  Weights, causal map and     *)
(* trade history are other files with no say in the table: the step "head" *)
(* is the awaits before the table's turn.                                  *)
(***************************************************************************)
EXTENDS Integers, Sequences, FiniteSets, FiniteSetsExt, AppendOnlyAdapter

CONSTANTS
  States,           \* market states
  SnapshotEvery,    \* SNAPSHOT_EVERY_UPDATES
  BatchSize,        \* SAVE_BATCH_SIZE
  MaxUpdates,       \* bound: updates in all
  MaxMishaps        \* bound: crashes and failed writes in all

VARIABLES
  q,                \* qTable
  dirty,            \* dirtyQStates
  pending,          \* pendingUpdates, up to BatchSize
  sinceSnapshot,    \* updatesSinceSnapshot, up to SnapshotEvery
  timer,            \* saveTimer is armed
  job,              \* saveInFlight: its step, forceSnapshot, and what it writes
  snapshot, deltas, \* the two files
  clock,            \* updates so far
  mishaps,
  last,             \* history: what was last written or loaded, per state
  raced             \* history: states updated behind a running write

vars == <<q, dirty, pending, sinceSnapshot, timer, job, snapshot, deltas, clock,
          mishaps, last, raced>>

Table == [States -> 0 .. MaxUpdates]
Idle == [step |-> "idle", force |-> FALSE, data |-> <<>>]

TypeOK ==
  /\ q \in Table /\ snapshot \in Table /\ last \in Table
  /\ dirty \subseteq States /\ raced \subseteq States
  /\ pending \in 0 .. BatchSize /\ sinceSnapshot \in 0 .. SnapshotEvery
  /\ timer \in BOOLEAN
  /\ job.step \in {"idle", "head", "snapshot", "write", "append"} /\ job.force \in BOOLEAN
  /\ clock \in 0 .. MaxUpdates /\ mishaps \in 0 .. MaxMishaps

Init ==
  /\ q = [s \in States |-> 0] /\ snapshot = q /\ last = q
  /\ dirty = {} /\ raced = {}
  /\ pending = 0 /\ sinceSnapshot = 0
  /\ timer = FALSE /\ job = Idle
  /\ deltas = EmptyLog
  /\ clock = 0 /\ mishaps = 0

(* loadFromDisk(): the snapshot, and every delta in the log on top of it. *)
loadFromDisk(snap, log) ==
  LET entries == readLog(log)
      With(s) == {i \in 1 .. Len(entries) : s \in DOMAIN entries[i]}
  IN [s \in States |-> IF With(s) = {} THEN snap[s] ELSE entries[Max(With(s))][s]]

(* flushAutoSave(): a save that is in flight is awaited, and no other follows. *)
flushAutoSave(force) ==
  job' = IF job = Idle THEN [Idle EXCEPT !.step = "head", !.force = force] ELSE job

(* learnFromOutcome(): updateQValue and scheduleAutoSave. *)
learnFromOutcome(s) ==
  /\ clock < MaxUpdates
  /\ clock' = clock + 1
  /\ q' = [q EXCEPT ![s] = clock + 1]
  /\ dirty' = dirty \union {s}
  /\ pending' = Min({pending + 1, BatchSize})
  /\ IF pending + 1 >= BatchSize
       THEN flushAutoSave(FALSE) /\ UNCHANGED timer
       ELSE timer' = TRUE /\ UNCHANGED job
  /\ raced' = IF job.step \in {"write", "append"} THEN raced \union {s} ELSE raced \ {s}
  /\ UNCHANGED <<sinceSnapshot, snapshot, deltas, mishaps, last>>

saveTimerFires ==
  /\ timer
  /\ timer' = FALSE
  /\ flushAutoSave(FALSE)
  /\ UNCHANGED <<q, dirty, pending, sinceSnapshot, snapshot, deltas, clock, mishaps, last, raced>>

(* flush(), on teardown. *)
flush ==
  /\ timer' = FALSE
  /\ flushAutoSave(TRUE)
  /\ UNCHANGED <<q, dirty, pending, sinceSnapshot, snapshot, deltas, clock, mishaps, last, raced>>

(* The end of saveToDisk(). *)
saved == dirty' = {} /\ pending' = 0 /\ job' = Idle

(* saveToDisk(): with the other files written, the table's turn.  A delta is
   copied here; a snapshot passes the table itself to storage.save. *)
choose ==
  /\ job.step = "head"
  /\ \/ /\ job.force \/ sinceSnapshot >= SnapshotEvery
        /\ job' = [job EXCEPT !.step = "snapshot"]
        /\ UNCHANGED <<dirty, pending>>
     \/ /\ ~job.force /\ sinceSnapshot < SnapshotEvery /\ dirty # {}
        /\ job' = [job EXCEPT !.step = "append", !.data = [s \in dirty |-> q[s]]]
        /\ UNCHANGED <<dirty, pending>>
     \/ ~job.force /\ sinceSnapshot < SnapshotEvery /\ dirty = {} /\ saved
  /\ UNCHANGED <<q, sinceSnapshot, timer, snapshot, deltas, clock, mishaps, last, raced>>

(* storage.save() has the lock and the directory: JSON.stringify. *)
stringify ==
  /\ job.step = "snapshot"
  /\ job' = [job EXCEPT !.step = "write", !.data = q]
  /\ UNCHANGED <<q, dirty, pending, sinceSnapshot, timer, snapshot, deltas, clock, mishaps, last, raced>>

snapshotWritten ==
  /\ job.step = "write"
  /\ snapshot' = job.data
  /\ last' = job.data
  /\ sinceSnapshot' = 0
  /\ saved
  /\ UNCHANGED <<q, timer, deltas, clock, mishaps, raced>>

deltaWritten ==
  /\ job.step = "append"
  /\ deltas' = append(deltas, job.data)
  /\ last' = [s \in States |-> IF s \in DOMAIN job.data THEN job.data[s] ELSE last[s]]
  /\ sinceSnapshot' = Min({sinceSnapshot + Cardinality(dirty), SnapshotEvery})
  /\ saved
  /\ UNCHANGED <<q, timer, snapshot, clock, mishaps, raced>>

(* What an interrupted or failed write leaves in the log. *)
Remains == IF job.step = "append" THEN Torn(deltas, job.data) ELSE {deltas}

(* mutant: the marks are cleared in a finally *)
saveFails_clearing ==
  /\ job # Idle /\ mishaps < MaxMishaps
  /\ mishaps' = mishaps + 1
  /\ deltas' \in Remains
  /\ saved
  /\ UNCHANGED <<q, sinceSnapshot, timer, snapshot, clock, last, raced>>

(* A write fails: saveToDisk() throws before it forgets what is dirty. *)
saveFails ==
  /\ job # Idle /\ mishaps < MaxMishaps
  /\ mishaps' = mishaps + 1
  /\ deltas' \in Remains
  /\ job' = Idle
  /\ UNCHANGED <<q, dirty, pending, sinceSnapshot, timer, snapshot, clock, last, raced>>

(* The process ends at any point and starts again with init(). *)
crash ==
  /\ mishaps < MaxMishaps
  /\ mishaps' = mishaps + 1
  /\ deltas' \in Remains
  /\ q' = loadFromDisk(snapshot, deltas')
  /\ last' = q'
  /\ dirty' = {} /\ raced' = {} /\ pending' = 0 /\ sinceSnapshot' = 0
  /\ timer' = FALSE /\ job' = Idle
  /\ UNCHANGED <<snapshot, clock>>

Next ==
  \/ \E s \in States : learnFromOutcome(s)
  \/ saveTimerFires \/ flush
  \/ choose \/ stringify \/ snapshotWritten \/ deltaWritten
  \/ saveFails \/ crash

Spec == Init /\ [][Next]_vars

-----------------------------------------------------------------------------
(* Properties *)

(* A crash or a failed write in the middle of an append costs at most one
   acknowledged entry, the one that continues the torn line: no entry before
   it and none after that one is lost, however many mishaps follow. *)
OneEntryPerTear ==
  /\ Cardinality(Spoilt(deltas)) <= mishaps
  /\ \A i \in Spoilt(deltas) : deltas.lines[i].acked <= 1

(* A state whose value differs from what was last saved or loaded is marked
   for the next save, through any failed saves, save for those updated while
   a write was on its way, whose mark its end wipes out. *)
MarksLostOnlyByRace == \A s \in States \ raced : q[s] # last[s] => s \in dirty

(* Claimed by the comment of loadFromDisk, "Replay Q-Delta log on top of
   snapshot": what a start restores is never older than the snapshot. *)
RestartKeepsSnapshot ==
  \A s \in States : loadFromDisk(snapshot, deltas)[s] >= snapshot[s]
=============================================================================
