----------------------------- MODULE ToolTracker -----------------------------
(***************************************************************************)
(* packages/core/src/cognitive/ToolPerformanceTracker.ts on the tables of  *)
(* memory/SQLiteLearningStore.ts: counts of calls kept in memory, read     *)
(* back once in the life of a process and written through, as absolute     *)
(* values, by each record().  Where the database cannot be opened the      *)
(* store appends to a log instead, so a process has either `row' or        *)
(* `perfLog', and the next one may have the other.  Of a record only       *)
(* call_count is kept: the averages go with it.                            *)
(***************************************************************************)
EXTENDS AppendOnlyAdapter

CONSTANTS Kinds, Recorders,   \* tools, and concurrent callers of record()
          ReadBack,           \* entries of the log a hydration looks at (5000)
          MaxCount, MaxMissteps     \* bounds: calls of a tool, faults

VARIABLES
  db,             \* this process has the database open
  row,            \* tool_performance in it: call_count, 0 where there is no row
  perfLog,        \* tool_performance.log
  records, hydrated,
  recorder,       \* per caller: "idle", "appending", or the tool it waits to record
  appending,      \* appends at the lock of the log, in order
  misstepsLeft,
  acked,          \* history: count in the last record() that returned
  forgotten       \* history: tools whose count may have gone back, and why not

trackerVars == <<db, row, perfLog, records, hydrated, recorder, appending, misstepsLeft,
                 acked, forgotten>>

Init ==
  /\ db \in BOOLEAN /\ row = [t \in Kinds |-> 0] /\ perfLog = EmptyLog
  /\ records = [t \in Kinds |-> 0] /\ hydrated = FALSE
  /\ recorder = [r \in Recorders |-> "idle"] /\ appending = <<>>
  /\ misstepsLeft = MaxMissteps
  /\ acked = [t \in Kinds |-> 0] /\ forgotten = {}

(* The newest entries of the log that parse, at most ReadBack of them. *)
recent(log) ==
  LET all == readLog(log)
  IN SubSeq(all, IF Len(all) > ReadBack THEN Len(all) - ReadBack + 1 ELSE 1, Len(all))

latestIn(log, t) ==
  LET entries == recent(log)
      of == {i \in DOMAIN entries : entries[i][1] = t}
  IN IF of = {} THEN 0 ELSE entries[Max(of)][2]

listToolPerformance == [t \in Kinds |-> IF db THEN row[t] ELSE latestIn(perfLog, t)]

(* The constructor starts this, and everybody else waits for it. *)
hydrates ==
  /\ ~hydrated /\ hydrated' = TRUE
  /\ records' = listToolPerformance
  /\ UNCHANGED <<db, row, perfLog, recorder, appending, misstepsLeft, acked, forgotten>>

(* A log that cannot be read reads as empty. *)
hydratesFromNothing ==
  /\ ~hydrated /\ ~db /\ misstepsLeft > 0
  /\ hydrated' = TRUE /\ misstepsLeft' = misstepsLeft - 1
  /\ records' = [t \in Kinds |-> 0] /\ forgotten' = Kinds
  /\ UNCHANGED <<db, row, perfLog, recorder, appending, acked>>

(* A record() that returns: the count is on disk, unless it was explained
   before that it could be less. *)
ack(t, n) == [acked EXCEPT ![t] = IF t \in forgotten \/ n > @ THEN n ELSE @]

(* Memory first, then the write; an upsert is over before record() awaits it. *)
writes(r, t) ==
  /\ records[t] < MaxCount /\ records' = [records EXCEPT ![t] = @ + 1]
  /\ \/ /\ db /\ row' = [row EXCEPT ![t] = records'[t]]
        /\ acked' = ack(t, records'[t]) /\ forgotten' = forgotten \ {t}
        /\ recorder' = [recorder EXCEPT ![r] = "idle"]
        /\ UNCHANGED <<appending, misstepsLeft>>
     \/ /\ db /\ misstepsLeft > 0 /\ misstepsLeft' = misstepsLeft - 1
        /\ recorder' = [recorder EXCEPT ![r] = "idle"]
        /\ UNCHANGED <<row, appending, acked, forgotten>>
     \/ /\ ~db /\ appending' = Append(appending, <<r, t, records'[t]>>)
        /\ recorder' = [recorder EXCEPT ![r] = "appending"]
        /\ UNCHANGED <<row, misstepsLeft, acked, forgotten>>
  /\ UNCHANGED <<db, perfLog, hydrated>>

(* mutant: record() does not wait for the hydration *)
mayRecord_at_once == TRUE

mayRecord == hydrated

record(r, t) ==
  /\ recorder[r] = "idle"
  /\ \/ mayRecord /\ writes(r, t)
     \/ /\ ~mayRecord /\ recorder' = [recorder EXCEPT ![r] = t]
        /\ UNCHANGED <<db, row, perfLog, records, hydrated, appending, misstepsLeft, acked,
                       forgotten>>

resumes(r) == hydrated /\ recorder[r] \in Kinds /\ writes(r, recorder[r])

(* The next hydration does not see what lies before a rotation, and what newer
   entries push out of its reach. *)
rotates == Len(perfLog.lines) > RotateAt
outOfReach(log) == log # perfLog /\ (rotates \/ Len(readLog(log)) > ReadBack)

appendReturns ==
  /\ appending # <<>>
  /\ LET r == Head(appending)[1]
         t == Head(appending)[2]
         n == Head(appending)[3]
     IN /\ perfLog' = append(perfLog, <<t, n>>)
        /\ acked' = ack(t, n)
        /\ forgotten' = (IF perfLog.cut /\ ~rotates THEN forgotten \cup {t}
                                                   ELSE forgotten \ {t})
                        \cup (IF outOfReach(perfLog') THEN Kinds \ {t} ELSE {})
        /\ recorder' = [recorder EXCEPT ![r] = "idle"]
  /\ appending' = Tail(appending)
  /\ UNCHANGED <<db, row, records, hydrated, misstepsLeft>>

(* An append cut off by a full disk or the end of the process. *)
torn(switched) ==
  /\ perfLog' \in Torn(perfLog, Tail(Head(appending)))
  /\ forgotten' = forgotten \cup (IF switched \/ outOfReach(perfLog') THEN Kinds ELSE {})

appendFails ==
  /\ appending # <<>> /\ misstepsLeft > 0 /\ torn(FALSE)
  /\ recorder' = [recorder EXCEPT ![Head(appending)[1]] = "idle"]
  /\ appending' = Tail(appending) /\ misstepsLeft' = misstepsLeft - 1
  /\ UNCHANGED <<db, row, records, hydrated, acked>>

(* The process ends, also by a hydration of the constructor that rejects, and the
   next one opens the database or does not. *)
restart ==
  /\ misstepsLeft > 0 /\ misstepsLeft' = misstepsLeft - 1
  /\ db' \in BOOLEAN
  /\ \/ appending # <<>> /\ torn(db' # db)
     \/ perfLog' = perfLog /\ forgotten' = (IF db' = db THEN forgotten ELSE Kinds)
  /\ records' = [t \in Kinds |-> 0] /\ hydrated' = FALSE
  /\ recorder' = [r \in Recorders |-> "idle"] /\ appending' = <<>>
  /\ UNCHANGED <<row, acked>>

Next ==
  \/ hydrates \/ hydratesFromNothing \/ appendReturns \/ appendFails \/ restart
  \/ \E r \in Recorders : resumes(r) \/ \E t \in Kinds : record(r, t)

Spec == Init /\ [][Next]_trackerVars

(* No tool's count goes back behind a record() that returned, through any races
   of callers, failed writes and restarts, unless the log was torn, rotated,
   longer than what is read back or unreadable, or the store had moved between
   its database and its log. *)
NothingForgotten == hydrated => \A t \in Kinds \ forgotten : records[t] >= acked[t]
=============================================================================
