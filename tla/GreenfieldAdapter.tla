--------------------------- MODULE GreenfieldAdapter ---------------------------
(* One key of packages/core/src/memory/GreenfieldAdapter.ts: a remote copy, and
   a local one that takes the saves the server refuses (or all of them, in local
   mode).  Saves interleave at every await; a crash may come between any two
   steps.  Saves are numbered in the order of their calls; 0 is "nothing". *)
EXTENDS Integers, Sequences, SequencesExt

CONSTANTS Savers, MaxSaves, MaxFaults

VARIABLES
  useLocalFallback,
  remoteCopy, localCopy,
  save,             \* what each caller's save is at
  lockQueue,        \* callers inside lock.run, the first one holds the lock
  calls, mishapsLeft,
  home,             \* where each acknowledged save went: "remote", "local", or "none"
  concurrent,       \* with each save, those that ran at some time while it did
  abandoned         \* uploads given up, or cut off by a crash, that may still arrive

greenfieldVars ==
  <<useLocalFallback, remoteCopy, localCopy, save, lockQueue, calls, mishapsLeft, home, concurrent,
    abandoned>>

Saves == 1..MaxSaves

NoSave == [at |-> "idle", n |-> 0]

Init ==
  /\ useLocalFallback \in BOOLEAN     \* init(): asked for, or the bucket did not answer
  /\ remoteCopy = 0 /\ localCopy = 0
  /\ save = [s \in Savers |-> NoSave]
  /\ lockQueue = << >>
  /\ calls = 0 /\ mishapsLeft = MaxFaults
  /\ home = [n \in Saves |-> "none"]
  /\ concurrent = [n \in Saves |-> {n}]
  /\ abandoned = {}

Goto(s, step) == save' = [save EXCEPT ![s].at = step]

Running == {save[s].n : s \in Savers} \ {0}

Mishap == mishapsLeft > 0 /\ mishapsLeft' = mishapsLeft - 1

starts(s) ==
  /\ save[s].at = "idle" /\ calls < MaxSaves
  /\ calls' = calls + 1
  /\ save' = [save EXCEPT ![s] = [at |-> IF useLocalFallback THEN "dir" ELSE "put", n |-> calls + 1]]
  /\ concurrent' = [n \in Saves |->
       IF n = calls + 1 THEN {n} \union Running
       ELSE IF n \in Running THEN concurrent[n] \union {calls + 1} ELSE concurrent[n]]
  /\ UNCHANGED <<useLocalFallback, remoteCopy, localCopy, lockQueue, mishapsLeft, home, abandoned>>

(* The server takes the object, and its answer arrives or not. *)
serverTakes(s) ==
  /\ save[s].at = "put"
  /\ remoteCopy' = save[s].n
  /\ Goto(s, "answer")
  /\ UNCHANGED <<useLocalFallback, localCopy, lockQueue, calls, mishapsLeft, home, concurrent,
                 abandoned>>

acknowledged(s, where) ==
  /\ home' = [home EXCEPT ![save[s].n] = where]
  /\ save' = [save EXCEPT ![s] = NoSave]

serverAnswers(s) ==
  /\ save[s].at = "answer"
  /\ acknowledged(s, "remote")
  /\ UNCHANGED <<useLocalFallback, remoteCopy, localCopy, lockQueue, calls, mishapsLeft, concurrent,
                 abandoned>>

(* The refused save is left to itself. *)
putFails_unawaited(s) ==
  /\ save[s].at \in {"put", "answer"} /\ Mishap
  /\ acknowledged(s, "local")
  /\ abandoned' = abandoned \union {save[s].n}
  /\ UNCHANGED <<useLocalFallback, remoteCopy, localCopy, lockQueue, calls, concurrent>>

(* Refused, or the answer is lost: the save goes to the local copy instead. *)
putFails(s) ==
  /\ save[s].at \in {"put", "answer"} /\ Mishap
  /\ Goto(s, "dir")
  /\ abandoned' = abandoned \union {save[s].n}
  /\ UNCHANGED <<useLocalFallback, remoteCopy, localCopy, lockQueue, calls, home, concurrent>>

(* ensureLocalDir has been awaited; only now does the save queue for the lock,
   behind whoever came back from it earlier. *)
ensureLocalDir(s) ==
  /\ save[s].at = "dir"
  /\ lockQueue' = Append(lockQueue, s)
  /\ Goto(s, "write")
  /\ UNCHANGED <<useLocalFallback, remoteCopy, localCopy, calls, mishapsLeft, home, concurrent,
                 abandoned>>

Holds(s) == lockQueue # << >> /\ Head(lockQueue) = s

writesTemp(s) ==
  /\ save[s].at = "write" /\ Holds(s)
  /\ Goto(s, "rename")
  /\ UNCHANGED <<useLocalFallback, remoteCopy, localCopy, lockQueue, calls, mishapsLeft, home, concurrent,
                 abandoned>>

renames(s) ==
  /\ save[s].at = "rename"
  /\ localCopy' = save[s].n
  /\ lockQueue' = Tail(lockQueue)
  /\ acknowledged(s, "local")
  /\ UNCHANGED <<useLocalFallback, remoteCopy, calls, mishapsLeft, concurrent,
                 abandoned>>

(* The disk fails: the caller gets an exception. *)
diskFails(s) ==
  /\ save[s].at \in {"write", "rename"} /\ Holds(s) /\ Mishap
  /\ lockQueue' = Tail(lockQueue)
  /\ save' = [save EXCEPT ![s] = NoSave]
  /\ UNCHANGED <<useLocalFallback, remoteCopy, localCopy, calls, home, concurrent,
                 abandoned>>

(* The process dies and starts again; init() asks the bucket anew. *)
crash ==
  /\ Mishap
  /\ save' = [s \in Savers |-> NoSave]
  /\ lockQueue' = << >>
  /\ useLocalFallback' \in BOOLEAN
  /\ abandoned' = abandoned \union {save[s].n : s \in {t \in Savers : save[t].at \in {"put", "answer"}}}
  /\ UNCHANGED <<remoteCopy, localCopy, calls, home, concurrent>>

(* An upload nobody waits for any more arrives (again). *)
arrivesLate(n) ==
  /\ n \in abandoned /\ remoteCopy # n
  /\ remoteCopy' = n
  /\ UNCHANGED <<useLocalFallback, localCopy, save, lockQueue, calls, mishapsLeft, home, concurrent,
                 abandoned>>

Next ==
  \/ \E s \in Savers :
       \/ starts(s) \/ serverTakes(s) \/ serverAnswers(s) \/ putFails(s)
       \/ ensureLocalDir(s) \/ writesTemp(s) \/ renames(s) \/ diskFails(s)
  \/ crash
  \/ \E n \in Saves : arrivesLate(n)

Spec == Init /\ [][Next]_greenfieldVars

(* What load gives: the remote copy while the server answers, even when an
   upload has failed since and the local copy is newer; else the local one. *)
load(serverUp) == IF ~useLocalFallback /\ serverUp THEN remoteCopy ELSE localCopy

(* The copy that acknowledged a save holds it, or a later one, or one that ran
   at the same time, or an upload that had been given up: never a save that was
   over before it began. *)
CopyNeverGoesBack ==
  \A n \in Saves :
    LET held == IF home[n] = "remote" THEN remoteCopy ELSE localCopy
    IN home[n] # "none" => \/ held >= n
                           \/ held \in concurrent[n]
                           \/ home[n] = "remote" /\ held \in abandoned
=============================================================================
