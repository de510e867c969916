------------------------------ MODULE AsyncLock ------------------------------
(***************************************************************************)
(* AsyncLock of packages/core/src/utils/AsyncLock.ts: a mutex for          *)
(* asynchronous tasks.  A release hands the lock to the first waiter       *)
(* without unlocking it; the waiter's task starts in a later microtask,    *)
(* so between the two the lock belongs to a task that does not run yet.    *)
(* A waiter with a timeout leaves the queue when its timer fires.          *)
(*                                                                         *)
(* `cancelled' and `released' need no variable: a cancelled waiter is      *)
(* taken out of the queue in the same turn, and `run' releases once.       *)
(***************************************************************************)
EXTENDS Integers, Sequences, SequencesExt

CONSTANTS
  Tasks,       \* callers of run()
  Impatient    \* those with timeoutMs > 0

VARIABLES
  locked,
  queue,    \* waiters, first come first
  phase     \* per task: "out", "waiting", "granted" or "running"

vars == <<locked, queue, phase>>

TypeOK ==
  /\ locked \in BOOLEAN
  /\ queue \in Seq(Tasks)
  /\ phase \in [Tasks -> {"out", "waiting", "granted", "running"}]

Init ==
  /\ locked = FALSE
  /\ queue = <<>>
  /\ phase = [t \in Tasks |-> "out"]

(* acquire(): take a free lock, or queue up. *)
acquire(t) ==
  /\ phase[t] = "out"
  /\ IF locked
       THEN /\ queue' = Append(queue, t)
            /\ phase' = [phase EXCEPT ![t] = "waiting"]
            /\ UNCHANGED locked
       ELSE /\ locked' = TRUE
            /\ phase' = [phase EXCEPT ![t] = "granted"]
            /\ UNCHANGED queue

(* The promise of acquire() has resolved: run() calls the task. *)
enter(t) ==
  /\ phase[t] = "granted"
  /\ phase' = [phase EXCEPT ![t] = "running"]
  /\ UNCHANGED <<locked, queue>>

(* mutant: the timer does not look at `granted' *)
timeout_unchecked(t) ==
  /\ t \in Impatient
  /\ phase[t] \in {"waiting", "granted"}
  /\ \/ phase[t] = "granted" /\ UNCHANGED queue
     \/ \E i \in 1 .. Len(queue) : queue[i] = t /\ queue' = RemoveAt(queue, i)
  /\ phase' = [phase EXCEPT ![t] = "out"]
  /\ UNCHANGED locked

(* The timer of a waiter that is still in the queue: run() rejects. *)
timeout(t) ==
  /\ t \in Impatient
  /\ phase[t] = "waiting"
  /\ \E i \in 1 .. Len(queue) : queue[i] = t /\ queue' = RemoveAt(queue, i)
  /\ phase' = [phase EXCEPT ![t] = "out"]
  /\ UNCHANGED locked

(* mutant: the last waiter is served first *)
handoff_lifo(t) ==
  IF queue = <<>>
    THEN /\ locked' = FALSE
         /\ phase' = [phase EXCEPT ![t] = "out"]
         /\ UNCHANGED queue
    ELSE /\ phase' = [phase EXCEPT ![t] = "out", ![Last(queue)] = "granted"]
         /\ queue' = Front(queue)
         /\ UNCHANGED locked

(* handoff(): the first waiter gets the lock, or nobody has it. *)
handoff(t) ==
  IF queue = <<>>
    THEN /\ locked' = FALSE
         /\ phase' = [phase EXCEPT ![t] = "out"]
         /\ UNCHANGED queue
    ELSE /\ phase' = [phase EXCEPT ![t] = "out", ![Head(queue)] = "granted"]
         /\ queue' = Tail(queue)
         /\ UNCHANGED locked

(* The task of run() has returned or thrown: finally { release() }. *)
release(t) ==
  /\ phase[t] = "running"
  /\ handoff(t)

run(t) == acquire(t) \/ enter(t) \/ timeout(t) \/ release(t)

Next == \E t \in Tasks : run(t)

(* Microtasks run, and every task guarded by the lock ends. *)
Spec ==
  /\ Init /\ [][Next]_vars
  /\ \A t \in Tasks : WF_vars(enter(t)) /\ WF_vars(release(t))

-----------------------------------------------------------------------------
(* Properties *)

Holds(t) == phase[t] \in {"granted", "running"}

(* One task at a time. *)
MutualExclusion == \A t, u \in Tasks : Holds(t) /\ Holds(u) => t = u

(* The lock is neither lost nor forgotten: it is locked exactly while somebody
   holds it, and nobody waits for a lock that is free. *)
NeverStuck ==
  /\ locked <=> \E t \in Tasks : Holds(t)
  /\ ~locked => queue = <<>>

(* The queue holds the waiting tasks, each once. *)
QueueIsWaiters ==
  /\ \A t \in Tasks : phase[t] = "waiting" <=> \E i \in 1 .. Len(queue) : queue[i] = t
  /\ \A i, j \in 1 .. Len(queue) : queue[i] = queue[j] => i = j

(* The lock belongs to one task, is neither lost nor forgotten, and nobody who
   waits for it is missing from the queue. *)
LockSound == MutualExclusion /\ NeverStuck /\ QueueIsWaiters

(* First come, first served: nobody is granted the lock while a task that
   queued up before it goes on waiting. *)
FirstComeFirstServed ==
  [][\A i, j \in 1 .. Len(queue) :
       (i < j /\ phase'[queue[j]] = "granted") => phase'[queue[i]] # "waiting"]_vars

(* Every waiter without a timeout gets the lock in the end. *)
PatientServed == \A t \in Tasks \ Impatient : phase[t] = "waiting" ~> phase[t] = "running"
=============================================================================
