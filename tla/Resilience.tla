----------------------------- MODULE Resilience ------------------------------
(***************************************************************************)
(* The circuit breaker of packages/core/src/utils/Resilience.ts, which     *)
(* judges the last WindowSize verdicts.  fire() asks and awaits the call   *)
(* after it, so verdicts of calls that began before a trip come in while   *)
(* the breaker is open or is being tested.  Time is what is left of the    *)
(* reset timeout.                                                          *)
(***************************************************************************)
EXTENDS Integers, Sequences, SequencesExt

CONSTANTS Firing,                 \* concurrent calls of fire()
          WindowSize, MinCalls, ThresholdPct, ResetTimeout

VARIABLES
  breaker,    \* "CLOSED", "OPEN", "HALF_OPEN"
  window,     \* the last verdicts, TRUE for a success
  resetIn,    \* until an open breaker may be tested
  call        \* per caller: "idle", or the state of the breaker that let it through

breakerVars == <<breaker, window, resetIn, call>>

Init ==
  /\ breaker = "CLOSED" /\ window = <<>> /\ resetIn = 0
  /\ call = [c \in Firing |-> "idle"]

maybeHalfOpen == IF breaker = "OPEN" /\ resetIn = 0 THEN "HALF_OPEN" ELSE breaker

(* An open breaker rejects the call; the others let it through. *)
fire(c) ==
  /\ call[c] = "idle" /\ maybeHalfOpen # "OPEN"
  /\ breaker' = maybeHalfOpen /\ call' = [call EXCEPT ![c] = maybeHalfOpen]
  /\ UNCHANGED <<window, resetIn>>

recorded(w, ok) ==
  LET longer == Append(w, ok)
  IN IF Len(longer) > WindowSize THEN Tail(longer) ELSE longer

Failures(w) == Len(SelectSeq(w, LAMBDA ok : ~ok))

tooMany(w) == Len(w) >= MinCalls /\ Failures(w) * 100 >= ThresholdPct * Len(w)

onSuccess ==
  /\ breaker' = IF breaker = "HALF_OPEN" THEN "CLOSED" ELSE breaker
  /\ window' = recorded(IF breaker = "HALF_OPEN" THEN <<>> ELSE window, TRUE)
  /\ UNCHANGED resetIn

opens == breaker' = "OPEN" /\ resetIn' = ResetTimeout

(* mutant: a failed test is judged by the window like any other failure *)
onFailure_evaluating ==
  /\ window' = recorded(window, FALSE)
  /\ IF breaker # "OPEN" /\ tooMany(window') THEN opens ELSE UNCHANGED <<breaker, resetIn>>

onFailure ==
  /\ window' = recorded(window, FALSE)
  /\ IF breaker = "HALF_OPEN" \/ (breaker = "CLOSED" /\ tooMany(window'))
       THEN opens ELSE UNCHANGED <<breaker, resetIn>>

settles(c) ==
  /\ call[c] # "idle" /\ call' = [call EXCEPT ![c] = "idle"]
  /\ onSuccess \/ onFailure

passes == resetIn > 0 /\ resetIn' = resetIn - 1 /\ UNCHANGED <<breaker, window, call>>

Next == passes \/ \E c \in Firing : fire(c) \/ settles(c)

Spec == Init /\ [][Next]_breakerVars

(* A breaker that is being tested has a test under way: late verdicts of calls
   from before the trip may decide in its place, but never leave the breaker
   half open with nobody to decide.  And while it is closed after a failure,
   the verdicts it has do not call for a trip. *)
BreakerSound ==
  /\ breaker = "HALF_OPEN" => \E c \in Firing : call[c] = "HALF_OPEN"
  /\ breaker = "CLOSED" /\ window # <<>> /\ ~Last(window) => ~tooMany(window)
=============================================================================
