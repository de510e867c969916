------------------------------ MODULE Breaker -------------------------------
(***************************************************************************)
(* What every circuit breaker of this repository promises to the calls it  *)
(* guards, with no clock and no lock.                                      *)
(*                                                                         *)
(*   closed   calls are admitted; `Threshold' failures with no success     *)
(*            between them trip the breaker;                               *)
(*   open     no call is admitted; a success of a call that was already on *)
(*            its way closes the breaker, its failure may trip it again;   *)
(*   expired  the window is over; the breaker closes again, at the latest  *)
(*            when the next call asks, and may start a new count.          *)
(*                                                                         *)
(* A call in flight can also vanish without a verdict.  What a breaker may *)
(* not do: admit a call while open, lose count of failures while closed,   *)
(* or trip before the count is reached.                                    *)
(***************************************************************************)
EXTENDS Naturals

CONSTANTS Calls, Threshold

VARIABLES
  state,     \* "closed", "open" or "expired"
  run,       \* failures counted towards the next trip
  inFlight   \* calls admitted and not yet finished

vars == <<state, run, inFlight>>

Init ==
  /\ state = "closed"
  /\ run = 0
  /\ inFlight = {}

Readmit ==
  /\ state' = "closed"
  /\ run' \in {0, run}

(* A call is admitted unless the breaker is open. *)
Admit(c) ==
  /\ c \notin inFlight
  /\ inFlight' = inFlight \cup {c}
  /\ \/ state = "closed"  /\ UNCHANGED <<state, run>>
     \/ state = "expired" /\ Readmit

Success(c) ==
  /\ c \in inFlight
  /\ inFlight' = inFlight \ {c}
  /\ state' = "closed"
  /\ run' = 0

(* After a trip the count starts over, or stays one failure short of the next. *)
Failure(c) ==
  /\ c \in inFlight
  /\ inFlight' = inFlight \ {c}
  /\ IF run + 1 >= Threshold
       THEN state' = "open" /\ run' \in {0, run}
       ELSE state' = state /\ run' = run + 1

Vanish(c) ==
  /\ c \in inFlight
  /\ inFlight' = inFlight \ {c}
  /\ UNCHANGED <<state, run>>

Expire ==
  /\ state = "open"
  /\ state' = "expired"
  /\ UNCHANGED <<run, inFlight>>

Close ==
  /\ state = "expired"
  /\ Readmit
  /\ UNCHANGED inFlight

Next ==
  \/ \E c \in Calls : Admit(c) \/ Success(c) \/ Failure(c) \/ Vanish(c)
  \/ Expire \/ Close

Spec == Init /\ [][Next]_vars
=============================================================================
