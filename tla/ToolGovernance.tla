--------------------------- MODULE ToolGovernance ----------------------------
(* crates/mcp-server: what tools are worth and which generated ones are in use.
   Every call updates the tool's metrics under a lock and writes its row to the
   database without it; a decision counts the accepted tools, reads the row of
   the tool to promote and files its audit row, three blocking calls apart.
   What the database fails to do is ignored everywhere.  Latencies,
   satisfaction and fallbacks are one input. *)
EXTENDS Integers, FiniteSets

CONSTANTS Generated, Deciders, Recorders,
          MaxDynamicTools, MinCalls, MinSamples,   \* 32, 30 and 30 in the code
          MaxCalls, MaxRestarts, MaxFaults         \* bounds: calls of one tool; restarts; failures of the database

VARIABLES metric, row, record,                  \* of the one tool that is called
          behind,                                \* its row may be older than its metric
          decision, activated,                       \* generated_tool_audit: tools ever accepted or promoted
          restarted, faults

governanceVars == <<metric, row, record, behind, decision, activated, restarted, faults>>

NoMetric == [calls |-> 0, errors |-> 0, samples |-> 0]
NoDecision == [pc |-> "idle"]

Init ==
  /\ metric = NoMetric /\ row = NoMetric /\ record = [r \in Recorders |-> NoMetric] /\ behind = FALSE
  /\ decision = [d \in Deciders |-> NoDecision] /\ activated = {} /\ restarted = 0 /\ faults = 0

(* record_tool_metric: the snapshot is taken with the lock. *)
counted(failed) ==
  [calls |-> metric.calls + 1, errors |-> metric.errors + (IF failed THEN 1 ELSE 0), samples |-> metric.samples + 1]
records(r, failed) ==
  /\ record[r] = NoMetric /\ metric.calls < MaxCalls
  /\ metric' = counted(failed) /\ record' = [record EXCEPT ![r] = counted(failed)]
  /\ behind' = \E q \in Recorders \ {r} : record[q] # NoMetric
  /\ UNCHANGED <<row, decision, activated, restarted, faults>>

(* persist_tool_performance_sync: the last one to write wins. *)
persists(r) ==
  /\ record[r] # NoMetric
  /\ row' = record[r] /\ record' = [record EXCEPT ![r] = NoMetric]
  /\ UNCHANGED <<metric, behind, decision, activated, restarted, faults>>

fault == faults < MaxFaults /\ faults' = faults + 1

(* The write failed: only the metric in memory has the call. *)
persistFails(r) ==
  /\ record[r] # NoMetric /\ fault
  /\ record' = [record EXCEPT ![r] = NoMetric] /\ behind' = TRUE
  /\ UNCHANGED <<metric, row, decision, activated, restarted>>

(* The reason why a promotion is refused or quarantined: latencies, fallbacks
   and satisfaction are `fit'. *)
eligible(m, fit) == m.calls >= MinCalls /\ m.errors * 100 <= 15 * m.calls /\ fit
autopilot(m, fit) == m.samples >= MinSamples /\ m.errors * 100 <= 22 * m.calls /\ fit
verdict(fit, calm) ==
  IF row = NoMetric \/ ~eligible(row, fit) THEN "rejected"
  ELSE IF autopilot(row, calm) THEN "promoted" ELSE "quarantined"

\* Mutant: one tool beyond the limit.
full_beyond(seen) == seen > MaxDynamicTools

full(seen) == seen >= MaxDynamicTools

(* The tools in use are counted; a count that fails counts as 0. *)
asks(d, tool, action) ==
  /\ decision[d].pc = "idle"
  /\ \E seen \in {Cardinality(activated), 0} :
       /\ decision' = [decision EXCEPT ![d] = [pc |-> "counted", tool |-> tool, action |-> action, full |-> full(seen)]]
       /\ IF seen = Cardinality(activated) THEN UNCHANGED faults ELSE fault
  /\ UNCHANGED <<metric, row, record, behind, activated, restarted>>

(* The capacity check and the judgement on the row read last: the tools that the
   audit row will count as in use. *)
judges(d, fit, calm) ==
  LET a == decision[d]
      status == IF a.action = "reject" \/ a.full THEN "rejected"
                ELSE IF a.action = "accept" THEN "accepted" ELSE verdict(fit, calm)
  IN /\ a.pc = "counted"
     /\ decision' = [decision EXCEPT ![d] = [pc |-> "judged", adds |-> IF status \in {"accepted", "promoted"} THEN {a.tool} ELSE {}]]
     /\ UNCHANGED <<metric, row, record, behind, activated, restarted, faults>>

(* The audit row, which is never taken back: a later rejection does not free
   the place.  The decision is answered even if the row could not be written. *)
files(d) ==
  /\ decision[d].pc = "judged"
  /\ activated' = activated \cup decision[d].adds
  /\ decision' = [decision EXCEPT ![d] = NoDecision]
  /\ UNCHANGED <<metric, row, record, behind, restarted, faults>>

filesNothing(d) ==
  /\ decision[d].pc = "judged" /\ fault
  /\ decision' = [decision EXCEPT ![d] = NoDecision]
  /\ UNCHANGED <<metric, row, record, behind, activated, restarted>>

(* load_tool_metrics_from_db_sync: the latency samples are not in the row. *)
load == [row EXCEPT !.samples = 0]

restart ==
  /\ restarted < MaxRestarts /\ restarted' = restarted + 1
  /\ \/ metric' = load /\ behind' = FALSE /\ UNCHANGED faults
     \/ metric' = NoMetric /\ behind' = TRUE /\ fault      \* unwrap_or_default
  /\ record' = [r \in Recorders |-> NoMetric] /\ decision' = [d \in Deciders |-> NoDecision]
  /\ UNCHANGED <<row, activated>>

Next ==
  \/ \E r \in Recorders : (\E failed \in BOOLEAN : records(r, failed)) \/ persists(r) \/ persistFails(r)
  \/ \E d \in Deciders, tool \in Generated, action \in {"accept", "reject", "promote"} : asks(d, tool, action)
  \/ \E d \in Deciders, fit, calm \in BOOLEAN : judges(d, fit, calm)
  \/ \E d \in Deciders : files(d) \/ filesNothing(d)
  \/ restart

Spec == Init /\ [][Next]_governanceVars

(* The count of accepted tools is checked before, and not with, the insertion,
   and a count that fails counts as none: concurrent decisions and failing
   counts overshoot the limit, each by one tool at most
   (tools_orchestration.rs:452-460, 611). *)
CapacityOvershoot == Cardinality(activated) <= MaxDynamicTools + Cardinality(Deciders) - 1 + faults

(* The row of a tool lags behind its metrics only while a call is written, or
   after two calls were written together, the older one last, or after the
   database failed (telemetry.rs:34-97); the next call repairs it. *)
RowLagsByOverlap ==
  (\A r \in Recorders : record[r] = NoMetric) /\ ~behind =>
    row.calls = metric.calls /\ row.errors = metric.errors

(* A tool with calls enough for a promotion is quarantined for a lack of samples
   only because the server restarted (db.rs:337, tool_gen.rs:216). *)
FewSamplesMeansRestart ==
  row.calls >= MinCalls /\ row.samples < MinSamples => restarted > 0
=============================================================================
