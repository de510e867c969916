-------------------------- MODULE McpServer_proofs --------------------------
(* The governance of the tools the server generates, for any number of callers
   that are judged at once and any limit; and the server itself, for any number
   of requests at once and chains of any length.  Its programs are sound by
   construction (a lock held across an await is given back after operations that
   wait for no such lock, a change is followed by its save), every step leaves a
   sound program, and so nobody waits in a circle and nothing is left unsaved. *)
EXTENDS MC_McpServer, FiniteSetTheorems, TLAPS

(* The governance of generated tools.  Whoever was allowed to add a tool and has
   not yet done so is counted with the tools in use. *)
Metrics == [calls : Nat, errors : Nat, samples : Nat]

Decision(a) ==
  \/ a = Governance!NoDecision
  \/ a.pc = "counted" /\ a.full \in BOOLEAN
  \/ a.pc = "judged" /\ (a.adds = {} \/ \E tool : a.adds = {tool})

Allowed == {d \in Deciders : (decision[d].pc = "counted" /\ ~decision[d].full)
                             \/ (decision[d].pc = "judged" /\ decision[d].adds # {})}

Capacity ==
  /\ faults \in Nat /\ IsFiniteSet(activated)
  /\ DOMAIN decision = Deciders /\ \A d \in Deciders : Decision(decision[d])
  /\ Cardinality(activated) + Cardinality(Allowed) <= MaxDynamicTools + Cardinality(Deciders) - 1 + faults

LEMMA GovernanceCardinality == \A T : Governance!Cardinality(T) = Cardinality(T)
  BY DEF Governance!Cardinality, Cardinality

LEMMA AllowedFinite ==
  /\ IsFiniteSet(Deciders) /\ IsFiniteSet(Allowed) /\ Cardinality(Deciders) \in Nat /\ Cardinality(Allowed) \in Nat
  /\ Cardinality(Allowed) <= Cardinality(Deciders)
  <1>1. IsFiniteSet(Deciders)
    BY GovernanceAssumption
  <1>2. Allowed \subseteq Deciders
    BY DEF Allowed
  <1> QED
    BY <1>1, <1>2, FS_Subset, FS_CardinalityType

LEMMA OneMore ==
  ASSUME NEW S, IsFiniteSet(S), NEW x
  PROVE  /\ IsFiniteSet(S \union {x}) /\ Cardinality(S \union {x}) \in Nat
         /\ Cardinality(S \union {x}) <= Cardinality(S) + 1
         /\ x \in S => Cardinality(S \union {x}) = Cardinality(S)
  <1>1. IsFiniteSet(S \union {x}) /\ (x \in S => S \union {x} = S)
    BY FS_AddElement
  <1>2. Cardinality(S \union {x}) = Cardinality(S) \/ Cardinality(S \union {x}) = Cardinality(S) + 1
    BY FS_AddElement
  <1>3. Cardinality(S) \in Nat /\ Cardinality(S \union {x}) \in Nat
    BY <1>1, FS_CardinalityType
  <1>4. Cardinality(S \union {x}) <= Cardinality(S) + 1
    BY <1>2, <1>3
  <1>5. ASSUME x \in S PROVE Cardinality(S \union {x}) = Cardinality(S)
    <2>1. S \union {x} = S
      BY <1>5
    <2> QED
      BY <2>1, Zenon
  <1> QED
    BY <1>1, <1>3, <1>4, <1>5

(* What a decision's step does to those who may add. *)
LEMMA OneDecides ==
  ASSUME NEW d \in Deciders, DOMAIN decision = Deciders, NEW a, decision' = [decision EXCEPT ![d] = a]
  PROVE  /\ Allowed' \subseteq Allowed \union {d}
         /\ ~(a.pc = "counted" /\ ~a.full) /\ ~(a.pc = "judged" /\ a.adds # {}) => Allowed' = Allowed \ {d}
         /\ Cardinality(Allowed') <= Cardinality(Allowed) + 1
         /\ Cardinality(Allowed \ {d}) = Cardinality(Allowed) - (IF d \in Allowed THEN 1 ELSE 0)
         /\ d \in Allowed => Cardinality(Allowed') <= Cardinality(Allowed)
         /\ Cardinality(Allowed') \in Nat
  <1>1. decision'[d] = a /\ \A q \in Deciders : q # d => decision'[q] = decision[q]
    OBVIOUS
  <1>2. Allowed' \subseteq Allowed \union {d}
    BY <1>1 DEF Allowed
  <1>3. ~(a.pc = "counted" /\ ~a.full) /\ ~(a.pc = "judged" /\ a.adds # {}) => Allowed' = Allowed \ {d}
    BY <1>1 DEF Allowed
  <1>4. IsFiniteSet(Allowed) /\ Cardinality(Allowed) \in Nat
    BY AllowedFinite
  <1> HIDE DEF Allowed
  <1> DEFINE old == Allowed
             new == Allowed'
  <1>5. IsFiniteSet(old \union {d}) /\ Cardinality(old \union {d}) <= Cardinality(old) + 1
        /\ (d \in old => Cardinality(old \union {d}) = Cardinality(old)) /\ Cardinality(old \union {d}) \in Nat
    BY <1>4, OneMore
  <1>6. Cardinality(new) <= Cardinality(old \union {d}) /\ Cardinality(new) \in Nat
    BY <1>2, <1>5, FS_Subset, FS_CardinalityType
  <1>7. Cardinality(old \ {d}) = Cardinality(old) - (IF d \in old THEN 1 ELSE 0)
    BY <1>4, FS_RemoveElement
  <1> QED
    BY <1>2, <1>3, <1>4, <1>5, <1>6, <1>7

LEMMA CapacityKeeps ==
  ASSUME Capacity, [Governance!Next]_Governance!governanceVars
  PROVE  Capacity'
  <1> DEFINE bound == MaxDynamicTools + Cardinality(Deciders) - 1
  <1>0. /\ Cardinality(activated) \in Nat /\ Cardinality(Allowed) \in Nat /\ faults \in Nat /\ bound \in Nat \union {-1}
        /\ Cardinality(Deciders) \in Nat /\ MaxDynamicTools \in Nat \ {0}
    BY AllowedFinite, FS_CardinalityType, GovernanceAssumption DEF Capacity
  <1>1. ASSUME UNCHANGED <<decision, activated>>, faults' = faults \/ Governance!fault PROVE Capacity'
    <2>1. faults' \in Nat /\ faults' >= faults
      BY <1>0, <1>1 DEF Governance!fault
    <2>2. Allowed' = Allowed
      BY <1>1 DEF Allowed
    <2> HIDE DEF Allowed
    <2> QED
      BY <1>0, <1>1, <2>1, <2>2 DEF Capacity, Decision
  <1>2. ASSUME NEW d \in Deciders, NEW tool \in Generated, NEW action, Governance!asks(d, tool, action) PROVE Capacity'
    <2>1. PICK seen \in {Cardinality(activated), 0} :
            /\ decision' = [decision EXCEPT ![d] = [pc |-> "counted", tool |-> tool, action |-> action,
                                                    full |-> Governance!full(seen)]]
            /\ IF seen = Cardinality(activated) THEN UNCHANGED faults ELSE Governance!fault
      BY <1>2, GovernanceCardinality DEF Governance!asks
    <2> DEFINE a == [pc |-> "counted", tool |-> tool, action |-> action, full |-> Governance!full(seen)]
    <2>2. decision' = [decision EXCEPT ![d] = a] /\ decision[d].pc = "idle" /\ activated' = activated
      BY <1>2, <2>1 DEF Governance!asks
    <2>3. a.pc = "counted" /\ a.full \in BOOLEAN /\ (a.full <=> seen >= MaxDynamicTools)
      <3>1. a.pc = "counted" /\ a.full = (seen >= MaxDynamicTools)
        BY DEF Governance!full
      <3>2. seen \in Nat /\ MaxDynamicTools \in Nat
        BY <1>0
      <3>3. (seen >= MaxDynamicTools) \in BOOLEAN
        BY <3>2
      <3> HIDE DEF a
      <3> QED
        BY <3>1, <3>3
    <2> HIDE DEF a
    <2>4. d \notin Allowed
      BY <2>2 DEF Allowed
    <2>5. DOMAIN decision' = Deciders /\ \A q \in Deciders : Decision(decision'[q])
      <3>1. DOMAIN decision = Deciders /\ \A q \in Deciders : Decision(decision[q])
        BY DEF Capacity
      <3>2. Decision(a)
        BY <2>3 DEF Decision
      <3> HIDE DEF Decision
      <3> QED
        BY <2>2, <3>1, <3>2
    <2>6. Cardinality(activated) + Cardinality(Allowed') <= bound + faults' /\ faults' \in Nat
      <3>1. /\ Cardinality(Allowed') <= Cardinality(Allowed) + 1 /\ Cardinality(Allowed') \in Nat
            /\ (a.full => Allowed' = Allowed \ {d})
        BY <2>2, <2>3, OneDecides DEF Capacity
      <3>2. a.full => Cardinality(Allowed') = Cardinality(Allowed)
        BY <2>4, <3>1
      <3>3. Cardinality(Allowed') <= Cardinality(Deciders)
        <4>1. Allowed' \subseteq Deciders
          BY <2>5 DEF Allowed
        <4> QED
          BY <4>1, AllowedFinite, FS_Subset
      <3>4. CASE seen = Cardinality(activated)
        <4>1. faults' = faults
          BY <2>1, <3>4
        <4>2. CASE a.full
          BY <1>0, <3>2, <4>1, <4>2 DEF Capacity
        <4>3. CASE ~a.full
          <5>1. Cardinality(activated) < MaxDynamicTools
            BY <1>0, <2>3, <3>4, <4>3
          <5> QED
            BY <1>0, <3>1, <3>3, <4>1, <5>1
        <4> QED
          BY <4>2, <4>3
      <3>5. CASE seen # Cardinality(activated)
        <4>1. faults' = faults + 1
          BY <2>1, <3>5 DEF Governance!fault
        <4> QED
          BY <1>0, <3>1, <4>1 DEF Capacity
      <3> QED
        BY <3>4, <3>5
    <2>7. (Cardinality(Allowed))' = Cardinality(Allowed')
      OBVIOUS
    <2> QED
      BY <2>2, <2>5, <2>6, <2>7 DEF Capacity, Decision
  <1>3. ASSUME NEW d \in Deciders, NEW fit, NEW calm, Governance!judges(d, fit, calm) PROVE Capacity'
    <2> DEFINE status == IF decision[d].action = "reject" \/ decision[d].full THEN "rejected"
                ELSE IF decision[d].action = "accept" THEN "accepted" ELSE Governance!verdict(fit, calm)
               a == [pc |-> "judged", adds |-> IF status \in {"accepted", "promoted"} THEN {decision[d].tool} ELSE {}]
    <2>1. decision' = [decision EXCEPT ![d] = a] /\ decision[d].pc = "counted" /\ UNCHANGED <<activated, faults>>
      BY <1>3 DEF Governance!judges
    <2>2. a.pc = "judged" /\ (a.adds = {} \/ \E tool : a.adds = {tool})
      OBVIOUS
    <2>3. decision[d].full \in BOOLEAN
      BY <2>1 DEF Capacity, Decision, Governance!NoDecision
    <2>4. decision[d].full => a.adds = {}
      OBVIOUS
    <2> HIDE DEF a
    <2>5. DOMAIN decision' = Deciders /\ \A q \in Deciders : Decision(decision'[q])
      <3>1. DOMAIN decision = Deciders /\ \A q \in Deciders : Decision(decision[q])
        BY DEF Capacity
      <3>2. Decision(a)
        BY <2>2 DEF Decision
      <3> HIDE DEF Decision
      <3> QED
        BY <2>1, <3>1, <3>2
    <2>6. Cardinality(Allowed') <= Cardinality(Allowed) /\ Cardinality(Allowed') \in Nat
      <3>1. a.adds = {} => Allowed' = Allowed \ {d}
        BY <2>1, <2>2, OneDecides DEF Capacity
      <3>2. a.adds # {} => d \in Allowed
        BY <2>1, <2>3, <2>4 DEF Allowed
      <3>3. /\ Cardinality(Allowed \ {d}) = Cardinality(Allowed) - (IF d \in Allowed THEN 1 ELSE 0)
            /\ d \in Allowed => Cardinality(Allowed') <= Cardinality(Allowed)
            /\ Cardinality(Allowed') \in Nat
        BY <2>1, OneDecides DEF Capacity
      <3>4. CASE d \in Allowed
        BY <3>3, <3>4
      <3>5. CASE d \notin Allowed
        <4>1. Allowed' = Allowed \ {d}
          BY <3>1, <3>2, <3>5
        <4>2. Cardinality(Allowed \ {d}) = Cardinality(Allowed)
          BY <1>0, <3>3, <3>5
        <4> HIDE DEF Allowed
        <4> QED
          BY <1>0, <3>3, <4>1, <4>2
      <3> QED
        BY <3>4, <3>5
    <2>7. (Cardinality(Allowed))' = Cardinality(Allowed')
      OBVIOUS
    <2>8. Cardinality(activated) + Cardinality(Allowed) <= bound + faults /\ IsFiniteSet(activated)
      BY DEF Capacity
    <2> HIDE DEF Allowed
    <2>9. Cardinality(activated') + Cardinality(Allowed') <= bound + faults'
      <3>1. activated' = activated /\ faults' = faults
        BY <2>1
      <3> HIDE DEF bound
      <3> QED
        BY <1>0, <2>6, <2>8, <3>1
    <2> QED
      BY <1>0, <2>1, <2>5, <2>7, <2>8, <2>9 DEF Capacity, Decision
  <1>4. ASSUME NEW d \in Deciders, Governance!files(d) \/ Governance!filesNothing(d) PROVE Capacity'
    <2>1. /\ decision[d].pc = "judged" /\ decision' = [decision EXCEPT ![d] = Governance!NoDecision]
          /\ \/ activated' = activated \union decision[d].adds /\ faults' = faults
             \/ activated' = activated /\ faults' = faults + 1
      BY <1>4 DEF Governance!files, Governance!filesNothing, Governance!fault
    <2>2. Allowed' = Allowed \ {d}
      <3>1. Governance!NoDecision.pc = "idle"
        BY DEF Governance!NoDecision
      <3> QED
        BY <2>1, <3>1, OneDecides DEF Capacity
    <2>3. Cardinality(Allowed') = Cardinality(Allowed) - (IF d \in Allowed THEN 1 ELSE 0)
      BY <2>1, <2>2, OneDecides DEF Capacity
    <2>4. IsFiniteSet(activated') /\ Cardinality(activated') \in Nat
          /\ Cardinality(activated') <= Cardinality(activated) + (IF d \in Allowed THEN 1 ELSE 0)
      <3>1. IsFiniteSet(activated) /\ Decision(decision[d])
        BY DEF Capacity
      <3>2. CASE activated' = activated
        BY <1>0, <3>1, <3>2
      <3>3. CASE activated' = activated \union decision[d].adds
        <4>1. decision[d].adds = {} \/ \E tool : decision[d].adds = {tool}
          BY <2>1, <3>1 DEF Decision, Governance!NoDecision
        <4>2. CASE decision[d].adds = {}
          BY <1>0, <3>1, <3>3, <4>2
        <4>3. CASE \E tool : decision[d].adds = {tool}
          <5>1. PICK tool : decision[d].adds = {tool}
            BY <4>3
          <5>2. d \in Allowed
            BY <2>1, <5>1 DEF Allowed
          <5>3. activated' = activated \union {tool}
            BY <3>3, <5>1
          <5>4. IsFiniteSet(activated') /\ Cardinality(activated') <= Cardinality(activated) + 1
            BY <1>0, <3>1, <5>3, FS_AddElement
          <5> QED
            BY <5>2, <5>4, FS_CardinalityType
        <4> QED
          BY <4>1, <4>2, <4>3
      <3> QED
        BY <2>1, <3>2, <3>3
    <2>5. DOMAIN decision' = Deciders /\ \A q \in Deciders : Decision(decision'[q])
      <3>1. DOMAIN decision = Deciders /\ \A q \in Deciders : Decision(decision[q])
        BY DEF Capacity
      <3>2. Decision(Governance!NoDecision)
        BY DEF Decision
      <3> HIDE DEF Decision
      <3> QED
        BY <2>1, <3>1, <3>2
    <2>6. Cardinality(activated') + Cardinality(Allowed') <= bound + faults' /\ faults' \in Nat
      <3>1. Cardinality(activated) + Cardinality(Allowed) <= bound + faults
        BY DEF Capacity
      <3>2. faults' \in Nat /\ faults' >= faults
        BY <1>0, <2>1
      <3> HIDE DEF bound
      <3> QED
        BY <1>0, <2>3, <2>4, <3>1, <3>2
    <2>7. (Cardinality(Allowed))' = Cardinality(Allowed') /\ (Cardinality(activated))' = Cardinality(activated')
      OBVIOUS
    <2> QED
      BY <2>4, <2>5, <2>6, <2>7 DEF Capacity, Decision
  <1>5. CASE Governance!restart
    <2>1. /\ decision' = [d \in Deciders |-> Governance!NoDecision] /\ activated' = activated
          /\ faults' \in Nat /\ faults' >= faults
      BY <1>0, <1>5 DEF Governance!restart, Governance!fault
    <2>2. Allowed' = {}
      BY <2>1 DEF Allowed, Governance!NoDecision
    <2>3. Cardinality(Allowed') = 0 /\ (Cardinality(Allowed))' = Cardinality(Allowed')
      BY <2>2, FS_EmptySet
    <2> HIDE DEF Allowed
    <2>4. DOMAIN decision' = Deciders /\ \A q \in Deciders : Decision(decision'[q])
      BY <2>1 DEF Decision
    <2> QED
      BY <1>0, <2>1, <2>3, <2>4 DEF Capacity, Decision
  <1>6. CASE UNCHANGED Governance!governanceVars
    BY <1>1, <1>6 DEF Governance!governanceVars
  <1>7. ASSUME NEW r \in Recorders,
               (\E failed \in BOOLEAN : Governance!records(r, failed)) \/ Governance!persists(r) \/ Governance!persistFails(r)
        PROVE  Capacity'
    BY <1>1, <1>7 DEF Governance!records, Governance!persists, Governance!persistFails
  <1> QED
    BY <1>2, <1>3, <1>4, <1>5, <1>6, <1>7 DEF Governance!Next

-----------------------------------------------------------------------------
(* The rows.  A row that is not behind is that of the metric, or will be once the
   one call that is being written is. *)
Same(m, n) == m.calls = n.calls /\ m.errors = n.errors

Rows ==
  /\ metric \in Metrics /\ row \in Metrics /\ record \in [Recorders -> Metrics]
  /\ restarted \in Nat
  /\ ~behind =>
       /\ (\A r \in Recorders : record[r] = Governance!NoMetric) => Same(row, metric)
       /\ \A r \in Recorders : record[r] # Governance!NoMetric =>
            /\ record[r] = metric
            /\ \A q \in Recorders : q # r => record[q] = Governance!NoMetric
  /\ restarted = 0 =>
       /\ metric.samples = metric.calls /\ row.samples = row.calls
       /\ \A r \in Recorders : record[r].samples = record[r].calls

LEMMA RowsKeep ==
  ASSUME Rows, [Governance!Next]_Governance!governanceVars
  PROVE  Rows'
  <1>0. Governance!NoMetric \in Metrics /\ Governance!NoMetric.calls = 0 /\ Governance!NoMetric.samples = 0
    BY DEF Governance!NoMetric, Metrics
  <1>1. ASSUME NEW r \in Recorders, NEW failed \in BOOLEAN, Governance!records(r, failed) PROVE Rows'
    <2> DEFINE m == Governance!counted(failed)
    <2>1. /\ metric' = m /\ record' = [record EXCEPT ![r] = m] /\ UNCHANGED <<row, restarted>>
          /\ behind' = \E q \in Recorders \ {r} : record[q] # Governance!NoMetric
      BY <1>1 DEF Governance!records
    <2>2. m \in Metrics /\ m.calls = metric.calls + 1 /\ m.samples = metric.samples + 1
      BY DEF Rows, Metrics, Governance!counted
    <2>3. m # Governance!NoMetric
      BY <1>0, <2>2 DEF Rows, Metrics
    <2> HIDE DEF m
    <2>4. record' \in [Recorders -> Metrics] /\ record'[r] = m /\ \A q \in Recorders : q # r => record'[q] = record[q]
      BY <2>1, <2>2 DEF Rows
    <2>5. ~behind' => \A q \in Recorders : q # r => record'[q] = Governance!NoMetric
      BY <2>1, <2>4
    <2>6. restarted = 0 => m.samples = m.calls
      BY <2>2 DEF Rows
    <2> QED
      BY <2>1, <2>2, <2>3, <2>4, <2>5, <2>6 DEF Rows
  <1>2. ASSUME NEW r \in Recorders, Governance!persists(r) PROVE Rows'
    <2>1. /\ record[r] # Governance!NoMetric /\ row' = record[r] /\ UNCHANGED <<metric, behind, restarted>>
          /\ record' = [record EXCEPT ![r] = Governance!NoMetric]
      BY <1>2 DEF Governance!persists
    <2>2. /\ record' \in [Recorders -> Metrics] /\ record'[r] = Governance!NoMetric
          /\ \A q \in Recorders : q # r => record'[q] = record[q]
      BY <1>0, <2>1 DEF Rows
    <2>3. ~behind => \A q \in Recorders : record'[q] = Governance!NoMetric
      BY <2>1, <2>2 DEF Rows
    <2>4. ~behind => Same(row', metric')
      BY <2>1 DEF Rows, Same
    <2>5. row' \in Metrics /\ (restarted = 0 => row'.samples = row'.calls)
      BY <2>1 DEF Rows
    <2>6. Same(row, metric)' <=> Same(row', metric')
      BY DEF Same
    <2> QED
      BY <1>0, <2>1, <2>2, <2>3, <2>4, <2>5, <2>6 DEF Rows
  <1>3. ASSUME NEW r \in Recorders, Governance!persistFails(r) PROVE Rows'
    <2>1. behind' = TRUE /\ UNCHANGED <<metric, row, restarted>> /\ record' = [record EXCEPT ![r] = Governance!NoMetric]
      BY <1>3 DEF Governance!persistFails
    <2>2. /\ record' \in [Recorders -> Metrics] /\ record'[r] = Governance!NoMetric
          /\ \A q \in Recorders : q # r => record'[q] = record[q]
      BY <1>0, <2>1 DEF Rows
    <2> QED
      BY <1>0, <2>1, <2>2 DEF Rows
  <1>4. CASE Governance!restart
    <2>1. /\ restarted' = restarted + 1 /\ row' = row /\ record' = [r \in Recorders |-> Governance!NoMetric]
          /\ (metric' = Governance!load /\ behind' = FALSE) \/ (metric' = Governance!NoMetric /\ behind' = TRUE)
      BY <1>4 DEF Governance!restart
    <2>2. Governance!load \in Metrics /\ Same(row, Governance!load)
      BY DEF Rows, Governance!load, Metrics, Same
    <2>3. metric' \in Metrics /\ (~behind' => Same(row', metric'))
      BY <1>0, <2>1, <2>2
    <2>4. Same(row, metric)' <=> Same(row', metric')
      BY DEF Same
    <2>5. restarted' \in Nat /\ restarted' # 0
      BY <2>1 DEF Rows
    <2> QED
      BY <1>0, <2>1, <2>3, <2>4, <2>5 DEF Rows
  <1>5. ASSUME UNCHANGED <<metric, row, record, behind, restarted>> PROVE Rows'
    BY <1>5 DEF Rows, Same
  <1>6. ASSUME NEW d \in Deciders,
               \/ \E tool \in Generated, action \in {"accept", "reject", "promote"} : Governance!asks(d, tool, action)
               \/ \E fit, calm \in BOOLEAN : Governance!judges(d, fit, calm)
               \/ Governance!files(d) \/ Governance!filesNothing(d)
        PROVE  Rows'
    BY <1>5, <1>6 DEF Governance!asks, Governance!judges, Governance!files, Governance!filesNothing
  <1>7. CASE UNCHANGED Governance!governanceVars
    BY <1>5, <1>7 DEF Governance!governanceVars
  <1> QED
    BY <1>1, <1>2, <1>3, <1>4, <1>6, <1>7 DEF Governance!Next

(* However many tools are decided on at once, whatever the database fails to do
   and however often the server restarts, the limit on accepted tools, the rows
   of the database and the quarantines are what the code allows for
   (tools_orchestration.rs:452-460, telemetry.rs:34-97, db.rs:337). *)
THEOREM Governs == MCSpec => []GovernanceSound
  <1>1. MCInit => Capacity /\ Rows
    <2> SUFFICES ASSUME MCInit PROVE Capacity /\ Rows
      OBVIOUS
    <2>1. /\ metric = Governance!NoMetric /\ row = Governance!NoMetric /\ record = [r \in Recorders |-> Governance!NoMetric]
          /\ decision = [d \in Deciders |-> Governance!NoDecision] /\ activated = {} /\ restarted = 0 /\ faults = 0
      BY DEF MCInit, Governance!Init
    <2>2. Governance!NoMetric \in Metrics /\ Governance!NoMetric.samples = Governance!NoMetric.calls
      BY DEF Governance!NoMetric, Metrics
    <2>3. Rows
      BY <2>1, <2>2 DEF Rows, Same
    <2>4. Allowed = {}
      BY <2>1 DEF Allowed, Governance!NoDecision
    <2>5. Cardinality(activated) = 0 /\ Cardinality(Allowed) = 0 /\ IsFiniteSet(activated)
      BY <2>1, <2>4, FS_EmptySet
    <2>6. Cardinality(Deciders) \in Nat /\ MaxDynamicTools \in Nat \ {0}
      BY AllowedFinite, GovernanceAssumption
    <2>7. DOMAIN decision = Deciders /\ \A d \in Deciders : Decision(decision[d])
      BY <2>1 DEF Decision
    <2> HIDE DEF Allowed
    <2>8. Capacity
      BY <2>1, <2>5, <2>6, <2>7 DEF Capacity
    <2> QED
      BY <2>3, <2>8
  <1>2. Capacity /\ Rows /\ [MCNext]_<<active, serverVars, governanceVars>> => Capacity' /\ Rows'
    <2>1. [MCNext]_<<active, serverVars, governanceVars>> => [Governance!Next]_Governance!governanceVars
      BY DEF MCNext, governanceVars, Governance!governanceVars
    <2> QED
      BY <2>1, CapacityKeeps, RowsKeep
  <1>3. Capacity /\ Rows => GovernanceSound
    <2> SUFFICES ASSUME Capacity, Rows PROVE GovernanceSound
      OBVIOUS
    <2>1. Governance!CapacityOvershoot
      <3>1. Cardinality(activated) \in Nat /\ Cardinality(Allowed) \in Nat
        BY AllowedFinite, FS_CardinalityType DEF Capacity
      <3>2. Cardinality(Deciders) \in Nat /\ MaxDynamicTools \in Nat /\ faults \in Nat
        BY AllowedFinite, GovernanceAssumption DEF Capacity
      <3>3. Cardinality(activated) <= MaxDynamicTools + Cardinality(Deciders) - 1 + faults
        BY <3>1, <3>2 DEF Capacity
      <3> QED
        BY <3>3, GovernanceCardinality DEF Governance!CapacityOvershoot
    <2>2. Governance!RowLagsByOverlap
      BY DEF Rows, Same, Governance!RowLagsByOverlap
    <2>3. Governance!FewSamplesMeansRestart
      BY GovernanceAssumption DEF Rows, Metrics, Governance!FewSamplesMeansRestart
    <2> QED
      BY <2>1, <2>2, <2>3 DEF GovernanceSound
  <1> QED
    BY <1>1, <1>2, <1>3, PTL DEF MCSpec

-----------------------------------------------------------------------------
(* Programs.  A lock that is held across an await is given back after operations
   that wait for nothing but the memories and the metrics; who changes a store
   saves it next; and a file is written as it is. *)
Held == {"thermo", "causal_brain", "trauma"}
Light == ({"use"} \X Locks) \cup ({"call"} \X SUBSET (DOMAIN Program)) \cup ({"panic"} \X {0})
         \cup ({"chain"} \X (Nat \X Nat \X Nat))
Heavy == ({"take", "give"} \X Held) \cup ({"push", "push_uncapped", "push_users", "prune", "dream"} \X Nat)
         \cup ({"snap", "put"} \X Stores) \cup ({"truncate"} \X {"memories"})
Operation == Light \cup Heavy

Calm(o) == o[1] \in {"push", "prune", "snap", "truncate", "put"} \/ o = use("tool_metrics")
Closes(p, i, l) == \E k \in i .. Len(p) : p[k] = give(l) /\ \A j \in i .. k - 1 : Calm(p[j])
Then(p, i, o) == i < Len(p) /\ p[i + 1] = o

Followed(p, i) ==
  /\ p[i][1] = "take" => Closes(p, i + 1, p[i][2])
  /\ p[i][1] \in {"push", "push_uncapped", "dream"} => Then(p, i, <<"snap", "memories">>)
  /\ p[i][1] = "push_users" => Then(p, i, <<"snap", "users">>)
  /\ p[i][1] = "snap" /\ p[i][2] = "memories" => Then(p, i, <<"truncate", "memories">>)
  /\ p[i][1] = "snap" /\ p[i][2] = "users" => Then(p, i, <<"put", "users">>)
  /\ p[i][1] = "truncate" => Then(p, i, <<"put", "memories">>)
  /\ i < Len(p) /\ p[i + 1][1] \in {"truncate", "put"} => p[i][1] \in {"snap", "truncate"}

Begins(p) == p # <<>> => p[1][1] \notin {"truncate", "put"}
Sound(p) == p \in Seq(Operation) /\ \A i \in 1 .. Len(p) : Followed(p, i)
Whole(p) == Sound(p) /\ Begins(p)

LEMMA Concat ==
  ASSUME NEW S, NEW p \in Seq(S), NEW q \in Seq(S)
  PROVE  /\ p \o q \in Seq(S) /\ Len(p \o q) = Len(p) + Len(q)
         /\ \A i \in 1 .. Len(p) : (p \o q)[i] = p[i]
         /\ \A i \in 1 .. Len(q) : (p \o q)[Len(p) + i] = q[i]
  OBVIOUS

LEMMA Empty ==
  ASSUME NEW S, NEW p \in Seq(S)
  PROVE  (p # <<>> <=> Len(p) > 0) /\ (p # <<>> <=> Len(p) >= 1) /\ Len(p) \in Nat
  OBVIOUS

LEMMA Listed ==
  /\ \A i \in 1 .. 3 : i = 1 \/ i = 2 \/ i = 3
  /\ \A i \in 1 .. 4 : i = 1 \/ i = 2 \/ i = 3 \/ i = 4
  /\ \A i \in 1 .. 6 : i = 1 \/ i = 2 \/ i = 3 \/ i = 4 \/ i = 5 \/ i = 6
  /\ \A i \in 1 .. 8 : i = 1 \/ i = 2 \/ i = 3 \/ i = 4 \/ i = 5 \/ i = 6 \/ i = 7 \/ i = 8
  OBVIOUS

LEMMA Of3 ==
  ASSUME NEW S, NEW a \in S, NEW b \in S, NEW c \in S
  PROVE  <<a, b, c>> \in Seq(S)
  OBVIOUS

LEMMA Of4 ==
  ASSUME NEW S, NEW a \in S, NEW b \in S, NEW c \in S, NEW d \in S
  PROVE  <<a, b, c, d>> \in Seq(S)
  OBVIOUS

LEMMA Of5 ==
  ASSUME NEW S, NEW a \in S, NEW b \in S, NEW c \in S, NEW d \in S, NEW e \in S
  PROVE  <<a, b, c, d, e>> \in Seq(S)
  OBVIOUS

LEMMA Of6 ==
  ASSUME NEW S, NEW a \in S, NEW b \in S, NEW c \in S, NEW d \in S, NEW e \in S, NEW f \in S
  PROVE  <<a, b, c, d, e, f>> \in Seq(S)
  OBVIOUS

LEMMA SameSequence ==
  ASSUME NEW S, NEW p \in Seq(S), NEW q \in Seq(S), NEW n \in Nat, Len(p) = n, Len(q) = n,
         \A i \in 1 .. n : p[i] = q[i]
  PROVE  p = q
  OBVIOUS

LEMMA Added ==
  /\ \A a, b, c : <<a>> \o <<b, c>> = <<a, b, c>>
  /\ \A a, b, c : <<a>> \o <<b>> \o <<c>> = <<a, b, c>>
  /\ \A a, b, c, d : <<a>> \o <<b, c, d>> = <<a, b, c, d>>
<1>1. ASSUME NEW a, NEW b, NEW c
      PROVE  <<a>> \o <<b, c>> = <<a, b, c>>
  <2>1. Len(<<a>> \o <<b, c>>) = 3 /\ Len(<<a, b, c>>) = 3
    OBVIOUS
  <2>2. <<a>> \o <<b, c>> \in Seq({a, b, c})
    OBVIOUS
  <2>3. <<a, b, c>> \in Seq({a, b, c})
    OBVIOUS
  <2>4. \A i \in 1 .. 3 : (<<a>> \o <<b, c>>)[i] = <<a, b, c>>[i]
    OBVIOUS
  <2> QED
    BY <2>1, <2>2, <2>3, <2>4, SameSequence
<1>2. ASSUME NEW a, NEW b, NEW c
      PROVE  <<a>> \o <<b>> \o <<c>> = <<a, b, c>>
  <2>1. Len(<<a>> \o <<b>> \o <<c>>) = 3 /\ Len(<<a, b, c>>) = 3
    OBVIOUS
  <2>2. <<a>> \o <<b>> \o <<c>> \in Seq({a, b, c})
    OBVIOUS
  <2>3. <<a, b, c>> \in Seq({a, b, c})
    OBVIOUS
  <2>4. \A i \in 1 .. 3 : (<<a>> \o <<b>> \o <<c>>)[i] = <<a, b, c>>[i]
    OBVIOUS
  <2> QED
    BY <2>1, <2>2, <2>3, <2>4, SameSequence
<1>3. ASSUME NEW a, NEW b, NEW c, NEW d
      PROVE  <<a>> \o <<b, c, d>> = <<a, b, c, d>>
  <2>1. Len(<<a>> \o <<b, c, d>>) = 4 /\ Len(<<a, b, c, d>>) = 4
    OBVIOUS
  <2>2. <<a>> \o <<b, c, d>> \in Seq({a, b, c, d})
    OBVIOUS
  <2>3. <<a, b, c, d>> \in Seq({a, b, c, d})
    OBVIOUS
  <2>4. \A i \in 1 .. 4 : (<<a>> \o <<b, c, d>>)[i] = <<a, b, c, d>>[i]
    OBVIOUS
  <2> QED
    BY <2>1, <2>2, <2>3, <2>4, SameSequence
<1> QED
  BY <1>1, <1>2, <1>3

LEMMA Saves ==
  /\ \A u : <<u>> \o save_memories = <<u, <<"snap", "memories">>, <<"truncate", "memories">>, <<"put", "memories">>>>
  /\ \A u, v, x : <<u, v>> \o save_memories \o <<x>>
                  = <<u, v, <<"snap", "memories">>, <<"truncate", "memories">>, <<"put", "memories">>, x>>
<1> DEFINE a == <<"snap", "memories">> b == <<"truncate", "memories">> c == <<"put", "memories">>
<1>1. save_memories = <<a, b, c>>
  BY DEF save_memories
<1> HIDE DEF a, b, c
<1>2. ASSUME NEW u
      PROVE  <<u>> \o save_memories = <<u, a, b, c>>
  <2> DEFINE p == <<u>> \o save_memories
             q == <<u, a, b, c>>
             S == {u, a, b, c}
  <2>1. Len(p) = 4 /\ Len(q) = 4
    BY <1>1
  <2>2. p \in Seq(S)
    BY <1>1
  <2>3. q \in Seq(S)
    BY Of4, Of6
  <2>4. p[1] = q[1] /\ p[2] = q[2]
    BY <1>1
  <2>5. p[3] = q[3] /\ p[4] = q[4]
    BY <1>1
  <2> HIDE DEF p, q, S
  <2>6. \A i \in 1 .. 4 : p[i] = q[i]
    BY <2>4, <2>5, Listed
  <2>7. p = q
    BY <2>1, <2>2, <2>3, <2>6, SameSequence
  <2> QED
    BY <2>7 DEF p, q
<1>3. ASSUME NEW u, NEW v, NEW x
      PROVE  <<u, v>> \o save_memories \o <<x>> = <<u, v, a, b, c, x>>
  <2> DEFINE p == <<u, v>> \o save_memories \o <<x>>
             q == <<u, v, a, b, c, x>>
             S == {u, v, a, b, c, x}
  <2>1. Len(p) = 6 /\ Len(q) = 6
    BY <1>1
  <2>2. p \in Seq(S)
    BY <1>1
  <2>3. q \in Seq(S)
    BY Of4, Of6
  <2>4. p[1] = q[1] /\ p[2] = q[2] /\ p[3] = q[3]
    BY <1>1
  <2>5. p[4] = q[4] /\ p[5] = q[5] /\ p[6] = q[6]
    BY <1>1
  <2> HIDE DEF p, q, S
  <2>6. \A i \in 1 .. 6 : p[i] = q[i]
    BY <2>4, <2>5, Listed
  <2>7. p = q
    BY <2>1, <2>2, <2>3, <2>6, SameSequence
  <2> QED
    BY <2>7 DEF p, q
<1> QED
  BY <1>2, <1>3, Zenon DEF a, b, c

Long(u, v, x, y, z) == <<u, v, x, y>> \o save_memories \o <<z>>
Kept(x, y, z) == <<x, y, <<"snap", "memories">>, <<"truncate", "memories">>, <<"put", "memories">>, z>>

LEMMA SavesBehindTwo == \A u, v, x, y, z : Long(u, v, x, y, z) = <<u, v>> \o Kept(x, y, z)
<1> SUFFICES ASSUME NEW u, NEW v, NEW x, NEW y, NEW z
             PROVE  Long(u, v, x, y, z) = <<u, v>> \o Kept(x, y, z)
  OBVIOUS
<1> DEFINE a == <<"snap", "memories">> b == <<"truncate", "memories">> c == <<"put", "memories">>
<1>1. save_memories = <<a, b, c>>
  BY DEF save_memories
<1> HIDE DEF a, b, c
<1>4. <<u, v, x, y>> \o save_memories \o <<z>> = <<u, v>> \o <<x, y, a, b, c, z>>
  <2> DEFINE p == <<u, v, x, y>> \o save_memories \o <<z>>
             q == <<u, v>> \o <<x, y, a, b, c, z>>
             S == {u, v, x, y, a, b, c, z}
  <2>1. Len(p) = 8 /\ Len(q) = 8
    BY <1>1
  <2>2. p \in Seq(S)
    BY <1>1
  <2>3. q \in Seq(S)
    OBVIOUS
  <2>4. p[1] = q[1] /\ p[2] = q[2] /\ p[3] = q[3] /\ p[4] = q[4]
    BY <1>1
  <2>5. p[5] = q[5] /\ p[6] = q[6] /\ p[7] = q[7] /\ p[8] = q[8]
    BY <1>1
  <2> HIDE DEF p, q, S
  <2>6. \A i \in 1 .. 8 : p[i] = q[i]
    BY <2>4, <2>5, Listed
  <2>7. p = q
    BY <2>1, <2>2, <2>3, <2>6, SameSequence
  <2> QED
    BY <2>7 DEF p, q
<1> QED
  BY <1>4, Zenon DEF a, b, c, Long, Kept

LEMMA Operations ==
  /\ \A l \in Held : take(l) \in Operation /\ give(l) \in Operation
  /\ \A n \in Nat : \A k \in {"push", "push_uncapped", "push_users", "prune", "dream"} : <<k, n>> \in Operation
  /\ \A s \in Stores : <<"snap", s>> \in Operation /\ <<"put", s>> \in Operation
  /\ <<"truncate", "memories">> \in Operation
  /\ \A l \in Locks : use(l) \in Light /\ use(l) \in Operation
<1>1. \A l \in Held : take(l) \in Operation /\ give(l) \in Operation
  BY DEF Operation, Heavy, take, give
<1>2. \A n \in Nat : \A k \in {"push", "push_uncapped", "push_users", "prune", "dream"} : <<k, n>> \in Operation
  BY DEF Operation, Heavy
<1>3. \A s \in Stores : <<"snap", s>> \in Operation /\ <<"put", s>> \in Operation
  BY DEF Operation, Heavy
<1>4. <<"truncate", "memories">> \in Operation
  BY DEF Operation, Heavy
<1>5. \A l \in Locks : use(l) \in Light /\ use(l) \in Operation
  BY DEF Operation, Light, use
<1> QED
  BY <1>1, <1>2, <1>3, <1>4, <1>5

LEMMA LightIsWhole ==
  ASSUME NEW p \in Seq(Light)
  PROVE  Whole(p)
<1>1. p \in Seq(Operation)
  BY DEF Operation
<1>2. \A i \in 1 .. Len(p) : p[i][1] \in {"use", "call", "panic", "chain"} 
  BY DEF Light
<1>3. \A i \in 1 .. Len(p) : i < Len(p) => i + 1 \in 1 .. Len(p)
  OBVIOUS
<1>4. \A i \in 1 .. Len(p) : Followed(p, i)
  BY <1>2, <1>3 DEF Followed
<1>5. Begins(p)
  BY <1>2 DEF Begins
<1> QED
  BY <1>1, <1>4, <1>5 DEF Whole, Sound

(* What is left of a program once its first k operations are done. *)
LEMMA SoundRest ==
  ASSUME NEW p, Sound(p), NEW k \in 0 .. Len(p), NEW q \in Seq(Operation), Len(q) = Len(p) - k,
         \A i \in 1 .. Len(q) : q[i] = p[i + k]
  PROVE  Sound(q) /\ \A l : Closes(p, k + 1, l) => Closes(q, 1, l)
<1>1. Len(p) \in Nat /\ k \in Nat /\ Len(q) \in Nat /\ Len(p) = Len(q) + k
  BY DEF Sound
<1>2. ASSUME NEW l, NEW i \in 1 .. Len(q) + 1, Closes(p, i + k, l)
      PROVE  Closes(q, i, l)
  <2>1. PICK m \in i + k .. Len(p) : p[m] = give(l) /\ \A j \in i + k .. m - 1 : Calm(p[j])
    BY <1>2 DEF Closes
  <2>2. m - k \in i .. Len(q) /\ (m - k) + k = m
    BY <1>1, <2>1
  <2>3. q[m - k] = give(l)
    BY <1>1, <2>1, <2>2
  <2>4. ASSUME NEW j \in i .. (m - k) - 1
        PROVE  Calm(q[j])
    <3>1. j \in 1 .. Len(q) /\ j + k \in i + k .. m - 1
      BY <1>1, <2>1, <2>2
    <3> QED
      BY <2>1, <3>1
  <2> QED
    BY <2>2, <2>3, <2>4 DEF Closes
<1>3. ASSUME NEW i \in 1 .. Len(q)
      PROVE  Followed(q, i)
  <2>1. i + k \in 1 .. Len(p) /\ Followed(p, i + k) /\ q[i] = p[i + k]
    BY <1>1 DEF Sound
  <2>3. i < Len(q) => i + k < Len(p) /\ q[i + 1] = p[(i + k) + 1]
    <3>1. i < Len(q) => i + k < Len(p) /\ i + 1 \in 1 .. Len(q) /\ (i + 1) + k = (i + k) + 1
      BY <1>1
    <3>2. \A j \in 1 .. Len(q) : q[j] = p[j + k]
      OBVIOUS
    <3> QED
      BY <3>1, <3>2
  <2>2. \A o : Then(p, i + k, o) => Then(q, i, o)
    <3>1. i + k < Len(p) => i < Len(q)
      BY <1>1
    <3> QED
      BY <2>3, <3>1 DEF Then
  <2>4. i + 1 \in 1 .. Len(q) + 1 /\ (i + k) + 1 = (i + 1) + k
    BY <1>1
  <2>5. \A l : Closes(p, (i + k) + 1, l) => Closes(q, i + 1, l)
    BY <1>2, <2>4
  <2> QED
    BY <2>1, <2>2, <2>3, <2>5 DEF Followed
<1>4. 1 \in 1 .. Len(q) + 1 /\ 1 + k = k + 1
  BY <1>1
<1> QED
  BY <1>2, <1>3, <1>4 DEF Sound

LEMMA SoundTail ==
  ASSUME NEW p, Sound(p), p # <<>>
  PROVE  /\ Sound(Tail(p)) /\ \A l : Closes(p, 2, l) => Closes(Tail(p), 1, l)
         /\ Tail(p) # <<>> <=> Len(p) > 1
         /\ Len(p) > 1 => Head(Tail(p)) = p[2]
         /\ Len(p) \in Nat /\ Len(p) >= 1 /\ Head(p) = p[1] /\ p[1] \in Operation /\ Followed(p, 1)
<1>1. p \in Seq(Operation) /\ Len(p) \in Nat /\ Len(p) >= 1
  BY DEF Sound
<1>2. Tail(p) \in Seq(Operation) /\ Len(Tail(p)) = Len(p) - 1 /\ \A i \in 1 .. Len(Tail(p)) : Tail(p)[i] = p[i + 1]
  BY <1>1
<1>3. 1 \in 0 .. Len(p) /\ 1 \in 1 .. Len(p) /\ 1 + 1 = 2
  BY <1>1
<1>4. Sound(Tail(p)) /\ \A l : Closes(p, 2, l) => Closes(Tail(p), 1, l)
  BY <1>2, <1>3, SoundRest
<1>5. Tail(p) # <<>> <=> Len(p) > 1
  <2>1. Tail(p) # <<>> <=> Len(Tail(p)) > 0
    BY <1>2, Empty
  <2> QED
    BY <1>1, <1>2, <2>1
<1>6. Len(p) > 1 => Head(Tail(p)) = p[2]
  BY <1>1, <1>2
<1>7. Head(p) = p[1] /\ p[1] \in Operation /\ Followed(p, 1)
  BY <1>1, <1>3 DEF Sound
<1> QED
  BY <1>1, <1>4, <1>5, <1>6, <1>7

LEMMA Joined ==
  ASSUME NEW p, NEW q, Sound(p), Whole(q)
  PROVE  Sound(p \o q) /\ (Begins(p) => Whole(p \o q))
<1> DEFINE r == p \o q
           n == Len(p)
<1>1. /\ p \in Seq(Operation) /\ q \in Seq(Operation) /\ r \in Seq(Operation) /\ Len(r) = n + Len(q) /\ n \in Nat
      /\ Len(q) \in Nat
      /\ \A i \in 1 .. n : r[i] = p[i]
      /\ \A i \in 1 .. Len(q) : r[n + i] = q[i]
  BY Concat DEF Sound, Whole
<1> HIDE DEF r, n
<1>2. ASSUME NEW l, NEW i \in Nat, i >= 1, Closes(p, i, l)
      PROVE  Closes(r, i, l)
  <2>1. PICK m \in i .. n : p[m] = give(l) /\ \A j \in i .. m - 1 : Calm(p[j])
    BY <1>2 DEF Closes, n
  <2>2. m \in i .. Len(r) /\ m \in 1 .. n /\ \A j \in i .. m - 1 : j \in 1 .. n
    BY <1>1, <1>2, <2>1
  <2> QED
    BY <1>1, <2>1, <2>2 DEF Closes
<1>3. ASSUME NEW l, NEW i \in Nat, i >= 1, Closes(q, i, l)
      PROVE  Closes(r, n + i, l)
  <2>1. PICK m \in i .. Len(q) : q[m] = give(l) /\ \A j \in i .. m - 1 : Calm(q[j])
    BY <1>3 DEF Closes
  <2>2. n + m \in n + i .. Len(r) /\ m \in 1 .. Len(q)
    BY <1>1, <1>3, <2>1
  <2>3. PICK w \in n + i .. Len(r) : w = n + m
    BY <2>2
  <2>4. ASSUME NEW j \in n + i .. w - 1
        PROVE  Calm(r[j])
    <3>1. j - n \in i .. m - 1 /\ j - n \in 1 .. Len(q) /\ n + (j - n) = j
      BY <1>1, <1>3, <2>1, <2>3
    <3>2. r[n + (j - n)] = q[j - n]
      BY <1>1, <3>1
    <3> QED
      BY <2>1, <3>1, <3>2
  <2>5. r[w] = give(l)
    BY <1>1, <2>1, <2>2, <2>3
  <2> QED
    BY <2>4, <2>5 DEF Closes
<1>4. ASSUME NEW i \in 1 .. n
      PROVE  Followed(r, i)
  <2>1. Followed(p, i) /\ r[i] = p[i] /\ i \in Nat /\ i + 1 \in Nat /\ i + 1 >= 1
    BY <1>1 DEF Sound, n
  <2>2. \A o : Then(p, i, o) => Then(r, i, o)
    <3>1. i < Len(p) => i < Len(r) /\ r[i + 1] = p[i + 1]
      <4>1. i < Len(p) => i + 1 \in 1 .. n /\ i < Len(r)
        BY <1>1 DEF n
      <4> QED
        BY <1>1, <4>1
    <3> QED
      BY <3>1 DEF Then
  <2>3. \A l : Closes(p, i + 1, l) => Closes(r, i + 1, l)
    BY <1>2, <2>1
  <2>4. i < Len(r) /\ r[i + 1][1] \in {"truncate", "put"} => r[i][1] \in {"snap", "truncate"}
    <3>1. CASE i < n
      <4>1. i + 1 \in 1 .. n
        BY <3>1, <1>1
      <4> QED
        BY <1>1, <2>1, <3>1, <4>1 DEF Followed, n
    <3>2. CASE ~(i < n)
      <4>1. i = n 
        BY <3>2, <1>1
      <4>2. i < Len(r) => q # <<>> /\ r[i + 1] = q[1]
        BY <1>1, <4>1
      <4> QED
        BY <4>2 DEF Whole, Begins
    <3> QED
      BY <3>1, <3>2
  <2> QED
    BY <2>1, <2>2, <2>3, <2>4 DEF Followed
<1>5. ASSUME NEW i \in 1 .. Len(q)
      PROVE  Followed(r, n + i)
  <2>1. Followed(q, i) /\ r[n + i] = q[i] /\ i \in Nat /\ i + 1 \in Nat /\ i + 1 >= 1 /\ (n + i) + 1 = n + (i + 1)
    BY <1>1 DEF Sound, Whole
  <2>2. i < Len(q) <=> n + i < Len(r)
    BY <1>1
  <2>3. i < Len(q) => r[(n + i) + 1] = q[i + 1]
    <3>1. i < Len(q) => i + 1 \in 1 .. Len(q)
      BY <1>1
    <3> QED
      BY <1>1, <2>1, <3>1
  <2>4. \A o : Then(q, i, o) => Then(r, n + i, o)
    BY <2>2, <2>3 DEF Then
  <2>5. \A l : Closes(q, i + 1, l) => Closes(r, (n + i) + 1, l)
    BY <1>3, <2>1
  <2> QED
    BY <2>1, <2>2, <2>3, <2>4, <2>5 DEF Followed
<1>6. \A i \in 1 .. Len(r) : i \in 1 .. n \/ (i - n \in 1 .. Len(q) /\ i = n + (i - n))
  BY <1>1
<1>7. \A i \in 1 .. Len(r) : Followed(r, i)
  BY <1>4, <1>5, <1>6
<1>8. Sound(r)
  BY <1>1, <1>7 DEF Sound
<1>9. ASSUME Begins(p)
      PROVE  Begins(r)
  <2>1. CASE p = <<>>
    <3>1. n = 0 /\ (r # <<>> => q # <<>> /\ r[1] = q[1])
      BY <2>1, <1>1 DEF n
    <3> QED
      BY <3>1 DEF Begins, Whole
  <2>2. CASE p # <<>>
    <3>1. 1 \in 1 .. n
      BY <2>2, <1>1 DEF n
    <3> QED
      BY <1>1, <1>9, <2>2, <3>1 DEF Begins
  <2> QED
    BY <2>1, <2>2
<1> QED
  BY <1>8, <1>9 DEF Whole, r

-----------------------------------------------------------------------------
(* The handlers. *)
LEMMA Blocks ==
  /\ Whole(<<take("thermo"), <<"push", 1>>, <<"snap", "memories">>, <<"truncate", "memories">>, <<"put", "memories">>,
            give("thermo")>>)
  /\ Whole(<<take("causal_brain"), <<"push", 2>>, <<"snap", "memories">>, <<"truncate", "memories">>,
             <<"put", "memories">>, give("causal_brain")>>)
  /\ Whole(<<<<"push_users", 1>>, <<"snap", "users">>, <<"put", "users">>>>)
  /\ Whole(<<<<"dream", 0>>, <<"snap", "memories">>, <<"truncate", "memories">>, <<"put", "memories">>>>)
  /\ Whole(<<<<"push_uncapped", 1>>, <<"snap", "memories">>, <<"truncate", "memories">>, <<"put", "memories">>>>)
  /\ Whole(<<take("trauma"), use("tool_metrics"), give("trauma")>>)
  /\ Whole(<<take("thermo"), <<"prune", DreamKeeps>>, give("thermo")>>)
<1>1. ASSUME NEW l \in Held, NEW n \in Nat
      PROVE  Whole(<<take(l), <<"push", n>>, <<"snap", "memories">>, <<"truncate", "memories">>,
                     <<"put", "memories">>, give(l)>>)
  <2> DEFINE p == <<take(l), <<"push", n>>, <<"snap", "memories">>, <<"truncate", "memories">>, <<"put", "memories">>, give(l)>>
  <2>1. /\ Len(p) = 6 /\ p[1] = take(l) /\ p[2] = <<"push", n>> /\ p[3] = <<"snap", "memories">>
        /\ p[4] = <<"truncate", "memories">> /\ p[5] = <<"put", "memories">> /\ p[6] = give(l)
    OBVIOUS
  <2>2. p \in Seq(Operation)
    BY Operations, Of6 DEF Stores
  <2> HIDE DEF p
  <2>3. Closes(p, 2, l)
    BY <2>1 DEF Closes, Calm
  <2>5. Followed(p, 1)
    BY <2>1, <2>3 DEF Followed, take
  <2>6. Followed(p, 2) /\ Followed(p, 3) /\ Followed(p, 4) 
    BY <2>1 DEF Followed, Then
  <2>7. Followed(p, 5) /\ Followed(p, 6)
    BY <2>1 DEF Followed, Then, give
  <2>8. Sound(p)
    BY <2>1, <2>2, <2>5, <2>6, <2>7, Listed DEF Sound
  <2> QED
    BY <2>1, <2>8 DEF Whole, Begins, take, p
<1>2. Whole(<<<<"push_users", 1>>, <<"snap", "users">>, <<"put", "users">>>>)
  <2> DEFINE p == <<<<"push_users", 1>>, <<"snap", "users">>, <<"put", "users">>>>
  <2>1. Len(p) = 3 /\ p[1][1] = "push_users"
    OBVIOUS
  <2>0. p[2] = <<"snap", "users">> /\ p[3] = <<"put", "users">>
    OBVIOUS
  <2>2. p \in Seq(Operation)
    BY Operations, Of3 DEF Stores
  <2> HIDE DEF p
  <2>3. Followed(p, 1) /\ Followed(p, 2) /\ Followed(p, 3)
    <3>1. Followed(p, 1)
      BY <2>1, <2>0 DEF Followed, Then
    <3>2. Followed(p, 2)
      BY <2>1, <2>0 DEF Followed, Then
    <3>3. Followed(p, 3)
      BY <2>1, <2>0 DEF Followed, Then
    <3> QED
      BY <3>1, <3>2, <3>3
  <2>4. Sound(p)
    BY <2>1, <2>2, <2>3, Listed DEF Sound
  <2> QED
    BY <2>1, <2>4 DEF Whole, Begins, p
<1>3. ASSUME NEW k \in {"dream", "push_uncapped"}, NEW n \in Nat
      PROVE  Whole(<<<<k, n>>, <<"snap", "memories">>, <<"truncate", "memories">>, <<"put", "memories">>>>)
  <2> DEFINE p == <<<<k, n>>, <<"snap", "memories">>, <<"truncate", "memories">>, <<"put", "memories">>>>
  <2>1. Len(p) = 4 /\ p[1][1] = k
    OBVIOUS
  <2>0. p[2] = <<"snap", "memories">> /\ p[3] = <<"truncate", "memories">> /\ p[4] = <<"put", "memories">>
    OBVIOUS
  <2>2. p \in Seq(Operation)
    BY Operations, Of4 DEF Stores
  <2> HIDE DEF p
  <2>3. Followed(p, 1) /\ Followed(p, 2)
    <3>1. Followed(p, 1)
      <4>1. p[1][1] \in {"dream", "push_uncapped"} /\ Then(p, 1, <<"snap", "memories">>)
        BY <2>1, <2>0 DEF Then
      <4>2. p[2][1] = "snap"
        BY <2>0
      <4> QED
        BY <4>1, <4>2 DEF Followed
    <3>2. Followed(p, 2)
      BY <2>1, <2>0 DEF Followed, Then
    <3> QED
      BY <3>1, <3>2
  <2>4. Followed(p, 3) /\ Followed(p, 4)
    <3>1. Followed(p, 3)
      BY <2>1, <2>0 DEF Followed, Then
    <3>2. Followed(p, 4)
      BY <2>1, <2>0 DEF Followed, Then
    <3> QED
      BY <3>1, <3>2
  <2>5. \A i \in 1 .. 4 : Followed(p, i)
    BY <2>3, <2>4, Listed
  <2>6. Sound(p)
    BY <2>1, <2>2, <2>5 DEF Sound
  <2> QED
    BY <2>1, <2>6 DEF Whole, Begins, p
<1>4. Whole(<<take("trauma"), use("tool_metrics"), give("trauma")>>)
  <2> DEFINE p == <<take("trauma"), use("tool_metrics"), give("trauma")>>
  <2>1. Len(p) = 3 /\ p[1] = take("trauma") /\ p[2] = use("tool_metrics") /\ p[3] = give("trauma")
    OBVIOUS
  <2>2. p \in Seq(Operation)
    BY Operations, Of3 DEF Held, Locks
  <2> HIDE DEF p
  <2>3. Closes(p, 2, "trauma")
    BY <2>1 DEF Closes, Calm
  <2>4. Followed(p, 1) /\ Followed(p, 2) /\ Followed(p, 3)
    BY <2>1, <2>3 DEF Followed, take, use, give
  <2>5. Sound(p)
    BY <2>1, <2>2, <2>4, Listed DEF Sound
  <2> QED
    BY <2>1, <2>5 DEF Whole, Begins, take, p
<1>5. Whole(<<take("thermo"), <<"prune", DreamKeeps>>, give("thermo")>>)
  <2> DEFINE p == <<take("thermo"), <<"prune", DreamKeeps>>, give("thermo")>>
  <2>1. Len(p) = 3 /\ p[1] = take("thermo") /\ p[2] = <<"prune", DreamKeeps>> /\ p[3] = give("thermo")
    OBVIOUS
  <2>2. p \in Seq(Operation)
    BY Operations, Of3, ServerAssumption DEF Held
  <2> HIDE DEF p
  <2>3. Closes(p, 2, "thermo")
    BY <2>1 DEF Closes, Calm
  <2>4. Followed(p, 1) /\ Followed(p, 2) /\ Followed(p, 3)
    BY <2>1, <2>3 DEF Followed, take, use, give
  <2>5. Sound(p)
    BY <2>1, <2>2, <2>4, Listed DEF Sound
  <2> QED
    BY <2>1, <2>5 DEF Whole, Begins, take, p
<1> QED
  BY <1>1, <1>2, <1>3, <1>4, <1>5 DEF Held

LEMMA Handlers ==
  DOMAIN Program =
    {"recall_user", "route_action", "sense_intent", "check_pattern", "simulate_response", "commit_pattern",
     "set_entropy", "record_outcome", "update_user", "dream_conversation", "reason_chain", "recall_similar",
     "memory_query", "compress_context", "orchestrate", "tool_recommend", "generated_tool_decision", "forge_tool",
     "dynamic_tool", "subbrain_auto"}
  BY DEF Program

LEMMA Lights ==
  /\ \A l \in Locks : <<use(l)>> \in Seq(Light)
  /\ \A l, m \in Locks : <<use(l), use(m)>> \in Seq(Light)
  /\ \A S \in SUBSET (DOMAIN Program) : call(S) \in Light
  /\ \A a, b, c \in Nat : chain(a, b, c) \in Light
  /\ <<"panic", 0>> \in Light
  /\ <<>> \in Seq(Light)
<1>1. \A l \in Locks : <<use(l)>> \in Seq(Light)
  BY Operations
<1>2. \A l, m \in Locks : <<use(l), use(m)>> \in Seq(Light)
  BY Operations
<1>3. \A S \in SUBSET (DOMAIN Program) : call(S) \in Light
  <2>1. \A S \in SUBSET (DOMAIN Program) : <<"call", S>> \in Light
    BY DEF Light
  <2> QED
    BY <2>1 DEF call
<1>4. \A a, b, c \in Nat : chain(a, b, c) \in Light
  <2>1. \A x \in Nat \X Nat \X Nat : <<"chain", x>> \in Light
    BY DEF Light
  <2> QED
    BY <2>1 DEF chain
<1>5. <<"panic", 0>> \in Light
  BY DEF Light
<1> QED
  BY <1>1, <1>2, <1>3, <1>4, <1>5

LEMMA GateIsLight ==
  /\ effective_policy_thresholds \in Seq(Light) /\ routing \in Seq(Light) /\ record_tool_metric \in Seq(Light)
  /\ gate \in Seq(Light) /\ evaluate_ingress_policy \in Seq(Light)
<1>0. {"thermo", "trauma", "tool_metrics"} \subseteq Locks
  BY DEF Locks
<1>1. effective_policy_thresholds \in Seq(Light)
  BY <1>0, Lights DEF effective_policy_thresholds
<1>2. routing \in Seq(Light)
  <2>1. <<use("thermo"), use("trauma"), use("tool_metrics")>> \in Seq(Light)
    BY <1>0, Operations, Of3
  <2> QED
    BY <1>1, <2>1, Concat DEF routing
<1>3. record_tool_metric \in Seq(Light)
  BY <1>0, Lights DEF record_tool_metric
<1>4. gate \in Seq(Light)
  BY <1>2, <1>3, Concat DEF gate
<1>5. <<use("trauma"), use("tool_metrics")>> \in Seq(Light)
  BY <1>0, Lights
<1>6. evaluate_ingress_policy \in Seq(Light)
  BY <1>1, <1>2, <1>5, Concat DEF evaluate_ingress_policy
<1> QED
  BY <1>1, <1>2, <1>3, <1>4, <1>6

(* The tools that only look. *)
LEMMA Lookers ==
  \A p \in recall_user \cup route_action \cup sense_intent \cup check_pattern \cup simulate_response \cup set_entropy
           \cup reason_chain \cup recall_similar \cup memory_query \cup compress_context \cup orchestrate
           \cup tool_recommend \cup generated_tool_decision \cup forge_tool \cup dynamic_tool : p \in Seq(Light)
<1>0. \A l \in Locks : use(l) \in Light
  BY Operations
<1>1. \A p \in recall_user \cup route_action \cup check_pattern \cup simulate_response \cup set_entropy : p \in Seq(Light)
  BY GateIsLight, Lights DEF recall_user, route_action, check_pattern, simulate_response, set_entropy, Locks
<1>2. \A p \in sense_intent : p \in Seq(Light)
  <2>1. SUFFICES ASSUME NEW p \in {<<>>, <<use("memories")>>}
                 PROVE  <<use("users"), use("actor")>> \o p \o <<use("liquid_brain"), use("thermo")>> \in Seq(Light)
    BY DEF sense_intent
  <2>2. p \in Seq(Light) /\ <<use("users"), use("actor")>> \in Seq(Light)
        /\ <<use("liquid_brain"), use("thermo")>> \in Seq(Light)
    BY Lights DEF Locks
  <2> QED
    BY <2>2, Concat
<1>3. \A p \in reason_chain : p \in Seq(Light)
  <2>1. use("tool_metrics") \in Light /\ use("trauma") \in Light /\ use("thermo") \in Light /\ use("memories") \in Light
    BY <1>0 DEF Locks
  <2>2. <<use("tool_metrics"), use("trauma"), use("trauma"), use("thermo"), use("memories")>> \in Seq(Light)
    BY <2>1, Of5
  <2> QED
    BY <2>2 DEF reason_chain
<1>4. \A p \in recall_similar \cup memory_query \cup compress_context \cup orchestrate : p \in Seq(Light)
  BY Lights DEF recall_similar, memory_query, compress_context, orchestrate, Locks
<1>5. \A p \in tool_recommend \cup generated_tool_decision \cup forge_tool : p \in Seq(Light)
  BY Lights DEF tool_recommend, generated_tool_decision, forge_tool, Locks
<1>6. \A p \in dynamic_tool : p \in Seq(Light)
  <2>1. SUFFICES ASSUME NEW p \in {<<>>, <<<<"panic", 0>>>>}
                 PROVE  <<use("dynamic_tools"), use("dynamic_tools")>> \o p \in Seq(Light)
    BY DEF dynamic_tool
  <2>2. p \in Seq(Light)
    <3>1. <<<<"panic", 0>>>> \in Seq(Light) /\ <<>> \in Seq(Light)
      BY Lights
    <3> QED
      BY <3>1
  <2>3. <<use("dynamic_tools"), use("dynamic_tools")>> \in Seq(Light)
    BY Lights DEF Locks
  <2> QED
    BY <2>2, <2>3, Concat
<1> QED
  BY <1>1, <1>2, <1>3, <1>4, <1>5, <1>6

(* The tools that change what the server remembers. *)
LEMMA Savers ==
  \A p \in commit_pattern \cup record_outcome \cup update_user \cup dream_conversation \cup trigger_dream_sequence : Whole(p)
<1>1. \A p \in commit_pattern : Whole(p)
  <2>1. <<take("thermo"), <<"push", 1>>>> \o save_memories \o <<give("thermo")>>
        = <<take("thermo"), <<"push", 1>>, <<"snap", "memories">>, <<"truncate", "memories">>, <<"put", "memories">>,
            give("thermo")>>
    BY Saves, Zenon
  <2> QED
    BY <2>1, Blocks DEF commit_pattern
<1>2. \A p \in record_outcome : Whole(p)
  <2>1. <<use("trauma"), use("liquid_brain"), take("causal_brain"), <<"push", 2>>>> \o save_memories \o <<give("causal_brain")>>
        = <<use("trauma"), use("liquid_brain")>>
          \o <<take("causal_brain"), <<"push", 2>>, <<"snap", "memories">>, <<"truncate", "memories">>,
               <<"put", "memories">>, give("causal_brain")>>
    <3>1. Long(use("trauma"), use("liquid_brain"), take("causal_brain"), <<"push", 2>>, give("causal_brain"))
          = <<use("trauma"), use("liquid_brain")>> \o Kept(take("causal_brain"), <<"push", 2>>, give("causal_brain"))
      BY SavesBehindTwo, Zenon
    <3> QED
      BY <3>1, Zenon DEF Long, Kept
  <2>2. Whole(<<use("trauma"), use("liquid_brain")>>)
    BY Lights, LightIsWhole DEF Locks
  <2>3. Sound(<<use("trauma"), use("liquid_brain")>>) /\ Begins(<<use("trauma"), use("liquid_brain")>>)
    BY <2>2 DEF Whole
  <2> QED
    BY <2>1, <2>3, Blocks, Joined DEF record_outcome
<1>3. \A p \in update_user : Whole(p)
  <2>1. <<<<"push_users", 1>>>> \o save_users = <<<<"push_users", 1>>, <<"snap", "users">>, <<"put", "users">>>>
    BY Added, Zenon DEF save_users
  <2> QED
    BY <2>1, Blocks DEF update_user
<1>4. \A p \in dream_conversation : Whole(p)
  BY Blocks DEF dream_conversation
<1>5. \A p \in trigger_dream_sequence : Whole(p)
  <2>1. <<<<"dream", 0>>>> \o save_memories
        = <<<<"dream", 0>>, <<"snap", "memories">>, <<"truncate", "memories">>, <<"put", "memories">>>>
    BY Saves, Zenon
  <2> QED
    BY <2>1, Blocks DEF trigger_dream_sequence
<1> QED
  BY <1>1, <1>2, <1>3, <1>4, <1>5

LEMMA ProgramsWhole == \A h \in DOMAIN Program : \A p \in Program[h] : Whole(p)
<1>1. \A p \in subbrain_auto : Whole(p)
  <2>1. SUFFICES ASSUME NEW planned \in {<<>>, <<use("tool_metrics")>>}
                 PROVE  Whole(<<call({"sense_intent"}), call({"tool_recommend"})>> \o gate \o planned \o <<chain(0, 0, 0)>>)
    BY DEF subbrain_auto
  <2>2. <<call({"sense_intent"}), call({"tool_recommend"})>> \in Seq(Light)
    <3>1. call({"sense_intent"}) \in Light /\ call({"tool_recommend"}) \in Light
      BY Lights, Handlers
    <3> QED
      BY <3>1
  <2>3. planned \in Seq(Light)
    BY Lights DEF Locks
  <2>4. <<chain(0, 0, 0)>> \in Seq(Light)
    <3>1. chain(0, 0, 0) \in Light
      BY Lights
    <3> QED
      BY <3>1
  <2> QED
    BY <2>2, <2>3, <2>4, GateIsLight, Concat, LightIsWhole
<1>2. Program.subbrain_auto = subbrain_auto
  BY DEF Program
<1>3. /\ Program.recall_user = recall_user /\ Program.route_action = route_action
      /\ Program.sense_intent = sense_intent /\ Program.check_pattern = check_pattern
      /\ Program.simulate_response = simulate_response /\ Program.set_entropy = set_entropy
      /\ Program.reason_chain = reason_chain /\ Program.recall_similar = recall_similar
      /\ Program.memory_query = memory_query /\ Program.compress_context = compress_context
      /\ Program.orchestrate = orchestrate /\ Program.tool_recommend = tool_recommend
      /\ Program.generated_tool_decision = generated_tool_decision
      /\ Program.forge_tool = forge_tool /\ Program.dynamic_tool = dynamic_tool
  BY DEF Program
<1>4. /\ Program.commit_pattern = commit_pattern /\ Program.record_outcome = record_outcome
      /\ Program.update_user = update_user /\ Program.dream_conversation = dream_conversation
  BY DEF Program
<1> QED
  BY <1>1, <1>2, <1>3, <1>4, Handlers, Lookers, Savers, LightIsWhole

LEMMA RequestsWhole == \A p \in request : Whole(p)
<1>1. \A S \in SUBSET (DOMAIN Program) : <<call(S)>> \in Seq(Light)
  BY Lights
<1>2. \A p \in tools_call : p \in Seq(Light)
  <2>1. evaluate_ingress_policy \o record_tool_metric \in Seq(Light)
    BY GateIsLight, Concat
  <2>2. evaluate_ingress_policy \o <<call(DOMAIN Program)>> \o record_tool_metric \in Seq(Light)
    <3>1. <<call(DOMAIN Program)>> \in Seq(Light)
      BY <1>1
    <3> HIDE DEF Program
    <3> QED
      BY <3>1, GateIsLight, Concat
  <2> QED
    BY <2>1, <2>2, GateIsLight DEF tools_call
<1>3. \A p \in read_resource : p \in Seq(Light)
  BY Lights, Operations, Of3 DEF read_resource, Locks
<1> QED
  BY <1>1, <1>2, <1>3, LightIsWhole DEF request

(* A tool of a chain, and what follows the chain. *)
LEMMA ChildEndsWhole == \A e \in DOMAIN childEnds : Whole(childEnds[e])
<1>0. <<use("trauma")>> \in Seq(Light) /\ inAutoList \in SUBSET (DOMAIN Program)
  BY Lights, Handlers DEF Locks, inAutoList
<1>1. DOMAIN childEnds = {"blocked", "inhibited", "unlisted", "ok", "failed"}
  BY DEF childEnds
<1>2. Whole(childEnds.blocked)
  BY GateIsLight, LightIsWhole DEF childEnds
<1>3. Whole(childEnds.inhibited)
  <2>1. <<take("trauma")>> \o record_tool_metric \o <<give("trauma")>> = <<take("trauma"), use("tool_metrics"), give("trauma")>>
    BY Added, Zenon DEF record_tool_metric
  <2> QED
    BY <2>1, Blocks DEF childEnds
<1>4. Whole(childEnds.unlisted)
  BY <1>0, GateIsLight, Concat, LightIsWhole DEF childEnds
<1>5. <<use("trauma"), call(inAutoList)>> \in Seq(Light)
  <2>1. use("trauma") \in Light /\ call(inAutoList) \in Light
    BY <1>0, Lights, Operations DEF Locks
  <2> QED
    BY <2>1
<1>6. Whole(childEnds.ok)
  BY <1>5, GateIsLight, Concat, LightIsWhole DEF childEnds
<1>7. Whole(childEnds.failed)
  BY <1>0, <1>5, GateIsLight, Concat, LightIsWhole DEF childEnds
<1> QED
  BY <1>1, <1>2, <1>3, <1>4, <1>6, <1>7

LEMMA ChainEndsWhole ==
  ASSUME NEW executed \in Nat, NEW errors \in Nat
  PROVE  Whole(chainEnds(executed, errors))
<1> DEFINE saved == IF executed = 0 THEN <<>> ELSE <<<<"push_uncapped", 1>>>> \o save_memories
           learned == IF executed > errors THEN <<use("causal_brain")>> ELSE <<>>
           summed == IF errors > executed THEN <<<<"panic", 0>>>> ELSE <<>>
<1>1. Whole(<<>>)
  BY Lights, LightIsWhole
<1>2. Whole(saved)
  <2>1. <<<<"push_uncapped", 1>>>> \o save_memories
        = <<<<"push_uncapped", 1>>, <<"snap", "memories">>, <<"truncate", "memories">>, <<"put", "memories">>>>
    BY Saves, Zenon
  <2> QED
    BY <1>1, <2>1, Blocks
<1>3. Whole(learned)
  BY <1>1, Lights, LightIsWhole DEF Locks
<1>4. Whole(summed)
  <2>1. <<<<"panic", 0>>>> \in Seq(Light)
    BY Lights
  <2> QED
    BY <1>1, <2>1, LightIsWhole
<1>5. chainEnds(executed, errors) = saved \o learned \o summed
  BY DEF chainEnds
<1> HIDE DEF saved, learned, summed
<1>6. Whole(saved \o learned)
  BY <1>2, <1>3, Joined DEF Whole
<1> QED
  BY <1>4, <1>5, <1>6, Joined DEF Whole

(* The server.  What a task has still to do is sound, and it has a copy while it
   writes; who holds a lock will give it back; a queue holds running tasks that
   want its lock, each once; and what is not on disk is owed or excused. *)
Entries == {d \in Nat \X Nat : d[1] <= d[2]}
Writes(p) == p # <<>> /\ Head(p)[1] \in {"truncate", "put"}

Phases == {"idle", "running", "answered", "panicked", "dropped"}
Excuses == {"pruned", "overlap", "failed", "killed"}

Types ==
  /\ phase \in [AllTasks -> Phases] /\ todo \in [AllTasks -> Seq(Operation)]
  /\ owner \in [Locks -> AllTasks \cup {Nobody}] /\ queue \in [Locks -> Seq(AllTasks)]
  /\ data \in [Stores -> Entries] /\ disk \in [Stores -> Entries \cup {Torn}]
  /\ copy \in [AllTasks -> Entries \cup {NoCopy}]
  /\ owing \in [Stores -> SUBSET AllTasks] /\ excuse \in [Stores -> SUBSET Excuses] /\ serving \in BOOLEAN

Task(p, c, ph, on) ==
  /\ Sound(p)
  /\ c # NoCopy <=> Writes(p)
  /\ on => (ph # "running" => p = <<>>)
  /\ ~on => ph # "running" /\ \A i \in 1 .. Len(p) : p[i][1] \in {"truncate", "put"}

Holds(l, t) == l \in Held /\ t \in AllTasks /\ phase[t] = "running" /\ Closes(todo[t], 1, l)
LockFor(o) ==
  CASE o[1] \in {"use", "take"} -> o[2]
    [] o[1] \in {"push", "push_uncapped", "prune", "dream"} -> "memories"
    [] o[1] = "push_users" -> "users"
    [] o[1] = "snap" -> o[2]
    [] OTHER -> "none"
Wants(t, l) == t \in AllTasks /\ phase[t] = "running" /\ todo[t] # <<>> /\ LockFor(Head(todo[t])) = l

Owned == \A l \in Locks : owner[l] # Nobody => Holds(l, owner[l])
Queued == \A l \in Locks :
  /\ \A i \in 1 .. Len(queue[l]) : Wants(queue[l][i], l)
  /\ \A i, j \in 1 .. Len(queue[l]) : queue[l][i] = queue[l][j] => i = j

Owes(t, s) == phase[t] = "running" /\ todo[t] # <<>> /\ (op(t) = <<"snap", s>> \/ t \in writing(s))

Saved(s) ==
  /\ serving => \A t \in owing[s] : Owes(t, s)
  /\ excuse[s] = {} =>
       /\ \A t, u \in writing(s) : t = u
       /\ \A t \in writing(s) : copy[t] = data[s] \/ \E u \in owing[s] : u # t
       /\ writing(s) = {} => disk[s] # Torn /\ (owing[s] = {} => disk[s] = data[s])
       /\ s = "memories" => \A t \in writing(s) : op(t)[1] = "put" => disk[s] = Torn

Tasks == \A t \in AllTasks : Task(todo[t], copy[t], phase[t], serving)
ServerInv == Types /\ Tasks /\ Owned /\ Queued /\ \A s \in Stores : Saved(s)

LEMMA Kinds ==
  ASSUME NEW o \in Operation
  PROVE  /\ o[1] = "use" => o[2] \in Locks
         /\ o[1] \in {"take", "give"} => o[2] \in Held
         /\ o[1] = "give" => o = give(o[2])
         /\ o[1] = "call" => o[2] \in SUBSET (DOMAIN Program)
         /\ o[1] \in {"push", "push_uncapped", "push_users", "prune", "dream"} => o[2] \in Nat
         /\ o[1] \in {"snap", "put"} => o[2] \in Stores
         /\ o[1] = "truncate" => o[2] = "memories"
         /\ o[1] = "chain" => o[2][1] \in Nat /\ o[2][2] \in Nat /\ o[2][3] \in Nat
         /\ o[1] \in {"use", "take", "give", "call", "panic", "chain", "push", "push_uncapped", "push_users", "prune",
                      "dream", "snap", "put", "truncate"}
<1>1. CASE o \in {"use"} \X Locks
  BY <1>1 DEF give
<1>2. CASE o \in {"call"} \X SUBSET (DOMAIN Program)
  BY <1>2
<1>3. CASE o \in {"panic"} \X {0}
  BY <1>3
<1>4. CASE o \in {"chain"} \X (Nat \X Nat \X Nat)
  BY <1>4
<1>5. CASE o \in {"take", "give"} \X Held
  BY <1>5 DEF give
<1>6. CASE o \in {"push", "push_uncapped", "push_users", "prune", "dream"} \X Nat
  BY <1>6
<1>7. CASE o \in {"snap", "put"} \X Stores
  BY <1>7
<1>8. CASE o \in {"truncate"} \X {"memories"}
  BY <1>8
<1> QED
  BY <1>1, <1>2, <1>3, <1>4, <1>5, <1>6, <1>7, <1>8 DEF Operation, Light, Heavy

LEMMA Heads ==
  ASSUME Types, NEW t \in AllTasks, todo[t] # <<>>
  PROVE  op(t) \in Operation /\ op(t) = todo[t][1] /\ Len(todo[t]) \in Nat /\ Len(todo[t]) >= 1
<1>1. todo[t] \in Seq(Operation)
  BY DEF Types
<1> QED
  BY <1>1 DEF op

LEMMA LockOf ==
  ASSUME NEW t
  PROVE  /\ op(t)[1] \in {"use", "take"} => lockOf(t) = op(t)[2]
         /\ op(t)[1] \in {"push", "push_uncapped", "prune", "dream"} => lockOf(t) = "memories"
         /\ op(t)[1] = "push_users" => lockOf(t) = "users"
         /\ op(t)[1] = "snap" => lockOf(t) = op(t)[2]
         /\ op(t)[1] \in {"give", "call", "panic", "chain", "truncate", "put"} => lockOf(t) = "none"
  BY DEF lockOf

LEMMA LockForIs == \A t : lockOf(t) = LockFor(Head(todo[t]))
  BY DEF lockOf, LockFor, op

LEMMA NoneIsNoLock == "none" \notin Locks /\ Stores \subseteq Locks /\ Held \subseteq Locks /\ "none" \notin Stores
  BY DEF Locks, Stores, Held

(* A holder gives the lock back, or does what waits for nobody. *)
LEMMA ClosesRest ==
  ASSUME NEW p \in Seq(Operation), NEW l, Closes(p, 1, l), NEW k \in 0 .. Len(p), \A i \in 1 .. k : p[i] # give(l)
  PROVE  Closes(p, k + 1, l) /\ p # <<>> /\ \A i \in 1 .. k : Calm(p[i])
<1>1. PICK m \in 1 .. Len(p) : p[m] = give(l) /\ \A j \in 1 .. m - 1 : Calm(p[j])
  BY DEF Closes
<1>2. m > k /\ m \in k + 1 .. Len(p) /\ k \in Nat
  BY <1>1
<1>3. \A j \in k + 1 .. m - 1 : j \in 1 .. m - 1
  BY <1>2
<1>4. \A j \in 1 .. k : j \in 1 .. m - 1
  BY <1>2
<1> QED
  BY <1>1, <1>2, <1>3, <1>4 DEF Closes

LEMMA Holder ==
  ASSUME ServerInv, NEW l \in Locks, NEW t, owner[l] = t, t \in AllTasks
  PROVE  /\ l \in Held /\ phase[t] = "running" /\ todo[t] # <<>>
         /\ op(t) = give(l) \/ (Calm(op(t)) /\ Closes(todo[t], 2, l))
<1>1. t # Nobody
  BY ServerAssumption DEF AllTasks, Dreamer, Nobody
<1>2. Holds(l, t)
  BY <1>1 DEF ServerInv, Owned
<1>3. todo[t] \in Seq(Operation)
  BY DEF ServerInv, Types
<1>4. 0 \in 0 .. Len(todo[t]) /\ \A i \in 1 .. 0 : todo[t][i] # give(l)
  BY <1>3
<1>5. todo[t] # <<>>
  BY <1>2, <1>3, <1>4, ClosesRest DEF Holds
<1>6. op(t) = todo[t][1] /\ 1 \in 0 .. Len(todo[t])
  BY <1>5, <1>3, Heads DEF ServerInv
<1>7. ASSUME op(t) # give(l)
      PROVE  Calm(op(t)) /\ Closes(todo[t], 2, l)
  <2>1. \A i \in 1 .. 1 : todo[t][i] # give(l)
    BY <1>6, <1>7
  <2>2. Closes(todo[t], 1 + 1, l) /\ \A i \in 1 .. 1 : Calm(todo[t][i])
    BY <1>2, <1>3, <1>6, <2>1, ClosesRest DEF Holds
  <2> QED
    BY <1>6, <2>2
<1> QED
  BY <1>2, <1>5, <1>7 DEF Holds

(* Nobody waits in a circle. *)
LEMMA TheHeadMoves ==
  ASSUME ServerInv, NEW l \in Locks, owner[l] = Nobody, NEW t \in AllTasks, phase[t] = "running", todo[t] # <<>>, lockOf(t) = l
  PROVE  \E u \in AllTasks : phase[u] = "running" /\ canMove(u)
<1>1. queue[l] \in Seq(AllTasks)
  BY DEF ServerInv, Types
<1>2. CASE queue[l] = <<>>
  <2>1. Head(Append(queue[l], t)) = t
    BY <1>2
  <2> QED
    BY <2>1 DEF canMove, turn
<1>3. CASE queue[l] # <<>>
  <2> DEFINE u == queue[l][1]
  <2>1. 1 \in 1 .. Len(queue[l]) /\ \A x : Head(Append(queue[l], x)) = u
    BY <1>1, <1>3
  <2>2. Wants(u, l)
    BY <2>1 DEF ServerInv, Queued
  <2> HIDE DEF u
  <2>3. turn(u, l)
    BY <2>1 DEF turn
  <2> QED
    BY <2>2, <2>3, LockForIs DEF Wants, canMove
<1> QED
  BY <1>2, <1>3

LEMMA NobodyStuck == ServerInv => NoCircularWait
<1> SUFFICES ASSUME ServerInv, NEW t \in AllTasks, phase[t] = "running"
             PROVE  \E u \in AllTasks : phase[u] = "running" /\ canMove(u)
  BY DEF NoCircularWait
<1>1. CASE \E l \in Locks : owner[l] # Nobody
  <2>1. PICK l \in Locks : owner[l] # Nobody
    BY <1>1
  <2> DEFINE u == owner[l]
  <2>2. u \in AllTasks
    BY <2>1 DEF ServerInv, Types
  <2>3. phase[u] = "running" /\ todo[u] # <<>> /\ (op(u) = give(l) \/ Calm(op(u)))
    BY <2>2, Holder
  <2> HIDE DEF u
  <2>4. op(u) \in Operation
    BY <2>2, <2>3, Heads DEF ServerInv
  <2>5. CASE op(u) = give(l)
    <3>1. op(u)[1] = "give"
      BY <2>5 DEF give
    <3> QED
      BY <2>2, <2>3, <3>1, LockOf DEF canMove
  <2>6. CASE Calm(op(u))
    <3>1. lockOf(u) = "none" \/ lockOf(u) \in {"memories", "users", "tool_metrics"}
      <4>1. op(u) = use("tool_metrics") => op(u)[1] = "use" /\ op(u)[2] = "tool_metrics"
        BY DEF use
      <4> QED
        BY <2>4, <2>6, <4>1, LockOf, Kinds DEF Calm, Stores
    <3>2. CASE lockOf(u) = "none"
      BY <2>2, <2>3, <3>2 DEF canMove
    <3>3. CASE lockOf(u) \in {"memories", "users", "tool_metrics"}
      <4>1. lockOf(u) \in Locks /\ lockOf(u) \notin Held
        BY <3>3 DEF Locks, Held
      <4>2. owner[lockOf(u)] = Nobody
        BY <4>1 DEF ServerInv, Owned, Holds
      <4> QED
        BY <2>2, <2>3, <4>1, <4>2, TheHeadMoves
    <3> QED
      BY <3>1, <3>2, <3>3
  <2> QED
    BY <2>3, <2>5, <2>6
<1>2. CASE \A l \in Locks : owner[l] = Nobody
  <2>1. CASE todo[t] = <<>> \/ lockOf(t) = "none"
    BY <2>1 DEF canMove
  <2>2. CASE todo[t] # <<>> /\ lockOf(t) # "none"
    <3>1. op(t) \in Operation
      BY <2>2, Heads DEF ServerInv
    <3>2. lockOf(t) \in Locks
      BY <2>2, <3>1, Kinds, LockOf, NoneIsNoLock DEF Locks
    <3> QED
      BY <1>2, <2>2, <3>2, TheHeadMoves
  <2> QED
    BY <2>1, <2>2
<1> QED
  BY <1>1, <1>2

LEMMA Loaded == ServerInv => SavedUnlessRaced
  BY DEF ServerInv, Saved, SavedUnlessRaced

(* A step of one task leaves the others alone. *)
Alone(t) == \A u \in AllTasks : u # t => todo'[u] = todo[u] /\ phase'[u] = phase[u] /\ copy'[u] = copy[u]
Only(t) ==
  /\ DOMAIN todo' = AllTasks /\ DOMAIN phase' = AllTasks /\ DOMAIN copy' = AllTasks /\ Alone(t)

LEMMA OthersSame ==
  ASSUME NEW t, NEW u, u # t, u \in AllTasks, Alone(t)
  PROVE  op(u)' = op(u) /\ todo'[u] = todo[u] /\ phase'[u] = phase[u] /\ copy'[u] = copy[u]
<1>1. todo'[u] = todo[u]
  BY DEF Alone
<1>2. op(u)' = op(u)
  BY <1>1 DEF op
<1> QED
  BY <1>1, <1>2 DEF Alone

LEMMA TasksKeep ==
  ASSUME ServerInv, NEW t \in AllTasks, Alone(t), serving' = serving, Task(todo'[t], copy'[t], phase'[t], serving)
  PROVE  Tasks'
<1>1. \A u \in AllTasks : Task(todo'[u], copy'[u], phase'[u], serving')
  BY DEF ServerInv, Tasks, Alone
<1> QED
  BY <1>1 DEF Tasks

LEMMA NotQueued ==
  ASSUME ServerInv, NEW t, NEW l \in Locks, NEW i \in 1 .. Len(queue[l]), queue[l][i] = t
  PROVE  Wants(t, l)
  BY DEF ServerInv, Queued

WantsNext(t, l) == t \in AllTasks /\ phase'[t] = "running" /\ todo'[t] # <<>> /\ LockFor(Head(todo'[t])) = l

LEMMA QueuesKeep ==
  ASSUME ServerInv, NEW t \in AllTasks, Alone(t), queue' \in [Locks -> Seq(AllTasks)],
         \A l \in Locks : queue'[l] = queue[l] \/ (queue[l] # <<>> /\ queue'[l] = Tail(queue[l])),
         \A l \in Locks : \A i \in 1 .. Len(queue'[l]) : queue'[l][i] # t
  PROVE  Queued'
<1>1. ASSUME NEW l \in Locks
      PROVE  /\ \A i \in 1 .. Len(queue'[l]) : WantsNext(queue'[l][i], l)
             /\ \A i, j \in 1 .. Len(queue'[l]) : queue'[l][i] = queue'[l][j] => i = j
  <2>0. queue[l] \in Seq(AllTasks) /\ Len(queue[l]) \in Nat
    BY DEF ServerInv, Types
  <2>1. PICK k \in Nat : /\ Len(queue'[l]) = Len(queue[l]) - k
                         /\ \A i \in 1 .. Len(queue'[l]) : i + k \in 1 .. Len(queue[l]) /\ queue'[l][i] = queue[l][i + k]
    <3>1. CASE queue'[l] = queue[l]
      <4>1. 0 \in Nat /\ Len(queue'[l]) = Len(queue[l]) - 0 /\ \A i \in 1 .. Len(queue'[l]) : i + 0 = i
        BY <2>0, <3>1
      <4> QED
        BY <3>1, <4>1
    <3>2. CASE queue[l] # <<>> /\ queue'[l] = Tail(queue[l])
      <4>1. 1 \in Nat /\ Len(queue'[l]) = Len(queue[l]) - 1
        BY <2>0, <3>2
      <4>2. \A i \in 1 .. Len(queue'[l]) : i + 1 \in 1 .. Len(queue[l]) /\ queue'[l][i] = queue[l][i + 1]
        BY <2>0, <3>2
      <4> QED
        BY <4>1, <4>2
    <3> QED
      BY <3>1, <3>2
  <2>2. ASSUME NEW i \in 1 .. Len(queue'[l])
        PROVE  WantsNext(queue'[l][i], l)
    <3> DEFINE u == queue'[l][i]
    <3>1. i + k \in 1 .. Len(queue[l]) /\ u = queue[l][i + k] /\ u # t
      BY <2>1
    <3>2. Wants(u, l)
      BY <3>1, NotQueued
    <3>3. todo'[u] = todo[u] /\ phase'[u] = phase[u]
      BY <3>1, <3>2 DEF Alone, Wants
    <3> QED
      BY <3>2, <3>3 DEF Wants, WantsNext
  <2>3. ASSUME NEW i \in 1 .. Len(queue'[l]), NEW j \in 1 .. Len(queue'[l]), queue'[l][i] = queue'[l][j]
        PROVE  i = j
    <3>1. i + k \in 1 .. Len(queue[l]) /\ j + k \in 1 .. Len(queue[l]) /\ queue[l][i + k] = queue[l][j + k]
      BY <2>1, <2>3
    <3>2. i + k = j + k
      BY <3>1 DEF ServerInv, Queued
    <3> QED
      BY <2>1, <3>2
  <2> QED
    BY <2>2, <2>3
<1> QED
  BY <1>1 DEF Queued, Wants, WantsNext

(* Whoever takes his turn leaves the queue. *)
LEMMA TurnTaken ==
  ASSUME ServerInv, NEW t \in AllTasks, NEW l \in Locks, todo[t] # <<>>, lockOf(t) = l, turn(t, l), queue' = unqueued(l)
  PROVE  /\ queue' \in [Locks -> Seq(AllTasks)]
         /\ \A m \in Locks : queue'[m] = queue[m] \/ (queue[m] # <<>> /\ queue'[m] = Tail(queue[m]))
         /\ \A m \in Locks : \A i \in 1 .. Len(queue'[m]) : queue'[m][i] # t
<1>1. queue \in [Locks -> Seq(AllTasks)]
  BY DEF ServerInv, Types
<1>2. queue' = [queue EXCEPT ![l] = IF queue[l] = <<>> THEN queue[l] ELSE Tail(queue[l])]
  BY DEF unqueued
<1>3. queue' \in [Locks -> Seq(AllTasks)]
  BY <1>1, <1>2
<1>4. \A m \in Locks : m # l => queue'[m] = queue[m]
  BY <1>1, <1>2
<1>5. queue'[l] = IF queue[l] = <<>> THEN queue[l] ELSE Tail(queue[l])
  BY <1>1, <1>2
<1>6. ASSUME NEW m \in Locks, NEW i \in 1 .. Len(queue'[m]), queue'[m][i] = t
      PROVE  FALSE
  <2>1. CASE m # l
    <3>1. queue[m][i] = t /\ i \in 1 .. Len(queue[m])
      BY <1>4, <1>6, <2>1
    <3> QED
      BY <2>1, <3>1, NotQueued, LockForIs DEF Wants
  <2>2. CASE m = l /\ queue[l] = <<>>
    BY <1>5, <1>6, <2>2
  <2>3. CASE m = l /\ queue[l] # <<>>
    <3>0. queue[l] \in Seq(AllTasks) /\ queue'[l] = Tail(queue[l]) /\ i \in 1 .. Len(Tail(queue[l])) /\ Tail(queue[l])[i] = t
      BY <1>1, <1>5, <1>6, <2>3
    <3>1. Len(queue[l]) \in Nat /\ i + 1 \in 1 .. Len(queue[l]) /\ queue[l][i + 1] = t /\ i \in Nat /\ i >= 1
      BY <2>3, <3>0
    <3>2. queue[l][1] = t /\ 1 \in 1 .. Len(queue[l])
      BY <1>1, <2>3 DEF turn
    <3>3. i + 1 = 1
      BY <3>1, <3>2 DEF ServerInv, Queued
    <3> QED
      BY <3>1, <3>3
  <2> QED
    BY <2>1, <2>2, <2>3
<1> QED
  BY <1>3, <1>4, <1>5, <1>6

LEMMA QueuesRest ==
  ASSUME ServerInv, NEW t \in AllTasks, Alone(t), queue' = queue,
         phase[t] # "running" \/ todo[t] = <<>> \/ lockOf(t) = "none"
  PROVE  Queued'
<1>1. queue' \in [Locks -> Seq(AllTasks)] /\ \A l \in Locks : queue'[l] = queue[l]
  BY DEF ServerInv, Types
<1>2. \A l \in Locks : \A i \in 1 .. Len(queue'[l]) : queue'[l][i] # t
  BY <1>1, NotQueued, NoneIsNoLock, LockForIs DEF Wants
<1> QED
  BY <1>1, <1>2, QueuesKeep

LEMMA OwnersKeep ==
  ASSUME ServerInv, NEW t \in AllTasks, Alone(t),
         \A l \in Locks : owner'[l] = owner[l] \/ owner'[l] = Nobody \/ (owner'[l] = t /\ Holds(l, t)'),
         \A l \in Locks : owner[l] = t => owner'[l] = Nobody \/ Holds(l, t)'
  PROVE  Owned'
<1>1. ASSUME NEW l \in Locks, owner'[l] # Nobody
      PROVE  l \in Held /\ owner'[l] \in AllTasks /\ phase'[owner'[l]] = "running" /\ Closes(todo'[owner'[l]], 1, l)
  <2> DEFINE u == owner'[l]
  <2>1. CASE u = t
    <3>1. Holds(l, t)'
      BY <1>1, <2>1
    <3>2. Holds(l, t)' => l \in Held /\ t \in AllTasks /\ phase'[t] = "running" /\ Closes(todo'[t], 1, l)
      BY DEF Holds
    <3>3. l \in Held /\ u \in AllTasks /\ phase'[u] = "running" /\ Closes(todo'[u], 1, l)
      BY <2>1, <3>1, <3>2
    <3> QED
      BY <3>3
  <2>2. CASE u # t
    <3>1. u = owner[l] /\ Holds(l, u)
      BY <1>1, <2>2 DEF ServerInv, Owned
    <3>2. phase'[u] = phase[u] /\ todo'[u] = todo[u]
      BY <2>2, <3>1 DEF Holds, Alone
    <3>3. l \in Held /\ u \in AllTasks /\ phase'[u] = "running" /\ Closes(todo'[u], 1, l)
      BY <3>1, <3>2 DEF Holds
    <3> QED
      BY <3>3
  <2> QED
    BY <2>1, <2>2
<1> QED
  BY <1>1 DEF Owned, Holds

(* What a task that holds a lock leaves of its program still gives it back. *)
LEMMA StillHolds ==
  ASSUME ServerInv, NEW t \in AllTasks, phase'[t] = phase[t], todo'[t] = Tail(todo[t]), op(t)[1] # "give",
         NEW l \in Locks, owner[l] = t
  PROVE  Holds(l, t)'
<1>1. l \in Held /\ phase[t] = "running" /\ todo[t] # <<>> /\ (op(t) = give(l) \/ (Calm(op(t)) /\ Closes(todo[t], 2, l)))
  BY Holder
<1>2. op(t) # give(l)
  BY DEF give
<1>3. Sound(todo[t])
  BY DEF ServerInv, Tasks, Task
<1>4. Closes(todo'[t], 1, l)
  BY <1>1, <1>2, <1>3, SoundTail
<1> QED
  BY <1>1, <1>4 DEF Holds

LEMMA HoldsNothing ==
  ASSUME ServerInv, NEW t \in AllTasks, todo[t] = <<>> \/ (~Calm(op(t)) /\ op(t)[1] # "give") \/ phase[t] # "running",
         NEW l \in Locks
  PROVE  owner[l] # t
<1>1. \A k : op(t) = give(k) => op(t)[1] = "give"
  BY DEF give
<1> QED
  BY <1>1, Holder

LEMMA NoEntry == NoCopy \notin Entries /\ Torn \notin Entries
  BY DEF Entries, NoCopy, Torn

LEMMA Runs ==
  ASSUME ServerInv, NEW t \in AllTasks, todo[t] # <<>>, op(t)[1] \notin {"truncate", "put"}
  PROVE  serving /\ phase[t] = "running" /\ copy[t] = NoCopy
<1>1. Task(todo[t], copy[t], phase[t], serving) /\ serving \in BOOLEAN
  BY DEF ServerInv, Tasks, Types
<1>2. 1 \in 1 .. Len(todo[t]) /\ op(t) = todo[t][1] /\ op(t) = Head(todo[t])
  BY Heads DEF ServerInv, op
<1>3. serving
  BY <1>1, <1>2 DEF Task
<1>4. copy[t] = NoCopy
  BY <1>1, <1>2 DEF Task, Writes
<1> QED
  BY <1>1, <1>3, <1>4 DEF Task

LEMMA RestWhole ==
  ASSUME NEW p, Sound(p), p # <<>>, Head(p)[1] \notin {"snap", "truncate"}
  PROVE  Whole(Tail(p))
<1>1. /\ Sound(Tail(p))
      /\ Tail(p) # <<>> <=> Len(p) > 1
      /\ Len(p) > 1 => Head(Tail(p)) = p[2]
      /\ Len(p) \in Nat /\ Len(p) >= 1 /\ Head(p) = p[1] /\ Followed(p, 1)
  BY SoundTail
<1>2. Len(p) > 1 => p[1 + 1][1] \notin {"truncate", "put"}
  BY <1>1 DEF Followed
<1>3. Tail(p) # <<>> => Head(Tail(p)) = Tail(p)[1]
  OBVIOUS
<1>4. Tail(p) # <<>> => Tail(p)[1][1] \notin {"truncate", "put"}
  BY <1>1, <1>2, <1>3
<1>5. Begins(Tail(p))
  BY <1>4, Zenon DEF Begins
<1> QED
  BY <1>1, <1>5 DEF Whole

LEMMA WholeTask ==
  ASSUME NEW p, Whole(p), NEW ph, ph = "running" \/ p = <<>>
  PROVE  Task(p, NoCopy, ph, TRUE)
<1>1. Sound(p) /\ (p # <<>> => Head(p) = p[1])
  BY DEF Whole, Sound
<1>2. ~Writes(p)
  BY <1>1 DEF Writes, Whole, Begins
<1> QED
  BY <1>1, <1>2 DEF Task

LEMMA Writers ==
  ASSUME NEW s
  PROVE  /\ writing(s) = {u \in AllTasks : copy[u] # NoCopy /\ todo[u] # <<>> /\ Head(todo[u])[2] = s}
         /\ writing(s)' = {u \in AllTasks : copy'[u] # NoCopy /\ todo'[u] # <<>> /\ Head(todo'[u])[2] = s'}
<1>1. writing(s) = {u \in AllTasks : copy[u] # NoCopy /\ todo[u] # <<>> /\ Head(todo[u])[2] = s}
  BY DEF writing, op
<1>2. writing(s)' = {u \in AllTasks : copy'[u] # NoCopy /\ todo'[u] # <<>> /\ Head(todo'[u])[2] = s'}
  BY DEF writing, op
<1> QED
  BY <1>1, <1>2

LEMMA NotOwing ==
  ASSUME ServerInv, serving, NEW s \in Stores, NEW t, t \notin writing(s),
         phase[t] # "running" \/ todo[t] = <<>> \/ op(t) # <<"snap", s>>
  PROVE  t \notin owing[s]
<1>1. SUFFICES ASSUME t \in owing[s]
               PROVE  FALSE
  OBVIOUS
<1>2. Owes(t, s)
  BY <1>1 DEF ServerInv, Saved
<1> QED
  BY <1>2 DEF Owes

(* A step that has nothing to do with a store. *)
LEMMA SavedApart ==
  ASSUME ServerInv, NEW t \in AllTasks, Alone(t), serving' = serving, NEW s \in Stores, data'[s] = data[s],
         disk'[s] = disk[s], excuse'[s] = excuse[s], t \notin writing(s), t \notin writing(s)', owing'[s] = owing[s],
         serving => t \notin owing[s]
  PROVE  Saved(s)'
<1>0. Saved(s)
  BY DEF ServerInv
<1>1. writing(s)' = {u \in AllTasks : copy'[u] # NoCopy /\ todo'[u] # <<>> /\ Head(todo'[u])[2] = s}
  BY DEF writing, op
<1>2. writing(s) = {u \in AllTasks : copy[u] # NoCopy /\ todo[u] # <<>> /\ Head(todo[u])[2] = s}
  BY DEF writing, op
<1>3. writing(s)' = writing(s)
  BY <1>1, <1>2 DEF Alone
<1>5. owing[s] \subseteq AllTasks
  BY DEF ServerInv, Types
<1>6. \A u \in AllTasks : u # t => op(u)' = op(u) /\ todo'[u] = todo[u] /\ phase'[u] = phase[u] /\ copy'[u] = copy[u]
  BY OthersSame
<1>7. serving => \A u \in owing[s] : u # t /\ Owes(u, s) /\ u \in AllTasks
  BY <1>0, <1>5 DEF Saved
<1>8. serving => \A u \in owing[s] : Owes(u, s)'
  BY <1>3, <1>6, <1>7 DEF Owes
<1>9. serving' => \A u \in owing'[s] : Owes(u, s)'
  BY <1>8
<1>10. ASSUME excuse[s] = {}
       PROVE  /\ \A u, v \in writing(s)' : u = v
              /\ \A u \in writing(s)' : copy'[u] = data'[s] \/ \E v \in owing'[s] : v # u
              /\ writing(s)' = {} => disk'[s] # Torn /\ (owing'[s] = {} => disk'[s] = data'[s])
              /\ s = "memories" => \A u \in writing(s)' : op(u)'[1] = "put" => disk'[s] = Torn
  <2>1. \A u \in writing(s) : u \in AllTasks /\ u # t /\ op(u)' = op(u) /\ copy'[u] = copy[u]
    BY <1>2, <1>6
  <2> QED
    BY <1>0, <1>3, <1>10, <2>1 DEF Saved
<1> QED
  BY <1>9, <1>10 DEF Saved

LEMMA SavedStill ==
  ASSUME ServerInv, NEW t \in AllTasks, Alone(t), serving' = serving, copy' = copy, copy[t] = NoCopy, data' = data,
         disk' = disk, excuse' = excuse, serving => phase[t] # "running" \/ todo[t] = <<>> \/ op(t)[1] # "snap",
         NEW s \in Stores, owing'[s] = owing[s] \/ (serving /\ owing'[s] = owing[s] \ {t})
  PROVE  Saved(s)'
<1>1. t \notin writing(s) /\ t \notin writing(s)'
  BY Writers
<1>2. op(t)[1] # "snap" => op(t) # <<"snap", s>>
  OBVIOUS
<1>3. serving => t \notin owing[s]
  BY <1>1, <1>2, NotOwing
<1>4. owing'[s] = owing[s]
  BY <1>3 DEF ServerInv, Types
<1> QED
  BY <1>1, <1>3, <1>4, SavedApart

(* A step that only goes on in the program. *)
LEMMA GoesOn ==
  ASSUME ServerInv, NEW t \in AllTasks, todo[t] # <<>>, op(t)[1] \notin {"snap", "truncate", "put"}, NEW p, Whole(p),
         todo' = [todo EXCEPT ![t] = p], phase' = phase, serving' = serving, UNCHANGED storeVars
  PROVE  /\ Alone(t) /\ todo'[t] = p /\ Tasks' /\ \A s \in Stores : Saved(s)'
         /\ todo' \in [AllTasks -> Seq(Operation)]
<1>1. serving /\ phase[t] = "running" /\ copy[t] = NoCopy
  BY Runs
<1>2. copy' = copy /\ data' = data /\ disk' = disk /\ excuse' = excuse /\ owing' = owing
  BY DEF storeVars
<1>3. p \in Seq(Operation) /\ todo \in [AllTasks -> Seq(Operation)]
  BY DEF Whole, Sound, ServerInv, Types
<1>4. todo' \in [AllTasks -> Seq(Operation)] /\ todo'[t] = p /\ Alone(t)
  BY <1>2, <1>3 DEF Alone
<1>5. Task(p, NoCopy, "running", TRUE)
  BY WholeTask
<1>6. Task(p, NoCopy, "running", serving)
  <2>1. serving \in BOOLEAN
    BY DEF ServerInv, Types
  <2>2. serving = TRUE
    BY <1>1, <2>1
  <2> QED
    BY <1>5, <2>2
<1>7. Tasks'
  BY <1>1, <1>2, <1>4, <1>6, TasksKeep
<1>8. \A s \in Stores : Saved(s)'
  BY <1>1, <1>2, <1>4, SavedStill
<1> QED
  BY <1>4, <1>7, <1>8

LEMMA TypesGoOn ==
  ASSUME Types, todo' \in [AllTasks -> Seq(Operation)], phase' \in [AllTasks -> Phases],
         owner' \in [Locks -> AllTasks \cup {Nobody}],
         queue' \in [Locks -> Seq(AllTasks)], owing' \in [Stores -> SUBSET AllTasks],
         UNCHANGED <<data, disk, copy, excuse, serving>>
  PROVE  Types'
  BY DEF Types

LEMMA WaitsKeeps ==
  ASSUME ServerInv, NEW t \in AllTasks, waits(t)
  PROVE  ServerInv'
<1>1. /\ todo[t] # <<>> /\ lockOf(t) # "none" /\ \A i \in DOMAIN queue[lockOf(t)] : queue[lockOf(t)][i] # t
      /\ queue' = [queue EXCEPT ![lockOf(t)] = Append(queue[lockOf(t)], t)]
      /\ phase' = phase /\ todo' = todo /\ owner' = owner /\ serving' = serving /\ UNCHANGED storeVars
  BY DEF waits
<1>2. data' = data /\ disk' = disk /\ copy' = copy /\ owing' = owing /\ excuse' = excuse
  BY <1>1 DEF storeVars
<1> DEFINE l == lockOf(t)
<1>3. op(t) \in Operation /\ op(t) = Head(todo[t])
  BY <1>1, Heads DEF ServerInv, op
<1>4. l \in Locks
  BY <1>1, <1>3, Kinds, LockOf, NoneIsNoLock DEF Locks
<1>5. op(t)[1] \notin {"truncate", "put"}
  BY <1>1, LockOf
<1>6. phase[t] = "running" /\ LockFor(Head(todo[t])) = l
  BY <1>1, <1>5, Runs, LockForIs
<1> HIDE DEF l
<1>7. queue \in [Locks -> Seq(AllTasks)] /\ queue' = [queue EXCEPT ![l] = Append(queue[l], t)]
  BY <1>1 DEF ServerInv, Types, l
<1>8. queue' \in [Locks -> Seq(AllTasks)] /\ queue'[l] = Append(queue[l], t) /\ \A m \in Locks : m # l => queue'[m] = queue[m]
  BY <1>4, <1>7
<1>9. Types'
  BY <1>1, <1>2, <1>8, TypesGoOn DEF ServerInv, Types
<1>10. Queued'
  <2>1. ASSUME NEW m \in Locks
        PROVE  /\ \A i \in 1 .. Len(queue'[m]) : Wants(queue'[m][i], m)
               /\ \A i, j \in 1 .. Len(queue'[m]) : queue'[m][i] = queue'[m][j] => i = j
    <3>1. CASE m # l
      BY <1>8, <3>1 DEF ServerInv, Queued
    <3>2. CASE m = l
      <4>1. queue[l] \in Seq(AllTasks) /\ Len(queue[l]) \in Nat
        BY <1>4, <1>7
      <4>2. \A i \in 1 .. Len(queue[l]) : Wants(queue[l][i], l) /\ queue[l][i] # t
        BY <1>1, <1>4, <4>1 DEF ServerInv, Queued, l
      <4>3. Wants(t, l)
        BY <1>1, <1>6 DEF Wants
      <4>4. /\ Len(Append(queue[l], t)) = Len(queue[l]) + 1
            /\ \A i \in 1 .. Len(queue[l]) : Append(queue[l], t)[i] = queue[l][i]
            /\ Append(queue[l], t)[Len(queue[l]) + 1] = t
        BY <4>1
      <4>5. \A i \in 1 .. Len(queue[l]) + 1 : i \in 1 .. Len(queue[l]) \/ i = Len(queue[l]) + 1
        BY <4>1
      <4>6. \A i, j \in 1 .. Len(queue[l]) : queue[l][i] = queue[l][j] => i = j
        BY <1>4 DEF ServerInv, Queued
      <4>7. \A i \in 1 .. Len(queue'[l]) : Wants(queue'[l][i], l)
        BY <1>8, <4>2, <4>3, <4>4, <4>5
      <4>8. \A i, j \in 1 .. Len(queue'[l]) : queue'[l][i] = queue'[l][j] => i = j
        BY <1>8, <4>2, <4>4, <4>5, <4>6
      <4> QED
        BY <3>2, <4>7, <4>8
    <3> QED
      BY <3>1, <3>2
  <2>2. \A u, m : Wants(u, m) => u \in AllTasks /\ phase'[u] = "running" /\ todo'[u] # <<>> /\ LockFor(Head(todo'[u])) = m
    BY <1>1 DEF Wants
  <2> QED
    BY <2>1, <2>2 DEF Queued, Wants
<1>11. Tasks'
  BY <1>1, <1>2 DEF ServerInv, Tasks
<1>12. Owned'
  BY <1>1 DEF ServerInv, Owned, Holds
<1>13. \A s \in Stores : writing(s)' = writing(s)
  BY <1>1, <1>2 DEF writing, op
<1>14. \A s \in Stores : Saved(s)'
  <2>1. ASSUME NEW s \in Stores
        PROVE  Saved(s)'
    <3>1. Saved(s) /\ writing(s)' = writing(s)
      BY <1>13 DEF ServerInv
    <3>2. \A u : op(u)' = op(u)
      BY <1>1 DEF op
    <3> QED
      BY <1>1, <1>2, <3>1, <3>2 DEF Saved, Owes
  <2> QED
    BY <2>1
<1> QED
  BY <1>9, <1>10, <1>11, <1>12, <1>14 DEF ServerInv

LEMMA Beginning ==
  ASSUME NEW n \in Nat, NEW W \in SUBSET (1..n), \A q \in W : \A r \in 1..q : r \in W
  PROVE  Cardinality(W) \in 0..n /\ W = 1..Cardinality(W)
<1>1. IsFiniteSet(1..n) /\ Cardinality(1..n) = n
  BY FS_Interval
<1>2. IsFiniteSet(W) /\ Cardinality(W) <= n /\ Cardinality(W) \in Nat
  BY <1>1, FS_Subset, FS_CardinalityType
<1> DEFINE c == Cardinality(W)
<1>3. ASSUME NEW q \in W PROVE q \in 1..c
  <2>1. 1..q \in SUBSET W /\ q \in Nat /\ q >= 1
    BY <1>3
  <2>2. Cardinality(1..q) = q /\ Cardinality(1..q) <= c
    <3>1. Cardinality(1..q) = q
      BY <2>1, FS_Interval
    <3> QED
      BY <1>2, <2>1, <3>1, FS_Subset
  <2> QED
    BY <1>2, <2>1, <2>2
<1>4. IsFiniteSet(1..c) /\ Cardinality(1..c) = c
  BY <1>2, FS_Interval
<1>5. W \in SUBSET (1..c)
  BY <1>3
<1> HIDE DEF c
<1>6. 1..c = W
  BY <1>4, <1>5, FS_Subset DEF c
<1> QED
  BY <1>2, <1>6 DEF c

LEMMA FreeRun ==
  ASSUME ServerInv, NEW t \in AllTasks, freeRun(t) # {}
  PROVE  /\ Cardinality(freeRun(t)) \in 1 .. Len(todo[t])
         /\ \A i \in 1 .. Cardinality(freeRun(t)) : todo[t][i][1] = "use" /\ turn(t, todo[t][i][2])
<1>1. todo[t] \in Seq(Operation) /\ Len(todo[t]) \in Nat /\ DOMAIN todo[t] = 1 .. Len(todo[t])
  BY DEF ServerInv, Types
<1>2. freeRun(t) \in SUBSET (1 .. Len(todo[t]))
  BY <1>1 DEF freeRun
<1>3. \A q \in freeRun(t) : \A r \in 1 .. q : r \in freeRun(t)
  <2>1. SUFFICES ASSUME NEW q \in freeRun(t), NEW r \in 1 .. q
                 PROVE  r \in freeRun(t)
    OBVIOUS
  <2>2. q \in 1 .. Len(todo[t]) /\ \A i \in 1 .. q : todo[t][i][1] = "use" /\ turn(t, todo[t][i][2])
    BY <1>1 DEF freeRun
  <2>3. r \in 1 .. Len(todo[t]) /\ \A i \in 1 .. r : i \in 1 .. q
    BY <1>1, <2>2
  <2> QED
    BY <1>1, <2>2, <2>3 DEF freeRun
<1> DEFINE c == Cardinality(freeRun(t))
<1>4. c \in 0 .. Len(todo[t]) /\ freeRun(t) = 1 .. c
  BY <1>1, <1>2, <1>3, Beginning
<1> HIDE DEF c
<1>5. c \in 1 .. Len(todo[t]) /\ c \in freeRun(t)
  BY <1>1, <1>4
<1>6. \A i \in 1 .. c : todo[t][i][1] = "use" /\ turn(t, todo[t][i][2])
  BY <1>5 DEF freeRun
<1> QED
  BY <1>5, <1>6 DEF c

LEMMA Suffix ==
  ASSUME NEW S, NEW p \in Seq(S), NEW k \in 0 .. Len(p)
  PROVE  /\ SubSeq(p, k + 1, Len(p)) \in Seq(S) /\ Len(SubSeq(p, k + 1, Len(p))) = Len(p) - k
         /\ \A i \in 1 .. Len(p) - k : SubSeq(p, k + 1, Len(p))[i] = p[i + k]
<1>1. Len(p) \in Nat /\ k + 1 \in Nat
  OBVIOUS
<1>2. SubSeq(p, k + 1, Len(p)) \in Seq(S)
  BY <1>1
<1>3. Len(SubSeq(p, k + 1, Len(p))) = Len(p) - k
  BY <1>1
<1>4. \A i \in 1 .. Len(p) - k : SubSeq(p, k + 1, Len(p))[i] = p[i + k]
  BY <1>1
<1> QED
  BY <1>2, <1>3, <1>4

LEMMA UsesKeeps ==
  ASSUME ServerInv, NEW t \in AllTasks, uses(t)
  PROVE  ServerInv'
<1> DEFINE c == Cardinality(freeRun(t))
           p == todo[t]
           q == SubSeq(p, c + 1, Len(p))
<1>1. /\ freeRun(t) # {} /\ todo' = [todo EXCEPT ![t] = q] /\ queue' = unqueued(op(t)[2])
      /\ phase' = phase /\ owner' = owner /\ serving' = serving /\ UNCHANGED storeVars
  BY DEF uses
<1>2. c \in 1 .. Len(p) /\ \A i \in 1 .. c : p[i][1] = "use" /\ turn(t, p[i][2])
  BY <1>1, FreeRun
<1>3. p \in Seq(Operation) /\ Sound(p) /\ Len(p) \in Nat
  BY DEF ServerInv, Types, Tasks, Task
<1>4. q \in Seq(Operation) /\ Len(q) = Len(p) - c /\ \A i \in 1 .. Len(p) - c : q[i] = p[i + c]
  BY <1>2, <1>3, Suffix
<1> HIDE DEF c, q
<1>5. c \in 0 .. Len(p) /\ p # <<>> /\ 1 \in 1 .. c /\ c \in 1 .. c /\ c \in Nat
  BY <1>2, <1>3
<1>6. Sound(q) /\ \A l : Closes(p, c + 1, l) => Closes(q, 1, l)
  BY <1>3, <1>4, <1>5, SoundRest
<1>7. Begins(q)
  <2>1. SUFFICES ASSUME q # <<>>
                 PROVE  q[1][1] \notin {"truncate", "put"}
    BY DEF Begins
  <2>2. Len(q) >= 1
    BY <1>4, <2>1, Empty
  <2>3. c < Len(p) /\ 1 \in 1 .. Len(p) - c /\ 1 + c = c + 1
    BY <1>3, <1>4, <1>5, <2>2
  <2>4. Followed(p, c) /\ p[c][1] = "use" /\ q[1] = p[c + 1]
    BY <1>2, <1>3, <1>4, <1>5, <2>3 DEF Sound
  <2> QED
    BY <2>3, <2>4 DEF Followed
<1>8. op(t) = p[1] /\ op(t)[1] = "use" /\ turn(t, op(t)[2]) /\ op(t) \in Operation
  BY <1>2, <1>5, Heads DEF ServerInv
<1>9. op(t)[2] \in Locks /\ lockOf(t) = op(t)[2] /\ phase[t] = "running"
  BY <1>5, <1>8, Kinds, LockOf, Runs
<1>10. /\ Alone(t) /\ todo'[t] = q /\ Tasks' /\ \A s \in Stores : Saved(s)'
       /\ todo' \in [AllTasks -> Seq(Operation)]
  BY <1>1, <1>5, <1>6, <1>7, <1>8, GoesOn DEF Whole
<1>11. Queued' /\ queue' \in [Locks -> Seq(AllTasks)]
  BY <1>1, <1>5, <1>8, <1>9, <1>10, TurnTaken, QueuesKeep
<1>12. Types'
  BY <1>1, <1>10, <1>11, TypesGoOn DEF ServerInv, Types, storeVars
<1>13. ASSUME NEW l \in Locks, owner[l] = t
       PROVE  Holds(l, t)'
  <2>1. Holds(l, t)
    <3>1. t # Nobody
      BY ServerAssumption DEF AllTasks, Dreamer, Nobody
    <3> QED
      BY <1>13, <3>1 DEF ServerInv, Owned
  <2>2. \A i \in 1 .. c : p[i] # give(l)
    BY <1>2 DEF give
  <2>3. Closes(p, c + 1, l)
    BY <1>3, <1>5, <2>1, <2>2, ClosesRest DEF Holds
  <2>4. Closes(todo'[t], 1, l)
    BY <1>6, <1>10, <2>3
  <2> QED
    BY <1>1, <1>9, <2>1, <2>4 DEF Holds
<1>14. Owned'
  BY <1>1, <1>10, <1>13, OwnersKeep
<1> QED
  BY <1>10, <1>11, <1>12, <1>14 DEF ServerInv

LEMMA TakesKeeps ==
  ASSUME ServerInv, NEW t \in AllTasks, takes(t)
  PROVE  ServerInv'
<1> DEFINE p == todo[t]
           l == op(t)[2]
<1>1. /\ p # <<>> /\ op(t)[1] = "take" /\ turn(t, l) /\ owner' = [owner EXCEPT ![l] = t] /\ queue' = unqueued(l)
      /\ todo' = [todo EXCEPT ![t] = Tail(todo[t])] /\ phase' = phase /\ serving' = serving /\ UNCHANGED storeVars
  BY DEF takes, next
<1>2. p \in Seq(Operation) /\ Sound(p) /\ op(t) \in Operation /\ op(t) = p[1] /\ op(t) = Head(p)
  BY <1>1, Heads DEF ServerInv, Types, Tasks, Task, op
<1>3. l \in Held /\ l \in Locks /\ lockOf(t) = l /\ phase[t] = "running"
  BY <1>1, <1>2, Kinds, LockOf, NoneIsNoLock, Runs
<1> HIDE DEF l
<1>4. Whole(Tail(p))
  BY <1>1, <1>2, RestWhole
<1>5. /\ Alone(t) /\ todo'[t] = Tail(p) /\ Tasks' /\ \A s \in Stores : Saved(s)'
      /\ todo' \in [AllTasks -> Seq(Operation)]
  BY <1>1, <1>4, GoesOn
<1>6. Queued' /\ queue' \in [Locks -> Seq(AllTasks)]
  BY <1>1, <1>3, <1>5, TurnTaken, QueuesKeep
<1>7. owner \in [Locks -> AllTasks \cup {Nobody}]
  BY DEF ServerInv, Types
<1>8. /\ owner' \in [Locks -> AllTasks \cup {Nobody}] /\ owner'[l] = t
      /\ \A m \in Locks : m # l => owner'[m] = owner[m]
  BY <1>1, <1>3, <1>7
<1>9. Types'
  BY <1>1, <1>5, <1>6, <1>8, TypesGoOn DEF ServerInv, Types, storeVars
<1>10. Closes(todo'[t], 1, l)
  <2>1. Followed(p, 1) /\ \A m : Closes(p, 2, m) => Closes(Tail(p), 1, m)
    BY <1>1, <1>2, SoundTail
  <2>2. Closes(p, 1 + 1, l)
    BY <1>1, <1>2, <2>1 DEF Followed, l
  <2> QED
    BY <1>5, <2>1, <2>2
<1>12. \A m \in Locks : owner[m] # t
  <2>1. ~Calm(op(t)) /\ op(t)[1] # "give"
    BY <1>1 DEF Calm, use
  <2> QED
    BY <2>1, HoldsNothing
<1>13. \A m \in Locks : owner'[m] = owner[m] \/ owner'[m] = Nobody \/ (owner'[m] = t /\ Holds(m, t)')
  <2>1. ASSUME NEW m \in Locks
        PROVE  owner'[m] = owner[m] \/ owner'[m] = Nobody \/ (owner'[m] = t /\ Holds(m, t)')
    <3>1. CASE m # l
      BY <1>8, <3>1
    <3>2. CASE m = l
      <4>1. m \in Held /\ phase'[t] = "running" /\ Closes(todo'[t], 1, m)
        BY <1>1, <1>3, <1>10, <3>2
      <4>2. Holds(m, t)'
        BY <4>1 DEF Holds
      <4> QED
        BY <1>8, <3>2, <4>2
    <3> QED
      BY <3>1, <3>2
  <2> QED
    BY <2>1
<1>14. Owned'
  BY <1>5, <1>12, <1>13, OwnersKeep
<1> QED
  BY <1>5, <1>6, <1>9, <1>14 DEF ServerInv

LEMMA GivesKeeps ==
  ASSUME ServerInv, NEW t \in AllTasks, gives(t)
  PROVE  ServerInv'
<1> DEFINE p == todo[t]
           l == op(t)[2]
<1>1. /\ p # <<>> /\ op(t)[1] = "give" /\ owner' = [owner EXCEPT ![l] = Nobody] /\ queue' = queue
      /\ todo' = [todo EXCEPT ![t] = Tail(todo[t])] /\ phase' = phase /\ serving' = serving /\ UNCHANGED storeVars
  BY DEF gives, next
<1>2. p \in Seq(Operation) /\ Sound(p) /\ op(t) \in Operation /\ op(t) = p[1] /\ op(t) = Head(p)
  BY <1>1, Heads DEF ServerInv, Types, Tasks, Task, op
<1>3. l \in Locks /\ op(t) = give(l) /\ lockOf(t) = "none"
  BY <1>1, <1>2, Kinds, LockOf, NoneIsNoLock
<1> HIDE DEF l
<1>4. Whole(Tail(p))
  BY <1>1, <1>2, RestWhole
<1>5. /\ Alone(t) /\ todo'[t] = Tail(p) /\ Tasks' /\ \A s \in Stores : Saved(s)'
      /\ todo' \in [AllTasks -> Seq(Operation)]
  BY <1>1, <1>4, GoesOn
<1>6. Queued'
  BY <1>1, <1>3, <1>5, QueuesRest
<1>7. owner \in [Locks -> AllTasks \cup {Nobody}] /\ queue' \in [Locks -> Seq(AllTasks)]
  BY <1>1 DEF ServerInv, Types
<1>8. /\ owner' \in [Locks -> AllTasks \cup {Nobody}] /\ owner'[l] = Nobody
      /\ \A m \in Locks : m # l => owner'[m] = owner[m]
  BY <1>1, <1>3, <1>7
<1>9. Types'
  BY <1>1, <1>5, <1>7, <1>8, TypesGoOn DEF ServerInv, Types, storeVars
<1>10. ASSUME NEW m \in Locks, owner[m] = t
       PROVE  owner'[m] = Nobody
  <2>1. op(t) = give(m) \/ Calm(op(t))
    BY <1>10, Holder
  <2>2. ~Calm(op(t))
    BY <1>1 DEF Calm, use
  <2>3. m = l
    BY <1>3, <2>1, <2>2 DEF give
  <2> QED
    BY <1>8, <2>3
<1>11. \A m \in Locks : owner'[m] = owner[m] \/ owner'[m] = Nobody
  BY <1>8
<1>12. Owned'
  BY <1>5, <1>10, <1>11, OwnersKeep
<1> QED
  BY <1>5, <1>6, <1>9, <1>12 DEF ServerInv

(* A step that only unfolds the program, of a task that holds no lock. *)
LEMMA Unfolds ==
  ASSUME ServerInv, NEW t \in AllTasks, todo[t] # <<>>, op(t)[1] \in {"call", "chain"}, NEW p, Whole(p),
         todo' = [todo EXCEPT ![t] = p \o Tail(todo[t])],
         phase' = phase, owner' = owner, queue' = queue, serving' = serving, UNCHANGED storeVars
  PROVE  ServerInv'
<1>1. Sound(todo[t]) /\ op(t) = Head(todo[t]) /\ op(t) \in Operation
  BY Heads DEF ServerInv, Tasks, Task, op
<1>2. Whole(Tail(todo[t]))
  BY <1>1, RestWhole
<1>3. Whole(p \o Tail(todo[t]))
  BY <1>2, Joined DEF Whole
<1>4. /\ Alone(t) /\ Tasks' /\ \A s \in Stores : Saved(s)'
      /\ todo' \in [AllTasks -> Seq(Operation)]
  BY <1>3, GoesOn
<1>5. lockOf(t) = "none"
  BY LockOf
<1>6. Queued'
  BY <1>4, <1>5, QueuesRest
<1>7. ~Calm(op(t)) /\ op(t)[1] # "give"
  BY DEF Calm, use
<1>8. \A l \in Locks : owner[l] # t
  BY <1>7, HoldsNothing
<1>9. Owned'
  BY <1>4, <1>8, OwnersKeep
<1>10. Types'
  BY <1>4, TypesGoOn DEF ServerInv, Types, storeVars
<1> QED
  BY <1>4, <1>6, <1>9, <1>10 DEF ServerInv

LEMMA CallsKeeps ==
  ASSUME ServerInv, NEW t \in AllTasks, calls(t)
  PROVE  ServerInv'
<1>1. /\ todo[t] # <<>> /\ op(t)[1] = "call"
      /\ \E h \in op(t)[2] : \E p \in Program[h] : todo' = [todo EXCEPT ![t] = p \o Tail(todo[t])]
      /\ phase' = phase /\ owner' = owner /\ queue' = queue /\ serving' = serving /\ UNCHANGED storeVars
  BY DEF calls, lockVars
<1>2. PICK h \in op(t)[2] : \E p \in Program[h] : todo' = [todo EXCEPT ![t] = p \o Tail(todo[t])]
  BY <1>1
<1>3. PICK p \in Program[h] : todo' = [todo EXCEPT ![t] = p \o Tail(todo[t])]
  BY <1>2
<1>4. op(t) \in Operation
  BY <1>1, Heads DEF ServerInv
<1>5. Whole(p)
  BY <1>1, <1>4, Kinds, ProgramsWhole
<1> QED
  BY <1>1, <1>3, <1>5, Unfolds

LEMMA ChainStep ==
  ASSUME NEW e \in DOMAIN childEnds, NEW c \in Light
  PROVE  Whole(gate \o childEnds[e] \o <<c>>)
<1>1. Whole(gate) /\ Whole(childEnds[e])
  BY GateIsLight, LightIsWhole, ChildEndsWhole
<1>2. Whole(<<c>>)
  <2>1. <<c>> \in Seq(Light)
    OBVIOUS
  <2> QED
    BY <2>1, LightIsWhole
<1>3. Whole(gate \o childEnds[e])
  BY <1>1, Joined DEF Whole
<1> QED
  BY <1>2, <1>3, Joined DEF Whole

LEMMA ChainsKeeps ==
  ASSUME ServerInv, NEW t \in AllTasks, chains(t)
  PROVE  ServerInv'
<1> DEFINE tools == op(t)[2][1]
           executed == op(t)[2][2]
           errors == op(t)[2][3]
           on(e) == chain(tools + 1, IF e \in {"ok", "failed"} THEN executed + 1 ELSE executed,
                          IF e = "ok" THEN errors ELSE errors + 1)
<1>1. /\ todo[t] # <<>> /\ op(t)[1] = "chain"
      /\ \/ \E e \in DOMAIN childEnds : todo' = [todo EXCEPT ![t] = gate \o childEnds[e] \o <<on(e)>> \o Tail(todo[t])]
         \/ todo' = [todo EXCEPT ![t] = chainEnds(executed, errors) \o Tail(todo[t])]
      /\ phase' = phase /\ owner' = owner /\ queue' = queue /\ serving' = serving /\ UNCHANGED storeVars
  BY DEF chains, lockVars
<1>2. op(t) \in Operation
  BY <1>1, Heads DEF ServerInv
<1>3. tools \in Nat /\ executed \in Nat /\ errors \in Nat
  BY <1>1, <1>2, Kinds
<1>4. \A e : on(e) \in Light
  <2>1. tools + 1 \in Nat /\ executed + 1 \in Nat /\ errors + 1 \in Nat
    BY <1>3
  <2> HIDE DEF tools, executed, errors
  <2> QED
    BY <1>3, <2>1, Lights
<1> HIDE DEF tools, executed, errors, on
<1>5. CASE \E e \in DOMAIN childEnds : todo' = [todo EXCEPT ![t] = gate \o childEnds[e] \o <<on(e)>> \o Tail(todo[t])]
  <2>1. PICK e \in DOMAIN childEnds : todo' = [todo EXCEPT ![t] = gate \o childEnds[e] \o <<on(e)>> \o Tail(todo[t])]
    BY <1>5
  <2>2. Whole(gate \o childEnds[e] \o <<on(e)>>)
    BY <1>4, ChainStep
  <2> QED
    BY <1>1, <2>1, <2>2, Unfolds
<1>6. CASE todo' = [todo EXCEPT ![t] = chainEnds(executed, errors) \o Tail(todo[t])]
  <2>1. Whole(chainEnds(executed, errors))
    BY <1>3, ChainEndsWhole
  <2> QED
    BY <1>1, <1>6, <2>1, Unfolds
<1> QED
  BY <1>1, <1>5, <1>6

(* A task that ends, or begins. *)
LEMMA Turns ==
  ASSUME ServerInv, NEW t \in AllTasks, serving, serving' = serving, phase[t] # "running" \/ todo[t] = <<>> \/ op(t)[1] = "panic",
         NEW p, Whole(p), phase'[t] = "running" \/ p = <<>>, todo' = [todo EXCEPT ![t] = p],
         phase' \in [AllTasks -> Phases], \A u \in AllTasks : u # t => phase'[u] = phase[u],
         owner' = owner, queue' = queue, data' = data, disk' = disk, copy' = copy, excuse' = excuse,
         owing' = owing \/ owing' = [s \in Stores |-> owing[s] \ {t}]
  PROVE  ServerInv'
<1>1. /\ phase \in [AllTasks -> Phases] /\ todo \in [AllTasks -> Seq(Operation)] /\ p \in Seq(Operation)
      /\ owing \in [Stores -> SUBSET AllTasks] /\ serving = TRUE
      /\ owner \in [Locks -> AllTasks \cup {Nobody}] /\ queue \in [Locks -> Seq(AllTasks)]
  BY DEF ServerInv, Types, Whole, Sound
<1>2. todo' \in [AllTasks -> Seq(Operation)] /\ Alone(t) /\ todo'[t] = p
  BY <1>1 DEF Alone
<1>3. copy[t] = NoCopy
  <2>1. Task(todo[t], copy[t], phase[t], serving)
    BY DEF ServerInv, Tasks
  <2>2. ~Writes(todo[t])
    BY <1>1, <2>1 DEF Task, Writes, op
  <2> QED
    BY <2>1, <2>2 DEF Task
<1>4. Tasks'
  <2>1. Task(p, NoCopy, phase'[t], TRUE)
    BY WholeTask
  <2>2. Task(todo'[t], copy'[t], phase'[t], serving)
    BY <1>1, <1>2, <1>3, <2>1
  <2> QED
    BY <1>2, <2>2, TasksKeep
<1>5. phase[t] # "running" \/ todo[t] = <<>> \/ lockOf(t) = "none"
  BY LockOf
<1>6. Queued'
  BY <1>2, <1>5, QueuesRest
<1>7. todo[t] = <<>> \/ (~Calm(op(t)) /\ op(t)[1] # "give") \/ phase[t] # "running"
  BY DEF Calm, use
<1>8. \A l \in Locks : owner[l] # t
  BY <1>7, HoldsNothing
<1>9. Owned'
  BY <1>2, <1>8, OwnersKeep
<1>10. ASSUME NEW s \in Stores
       PROVE  Saved(s)'
  <2>1. owing'[s] = owing[s] \/ (serving /\ owing'[s] = owing[s] \ {t})
    BY <1>10
  <2>2. phase[t] # "running" \/ todo[t] = <<>> \/ op(t)[1] # "snap"
    OBVIOUS
  <2> QED
    BY <1>2, <1>3, <2>1, <2>2, SavedStill
<1>11. owing' \in [Stores -> SUBSET AllTasks]
  BY <1>1
<1>12. Types'
  BY <1>1, <1>2, <1>11, TypesGoOn DEF ServerInv
<1> QED
  BY <1>4, <1>6, <1>9, <1>10, <1>12 DEF ServerInv

LEMMA NothingIsWhole == Whole(<<>>)
  BY Lights, LightIsWhole

LEMMA PanicsKeeps ==
  ASSUME ServerInv, NEW t \in AllTasks, panics(t)
  PROVE  ServerInv'
<1>1. /\ todo[t] # <<>> /\ op(t)[1] = "panic" /\ todo' = [todo EXCEPT ![t] = <<>>]
      /\ phase' = [phase EXCEPT ![t] = "panicked"] /\ owing' = [s \in Stores |-> owing[s] \ {t}]
      /\ owner' = owner /\ queue' = queue /\ data' = data /\ disk' = disk /\ copy' = copy /\ excuse' = excuse
      /\ serving' = serving
  BY DEF panics, lockVars
<1>2. serving
  BY <1>1, Runs
<1>3. phase' \in [AllTasks -> Phases] /\ \A u \in AllTasks : u # t => phase'[u] = phase[u]
  BY <1>1 DEF ServerInv, Types, Phases
<1> QED
  BY <1>1, <1>2, <1>3, NothingIsWhole, Turns

LEMMA AnswersKeeps ==
  ASSUME ServerInv, NEW t \in AllTasks, answers(t)
  PROVE  ServerInv'
<1>1. /\ phase[t] = "running" /\ todo[t] = <<>> /\ todo' = todo
      /\ phase' = [phase EXCEPT ![t] = "answered"] /\ owing' = [s \in Stores |-> owing[s] \ {t}]
      /\ owner' = owner /\ queue' = queue /\ data' = data /\ disk' = disk /\ copy' = copy /\ excuse' = excuse
      /\ serving' = serving
  BY DEF answers, lockVars
<1>2. serving
  BY <1>1 DEF ServerInv, Tasks, Task, Types
<1>3. todo' = [todo EXCEPT ![t] = <<>>]
  BY <1>1 DEF ServerInv, Types
<1>4. phase' \in [AllTasks -> Phases] /\ \A u \in AllTasks : u # t => phase'[u] = phase[u]
  BY <1>1 DEF ServerInv, Types, Phases
<1> QED
  BY <1>1, <1>2, <1>3, <1>4, NothingIsWhole, Turns

LEMMA ReadsKeeps ==
  ASSUME ServerInv, NEW t \in 1 .. NumTasks, reads(t)
  PROVE  ServerInv'
<1>1. /\ serving /\ phase[t] # "running" /\ phase' = [phase EXCEPT ![t] = "running"]
      /\ \E p \in request : todo' = [todo EXCEPT ![t] = p]
      /\ owner' = owner /\ queue' = queue /\ data' = data /\ disk' = disk /\ copy' = copy /\ excuse' = excuse
      /\ owing' = owing /\ serving' = serving
  <2>1. t \in {n \in 1 .. t : phase[n] # "running"}
    BY DEF reads
  <2> QED
    BY <2>1 DEF reads, lockVars, storeVars
<1>2. t \in AllTasks
  BY ServerAssumption DEF AllTasks, Dreamer
<1>3. PICK p \in request : todo' = [todo EXCEPT ![t] = p]
  BY <1>1
<1>4. /\ phase' \in [AllTasks -> Phases] /\ \A u \in AllTasks : u # t => phase'[u] = phase[u]
      /\ phase'[t] = "running"
  BY <1>1, <1>2 DEF ServerInv, Types, Phases
<1> QED
  BY <1>1, <1>2, <1>3, <1>4, RequestsWhole, Turns

LEMMA DreamsKeeps ==
  ASSUME ServerInv, dreams
  PROVE  ServerInv'
<1>1. /\ serving /\ phase[Dreamer] # "running" /\ phase' = [phase EXCEPT ![Dreamer] = "running"]
      /\ \E p \in trigger_dream_sequence : todo' = [todo EXCEPT ![Dreamer] = p]
      /\ owner' = owner /\ queue' = queue /\ data' = data /\ disk' = disk /\ copy' = copy /\ excuse' = excuse
      /\ owing' = owing /\ serving' = serving
  BY DEF dreams, lockVars, storeVars
<1>2. Dreamer \in AllTasks
  BY ServerAssumption DEF AllTasks, Dreamer
<1>3. PICK p \in trigger_dream_sequence : todo' = [todo EXCEPT ![Dreamer] = p]
  BY <1>1
<1>4. /\ phase' \in [AllTasks -> Phases] /\ \A u \in AllTasks : u # Dreamer => phase'[u] = phase[u]
      /\ phase'[Dreamer] = "running"
  BY <1>1, <1>2 DEF ServerInv, Types, Phases
<1>5. Whole(p)
  BY <1>3, Savers
<1> QED
  BY <1>1, <1>2, <1>3, <1>4, <1>5, Turns

LEMMA WritesStdoutKeeps == ServerInv /\ UNCHANGED <<phase, todo, lockVars, storeVars, serving>> => ServerInv'
<1> SUFFICES ASSUME ServerInv, UNCHANGED <<phase, todo, lockVars, storeVars, serving>>
             PROVE  ServerInv'
  OBVIOUS
<1>1. /\ phase' = phase /\ todo' = todo /\ owner' = owner /\ queue' = queue /\ data' = data /\ disk' = disk
      /\ copy' = copy /\ owing' = owing /\ excuse' = excuse /\ serving' = serving
  BY DEF lockVars, storeVars
<1>2. Types'
  BY <1>1 DEF ServerInv, Types
<1>3. Tasks' /\ Owned' /\ Queued'
  BY <1>1 DEF ServerInv, Tasks, Owned, Queued, Holds, Wants
<1>4. ASSUME NEW s \in Stores
      PROVE  Saved(s)'
  <2>1. \A u : op(u)' = op(u)
    BY <1>1 DEF op
  <2>2. writing(s)' = writing(s)
    BY <1>1, <2>1 DEF writing
  <2>3. Saved(s)
    BY DEF ServerInv
  <2> QED
    BY <1>1, <2>1, <2>2, <2>3 DEF Saved, Owes
<1> QED
  BY <1>2, <1>3, <1>4 DEF ServerInv

(* Entries stay entries, whatever is added or forgotten. *)
LEMMA KeepEntry ==
  ASSUME NEW d \in Entries, NEW n \in Nat
  PROVE  /\ keep(d, n) \in Entries /\ pushed(d, n) \in Entries /\ <<d[1], d[2] + n>> \in Entries
         /\ d # Torn /\ size(d) \in Nat
<1>1. d = <<d[1], d[2]>> /\ d[1] \in Nat /\ d[2] \in Nat /\ d[1] <= d[2]
  BY DEF Entries
<1>2. ASSUME NEW a \in Nat, NEW b \in Nat, a <= b, NEW m \in Nat
      PROVE  keep(<<a, b>>, m) \in Entries
  <2>1. <<a, b>> # Torn
    BY <1>2 DEF Torn
  <2>2. size(<<a, b>>) = b - a
    BY <2>1 DEF size
  <2>3. keep(<<a, b>>, m) = <<IF b - a > m THEN b - m ELSE a, b>>
    BY <2>2 DEF keep
  <2>4. (IF b - a > m THEN b - m ELSE a) \in Nat /\ (IF b - a > m THEN b - m ELSE a) <= b
    BY <1>2
  <2> QED
    BY <2>3, <2>4 DEF Entries
<1>3. d[2] + n \in Nat /\ d[1] <= d[2] + n
  BY <1>1
<1>4. <<d[1], d[2] + n>> \in Entries
  BY <1>1, <1>3 DEF Entries
<1>5. keep(d, n) \in Entries
  BY <1>1, <1>2
<1>6. keep(<<d[1], d[2] + n>>, MaxMemories) \in Entries
  BY <1>1, <1>3, <1>2, ServerAssumption
<1>7. pushed(d, n) \in Entries
  BY <1>6 DEF pushed
<1>8. d # Torn
  BY NoEntry
<1>9. size(d) \in Nat
  BY <1>1, <1>8 DEF size
<1> QED
  BY <1>4, <1>5, <1>7, <1>8, <1>9

(* A dream that remembers goes on as a push does. *)
LEMMA FirstReplaced ==
  ASSUME NEW p, Sound(p), p # <<>>, p[1][1] = "dream"
  PROVE  Whole(<<<<"push", 1>>>> \o Tail(p))
<1> DEFINE o == <<"push", 1>>
           r == <<o>> \o Tail(p)
<1>1. p \in Seq(Operation) /\ Len(p) \in Nat /\ Len(p) >= 1
  BY DEF Sound
<1>2. o \in Operation /\ o[1] = "push"
  BY DEF Operation, Heavy
<1> HIDE DEF o
<1>3. Tail(p) \in Seq(Operation) /\ Len(Tail(p)) = Len(p) - 1 /\ \A i \in 1 .. Len(Tail(p)) : Tail(p)[i] = p[i + 1]
  BY <1>1
<1>4. <<o>> \in Seq(Operation) /\ Len(<<o>>) = 1 /\ <<o>>[1] = o
  BY <1>2
<1>5. /\ r \in Seq(Operation) /\ Len(r) = 1 + Len(Tail(p)) /\ \A i \in 1 .. 1 : r[i] = <<o>>[i]
      /\ \A i \in 1 .. Len(Tail(p)) : r[1 + i] = Tail(p)[i]
  BY <1>3, <1>4, Concat
<1> HIDE DEF r
<1>6. Len(r) = Len(p) /\ r[1] = o
  BY <1>1, <1>3, <1>4, <1>5
<1>7. \A i \in 2 .. Len(p) : r[i] = p[i]
  <2>1. ASSUME NEW i \in 2 .. Len(p)
        PROVE  r[i] = p[i]
    <3>1. i - 1 \in 1 .. Len(Tail(p)) /\ 1 + (i - 1) = i /\ (i - 1) + 1 = i
      BY <1>1, <1>3
    <3>2. r[1 + (i - 1)] = Tail(p)[i - 1] /\ Tail(p)[i - 1] = p[(i - 1) + 1]
      BY <1>3, <1>5, <3>1
    <3> QED
      BY <3>1, <3>2
  <2> QED
    BY <2>1
<1>8. Len(p) > 1 /\ r[1 + 1] = <<"snap", "memories">>
  <2>1. 1 \in 1 .. Len(p)
    BY <1>1
  <2>2. Then(p, 1, <<"snap", "memories">>)
    BY <2>1 DEF Sound, Followed
  <2>3. 2 \in 2 .. Len(p) /\ 1 + 1 = 2
    BY <1>1, <2>2 DEF Then
  <2> QED
    BY <1>1, <1>7, <2>2, <2>3 DEF Then
<1>9. Followed(r, 1)
  <2>1. Then(r, 1, <<"snap", "memories">>)
    BY <1>6, <1>8 DEF Then
  <2> QED
    BY <1>2, <1>6, <1>8, <2>1 DEF Followed
<1>10. ASSUME NEW i \in 2 .. Len(p)
       PROVE  Followed(r, i)
  <2>1. i \in 1 .. Len(p) /\ r[i] = p[i] /\ (i < Len(p) => i + 1 \in 2 .. Len(p))
    BY <1>1, <1>7
  <2>2. Followed(p, i)
    BY <2>1 DEF Sound
  <2>3. i < Len(p) => r[i + 1] = p[i + 1]
    BY <1>7, <2>1
  <2>4. \A x : Then(p, i, x) => Then(r, i, x)
    BY <1>6, <2>3 DEF Then
  <2>5. ASSUME NEW l, Closes(p, i + 1, l)
        PROVE  Closes(r, i + 1, l)
    <3>1. PICK k \in i + 1 .. Len(p) : p[k] = give(l) /\ \A j \in i + 1 .. k - 1 : Calm(p[j])
      BY <2>5 DEF Closes
    <3>2. k \in 2 .. Len(p) /\ \A j \in i + 1 .. k - 1 : j \in 2 .. Len(p)
      BY <1>1, <3>1
    <3> QED
      BY <1>6, <1>7, <3>1, <3>2 DEF Closes
  <2> QED
    BY <1>6, <2>1, <2>2, <2>3, <2>4, <2>5 DEF Followed
<1>11. \A i \in 1 .. Len(r) : i = 1 \/ i \in 2 .. Len(p)
  BY <1>1, <1>6
<1>12. Sound(r)
  BY <1>5, <1>9, <1>10, <1>11 DEF Sound
<1>13. Begins(r)
  BY <1>2, <1>6 DEF Begins
<1> QED
  BY <1>12, <1>13 DEF Whole, r, o

(* A step of a task that keeps its guards: what it leaves to do, and the copy it
   writes, go together, and what it still holds it still gives back. *)
LEMMA Advances ==
  ASSUME ServerInv, NEW t \in AllTasks, todo[t] # <<>>, NEW p, todo' = [todo EXCEPT ![t] = p], phase' = phase,
         serving' = serving, owner' = owner, copy' \in [AllTasks -> Entries \cup {NoCopy}],
         \A u \in AllTasks : u # t => copy'[u] = copy[u],
         Task(p, copy'[t], phase[t], serving), \A l \in Locks : owner[l] = t => Closes(p, 1, l),
         \/ queue' = queue /\ lockOf(t) = "none"
         \/ lockOf(t) \in Locks /\ turn(t, lockOf(t)) /\ queue' = unqueued(lockOf(t))
  PROVE  /\ Alone(t) /\ todo'[t] = p /\ Tasks' /\ Owned' /\ Queued'
         /\ todo' \in [AllTasks -> Seq(Operation)] /\ queue' \in [Locks -> Seq(AllTasks)]
<1>1. todo \in [AllTasks -> Seq(Operation)] /\ p \in Seq(Operation) /\ queue \in [Locks -> Seq(AllTasks)]
  BY DEF ServerInv, Types, Task, Sound
<1>2. todo' \in [AllTasks -> Seq(Operation)] /\ todo'[t] = p /\ Alone(t)
  BY <1>1 DEF Alone
<1>3. Tasks'
  BY <1>2, TasksKeep
<1>4. Queued' /\ queue' \in [Locks -> Seq(AllTasks)]
  <2>1. CASE queue' = queue /\ lockOf(t) = "none"
    BY <1>1, <1>2, <2>1, QueuesRest
  <2>2. CASE lockOf(t) \in Locks /\ turn(t, lockOf(t)) /\ queue' = unqueued(lockOf(t))
    BY <1>2, <2>2, TurnTaken, QueuesKeep
  <2> QED
    BY <2>1, <2>2
<1>5. ASSUME NEW l \in Locks, owner[l] = t
      PROVE  Holds(l, t)'
  <2>1. l \in Held /\ phase[t] = "running"
    BY <1>5, Holder
  <2>2. Closes(todo'[t], 1, l)
    BY <1>2, <1>5
  <2> QED
    BY <2>1, <2>2 DEF Holds
<1>6. Owned'
  BY <1>2, <1>5, OwnersKeep
<1> QED
  BY <1>2, <1>3, <1>4, <1>6

(* ... and one that does its next operation and goes on. *)
LEMMA RestIsTask ==
  ASSUME ServerInv, NEW t \in AllTasks, todo[t] # <<>>, op(t)[1] # "give", NEW c,
         c # NoCopy <=> Writes(Tail(todo[t]))
  PROVE  /\ Task(Tail(todo[t]), c, phase[t], serving)
         /\ \A l \in Locks : owner[l] = t => Closes(Tail(todo[t]), 1, l)
<1> DEFINE p == todo[t]
<1>1. Task(p, copy[t], phase[t], serving) /\ p \in Seq(Operation) /\ Len(p) \in Nat /\ serving \in BOOLEAN
  BY DEF ServerInv, Tasks, Types
<1>2. Sound(p) /\ Sound(Tail(p)) /\ \A l : Closes(p, 2, l) => Closes(Tail(p), 1, l)
  BY <1>1, SoundTail DEF Task
<1>3. serving => phase[t] = "running"
  BY <1>1 DEF Task
<1>4. \A i \in 1 .. Len(Tail(p)) : i + 1 \in 1 .. Len(p) /\ Tail(p)[i] = p[i + 1]
  BY <1>1
<1>5. ~serving => phase[t] # "running" /\ \A i \in 1 .. Len(Tail(p)) : Tail(p)[i][1] \in {"truncate", "put"}
  BY <1>1, <1>4 DEF Task
<1>6. Task(Tail(p), c, phase[t], serving)
  BY <1>2, <1>3, <1>5 DEF Task
<1>7. ASSUME NEW l \in Locks, owner[l] = t
      PROVE  Closes(Tail(p), 1, l)
  <2>1. op(t) # give(l)
    BY DEF give
  <2>2. Closes(p, 2, l)
    BY <1>7, <2>1, Holder
  <2> QED
    BY <1>2, <2>2
<1> QED
  BY <1>6, <1>7

(* What a change of a store does to the program, the store and its debts. *)
LEMMA ChangesOf ==
  ASSUME ServerInv, NEW t \in AllTasks, NEW s \in Stores, lockOf(t) = s, changes(t)
  PROVE  ServerInv'
<1> DEFINE d == data[s]
           n == op(t)[2]
           k == op(t)[1]
           p == todo[t]
           new == CASE k = "push" -> pushed(d, n) [] k = "prune" -> keep(d, n) [] k = "dream" -> d
                    [] OTHER -> <<d[1], d[2] + n>>
           rest == (IF k # "dream" THEN <<>>
                    ELSE IF size(d) < 2 THEN <<use("memories")>> ELSE <<<<"push", 1>>>>) \o Tail(p)
<1>1. /\ p # <<>> /\ s \in Stores /\ k \notin {"use", "take", "snap"} /\ turn(t, s)
      /\ data' = [data EXCEPT ![s] = new] /\ todo' = [todo EXCEPT ![t] = rest]
      /\ owing' = [owing EXCEPT ![s] = IF k \in {"prune", "dream"} THEN owing[s] ELSE owing[s] \cup {t}]
      /\ excuse' = [excuse EXCEPT ![s] = IF k = "prune" THEN excuse[s] \cup {"pruned"} ELSE excuse[s]]
      /\ queue' = unqueued(s) /\ phase' = phase /\ owner' = owner /\ disk' = disk /\ copy' = copy /\ serving' = serving
  BY DEF changes
<1>2. /\ data \in [Stores -> Entries] /\ owing \in [Stores -> SUBSET AllTasks] /\ excuse \in [Stores -> SUBSET Excuses]
      /\ disk \in [Stores -> Entries \cup {Torn}] /\ copy \in [AllTasks -> Entries \cup {NoCopy}]
      /\ todo \in [AllTasks -> Seq(Operation)] /\ phase \in [AllTasks -> Phases]
      /\ owner \in [Locks -> AllTasks \cup {Nobody}] /\ serving \in BOOLEAN /\ Sound(p)
  BY DEF ServerInv, Types, Tasks, Task
<1>3. op(t) \in Operation /\ op(t) = p[1] /\ op(t) = Head(p) /\ Len(p) >= 1
  BY <1>1, Heads DEF ServerInv, op
<1>4. /\ s \in Locks
      /\ \/ k \in {"push", "push_uncapped", "prune", "dream"} /\ s = "memories"
         \/ k = "push_users" /\ s = "users"
  <2>1. k \in {"give", "call", "panic", "chain", "truncate", "put"} => s = "none"
    BY LockOf
  <2>2. k \in {"push", "push_uncapped", "push_users", "prune", "dream"}
    BY <1>1, <1>3, <2>1, Kinds, NoneIsNoLock
  <2> QED
    <3>1. k \in {"push", "push_uncapped", "prune", "dream"} => s = "memories"
      BY LockOf
    <3>2. k = "push_users" => s = "users"
      BY LockOf
    <3>3. s \in Locks
      BY NoneIsNoLock
    <3> QED
      BY <2>2, <3>1, <3>2, <3>3
<1>5. n \in Nat /\ d \in Entries
  BY <1>1, <1>2, <1>3, <1>4, Kinds
<1>6. serving /\ phase[t] = "running" /\ copy[t] = NoCopy
  BY <1>1, <1>4, Runs
<1>7. new \in Entries
  BY <1>4, <1>5, KeepEntry
<1>8. Followed(p, 1) /\ Whole(Tail(p)) /\ (Len(p) > 1 => Head(Tail(p)) = p[2]) /\ (Tail(p) # <<>> <=> Len(p) > 1)
      /\ Tail(p) \in Seq(Operation)
  BY <1>1, <1>2, <1>3, <1>4, SoundTail, RestWhole DEF Sound
<1>9. <<>> \o Tail(p) = Tail(p)
  BY <1>8
<1>10. k # "dream" => rest = Tail(p)
  BY <1>9
<1>11. Whole(rest)
  <2>1. Whole(<<use("memories")>> \o Tail(p))
    <3>1. <<use("memories")>> \in Seq(Light)
      BY Lights DEF Locks
    <3> QED
      BY <1>8, <3>1, LightIsWhole, Joined DEF Whole
  <2>2. k = "dream" => Whole(<<<<"push", 1>>>> \o Tail(p))
    BY <1>1, <1>2, <1>3, FirstReplaced
  <2> QED
    BY <1>8, <1>10, <2>1, <2>2
<1>12. ASSUME NEW l \in Locks, owner[l] = t
       PROVE  Closes(rest, 1, l)
  <2>1. op(t) = give(l) \/ (Calm(op(t)) /\ Closes(p, 2, l))
    BY <1>12, Holder
  <2>2. op(t) # give(l)
    BY <1>4 DEF give
  <2>3. k # "dream"
    BY <2>1, <2>2 DEF Calm, use
  <2>4. Closes(Tail(p), 1, l)
    BY <1>1, <1>2, <2>1, <2>2, SoundTail
  <2> QED
    BY <1>10, <2>3, <2>4
<1> HIDE DEF new, rest
<1>13. Task(rest, copy'[t], phase[t], serving)
  <2>1. Task(rest, NoCopy, "running", TRUE)
    BY <1>11, WholeTask
  <2>2. serving = TRUE
    BY <1>2, <1>6
  <2> QED
    BY <1>1, <1>6, <2>1, <2>2
<1>14. /\ Alone(t) /\ todo'[t] = rest /\ Tasks' /\ Owned' /\ Queued'
       /\ todo' \in [AllTasks -> Seq(Operation)] /\ queue' \in [Locks -> Seq(AllTasks)]
  <2>1. copy' \in [AllTasks -> Entries \cup {NoCopy}] /\ \A u \in AllTasks : u # t => copy'[u] = copy[u]
    BY <1>1, <1>2
  <2> HIDE DEF p
  <2>2. lockOf(t) \in Locks /\ turn(t, lockOf(t)) /\ queue' = unqueued(lockOf(t)) /\ todo[t] # <<>>
    BY <1>1, <1>4 DEF p
  <2> QED
    BY <1>1, <1>12, <1>13, <2>1, <2>2, Advances
<1> HIDE DEF d, n
<1>15. /\ data' \in [Stores -> Entries] /\ data'[s] = new /\ \A r \in Stores : r # s => data'[r] = data[r]
       /\ owing' \in [Stores -> SUBSET AllTasks] /\ \A r \in Stores : r # s => owing'[r] = owing[r]
       /\ owing'[s] = IF k \in {"prune", "dream"} THEN owing[s] ELSE owing[s] \cup {t}
       /\ excuse' \in [Stores -> SUBSET Excuses] /\ \A r \in Stores : r # s => excuse'[r] = excuse[r]
       /\ excuse'[s] = IF k = "prune" THEN excuse[s] \cup {"pruned"} ELSE excuse[s]
  <2>1. data' \in [Stores -> Entries] /\ data'[s] = new /\ \A r \in Stores : r # s => data'[r] = data[r]
    BY <1>1, <1>2, <1>7
  <2>2. (IF k \in {"prune", "dream"} THEN owing[s] ELSE owing[s] \cup {t}) \in SUBSET AllTasks
    BY <1>1, <1>2
  <2>3. "pruned" \in Excuses
    BY DEF Excuses
  <2>4. (IF k = "prune" THEN excuse[s] \cup {"pruned"} ELSE excuse[s]) \in SUBSET Excuses
    BY <1>1, <1>2, <2>3
  <2> QED
    BY <1>1, <1>2, <2>1, <2>2, <2>4
<1>16. Types'
  BY <1>1, <1>2, <1>14, <1>15 DEF Types
<1>17. \A r \in Stores : t \notin writing(r) /\ t \notin writing(r)'
  BY <1>1, <1>6, Writers
<1>18. \A r \in Stores : t \notin owing[r]
  <2>1. \A r : op(t) # <<"snap", r>>
    BY <1>1
  <2> QED
    BY <1>6, <1>17, <2>1, NotOwing
<1>19. ASSUME NEW r \in Stores, r # s \/ k = "dream"
       PROVE  Saved(r)'
  <2>1. data'[r] = data[r] /\ owing'[r] = owing[r] /\ excuse'[r] = excuse[r] /\ disk'[r] = disk[r]
    <3>1. CASE r # s
      BY <1>1, <1>15, <3>1
    <3>2. CASE r = s /\ k = "dream"
      <4>1. new = data[s]
        BY <3>2 DEF new, d
      <4> QED
        BY <1>1, <1>15, <3>2, <4>1
    <3> QED
      BY <1>19, <3>1, <3>2
  <2> QED
    BY <1>1, <1>14, <1>17, <1>18, <2>1, SavedApart
<1>20. \A u \in AllTasks : u # t => op(u)' = op(u) /\ todo'[u] = todo[u] /\ phase'[u] = phase[u] /\ copy'[u] = copy[u]
  BY <1>14, OthersSame
<1>21. writing(s)' = writing(s)
  <2>1. \A u \in AllTasks : u \in writing(s)' <=> u \in writing(s)
    <3>1. \A u \in AllTasks : u # t => (u \in writing(s)' <=> u \in writing(s))
      BY <1>20, Writers
    <3> QED
      BY <1>1, <1>17, <3>1
  <2>2. writing(s) \subseteq AllTasks /\ writing(s)' \subseteq AllTasks
    BY Writers
  <2> QED
    BY <2>1, <2>2
<1>22. \A u \in owing[s] : u \in AllTasks /\ u # t /\ Owes(u, s)' 
  <2>1. \A u \in owing[s] : u \in AllTasks /\ u # t /\ Owes(u, s)
    BY <1>1, <1>2, <1>6, <1>18 DEF ServerInv, Saved
  <2> QED
    BY <1>20, <1>21, <2>1 DEF Owes
<1>23. CASE k = "prune"
  <2>1. excuse'[s] # {} /\ owing'[s] = owing[s]
    BY <1>15, <1>23
  <2>2. Saved(s)'
    BY <1>22, <2>1 DEF Saved
  <2> QED
    BY <1>14, <1>16, <1>19, <2>2 DEF ServerInv
<1>24. CASE k = "dream"
  BY <1>14, <1>16, <1>19, <1>24 DEF ServerInv
<1>25. CASE k \in {"push", "push_uncapped", "push_users"}
  <2>1. owing'[s] = owing[s] \cup {t} /\ excuse'[s] = excuse[s] /\ todo'[t] = Tail(p)
    BY <1>10, <1>14, <1>15, <1>25
  <2>2. Then(p, 1, <<"snap", s>>)
    BY <1>3, <1>4, <1>8, <1>25 DEF Followed
  <2>3. Tail(p) # <<>> /\ Head(Tail(p)) = <<"snap", s>>
    BY <1>8, <2>2 DEF Then
  <2>4. op(t)' = <<"snap", s>>
    BY <2>1, <2>3 DEF op
  <2>5. Owes(t, s)'
    <3>1. phase'[t] = "running" /\ todo'[t] # <<>>
      BY <1>1, <1>6, <2>1, <2>3
    <3> QED
      BY <2>4, <3>1 DEF Owes
  <2>6. \A u \in owing'[s] : Owes(u, s)'
    BY <1>22, <2>1, <2>5
  <2>7. \A u \in writing(s)' : copy'[u] = data'[s] \/ \E v \in owing'[s] : v # u
    BY <1>1, <1>17, <2>1
  <2>8. ASSUME excuse'[s] = {}
        PROVE  /\ \A u, v \in writing(s)' : u = v
               /\ writing(s)' = {} => disk'[s] # Torn /\ (owing'[s] = {} => disk'[s] = data'[s])
               /\ s = "memories" => \A u \in writing(s)' : op(u)'[1] = "put" => disk'[s] = Torn
    <3>1. Saved(s)
      BY <1>1 DEF ServerInv
    <3>2. \A u \in writing(s) : op(u)' = op(u)
      BY <1>1, <1>17, <1>20, Writers
    <3> QED
      BY <1>1, <1>21, <2>1, <2>8, <3>1, <3>2 DEF Saved
  <2>9. Saved(s)'
    BY <2>6, <2>7, <2>8 DEF Saved
  <2> QED
    BY <1>14, <1>16, <1>19, <2>9 DEF ServerInv
<1> QED
  BY <1>4, <1>23, <1>24, <1>25

LEMMA ChangesKeeps ==
  ASSUME ServerInv, NEW t \in AllTasks, changes(t)
  PROVE  ServerInv'
<1>1. lockOf(t) \in Stores
  BY DEF changes
<1> QED
  BY <1>1, ChangesOf

(* Who still owes a store a save, once another task has taken its step. *)
LEMMA OwesStill ==
  ASSUME ServerInv, serving, NEW s \in Stores, NEW t \in AllTasks, Alone(t), writing(s) \ {t} \subseteq writing(s)'
  PROVE  \A u \in owing[s] : u # t => Owes(u, s)'
<1>1. ASSUME NEW u \in owing[s], u # t
      PROVE  Owes(u, s)'
  <2>1. Owes(u, s) /\ u \in AllTasks
    BY DEF ServerInv, Saved, Types
  <2>2. op(u)' = op(u) /\ todo'[u] = todo[u] /\ phase'[u] = phase[u] /\ copy'[u] = copy[u]
    BY <1>1, <2>1, OthersSame
  <2>3. u \in writing(s) => u \in writing(s)'
    BY <1>1
  <2> QED
    BY <2>1, <2>2, <2>3 DEF Owes
<1> QED
  BY <1>1

LEMMA OtherWriters ==
  ASSUME NEW t \in AllTasks, Alone(t), NEW s
  PROVE  /\ \A u \in AllTasks : u # t => (u \in writing(s)' <=> u \in writing(s)) /\ op(u)' = op(u) /\ copy'[u] = copy[u]
         /\ t \notin writing(s)' => writing(s)' = writing(s) \ {t}
         /\ t \in writing(s)' => writing(s)' = writing(s) \cup {t}
<1>1. \A u \in AllTasks : u # t => op(u)' = op(u) /\ todo'[u] = todo[u] /\ copy'[u] = copy[u]
  BY OthersSame
<1>2. \A u \in AllTasks : u # t => (u \in writing(s)' <=> u \in writing(s))
  BY <1>1, Writers
<1>3. writing(s) \subseteq AllTasks /\ writing(s)' \subseteq AllTasks
  BY Writers
<1> QED
  BY <1>1, <1>2, <1>3

LEMMA SnapsOf ==
  ASSUME ServerInv, NEW t \in AllTasks, NEW s, op(t)[2] = s, snaps(t)
  PROVE  ServerInv'
<1> DEFINE p == todo[t]
<1>1. /\ p # <<>> /\ op(t)[1] = "snap" /\ turn(t, s) /\ copy' = [copy EXCEPT ![t] = data[s]]
      /\ excuse' = [excuse EXCEPT ![s] = IF writing(s) = {} THEN {} ELSE excuse[s] \cup {"overlap"}]
      /\ queue' = unqueued(s) /\ todo' = [todo EXCEPT ![t] = Tail(todo[t])]
      /\ phase' = phase /\ owner' = owner /\ data' = data /\ disk' = disk /\ owing' = owing /\ serving' = serving
  BY DEF snaps, next
<1>2. /\ data \in [Stores -> Entries] /\ owing \in [Stores -> SUBSET AllTasks] /\ excuse \in [Stores -> SUBSET Excuses]
      /\ disk \in [Stores -> Entries \cup {Torn}] /\ copy \in [AllTasks -> Entries \cup {NoCopy}]
      /\ todo \in [AllTasks -> Seq(Operation)] /\ phase \in [AllTasks -> Phases]
      /\ owner \in [Locks -> AllTasks \cup {Nobody}] /\ serving \in BOOLEAN /\ Sound(p)
  BY DEF ServerInv, Types, Tasks, Task
<1>3. op(t) \in Operation /\ op(t) = p[1] /\ op(t) = Head(p)
  BY <1>1, Heads DEF ServerInv, op
<1>4. s \in Stores /\ s \in Locks /\ lockOf(t) = s /\ (s = "memories" \/ s = "users")
  <2>1. s \in Stores /\ lockOf(t) = s
    BY <1>1, <1>3, Kinds, LockOf
  <2> QED
    BY <2>1, NoneIsNoLock DEF Stores
<1>5. serving /\ phase[t] = "running" /\ copy[t] = NoCopy
  BY <1>1, Runs
<1>6. /\ Followed(p, 1) /\ (Len(p) > 1 => Head(Tail(p)) = p[2]) /\ (Tail(p) # <<>> <=> Len(p) > 1)
  BY <1>1, <1>2, SoundTail
<1>7. /\ Tail(p) # <<>> /\ Head(Tail(p))[2] = s /\ Head(Tail(p))[1] \in {"truncate", "put"}
      /\ s = "memories" => Head(Tail(p))[1] = "truncate"
  <2>1. s = "memories" => Then(p, 1, <<"truncate", "memories">>)
    BY <1>1, <1>3, <1>6 DEF Followed
  <2>2. s = "users" => Then(p, 1, <<"put", "users">>)
    BY <1>1, <1>3, <1>6 DEF Followed
  <2>3. CASE s = "memories"
    <3>1. Tail(p) # <<>> /\ Head(Tail(p)) = <<"truncate", "memories">>
      BY <1>6, <2>1, <2>3 DEF Then
    <3> QED
      BY <2>3, <3>1
  <2>4. CASE s = "users"
    <3>1. Tail(p) # <<>> /\ Head(Tail(p)) = <<"put", "users">>
      BY <1>6, <2>2, <2>4 DEF Then
    <3> QED
      BY <2>4, <3>1
  <2> QED
    BY <1>4, <2>3, <2>4
<1>8. copy' \in [AllTasks -> Entries \cup {NoCopy}] /\ copy'[t] = data[s] /\ copy'[t] # NoCopy
      /\ \A u \in AllTasks : u # t => copy'[u] = copy[u]
  BY <1>1, <1>2, <1>4, NoEntry
<1>9. copy'[t] # NoCopy <=> Writes(Tail(p))
  BY <1>7, <1>8 DEF Writes
<1>10. /\ Task(Tail(p), copy'[t], phase[t], serving)
       /\ \A l \in Locks : owner[l] = t => Closes(Tail(p), 1, l)
  BY <1>1, <1>9, RestIsTask
<1> HIDE DEF p
<1>11. /\ Alone(t) /\ todo'[t] = Tail(p) /\ Tasks' /\ Owned' /\ Queued'
       /\ todo' \in [AllTasks -> Seq(Operation)] /\ queue' \in [Locks -> Seq(AllTasks)]
  <2>1. lockOf(t) \in Locks /\ turn(t, lockOf(t)) /\ queue' = unqueued(lockOf(t)) /\ todo[t] # <<>>
        /\ todo' = [todo EXCEPT ![t] = Tail(p)]
    BY <1>1, <1>4 DEF p
  <2> QED
    BY <1>1, <1>8, <1>10, <2>1, Advances
<1>12. /\ excuse' \in [Stores -> SUBSET Excuses] /\ \A r \in Stores : r # s => excuse'[r] = excuse[r]
       /\ excuse'[s] = IF writing(s) = {} THEN {} ELSE excuse[s] \cup {"overlap"}
  <2>1. (IF writing(s) = {} THEN {} ELSE excuse[s] \cup {"overlap"}) \in SUBSET Excuses
    BY <1>2, <1>4 DEF Excuses
  <2> QED
    BY <1>1, <1>2, <1>4, <2>1
<1>13. Types'
  BY <1>1, <1>2, <1>8, <1>11, <1>12 DEF Types
<1>14. ASSUME NEW r \in Stores
       PROVE  t \notin writing(r) /\ (r # s => t \notin writing(r)')
  <2>1. t \notin writing(r)
    BY <1>5, Writers
  <2>2. t \in writing(r)' => Head(Tail(p))[2] = r
    BY <1>11, Writers
  <2> QED
    BY <1>7, <2>1, <2>2
<1>15. t \in writing(s)' /\ writing(s)' = writing(s) \cup {t}
  <2>1. t \in writing(s)'
    BY <1>7, <1>8, <1>11, Writers
  <2> QED
    BY <1>11, <2>1, OtherWriters
<1>16. ASSUME NEW r \in Stores, r # s
       PROVE  Saved(r)'
  <2>1. op(t) # <<"snap", r>>
    BY <1>16
  <2>2. t \notin owing[r]
    BY <1>5, <1>14, <2>1, NotOwing
  <2> QED
    BY <1>1, <1>11, <1>12, <1>14, <1>16, <2>2, SavedApart
<1>17. \A u \in owing'[s] : Owes(u, s)'
  <2>1. Owes(t, s)'
    <3>1. phase'[t] = "running" /\ todo'[t] # <<>>
      BY <1>1, <1>5, <1>7, <1>11
    <3> QED
      BY <1>15, <3>1 DEF Owes
  <2> QED
    BY <1>1, <1>4, <1>5, <1>11, <1>15, <2>1, OwesStill
<1>18. ASSUME excuse'[s] = {}
       PROVE  /\ \A u, v \in writing(s)' : u = v
              /\ \A u \in writing(s)' : copy'[u] = data'[s] \/ \E v \in owing'[s] : v # u
              /\ writing(s)' # {}
              /\ s = "memories" => \A u \in writing(s)' : op(u)'[1] # "put"
  <2>1. writing(s)' = {t}
    BY <1>12, <1>15, <1>18
  <2>2. op(t)' = Head(Tail(p))
    BY <1>11 DEF op
  <2> QED
    BY <1>1, <1>7, <1>8, <2>1, <2>2
<1>19. Saved(s)'
  BY <1>17, <1>18 DEF Saved
<1> QED
  BY <1>11, <1>13, <1>16, <1>19 DEF ServerInv

LEMMA SnapsKeeps ==
  ASSUME ServerInv, NEW t \in AllTasks, snaps(t)
  PROVE  ServerInv'
<1>1. PICK s : op(t)[2] = s
  OBVIOUS
<1> QED
  BY <1>1, SnapsOf

(* The steps of one who writes. *)
LEMMA AWriter ==
  ASSUME ServerInv, NEW t \in AllTasks, todo[t] # <<>>, op(t)[1] \in {"truncate", "put"}, NEW s, op(t)[2] = s
  PROVE  /\ s \in Stores /\ t \in writing(s) /\ copy[t] \in Entries /\ lockOf(t) = "none"
         /\ \A r : r # s => t \notin writing(r)
         /\ serving => phase[t] = "running" /\ \A r \in Stores : r # s => t \notin owing[r]
<1>1. op(t) \in Operation /\ op(t) = Head(todo[t])
  BY Heads DEF ServerInv, op
<1>2. s \in Stores /\ lockOf(t) = "none"
  BY <1>1, Kinds, LockOf DEF Stores
<1>3. Task(todo[t], copy[t], phase[t], serving) /\ copy[t] \in Entries \cup {NoCopy}
  BY DEF ServerInv, Types, Tasks
<1>4. copy[t] # NoCopy
  BY <1>1, <1>3 DEF Task, Writes
<1>5. t \in writing(s) /\ \A r : r # s => t \notin writing(r)
  BY <1>4 DEF writing
<1>6. ASSUME serving, NEW r \in Stores, r # s
      PROVE  t \notin owing[r]
  <2>1. op(t) # <<"snap", r>>
    OBVIOUS
  <2> QED
    BY <1>5, <1>6, <2>1, NotOwing
<1>7. serving => phase[t] = "running"
  BY <1>3 DEF Task
<1> QED
  BY <1>2, <1>3, <1>4, <1>5, <1>6, <1>7

LEMMA TruncatesKeeps ==
  ASSUME ServerInv, NEW t \in AllTasks, truncates(t)
  PROVE  ServerInv'
<1> DEFINE p == todo[t]
           s == "memories"
<1>1. /\ p # <<>> /\ op(t)[1] = "truncate" /\ disk' = [disk EXCEPT ![s] = Torn]
      /\ todo' = [todo EXCEPT ![t] = Tail(todo[t])]
      /\ queue' = queue /\ phase' = phase /\ owner' = owner /\ data' = data /\ copy' = copy /\ excuse' = excuse
      /\ owing' = owing /\ serving' = serving
  BY DEF truncates, next, lockVars
<1>2. /\ data \in [Stores -> Entries] /\ disk \in [Stores -> Entries \cup {Torn}]
      /\ copy \in [AllTasks -> Entries \cup {NoCopy}] /\ owing \in [Stores -> SUBSET AllTasks] /\ Sound(p)
  BY DEF ServerInv, Types, Tasks, Task
<1>3. op(t) \in Operation /\ op(t) = p[1] /\ op(t)[2] = s
  BY <1>1, Heads, Kinds DEF ServerInv
<1>4. /\ s \in Stores /\ t \in writing(s) /\ copy[t] \in Entries /\ lockOf(t) = "none"
      /\ \A r : r # s => t \notin writing(r)
      /\ serving => phase[t] = "running" /\ \A r \in Stores : r # s => t \notin owing[r]
  BY <1>1, <1>3, AWriter
<1>5. Tail(p) # <<>> /\ Head(Tail(p)) = <<"put", "memories">>
  <2>1. Followed(p, 1) /\ (Len(p) > 1 => Head(Tail(p)) = p[2]) /\ (Tail(p) # <<>> <=> Len(p) > 1)
    BY <1>1, <1>2, SoundTail
  <2>2. Then(p, 1, <<"put", "memories">>)
    BY <1>1, <1>3, <2>1 DEF Followed
  <2> QED
    BY <2>1, <2>2 DEF Then
<1>6. copy'[t] # NoCopy <=> Writes(Tail(p))
  BY <1>1, <1>4, <1>5, NoEntry DEF Writes
<1>7. /\ Task(Tail(p), copy'[t], phase[t], serving)
      /\ \A l \in Locks : owner[l] = t => Closes(Tail(p), 1, l)
  BY <1>1, <1>6, RestIsTask
<1> HIDE DEF p
<1>8. /\ Alone(t) /\ todo'[t] = Tail(p) /\ Tasks' /\ Owned' /\ Queued'
      /\ todo' \in [AllTasks -> Seq(Operation)] /\ queue' \in [Locks -> Seq(AllTasks)]
  <2>1. todo[t] # <<>> /\ todo' = [todo EXCEPT ![t] = Tail(p)] /\ copy' \in [AllTasks -> Entries \cup {NoCopy}]
        /\ \A u \in AllTasks : u # t => copy'[u] = copy[u]
    BY <1>1, <1>2 DEF p
  <2> QED
    BY <1>1, <1>4, <1>7, <2>1, Advances
<1>9. disk' \in [Stores -> Entries \cup {Torn}] /\ disk'[s] = Torn /\ \A r \in Stores : r # s => disk'[r] = disk[r]
  BY <1>1, <1>2, <1>4
<1>10. Types'
  BY <1>1, <1>8, <1>9 DEF ServerInv, Types
<1>11. op(t)' = <<"put", "memories">>
  BY <1>5, <1>8 DEF op
<1>12. t \in writing(s)' /\ writing(s)' = writing(s) /\ \A r \in Stores : r # s => t \notin writing(r)'
  <2>1. t \in writing(s)' /\ \A r \in Stores : r # s => t \notin writing(r)'
    <3>1. copy'[t] # NoCopy /\ todo'[t] # <<>> /\ Head(todo'[t])[2] = "memories"
      <4>1. copy'[t] # NoCopy
        BY <1>1, <1>4, NoEntry
      <4>2. todo'[t] # <<>> /\ Head(todo'[t]) = <<"put", "memories">>
        BY <1>5, <1>8
      <4>3. <<"put", "memories">>[2] = "memories"
        OBVIOUS
      <4> QED
        BY <4>1, <4>2, <4>3
    <3>2. t \in writing("memories")'
      BY <3>1 DEF writing, op
    <3>3. ASSUME NEW r \in Stores, t \in writing(r)'
          PROVE  r = "memories"
      BY <3>1, <3>3, Writers
    <3> QED
      BY <3>2, <3>3
  <2>2. /\ \A u \in AllTasks : u # t => (u \in writing(s)' <=> u \in writing(s))
        /\ writing(s) \subseteq AllTasks /\ writing(s)' \subseteq AllTasks
    <3>1. \A u \in AllTasks : u # t => op(u)' = op(u) /\ todo'[u] = todo[u] /\ copy'[u] = copy[u]
      BY <1>8, OthersSame
    <3> QED
      BY <3>1 DEF writing
  <2> QED
    BY <1>4, <2>1, <2>2
<1>13. ASSUME NEW r \in Stores, r # s
       PROVE  Saved(r)'
  BY <1>1, <1>4, <1>8, <1>9, <1>12, <1>13, SavedApart
<1>14. serving' => \A u \in owing'[s] : Owes(u, s)'
  <2>1. SUFFICES ASSUME serving
                 PROVE  \A u \in owing[s] : Owes(u, s)'
    BY <1>1
  <2>2. phase'[t] = "running" /\ todo'[t] # <<>>
    BY <1>1, <1>4, <1>5, <1>8, <2>1
  <2>3. Owes(t, s)'
    BY <1>12, <2>2 DEF Owes
  <2> QED
    BY <1>4, <1>8, <1>12, <2>1, <2>3, OwesStill
<1>15. ASSUME excuse'[s] = {}
       PROVE  /\ \A u, v \in writing(s)' : u = v
              /\ \A u \in writing(s)' : copy'[u] = data'[s] \/ \E v \in owing'[s] : v # u
  <2>1. Saved(s)
    BY <1>4 DEF ServerInv
  <2> QED
    BY <1>1, <1>12, <1>15, <2>1 DEF Saved
<1>16. Saved(s)'
  BY <1>9, <1>12, <1>14, <1>15 DEF Saved
<1> QED
  BY <1>8, <1>10, <1>13, <1>16 DEF ServerInv

(* Both ends of a write: the task has no copy any more and owes nothing. *)
LEMMA Written ==
  ASSUME ServerInv, NEW t \in AllTasks, todo[t] # <<>>, op(t)[1] = "put", NEW s, op(t)[2] = s,
         todo' = [todo EXCEPT ![t] = Tail(todo[t])], copy' = [copy EXCEPT ![t] = NoCopy],
         owing' = [owing EXCEPT ![s] = owing[s] \ {t}],
         queue' = queue, phase' = phase, owner' = owner, data' = data, serving' = serving,
         disk' \in [Stores -> Entries \cup {Torn}], \A r \in Stores : r # s => disk'[r] = disk[r],
         excuse' \in [Stores -> SUBSET Excuses], \A r \in Stores : r # s => excuse'[r] = excuse[r],
         excuse'[s] = {} => excuse[s] = {} /\ (writing(s) = {t} => disk'[s] = copy[t])
  PROVE  ServerInv'
<1> DEFINE p == todo[t]
<1>1. /\ owing \in [Stores -> SUBSET AllTasks] /\ copy \in [AllTasks -> Entries \cup {NoCopy}] /\ Sound(p)
  BY DEF ServerInv, Types, Tasks, Task
<1>2. /\ s \in Stores /\ t \in writing(s) /\ copy[t] \in Entries /\ lockOf(t) = "none"
      /\ \A r : r # s => t \notin writing(r)
      /\ serving => phase[t] = "running" /\ \A r \in Stores : r # s => t \notin owing[r]
  BY AWriter
<1>3. copy' \in [AllTasks -> Entries \cup {NoCopy}] /\ copy'[t] = NoCopy /\ \A u \in AllTasks : u # t => copy'[u] = copy[u]
  BY <1>1
<1>4. ~Writes(Tail(p))
  <2>1. Whole(Tail(p))
    BY <1>1, RestWhole DEF op
  <2>2. Tail(p) # <<>> => Head(Tail(p)) = Tail(p)[1]
    OBVIOUS
  <2> QED
    BY <2>1, <2>2 DEF Whole, Begins, Writes
<1>5. /\ Task(Tail(p), copy'[t], phase[t], serving)
      /\ \A l \in Locks : owner[l] = t => Closes(Tail(p), 1, l)
  BY <1>3, <1>4, RestIsTask
<1> HIDE DEF p
<1>6. /\ Alone(t) /\ todo'[t] = Tail(p) /\ Tasks' /\ Owned' /\ Queued'
      /\ todo' \in [AllTasks -> Seq(Operation)] /\ queue' \in [Locks -> Seq(AllTasks)]
  <2>1. todo' = [todo EXCEPT ![t] = Tail(p)]
    BY DEF p
  <2> QED
    BY <1>2, <1>3, <1>5, <2>1, Advances
<1>7. /\ owing' \in [Stores -> SUBSET AllTasks] /\ owing'[s] = owing[s] \ {t}
      /\ \A r \in Stores : r # s => owing'[r] = owing[r]
  BY <1>1, <1>2
<1>8. Types'
  BY <1>3, <1>6, <1>7 DEF ServerInv, Types
<1>9. ASSUME NEW r \in Stores
      PROVE  t \notin writing(r)'
  BY <1>3, Writers
<1>10. writing(s)' = writing(s) \ {t}
  BY <1>2, <1>6, <1>9, OtherWriters
<1>11. ASSUME NEW r \in Stores, r # s
       PROVE  Saved(r)'
  BY <1>2, <1>6, <1>7, <1>9, <1>11, SavedApart
<1>12. serving' => \A u \in owing'[s] : Owes(u, s)'
  <2>1. SUFFICES ASSUME serving
                 PROVE  \A u \in owing[s] : u # t => Owes(u, s)'
    BY <1>7
  <2> QED
    BY <1>2, <1>6, <1>10, <2>1, OwesStill
<1>13. ASSUME excuse'[s] = {}
       PROVE  writing(s)' = {} /\ disk'[s] # Torn /\ (owing'[s] = {} => disk'[s] = data'[s])
  <2>1. /\ \A v, w \in writing(s) : v = w
        /\ copy[t] = data[s] \/ \E u \in owing[s] : u # t
    BY <1>2, <1>13 DEF ServerInv, Saved
  <2>2. writing(s) = {t}
    BY <1>2, <2>1
  <2>3. disk'[s] = copy[t] /\ copy[t] # Torn
    BY <1>2, <1>13, <2>2, NoEntry
  <2> QED
    BY <1>7, <1>10, <2>1, <2>2, <2>3
<1>14. Saved(s)'
  BY <1>12, <1>13 DEF Saved
<1> QED
  BY <1>6, <1>8, <1>11, <1>14 DEF ServerInv

LEMMA PutsOf ==
  ASSUME ServerInv, NEW t \in AllTasks, NEW s, op(t)[2] = s, puts(t)
  PROVE  ServerInv'
<1> DEFINE file == IF s = "memories" /\ size(disk[s]) > size(copy[t]) THEN Torn ELSE copy[t]
<1>1. /\ todo[t] # <<>> /\ op(t)[1] = "put" /\ disk' = [disk EXCEPT ![s] = file]
      /\ todo' = [todo EXCEPT ![t] = Tail(todo[t])] /\ copy' = [copy EXCEPT ![t] = NoCopy]
      /\ owing' = [owing EXCEPT ![s] = owing[s] \ {t}]
      /\ queue' = queue /\ phase' = phase /\ owner' = owner /\ data' = data /\ excuse' = excuse /\ serving' = serving
  BY DEF puts, next, lockVars
<1>2. s \in Stores /\ t \in writing(s) /\ copy[t] \in Entries
  BY <1>1, AWriter
<1>3. disk \in [Stores -> Entries \cup {Torn}] /\ excuse \in [Stores -> SUBSET Excuses]
  BY DEF ServerInv, Types
<1>4. ASSUME excuse[s] = {}
      PROVE  file = copy[t]
  <2>1. s = "memories" => disk[s] = Torn
    BY <1>1, <1>2, <1>4 DEF ServerInv, Saved
  <2>2. s = "memories" => size(disk[s]) = 0
    BY <2>1 DEF size
  <2>3. size(copy[t]) \in Nat
    BY <1>2, KeepEntry
  <2> QED
    BY <2>2, <2>3
<1>5. file \in Entries \cup {Torn}
  BY <1>2
<1> HIDE DEF file
<1>6. disk' \in [Stores -> Entries \cup {Torn}] /\ disk'[s] = file /\ \A r \in Stores : r # s => disk'[r] = disk[r]
  BY <1>1, <1>2, <1>3, <1>5
<1>7. excuse' \in [Stores -> SUBSET Excuses] /\ \A r \in Stores : r # s => excuse'[r] = excuse[r]
  BY <1>1, <1>3
<1>8. excuse'[s] = {} => excuse[s] = {} /\ disk'[s] = copy[t]
  BY <1>1, <1>4, <1>6
<1> QED
  BY <1>1, <1>6, <1>7, <1>8, Written

LEMMA PutsKeeps ==
  ASSUME ServerInv, NEW t \in AllTasks, puts(t)
  PROVE  ServerInv'
<1>1. PICK s : op(t)[2] = s
  OBVIOUS
<1> QED
  BY <1>1, PutsOf

LEMMA FailsOf ==
  ASSUME ServerInv, NEW t \in AllTasks, NEW s, op(t)[2] = s, writeFails(t)
  PROVE  ServerInv'
<1>1. /\ todo[t] # <<>> /\ op(t)[1] = "put" /\ excuse' = [excuse EXCEPT ![s] = excuse[s] \cup {"failed"}]
      /\ todo' = [todo EXCEPT ![t] = Tail(todo[t])] /\ copy' = [copy EXCEPT ![t] = NoCopy]
      /\ owing' = [owing EXCEPT ![s] = owing[s] \ {t}]
      /\ queue' = queue /\ phase' = phase /\ owner' = owner /\ data' = data /\ disk' = disk /\ serving' = serving
  BY DEF writeFails, next, lockVars
<1>2. s \in Stores
  BY <1>1, AWriter
<1>3. disk \in [Stores -> Entries \cup {Torn}] /\ excuse \in [Stores -> SUBSET Excuses]
  BY DEF ServerInv, Types
<1>4. excuse[s] \cup {"failed"} \in SUBSET Excuses
  BY <1>2, <1>3 DEF Excuses
<1>5. /\ excuse' \in [Stores -> SUBSET Excuses] /\ excuse'[s] = excuse[s] \cup {"failed"}
      /\ \A r \in Stores : r # s => excuse'[r] = excuse[r]
  BY <1>1, <1>2, <1>3, <1>4
<1>6. excuse'[s] # {}
  BY <1>5
<1>7. disk' \in [Stores -> Entries \cup {Torn}] /\ \A r \in Stores : r # s => disk'[r] = disk[r]
  BY <1>1, <1>3
<1> QED
  BY <1>1, <1>5, <1>6, <1>7, Written

LEMMA FailsKeeps ==
  ASSUME ServerInv, NEW t \in AllTasks, writeFails(t)
  PROVE  ServerInv'
<1>1. PICK s : op(t)[2] = s
  OBVIOUS
<1> QED
  BY <1>1, FailsOf

LEMMA Prefix ==
  ASSUME NEW S, NEW p \in Seq(S), NEW h \in 0 .. Len(p)
  PROVE  /\ SubSeq(p, 1, h) \in Seq(S) /\ Len(SubSeq(p, 1, h)) = h
         /\ \A i \in 1 .. h : SubSeq(p, 1, h)[i] = p[i]
<1>1. Len(p) \in Nat /\ h \in Nat
  OBVIOUS
<1>2. SubSeq(p, 1, h) \in Seq(S)
  BY <1>1
<1>3. Len(SubSeq(p, 1, h)) = h
  BY <1>1
<1>4. \A i \in 1 .. h : SubSeq(p, 1, h)[i] = p[i]
  BY <1>1
<1> QED
  BY <1>2, <1>3, <1>4

LEMMA Headed ==
  ASSUME NEW S, NEW r \in Seq(S), Len(r) >= 1
  PROVE  r # <<>> /\ Head(r) = r[1]
  OBVIOUS

(* A write that started is all that is left of a task when main ends. *)
Writing(r) == Sound(r) /\ r # <<>> /\ \A i \in 1 .. Len(r) : r[i][1] \in {"truncate", "put"}

LEMMA OneLeft ==
  ASSUME NEW r \in Seq(Operation), Len(r) = 1, r[1][1] = "put"
  PROVE  Writing(r) /\ Head(r) = r[1]
<1>1. r # <<>> /\ Head(r) = r[1]
  <2>1. Len(r) >= 1
    OBVIOUS
  <2> QED
    BY <2>1, Headed
<1>2. Followed(r, 1)
  BY DEF Followed
<1>3. \A i \in 1 .. Len(r) : i = 1
  OBVIOUS
<1> QED
  BY <1>1, <1>2, <1>3 DEF Writing, Sound

LEMMA TwoLeft ==
  ASSUME NEW r \in Seq(Operation), Len(r) = 2, r[1][1] = "truncate", r[2] = <<"put", "memories">>
  PROVE  Writing(r) /\ Head(r) = r[1]
<1>1. r # <<>> /\ Head(r) = r[1]
  <2>1. Len(r) >= 1
    OBVIOUS
  <2> QED
    BY <2>1, Headed
<1>2. Then(r, 1, <<"put", "memories">>)
  BY DEF Then
<1>3. Followed(r, 1)
  BY <1>2 DEF Followed
<1>4. Followed(r, 2)
  BY DEF Followed
<1>5. \A i \in 1 .. Len(r) : i = 1 \/ i = 2
  OBVIOUS
<1> QED
  BY <1>1, <1>3, <1>4, <1>5 DEF Writing, Sound

LEMMA LeftToWrite ==
  ASSUME NEW p, Sound(p), Writes(p), NEW h, h = IF Head(p)[1] = "put" THEN 1 ELSE 2
  PROVE  Writing(SubSeq(p, 1, h)) /\ Head(SubSeq(p, 1, h)) = Head(p)
<1> DEFINE r == SubSeq(p, 1, h)
<1>1. p \in Seq(Operation) /\ Len(p) \in Nat /\ Len(p) >= 1 /\ Head(p) = p[1] /\ Followed(p, 1)
      /\ p[1][1] \in {"truncate", "put"}
  BY SoundTail DEF Sound, Writes
<1>2. p[1][1] = "truncate" => Len(p) >= 2 /\ p[2] = <<"put", "memories">>
  BY <1>1 DEF Followed, Then
<1>3. h \in 0 .. Len(p) /\ (p[1][1] = "put" => h = 1) /\ (p[1][1] = "truncate" => h = 2)
  BY <1>1, <1>2
<1>4. r \in Seq(Operation) /\ Len(r) = h /\ \A i \in 1 .. h : r[i] = p[i]
  BY <1>1, <1>3, Prefix
<1> HIDE DEF r
<1>5. CASE p[1][1] = "put"
  <2>1. Len(r) = 1 /\ r[1] = p[1]
    BY <1>3, <1>4, <1>5
  <2> QED
    BY <1>1, <1>4, <1>5, <2>1, OneLeft DEF r
<1>6. CASE p[1][1] = "truncate"
  <2>1. Len(r) = 2 /\ r[1] = p[1] /\ r[2] = p[2]
    BY <1>3, <1>4, <1>6
  <2> QED
    BY <1>1, <1>2, <1>4, <1>6, <2>1, TwoLeft DEF r
<1> QED
  BY <1>1, <1>5, <1>6

LEMMA NothingQueued ==
  ASSUME owner' = [l \in Locks |-> Nobody], queue' = [l \in Locks |-> <<>>]
  PROVE  /\ owner' \in [Locks -> AllTasks \cup {Nobody}] /\ queue' \in [Locks -> Seq(AllTasks)]
         /\ Owned' /\ Queued'
<1>1. \A l \in Locks : owner'[l] = Nobody /\ queue'[l] = <<>>
  OBVIOUS
<1>2. Owned'
  BY <1>1 DEF Owned
<1>3. Queued'
  BY <1>1 DEF Queued
<1> QED
  BY <1>2, <1>3

LEMMA StdinEndsKeeps == ServerInv /\ stdinEnds => ServerInv'
<1> SUFFICES ASSUME ServerInv, stdinEnds
             PROVE  ServerInv'
  OBVIOUS
<1> DEFINE left(t) == SubSeq(todo[t], 1, IF op(t)[1] = "put" THEN 1 ELSE 2)
<1>1. /\ serving /\ serving' = FALSE
      /\ phase' = [t \in AllTasks |-> IF phase[t] = "running" THEN "dropped" ELSE phase[t]]
      /\ todo' = [t \in AllTasks |-> IF copy[t] = NoCopy THEN <<>> ELSE left(t)]
      /\ owner' = [l \in Locks |-> Nobody] /\ queue' = [l \in Locks |-> <<>>]
      /\ data' = data /\ disk' = disk /\ copy' = copy /\ owing' = owing /\ excuse' = excuse
  BY DEF stdinEnds, storeVars
<1>2. phase' \in [AllTasks -> Phases] /\ \A t \in AllTasks : phase'[t] # "running"
  <2>1. phase \in [AllTasks -> Phases]
    BY DEF ServerInv, Types
  <2> QED
    BY <1>1, <2>1 DEF Phases
<1>3. ASSUME NEW t \in AllTasks
      PROVE  /\ copy[t] = NoCopy => todo'[t] = <<>>
             /\ copy[t] # NoCopy => todo'[t] # <<>> /\ todo[t] # <<>> /\ Head(todo'[t]) = Head(todo[t]) /\ Writes(todo'[t])
             /\ Sound(todo'[t]) /\ \A i \in 1 .. Len(todo'[t]) : todo'[t][i][1] \in {"truncate", "put"}
  <2>1. Task(todo[t], copy[t], phase[t], serving)
    BY DEF ServerInv, Tasks
  <2>2. CASE copy[t] = NoCopy
    <3>1. todo'[t] = <<>>
      BY <1>1, <2>2
    <3> QED
      BY <2>2, <3>1, NothingIsWhole DEF Whole
  <2>3. CASE copy[t] # NoCopy
    <3>1. Sound(todo[t]) /\ Writes(todo[t])
      BY <2>1, <2>3 DEF Task
    <3>2. left(t) = SubSeq(todo[t], 1, IF Head(todo[t])[1] = "put" THEN 1 ELSE 2)
      BY DEF op
    <3>3. todo'[t] = left(t)
      BY <1>1, <2>3
    <3> HIDE DEF left
    <3>4. Writing(left(t)) /\ Head(left(t)) = Head(todo[t])
      BY <3>1, <3>2, LeftToWrite
    <3> QED
      BY <2>3, <3>1, <3>3, <3>4 DEF Writes, Writing
  <2> QED
    BY <2>2, <2>3
<1>4. \A t \in AllTasks : Task(todo'[t], copy'[t], phase'[t], serving')
  <2>1. ASSUME NEW t \in AllTasks
        PROVE  Task(todo'[t], copy'[t], phase'[t], serving')
    <3>1. copy'[t] # NoCopy <=> Writes(todo'[t])
      BY <1>1, <1>3 DEF Writes
    <3> QED
      BY <1>1, <1>2, <1>3, <3>1 DEF Task
  <2> QED
    BY <2>1
<1>5. Tasks'
  BY <1>4 DEF Tasks
<1>6. todo' \in [AllTasks -> Seq(Operation)]
  <2>1. \A t \in AllTasks : todo'[t] \in Seq(Operation)
    BY <1>3 DEF Sound
  <2> QED
    BY <1>1, <2>1
<1>7. /\ owner' \in [Locks -> AllTasks \cup {Nobody}] /\ queue' \in [Locks -> Seq(AllTasks)]
      /\ Owned' /\ Queued'
  BY <1>1, NothingQueued
<1>8. Types'
  BY <1>1, <1>2, <1>6, <1>7 DEF ServerInv, Types
<1>9. ASSUME NEW s \in Stores
      PROVE  Saved(s)'
  <2>1. \A t \in AllTasks : copy[t] # NoCopy => op(t)' = op(t)
    BY <1>3 DEF op
  <2>2. writing(s)' = writing(s) /\ \A t \in writing(s) : op(t)' = op(t)
    BY <1>1, <1>3, <2>1 DEF writing
  <2>3. Saved(s)
    BY DEF ServerInv
  <2> QED
    BY <1>1, <2>2, <2>3 DEF Saved
<1> QED
  BY <1>5, <1>7, <1>8, <1>9 DEF ServerInv

(* What the server knows when it starts again is what it finds on disk. *)
LEMMA Starting ==
  ASSUME ServerInv, starts, todo' = [t \in AllTasks |-> <<>>], phase' \in [AllTasks -> Phases],
         \A t \in AllTasks : phase'[t] # "running", excuse' \in [Stores -> SUBSET Excuses],
         \A s \in Stores : excuse'[s] = {} => excuse[s] = {} /\ writing(s) = {}
  PROVE  ServerInv'
<1>1. /\ data' = [s \in Stores |-> load(disk[s])] /\ copy' = [t \in AllTasks |-> NoCopy]
      /\ owing' = [s \in Stores |-> {}] /\ owner' = [l \in Locks |-> Nobody] /\ queue' = [l \in Locks |-> <<>>]
      /\ serving' = TRUE /\ disk' = disk
  BY DEF starts
<1>2. disk \in [Stores -> Entries \cup {Torn}]
  BY DEF ServerInv, Types
<1>3. \A s \in Stores : load(disk[s]) \in Entries /\ (disk[s] # Torn => load(disk[s]) = disk[s])
  <2>1. Fresh \in Entries
    BY DEF Fresh, Entries
  <2> QED
    BY <1>2, <2>1 DEF load
<1>4. todo' \in [AllTasks -> Seq(Operation)] /\ \A t \in AllTasks : todo'[t] = <<>> /\ copy'[t] = NoCopy
  <2>1. <<>> \in Seq(Operation)
    OBVIOUS
  <2> QED
    BY <1>1, <2>1
<1>5. /\ owner' \in [Locks -> AllTasks \cup {Nobody}] /\ queue' \in [Locks -> Seq(AllTasks)]
      /\ Owned' /\ Queued'
  BY <1>1, NothingQueued
<1>6. Types'
  <2>1. data' \in [Stores -> Entries]
    BY <1>1, <1>3
  <2>2. copy' \in [AllTasks -> Entries \cup {NoCopy}] /\ owing' \in [Stores -> SUBSET AllTasks]
    BY <1>1
  <2> QED
    BY <1>1, <1>2, <1>4, <1>5, <2>1, <2>2 DEF Types
<1>7. Tasks'
  <2>1. Task(<<>>, NoCopy, "running", TRUE) /\ Sound(<<>>) /\ ~Writes(<<>>)
    BY NothingIsWhole, WholeTask DEF Whole, Writes
  <2>2. \A ph : Task(<<>>, NoCopy, ph, TRUE)
    BY <2>1 DEF Task
  <2> QED
    BY <1>1, <1>4, <2>2 DEF Tasks
<1>8. ASSUME NEW s \in Stores
      PROVE  Saved(s)'
  <2>1. owing'[s] = {} /\ writing(s)' = {}
    BY <1>1, <1>4, Writers
  <2>2. excuse'[s] = {} => disk'[s] # Torn /\ disk'[s] = data'[s]
    BY <1>1, <1>3 DEF ServerInv, Saved
  <2> QED
    BY <2>1, <2>2 DEF Saved
<1> QED
  BY <1>5, <1>6, <1>7, <1>8 DEF ServerInv

LEMMA RestartsKeeps == ServerInv /\ restarts => ServerInv'
<1> SUFFICES ASSUME ServerInv, restarts
             PROVE  ServerInv'
  OBVIOUS
<1>1. /\ ~serving /\ \A t \in AllTasks : todo[t] = <<>>
      /\ starts /\ phase' = phase /\ todo' = todo /\ excuse' = excuse
  BY DEF restarts
<1>2. /\ phase \in [AllTasks -> Phases] /\ todo \in [AllTasks -> Seq(Operation)] /\ excuse \in [Stores -> SUBSET Excuses]
  BY DEF ServerInv, Types
<1>3. todo' = [t \in AllTasks |-> <<>>]
  BY <1>1, <1>2
<1>4. \A t \in AllTasks : phase[t] # "running"
  BY <1>1 DEF ServerInv, Tasks, Task
<1>5. \A s \in Stores : writing(s) = {}
  BY <1>1 DEF writing
<1> QED
  BY <1>1, <1>2, <1>3, <1>4, <1>5, Starting

LEMMA KilledKeeps == ServerInv /\ killed => ServerInv'
<1> SUFFICES ASSUME ServerInv, killed
             PROVE  ServerInv'
  OBVIOUS
<1>1. /\ starts
      /\ excuse' = [s \in Stores |-> IF writing(s) = {} THEN excuse[s] ELSE excuse[s] \cup {"killed"}]
      /\ phase' = [t \in AllTasks |-> IF phase[t] = "running" THEN "dropped" ELSE phase[t]]
      /\ todo' = [t \in AllTasks |-> <<>>]
  BY DEF killed
<1>2. /\ phase \in [AllTasks -> Phases] /\ excuse \in [Stores -> SUBSET Excuses]
  BY DEF ServerInv, Types
<1>4. phase' \in [AllTasks -> Phases] /\ \A t \in AllTasks : phase'[t] # "running"
  BY <1>1, <1>2 DEF Phases
<1>5. excuse' \in [Stores -> SUBSET Excuses]
  BY <1>1, <1>2 DEF Excuses
<1>6. \A s \in Stores : excuse'[s] = {} => excuse[s] = {} /\ writing(s) = {}
  BY <1>1
<1> QED
  BY <1>1, <1>4, <1>5, <1>6, Starting

LEMMA InitIsSound == Init => ServerInv
<1> SUFFICES ASSUME Init
             PROVE  ServerInv
  OBVIOUS
<1>1. /\ phase = [t \in AllTasks |-> "idle"] /\ todo = [t \in AllTasks |-> <<>>]
      /\ owner = [l \in Locks |-> Nobody] /\ queue = [l \in Locks |-> <<>>]
      /\ data = [s \in Stores |-> Fresh] /\ disk = [s \in Stores |-> Fresh]
      /\ copy = [t \in AllTasks |-> NoCopy]
      /\ owing = [s \in Stores |-> {}] /\ excuse = [s \in Stores |-> {}] /\ serving = TRUE
  BY DEF Init
<1>2. Fresh \in Entries /\ Fresh # Torn
  BY DEF Fresh, Entries, Torn
<1>3. /\ \A t \in AllTasks : todo[t] = <<>> /\ copy[t] = NoCopy
      /\ \A l \in Locks : owner[l] = Nobody /\ queue[l] = <<>>
  BY <1>1
<1>4. Types
  <2>1. <<>> \in Seq(Operation) /\ <<>> \in Seq(AllTasks) /\ "idle" \in Phases
    BY DEF Phases
  <2>2. phase \in [AllTasks -> Phases] /\ todo \in [AllTasks -> Seq(Operation)]
    BY <1>1, <2>1
  <2>3. owner \in [Locks -> AllTasks \cup {Nobody}] /\ queue \in [Locks -> Seq(AllTasks)]
    BY <1>1, <2>1
  <2>4. data \in [Stores -> Entries] /\ disk \in [Stores -> Entries \cup {Torn}]
    BY <1>1, <1>2
  <2>5. copy \in [AllTasks -> Entries \cup {NoCopy}]
    BY <1>1
  <2>6. owing \in [Stores -> SUBSET AllTasks] /\ excuse \in [Stores -> SUBSET Excuses]
    BY <1>1
  <2> QED
    BY <1>1, <2>2, <2>3, <2>4, <2>5, <2>6 DEF Types
<1>5. Tasks
  <2>1. Sound(<<>>) /\ ~Writes(<<>>)
    BY NothingIsWhole DEF Whole, Writes
  <2>2. \A ph : Task(<<>>, NoCopy, ph, TRUE)
    BY <2>1 DEF Task
  <2> QED
    BY <1>1, <1>3, <2>2 DEF Tasks
<1>6. Owned
  BY <1>3 DEF Owned
<1>7. Queued
  BY <1>3 DEF Queued
<1>8. ASSUME NEW s \in Stores
      PROVE  Saved(s)
  <2>1. owing[s] = {} /\ disk[s] = Fresh /\ data[s] = Fresh
    BY <1>1
  <2>2. writing(s) = {}
    BY <1>3 DEF writing
  <2> QED
    BY <1>2, <2>1, <2>2 DEF Saved
<1> QED
  BY <1>4, <1>5, <1>6, <1>7, <1>8 DEF ServerInv

LEMMA NextIsSound == ServerInv /\ [Next]_serverVars => ServerInv'
<1> SUFFICES ASSUME ServerInv, [Next]_serverVars
             PROVE  ServerInv'
  OBVIOUS
<1>1. ASSUME NEW t \in 1 .. NumTasks, reads(t)
      PROVE  ServerInv'
  BY <1>1, ReadsKeeps
<1>2. CASE dreams
  BY <1>2, DreamsKeeps
<1>3. CASE writes_stdout
  BY <1>3, WritesStdoutKeeps DEF writes_stdout
<1>4. CASE stdinEnds
  BY <1>4, StdinEndsKeeps
<1>5. CASE restarts
  BY <1>5, RestartsKeeps
<1>6. CASE killed
  BY <1>6, KilledKeeps
<1>7. ASSUME NEW t \in AllTasks, step(t)
      PROVE  ServerInv'
  <2>1. CASE waits(t)
    BY <2>1, WaitsKeeps
  <2>2. CASE uses(t)
    BY <2>2, UsesKeeps
  <2>3. CASE takes(t)
    BY <2>3, TakesKeeps
  <2>4. CASE gives(t)
    BY <2>4, GivesKeeps
  <2>5. CASE calls(t)
    BY <2>5, CallsKeeps
  <2>6. CASE chains(t)
    BY <2>6, ChainsKeeps
  <2>7. CASE panics(t)
    BY <2>7, PanicsKeeps
  <2>8. CASE changes(t)
    BY <2>8, ChangesKeeps
  <2>9. CASE snaps(t)
    BY <2>9, SnapsKeeps
  <2>10. CASE truncates(t)
    BY <2>10, TruncatesKeeps
  <2>11. CASE puts(t)
    BY <2>11, PutsKeeps
  <2>12. CASE answers(t)
    BY <2>12, AnswersKeeps
  <2> QED
    BY <1>7, <2>1, <2>2, <2>3, <2>4, <2>5, <2>6, <2>7, <2>8, <2>9, <2>10, <2>11, <2>12 DEF step
<1>8. ASSUME NEW t \in AllTasks, writeFails(t)
      PROVE  ServerInv'
  BY <1>8, FailsKeeps
<1>9. CASE UNCHANGED serverVars
  BY <1>9, WritesStdoutKeeps DEF serverVars, lockVars, storeVars
<1> QED
  BY <1>1, <1>2, <1>3, <1>4, <1>5, <1>6, <1>7, <1>8, <1>9 DEF Next

(* Whatever is running beside it, the server's state is sound. *)
LEMMA ServerIsSound == MCSpec => []ServerInv
<1>1. MCInit => ServerInv
  BY InitIsSound DEF MCInit
<1>2. ServerInv /\ [MCNext]_<<active, serverVars, governanceVars>> => ServerInv'
  <2>1. [MCNext]_<<active, serverVars, governanceVars>> => [Next]_serverVars
    BY DEF MCNext
  <2> QED
    BY <2>1, NextIsSound
<1> QED
  BY <1>1, <1>2, PTL DEF MCSpec

(* For any number of requests at once, and chains of tools of any length, no
   circle of tasks waits for each other's locks: who holds one across an await
   needs none that another holds until it is given back
   (dispatch.rs:123-456, tools_learning.rs:84-184). *)
THEOREM HandlersNeverDeadlock == MCSpec => []NoCircularWait
  BY ServerIsSound, NobodyStuck, PTL

(* For any number of requests at once and any capacity of the memory, what the
   server remembers is on disk as soon as nobody owes a save, except after two
   saves that overlapped, a write that failed or was killed, or a prune
   (memory_persist.rs:57, auth.rs:131, tools_learning.rs:165). *)
THEOREM MemoryIsSaved == MCSpec => []SavedUnlessRaced
  BY ServerIsSound, Loaded, PTL
=============================================================================
