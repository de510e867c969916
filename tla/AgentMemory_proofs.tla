------------------------- MODULE AgentMemory_proofs -------------------------
(* What the agent remembers and the doors it goes through: ActiveLearning and
   TraumaRegistry, the lock they share and the gateway to external APIs, for any
   number of tasks and calls. *)
EXTENDS MC_AgentMemory, FiniteSetTheorems, SequenceTheorems, TLAPS

(* ActiveLearning *)

JobShape == job = [step |-> job.step, force |-> job.force, data |-> job.data]

(* A snapshot on its way holds the value of every state not updated behind it;
   a delta holds that of every marked state. *)
JobCovers ==
  /\ job.step = "write" => \A s \in States \ raced : job.data[s] = q[s]
  /\ job.step = "append" =>
       /\ \A s \in States \ raced : s \in DOMAIN job.data => job.data[s] = q[s]
       /\ dirty \subseteq DOMAIN job.data \union raced

Domains ==
  /\ DOMAIN q = States
  /\ raced \subseteq States /\ dirty \subseteq States

MarksInv == JobShape /\ Domains /\ JobCovers /\ Learning!MarksLostOnlyByRace

LEMMA MarksInit == Learning!Init => MarksInv
BY DEF Learning!Init, MarksInv, JobShape, Domains, JobCovers, Learning!MarksLostOnlyByRace, Learning!Idle

LEMMA MarksStep == MarksInv /\ [Learning!Next]_Learning!vars => MarksInv'
<1> SUFFICES ASSUME MarksInv, [Learning!Next]_Learning!vars PROVE MarksInv'
  OBVIOUS
<1> USE DEF MarksInv, JobShape, Domains, JobCovers, Learning!MarksLostOnlyByRace
<1>1. ASSUME NEW s \in States, Learning!learnFromOutcome(s) PROVE MarksInv'
  <2>1. CASE job.step \in {"write", "append"}
    <3>1. job' = job /\ raced' = raced \union {s}
      BY <1>1, <2>1 DEF Learning!learnFromOutcome, Learning!flushAutoSave, Learning!Idle
    <3>2. last' = last /\ dirty' = dirty \union {s}
      BY <1>1 DEF Learning!learnFromOutcome
    <3>3. DOMAIN q' = States /\ \A u \in States \ {s} : q'[u] = q[u]
      BY <1>1 DEF Learning!learnFromOutcome
    <3> QED BY <3>1, <3>2, <3>3
  <2>2. CASE job.step \notin {"write", "append"}
    <3>1. job'.step \notin {"write", "append"} /\ JobShape'
      BY <1>1, <2>2 DEF Learning!learnFromOutcome, Learning!flushAutoSave, Learning!Idle
    <3>2. last' = last /\ dirty' = dirty \union {s} /\ raced' = raced \ {s}
      BY <1>1, <2>2 DEF Learning!learnFromOutcome
    <3>3. DOMAIN q' = States /\ \A u \in States \ {s} : q'[u] = q[u]
      BY <1>1 DEF Learning!learnFromOutcome
    <3> QED BY <3>1, <3>2, <3>3
  <2> QED BY <2>1, <2>2
<1>2. CASE Learning!saveTimerFires
  BY <1>2 DEF Learning!saveTimerFires, Learning!flushAutoSave, Learning!Idle
<1>3. CASE Learning!flush
  BY <1>3 DEF Learning!flush, Learning!flushAutoSave, Learning!Idle
<1>4. CASE Learning!choose
  <2>1. CASE job' = [job EXCEPT !.step = "snapshot"] /\ UNCHANGED <<dirty, pending>>
    BY <1>4, <2>1 DEF Learning!choose
  <2>2. CASE /\ job' = [job EXCEPT !.step = "append", !.data = [s \in dirty |-> q[s]]]
             /\ UNCHANGED <<dirty, pending>>
    BY <1>4, <2>2 DEF Learning!choose
  <2>3. CASE dirty = {} /\ Learning!saved
    BY <1>4, <2>3 DEF Learning!choose, Learning!saved, Learning!Idle
  <2> QED BY <1>4, <2>1, <2>2, <2>3 DEF Learning!choose
<1>5. CASE Learning!stringify
  BY <1>5 DEF Learning!stringify
<1>6. CASE Learning!snapshotWritten
  <2>1. \A s \in States \ raced : last'[s] = q[s]
    BY <1>6 DEF Learning!snapshotWritten
  <2> QED BY <1>6, <2>1 DEF Learning!snapshotWritten, Learning!saved, Learning!Idle
<1>7. CASE Learning!deltaWritten
  <2>1. \A s \in States \ raced : last'[s] = q[s]
    BY <1>7 DEF Learning!deltaWritten
  <2> QED BY <1>7, <2>1 DEF Learning!deltaWritten, Learning!saved, Learning!Idle
<1>8. CASE Learning!saveFails
  BY <1>8 DEF Learning!saveFails, Learning!Idle
<1>9. CASE Learning!crash
  BY <1>9 DEF Learning!crash, Learning!loadFromDisk, Learning!Idle
<1>10. CASE UNCHANGED Learning!vars
  BY <1>10 DEF Learning!vars
<1> QED BY <1>1, <1>2, <1>3, <1>4, <1>5, <1>6, <1>7, <1>8, <1>9, <1>10 DEF Learning!Next

(* In the composition the learning agent makes steps of its own, or none. *)
LEMMA LearningSteps == [MCNext]_MCVars => [Learning!Next]_Learning!vars
BY DEF MCNext, MCVars, learningVars, Learning!vars

(* Whatever fails, a value that is neither saved nor loaded is marked for the
   next save, unless it was learnt behind a running write. *)
THEOREM Marks == MCSpec => []MarksLostOnlyByRace
<1>1. MCInit => MarksInv
  BY MarksInit DEF MCInit
<1>2. MarksInv /\ [MCNext]_MCVars => MarksInv'
  BY MarksStep, LearningSteps
<1>3. MarksInv => MarksLostOnlyByRace
  BY DEF MarksInv, MarksLostOnlyByRace
<1> QED BY <1>1, <1>2, <1>3, PTL DEF MCSpec

-----------------------------------------------------------------------------
(* TraumaRegistry *)

(* What has to inhibit is in the Rust registry, or it was loaded, and then it
   stays in the map: nothing is loaded a second time. *)
DueIsKept ==
  \A c \in Contexts :
    due[c] # 0 => (rust[c] = due[c] \/ (persistence = "ready" /\ records[c] = due[c]))

Hits == [Contexts -> Nat]

HitsOK ==
  /\ records \in Hits /\ rust \in Hits /\ saved \in Hits /\ due \in Hits /\ file \in Hits
  /\ traumas \in Nat
  /\ recent \subseteq Nat \ {0}
  /\ inFlight # <<>> => inFlight[1] \in Hits

DueInv == HitsOK /\ DueIsKept

LEMMA DueInit == Registry!Init => DueInv
BY DEF Registry!Init, Registry!NoHits, DueInv, HitsOK, DueIsKept, Hits

LEMMA DueStep == DueInv /\ [Registry!Next]_Registry!vars => DueInv'
<1> SUFFICES ASSUME DueInv, [Registry!Next]_Registry!vars PROVE DueInv'
  OBVIOUS
<1> USE DEF DueInv, HitsOK, DueIsKept, Hits
<1>1. CASE Registry!initPersistence
  BY <1>1 DEF Registry!initPersistence
<1>2. CASE Registry!loaded
  <2>1. \A c \in Contexts : due'[c] = IF due[c] = 0 /\ saved # Registry!NoHits THEN saved[c] ELSE due[c]
    BY <1>2 DEF Registry!loaded
  <2>2. records' = IF saved = Registry!NoHits THEN records ELSE saved
    BY <1>2 DEF Registry!loaded
  <2>3. persistence = "loading" /\ persistence' = "ready" /\ rust' = rust
    BY <1>2 DEF Registry!loaded
  <2>4. DueIsKept'
    <3>1. CASE saved = Registry!NoHits
      BY <2>1, <2>2, <2>3, <3>1
    <3>2. CASE saved # Registry!NoHits
      <4> SUFFICES ASSUME NEW c \in Contexts, due'[c] # 0
                   PROVE rust'[c] = due'[c] \/ (persistence' = "ready" /\ records'[c] = due'[c])
        OBVIOUS
      <4>1. CASE due[c] = 0
        BY <2>1, <2>2, <2>3, <3>2, <4>1
      <4>2. CASE due[c] # 0
        BY <2>1, <2>2, <2>3, <3>2, <4>2
      <4> QED BY <4>1, <4>2
    <3> QED BY <3>1, <3>2
  <2>5. HitsOK'
    BY <1>2, <2>2 DEF Registry!loaded, Registry!NoHits
  <2> QED BY <2>4, <2>5
<1>3. ASSUME NEW c \in Contexts, Registry!recordTrauma(c) PROVE DueInv'
  <2>1. /\ records' = [records EXCEPT ![c] = traumas + 1]
        /\ rust' = [rust EXCEPT ![c] = traumas + 1]
        /\ due' = [due EXCEPT ![c] = traumas + 1]
        /\ traumas' = traumas + 1 /\ recent' = recent \union {traumas + 1}
        /\ UNCHANGED <<persistence, saved, inFlight, file>>
    BY <1>3 DEF Registry!recordTrauma
  <2>2. HitsOK'
    BY <2>1
  <2>3. DueIsKept'
    BY <2>1
  <2> QED BY <2>2, <2>3
<1>4. ASSUME NEW c \in Contexts, Registry!heal(c) PROVE DueInv'
  BY <1>4 DEF Registry!heal
<1>5. CASE Registry!timerFires \/ Registry!flush
  <2>1. UNCHANGED <<records, rust, recent, persistence, saved, file, traumas, due>>
    BY <1>5 DEF Registry!timerFires, Registry!flush
  <2>2. inFlight' = inFlight \/ inFlight' = <<records>>
    BY <1>5 DEF Registry!timerFires, Registry!flush, Registry!persistNow
  <2>3. inFlight' # <<>> => inFlight'[1] \in Hits
    BY <2>2
  <2>4. HitsOK'
    BY <2>1, <2>3
  <2>5. DueIsKept'
    BY <2>1
  <2> QED BY <2>4, <2>5
<1>6. CASE Registry!saveDone
  BY <1>6 DEF Registry!saveDone
<1>7. CASE Registry!saveFails
  BY <1>7 DEF Registry!saveFails
<1>8. CASE Registry!hourEnds
  BY <1>8 DEF Registry!hourEnds
<1>9. CASE Registry!crash
  BY <1>9 DEF Registry!crash, Registry!NoHits
<1>10. CASE UNCHANGED Registry!vars
  BY <1>10 DEF Registry!vars
<1> QED BY <1>1, <1>2, <1>3, <1>4, <1>5, <1>6, <1>7, <1>8, <1>9, <1>10 DEF Registry!Next

(* In the composition the registry makes steps of its own, or none. *)
LEMMA RegistrySteps == [MCNext]_MCVars => [Registry!Next]_Registry!vars
BY DEF MCNext, MCVars, registryVars, Registry!vars

(* A trauma inhibits its action for its first hour unless it is healed, whatever
   a load or a restart does to the two registries. *)
THEOREM Inhibits == MCSpec => []InhibitionHolds
<1>1. MCInit => DueInv
  BY DueInit DEF MCInit
<1>2. DueInv /\ [MCNext]_MCVars => DueInv'
  BY DueStep, RegistrySteps
<1>3. DueInv => InhibitionHolds
  BY DEF DueInv, HitsOK, DueIsKept, InhibitionHolds, Registry!InhibitionHolds,
         Registry!isInhibited, Registry!Inhibiting
<1> QED BY <1>1, <1>2, <1>3, PTL DEF MCSpec

-----------------------------------------------------------------------------
(* The delta log.  Only an interrupted append spoils a line: at once, or when
   the entry it left without a newline is continued, and that it can do once
   (Owed). *)
Bad(s) == {i \in 1 .. Len(s) : ~s[i].ok}
Owed(s, cut) == IF cut /\ s[Len(s)].ok THEN 1 ELSE 0

Lines(s) ==
  /\ \E S : s \in Seq(S)
  /\ \A i \in 1 .. Len(s) : s[i].ok \in BOOLEAN /\ s[i].acked \in {0, 1}

Legible(s, cut, m) ==
  /\ Lines(s) /\ cut \in BOOLEAN /\ m \in Nat
  /\ cut => Len(s) > 0 /\ s[Len(s)].acked = 0
  /\ Cardinality(Bad(s)) + Owed(s, cut) <= m

LEMMA BadIsFinite ==
  ASSUME NEW s, Lines(s)
  PROVE  Len(s) \in Nat /\ IsFiniteSet(Bad(s)) /\ Cardinality(Bad(s)) \in Nat
<1>1. PICK S : s \in Seq(S)
  BY DEF Lines
<1>2. Len(s) \in Nat
  BY <1>1
<1>3. IsFiniteSet(1 .. Len(s)) /\ Bad(s) \subseteq 1 .. Len(s)
  BY <1>2, FS_Interval DEF Bad
<1> QED
  BY <1>2, <1>3, FS_Subset, FS_CardinalityType

LEMMA EmptyLegible ==
  ASSUME NEW m \in Nat
  PROVE  Legible(<<>>, FALSE, m)
<1>1. Lines(<<>>)
  <2>1. <<>> \in Seq({})
    OBVIOUS
  <2> QED
    BY <2>1 DEF Lines
<1>2. Bad(<<>>) = {}
  BY DEF Bad
<1> QED
  BY <1>1, <1>2, FS_EmptySet DEF Legible, Owed

(* What an append makes of mishaps m, with n of them so far. *)
Fits(ok, acked, cut, m, n) ==
  /\ ok \in BOOLEAN /\ acked \in {0, 1} /\ cut \in BOOLEAN /\ n \in Nat
  /\ cut => acked = 0
  /\ n >= m /\ ((ok /\ ~cut) \/ n = m + 1)

(* A line that follows another. *)
LEMMA LineAdded ==
  ASSUME NEW s, NEW m, Legible(s, FALSE, m), NEW line, NEW cut, NEW n, Fits(line.ok, line.acked, cut, m, n)
  PROVE  Legible(Append(s, line), cut, n)
<1>0. /\ line.ok \in BOOLEAN /\ line.acked \in {0, 1} /\ cut \in BOOLEAN /\ n \in Nat
      /\ cut => line.acked = 0
      /\ n >= m /\ ((line.ok /\ ~cut) \/ n = m + 1)
  BY DEF Fits, Legible
<1> DEFINE t == Append(s, line)
           k == Len(s) + 1
<1>1. PICK S : s \in Seq(S)
  BY DEF Legible, Lines
<1>2. /\ t \in Seq(S \union {line}) /\ Len(t) = k /\ Len(s) \in Nat /\ t[k] = line
      /\ \A i \in 1 .. Len(s) : t[i] = s[i]
  BY <1>1
<1> HIDE DEF t
<1>3. \A i \in 1 .. Len(t) : i \in 1 .. Len(s) \/ i = k
  BY <1>2
<1>4. Lines(t)
  BY <1>0, <1>2, <1>3 DEF Legible, Lines
<1>5. Bad(t) = IF line.ok THEN Bad(s) ELSE Bad(s) \union {k}
  BY <1>2, <1>3 DEF Bad
<1>6. k \notin Bad(s) /\ IsFiniteSet(Bad(s)) /\ Cardinality(Bad(s)) \in Nat /\ Cardinality(Bad(s)) <= m /\ m \in Nat
  <2>1. Lines(s) /\ m \in Nat /\ Cardinality(Bad(s)) + 0 <= m
    BY DEF Legible, Owed
  <2>2. k \notin 1 .. Len(s)
    BY <1>2
  <2> QED
    BY <2>1, <2>2, BadIsFinite DEF Bad
<1>7. Cardinality(Bad(t)) = Cardinality(Bad(s)) + (IF line.ok THEN 0 ELSE 1)
  <2>1. CASE line.ok
    BY <1>5, <1>6, <2>1
  <2>2. CASE ~line.ok
    <3>1. Cardinality(Bad(s) \union {k}) = Cardinality(Bad(s)) + 1
      BY <1>6, FS_AddElement
    <3> QED
      BY <1>5, <2>2, <3>1
  <2> QED
    BY <2>1, <2>2
<1>8. Owed(t, cut) = IF cut /\ line.ok THEN 1 ELSE 0
  BY <1>2 DEF Owed
<1>9. Cardinality(Bad(t)) + Owed(t, cut) <= n
  BY <1>0, <1>6, <1>7, <1>8
<1> QED
  BY <1>0, <1>2, <1>4, <1>9 DEF Legible, t

(* One that continues an unfinished line: neither can be read. *)
LEMMA LineContinued ==
  ASSUME NEW s, NEW m, Legible(s, TRUE, m), NEW line, line.ok = FALSE, line.acked \in {0, 1},
         NEW cut \in BOOLEAN, cut => line.acked = 0, NEW n \in Nat, n >= m
  PROVE  Legible(Append(Learning!Front(s), line), cut, n)
<1> DEFINE f == Learning!Front(s)
           t == Append(f, line)
           k == Len(s)
<1>1. PICK S : s \in Seq(S)
  BY DEF Legible, Lines
<1>2. k \in Nat /\ k > 0
  BY <1>1 DEF Legible
<1>3. f \in Seq(S) /\ Len(f) = k - 1 /\ \A i \in 1 .. k - 1 : f[i] = s[i]
  <2>1. f = SubSeq(s, 1, Len(s) - 1)
    BY DEF Learning!Front
  <2>2. ASSUME NEW h \in Nat, h <= Len(s)
        PROVE  SubSeq(s, 1, h) \in Seq(S) /\ Len(SubSeq(s, 1, h)) = h /\ \A i \in 1 .. h : SubSeq(s, 1, h)[i] = s[i]
    <3>1. 1 .. h \subseteq 1 .. Len(s)
      BY <1>2, <2>2
    <3>2. SubSeq(s, 1, h) \in Seq(S)
      BY <1>1, <2>2, <3>1
    <3>3. Len(SubSeq(s, 1, h)) = h
      BY <1>1, <2>2
    <3>4. \A i \in 1 .. h : SubSeq(s, 1, h)[i] = s[i]
      BY <1>1, <2>2
    <3> QED
      BY <3>2, <3>3, <3>4
  <2>3. Len(s) - 1 \in Nat /\ Len(s) - 1 <= Len(s)
    BY <1>2
  <2> QED
    BY <2>1, <2>2, <2>3
<1> HIDE DEF f
<1>4. /\ t \in Seq(S \union {line}) /\ Len(t) = k /\ t[k] = line
      /\ \A i \in 1 .. k - 1 : t[i] = s[i]
  BY <1>2, <1>3
<1> HIDE DEF t
<1>5. \A i \in 1 .. Len(t) : (i \in 1 .. k - 1 /\ i \in 1 .. Len(s)) \/ i = k
  BY <1>2, <1>4
<1>6. Lines(t)
  BY <1>4, <1>5 DEF Legible, Lines
<1>7. Bad(t) = Bad(s) \union {k}
  <2>1. \A i \in 1 .. k - 1 : i # k
    BY <1>2
  <2>2. \A i \in 1 .. Len(s) : i \in 1 .. k - 1 \/ i = k
    BY <1>2
  <2> QED
    BY <1>2, <1>4, <1>5, <2>1, <2>2 DEF Bad
<1>8. IsFiniteSet(Bad(s)) /\ Cardinality(Bad(s)) \in Nat /\ m \in Nat
  BY BadIsFinite DEF Legible
<1>9. Cardinality(Bad(t)) <= m
  <2>1. CASE s[k].ok
    <3>1. k \notin Bad(s)
      BY <2>1 DEF Bad
    <3>2. Cardinality(Bad(t)) = Cardinality(Bad(s)) + 1
      BY <1>7, <1>8, <3>1, FS_AddElement
    <3>3. Cardinality(Bad(s)) + 1 <= m
      BY <2>1 DEF Legible, Owed
    <3> QED
      BY <3>2, <3>3
  <2>2. CASE ~s[k].ok
    <3>1. k \in Bad(s)
      BY <1>2, <2>2 DEF Bad
    <3>2. Bad(t) = Bad(s)
      BY <1>7, <3>1
    <3>3. Cardinality(Bad(s)) <= m
      BY <1>8, <2>2 DEF Legible, Owed
    <3> QED
      BY <3>2, <3>3
  <2> QED
    BY <2>1, <2>2
<1>10. Owed(t, cut) = 0 /\ Cardinality(Bad(t)) \in Nat
  BY <1>4, <1>6, BadIsFinite DEF Owed
<1>11. Cardinality(Bad(t)) + Owed(t, cut) <= n
  BY <1>8, <1>9, <1>10
<1> QED
  BY <1>2, <1>4, <1>6, <1>11 DEF Legible, t, f

(* A log after an append, and after one that was cut off. *)
LogOK(log, m) == Legible(log.lines, log.cut, m)

LEMMA RotatedOK ==
  ASSUME NEW log, NEW m, LogOK(log, m)
  PROVE  LogOK(Learning!Rotated(log), m)
<1>1. LogOK(Learning!EmptyLog, m)
  BY EmptyLegible DEF LogOK, Legible, Learning!EmptyLog
<1> QED
  BY <1>1 DEF Learning!Rotated

Written(log, d, ok, acked, cut) ==
  [lines |-> Learning!Continued(log, [data |-> d, ok |-> ok, acked |-> acked]), cut |-> cut]

LEMMA WrittenOK ==
  ASSUME NEW log, NEW m, LogOK(log, m), NEW d, NEW ok, NEW acked, NEW cut, NEW n,
         Fits(ok, acked, cut, m, n)
  PROVE  LogOK(Written(log, d, ok, acked, cut), n)
<1> DEFINE line == [data |-> d, ok |-> ok, acked |-> acked]
           s == Learning!Continued(log, line)
<1>0. Written(log, d, ok, acked, cut).lines = s /\ Written(log, d, ok, acked, cut).cut = cut
  BY DEF Written
<1>1. CASE log.cut
  <2> DEFINE x == [data |-> <<>>, ok |-> FALSE, acked |-> Learning!Last(log.lines).acked + line.acked]
  <2>1. s = Append(Learning!Front(log.lines), x)
    BY <1>1 DEF Learning!Continued
  <2>2. Learning!Last(log.lines).acked = 0 /\ Legible(log.lines, TRUE, m)
    BY <1>1 DEF LogOK, Legible, Learning!Last
  <2>3. x.ok = FALSE /\ x.acked \in {0, 1} /\ cut \in BOOLEAN /\ (cut => x.acked = 0) /\ n \in Nat /\ n >= m
    BY <2>2 DEF Fits, LogOK, Legible
  <2> HIDE DEF x, s
  <2>4. Legible(Append(Learning!Front(log.lines), x), cut, n)
    BY <2>2, <2>3, LineContinued
  <2> QED
    BY <1>0, <2>1, <2>4 DEF LogOK
<1>2. CASE ~log.cut
  <2>1. s = Append(log.lines, line)
    BY <1>2 DEF Learning!Continued
  <2>2. Legible(log.lines, FALSE, m)
    BY <1>2 DEF LogOK, Legible
  <2>3. Fits(line.ok, line.acked, cut, m, n)
    OBVIOUS
  <2> HIDE DEF line, s
  <2>4. Legible(Append(log.lines, line), cut, n)
    BY <2>2, <2>3, LineAdded
  <2> QED
    BY <1>0, <2>1, <2>4 DEF LogOK
<1> QED
  BY <1>1, <1>2 DEF LogOK, Legible

LEMMA AppendOK ==
  ASSUME NEW log, NEW m, LogOK(log, m), NEW entry
  PROVE  LogOK(Learning!append(log, entry), m)
<1>1. m \in Nat /\ LogOK(Learning!Rotated(log), m)
  BY RotatedOK DEF LogOK, Legible
<1>2. LogOK(Written(Learning!Rotated(log), entry, TRUE, 1, FALSE), m)
  <2>1. Fits(TRUE, 1, FALSE, m, m)
    BY <1>1 DEF Fits
  <2> QED
    BY <1>1, <2>1, WrittenOK
<1> QED
  BY <1>2 DEF Learning!append, Written

LEMMA TornOK ==
  ASSUME NEW log, NEW m, LogOK(log, m), NEW entry, NEW torn \in Learning!Torn(log, entry)
  PROVE  LogOK(torn, m + 1)
<1>1. m \in Nat /\ LogOK(Learning!Rotated(log), m)
  BY RotatedOK DEF LogOK, Legible
<1>2. ASSUME NEW l, LogOK(l, m) PROVE LogOK(l, m + 1)
  <2>1. Cardinality(Bad(l.lines)) + Owed(l.lines, l.cut) \in Int
    BY <1>2, BadIsFinite DEF LogOK, Legible, Owed
  <2> QED
    BY <1>1, <1>2, <2>1 DEF LogOK, Legible
<1>3. ASSUME NEW d, NEW cut \in BOOLEAN PROVE LogOK(Learning!Remainder(log, d, cut), m + 1)
  <2>1. (d # <<>>) \in BOOLEAN
    OBVIOUS
  <2> DEFINE ok == d # <<>>
  <2> HIDE DEF ok
  <2>2. LogOK(Written(Learning!Rotated(log), d, ok, 0, cut), m + 1)
    <3>1. Fits(ok, 0, cut, m, m + 1)
      BY <1>1, <2>1 DEF ok, Fits
    <3> QED
      BY <1>1, <3>1, WrittenOK
  <2> QED
    BY <2>2 DEF Learning!Remainder, Written, ok
<1> QED
  BY <1>1, <1>2, <1>3 DEF Learning!Torn

DeltasInv == LogOK(deltas, mishaps)

LEMMA DeltasNext ==
  ASSUME LogOK(deltas', mishaps')
  PROVE  DeltasInv'
  BY DEF DeltasInv, LogOK, Legible, Lines, Bad, Owed

LEMMA DeltasKeep ==
  ASSUME DeltasInv, [Learning!Next]_Learning!vars
  PROVE  DeltasInv'
<1>1. CASE UNCHANGED <<deltas, mishaps>>
  <2>1. LogOK(deltas', mishaps')
    BY <1>1 DEF DeltasInv
  <2> QED
    BY <2>1, DeltasNext
<1>2. CASE Learning!deltaWritten
  <2>1. LogOK(deltas', mishaps')
    BY <1>2, AppendOK DEF Learning!deltaWritten, DeltasInv
  <2> QED
    BY <2>1, DeltasNext
<1>3. CASE mishaps' = mishaps + 1 /\ deltas' \in Learning!Remains
  <2>1. LogOK(deltas, mishaps + 1)
    <3>1. deltas \in Learning!Torn(deltas, <<>>)
      BY DEF Learning!Torn
    <3> QED
      BY <3>1, TornOK DEF DeltasInv
  <2>2. LogOK(deltas', mishaps')
    BY <1>3, <2>1, TornOK DEF Learning!Remains, DeltasInv
  <2> QED
    BY <2>2, DeltasNext
<1>4. \A s \in States : Learning!learnFromOutcome(s) => UNCHANGED <<deltas, mishaps>>
  BY DEF Learning!learnFromOutcome
<1>5. Learning!saveTimerFires \/ Learning!flush \/ Learning!choose \/ Learning!stringify \/ Learning!snapshotWritten
        \/ UNCHANGED Learning!vars => UNCHANGED <<deltas, mishaps>>
  BY DEF Learning!saveTimerFires, Learning!flush, Learning!choose, Learning!stringify, Learning!snapshotWritten, Learning!vars
<1>6. Learning!saveFails \/ Learning!crash => mishaps' = mishaps + 1 /\ deltas' \in Learning!Remains
  BY DEF Learning!saveFails, Learning!crash
<1> QED
  BY <1>1, <1>2, <1>3, <1>4, <1>5, <1>6 DEF Learning!Next

LEMMA LearningCardinality == \A T : Learning!Cardinality(T) = Cardinality(T)
  BY DEF Learning!Cardinality, Cardinality

(* A quiet registry.  Every change arms the timer or is missed, and what a save
   misses is noted when it is started. *)
RegistrySaved == persistence = "ready" /\ ~armed /\ ~missed => Registry!Stored = records

LEMMA RegistryKeeps ==
  ASSUME RegistrySaved, [Registry!Next]_Registry!vars
  PROVE  RegistrySaved'
<1> USE DEF RegistrySaved, Registry!Stored
<1>1. CASE Registry!initPersistence
  BY <1>1 DEF Registry!initPersistence
<1>2. CASE Registry!loaded
  BY <1>2 DEF Registry!loaded
<1>3. ASSUME NEW c \in Contexts, Registry!recordTrauma(c) PROVE RegistrySaved'
  BY <1>3 DEF Registry!recordTrauma, Registry!schedulePersist
<1>4. ASSUME NEW c \in Contexts, Registry!heal(c) PROVE RegistrySaved'
  BY <1>4 DEF Registry!heal, Registry!schedulePersist
<1>5. CASE Registry!timerFires \/ Registry!flush
  <2>1. UNCHANGED <<records, persistence, file>>
    BY <1>5 DEF Registry!timerFires, Registry!flush
  <2>2. Registry!persistNow
    BY <1>5 DEF Registry!timerFires, Registry!flush
  <2>3. CASE persistence = "none"
    BY <2>1, <2>3
  <2>4. CASE persistence # "none" /\ inFlight = <<>>
    <3>1. inFlight' = <<records>> /\ inFlight' # <<>> /\ inFlight'[1] = records
      BY <2>2, <2>4 DEF Registry!persistNow
    <3> QED
      BY <2>1, <3>1
  <2>5. CASE persistence # "none" /\ inFlight # <<>>
    <3>1. inFlight' = inFlight /\ (~missed' => inFlight = <<records>>)
      BY <2>2, <2>5 DEF Registry!persistNow
    <3> QED
      BY <2>1, <2>5, <3>1
  <2> QED
    BY <2>3, <2>4, <2>5
<1>6. CASE Registry!saveDone
  BY <1>6 DEF Registry!saveDone
<1>7. CASE Registry!saveFails
  BY <1>7 DEF Registry!saveFails
<1>8. CASE Registry!hourEnds
  BY <1>8 DEF Registry!hourEnds
<1>9. CASE Registry!crash
  BY <1>9 DEF Registry!crash
<1>10. CASE UNCHANGED Registry!vars
  BY <1>10 DEF Registry!vars
<1> QED
  BY <1>1, <1>2, <1>3, <1>4, <1>5, <1>6, <1>7, <1>8, <1>9, <1>10 DEF Registry!Next

(* However often appends are torn, each costs at most one acknowledged entry of
   the delta log; and a registry that is quiet is saved, but for the races and
   faults it names (AppendOnlyAdapter.ts, TraumaRegistry.ts). *)
THEOREM FilesStayUp == MCSpec => []FilesKeepUp
<1>1. MCInit => DeltasInv /\ RegistrySaved
  <2>1. MCInit => deltas = [lines |-> <<>>, cut |-> FALSE] /\ mishaps = 0 /\ persistence = "none"
    BY DEF MCInit, Learning!Init, Learning!EmptyLog, Registry!Init
  <2>2. ASSUME MCInit PROVE DeltasInv
    <3>1. deltas.lines = <<>> /\ deltas.cut = FALSE /\ mishaps = 0
      BY <2>1, <2>2
    <3>2. Legible(<<>>, FALSE, 0)
      BY EmptyLegible
    <3> QED
      BY <3>1, <3>2 DEF DeltasInv, LogOK
  <2> QED
    BY <2>1, <2>2 DEF RegistrySaved
<1>2. DeltasInv /\ RegistrySaved /\ [MCNext]_MCVars => DeltasInv' /\ RegistrySaved'
  BY LearningSteps, RegistrySteps, DeltasKeep, RegistryKeeps
<1>3. DeltasInv /\ RegistrySaved => FilesKeepUp
  <2>1. ASSUME DeltasInv PROVE Learning!OneEntryPerTear
    <3>1. Learning!Spoilt(deltas) = Bad(deltas.lines)
      BY DEF Learning!Spoilt, Bad
    <3>2. Cardinality(Bad(deltas.lines)) <= mishaps
      BY <2>1, BadIsFinite DEF DeltasInv, LogOK, Legible, Owed
    <3>3. \A i \in Bad(deltas.lines) : deltas.lines[i].acked <= 1
      BY <2>1 DEF DeltasInv, LogOK, Legible, Lines, Bad
    <3> QED
      BY <3>1, <3>2, <3>3, LearningCardinality DEF Learning!OneEntryPerTear
  <2>2. RegistrySaved => Registry!QuietMeansSaved
    BY DEF RegistrySaved, Registry!QuietMeansSaved, Registry!Stored
  <2> QED
    BY <2>1, <2>2 DEF FilesKeepUp
<1> QED
  BY <1>1, <1>2, <1>3, PTL DEF MCSpec

-----------------------------------------------------------------------------
(* AsyncLock.  The queue is exactly the waiting tasks, each once, so the task a
   release hands the lock to is waiting and is nobody else; one task holds the
   lock while it is locked; and a free lock has an empty queue. *)

InSeq(x, s) == \E i \in 1 .. Len(s) : s[i] = x
NoRepeats(s) == \A i, j \in 1 .. Len(s) : s[i] = s[j] => i = j

OneHolder == locked => \E t \in Tasks : Lock!Holds(t) /\ \A u \in Tasks : Lock!Holds(u) => u = t
FreeMeansNone == ~locked => queue = <<>> /\ \A t \in Tasks : ~Lock!Holds(t)
WaitersQueued == \A t \in Tasks : phase[t] = "waiting" <=> InSeq(t, queue)

LockInv == Lock!TypeOK /\ OneHolder /\ FreeMeansNone /\ WaitersQueued /\ NoRepeats(queue)

-----------------------------------------------------------------------------
(* The three ways the queue changes. *)

LEMMA Appended ==
  ASSUME NEW S, NEW s \in Seq(S), NEW x \in S, ~InSeq(x, s), NoRepeats(s)
  PROVE  /\ Append(s, x) \in Seq(S)
         /\ \A y : InSeq(y, Append(s, x)) <=> y = x \/ InSeq(y, s)
         /\ NoRepeats(Append(s, x))
BY DEF InSeq, NoRepeats

LEMMA HeadTaken ==
  ASSUME NEW S, NEW s \in Seq(S), s # <<>>, NoRepeats(s)
  PROVE  /\ Tail(s) \in Seq(S)
         /\ Head(s) \in S
         /\ InSeq(Head(s), s)
         /\ \A y : InSeq(y, Tail(s)) <=> y # Head(s) /\ InSeq(y, s)
         /\ NoRepeats(Tail(s))
<1>1. Len(s) \in Nat \ {0} /\ Head(s) = s[1] /\ Len(Tail(s)) = Len(s) - 1
  OBVIOUS
<1>2. \A i \in 1 .. Len(Tail(s)) : Tail(s)[i] = s[i + 1]
  OBVIOUS
<1>3. \A y : InSeq(y, Tail(s)) => y # Head(s) /\ InSeq(y, s)
  BY <1>1, <1>2 DEF InSeq, NoRepeats
<1>4. ASSUME NEW y, y # Head(s), InSeq(y, s)  PROVE InSeq(y, Tail(s))
  <2>1. PICK i \in 1 .. Len(s) : s[i] = y
    BY <1>4 DEF InSeq
  <2>2. i - 1 \in 1 .. Len(Tail(s)) /\ Tail(s)[i - 1] = y
    BY <1>1, <1>2, <1>4, <2>1
  <2> QED BY <2>2 DEF InSeq
<1>5. NoRepeats(Tail(s))
  BY <1>1, <1>2 DEF NoRepeats
<1>6. InSeq(Head(s), s) /\ Head(s) \in S /\ Tail(s) \in Seq(S)
  BY <1>1 DEF InSeq
<1> QED BY <1>3, <1>4, <1>5, <1>6

LEMMA OneRemoved ==
  ASSUME NEW S, NEW s \in Seq(S), NEW k \in 1 .. Len(s), NoRepeats(s)
  PROVE  /\ Lock!RemoveAt(s, k) \in Seq(S)
         /\ \A y : InSeq(y, Lock!RemoveAt(s, k)) <=> y # s[k] /\ InSeq(y, s)
         /\ NoRepeats(Lock!RemoveAt(s, k))
<1> DEFINE r == Lock!RemoveAt(s, k)
<1> DEFINE before == SubSeq(s, 1, k - 1)
           after  == SubSeq(s, k + 1, Len(s))
<1>a. /\ before \in Seq(S) /\ Len(before) = k - 1
      /\ \A i \in 1 .. k - 1 : before[i] = s[i]
  OBVIOUS
<1>b. /\ after \in Seq(S) /\ Len(after) = Len(s) - k
      /\ \A i \in 1 .. Len(s) - k : after[i] = s[i + k]
  OBVIOUS
<1> HIDE DEF before, after
<1>c. r = before \o after
  BY DEF Lock!RemoveAt, before, after
<1>1. r \in Seq(S) /\ Len(r) = Len(s) - 1
  BY <1>a, <1>b, <1>c
<1>2. \A i \in 1 .. Len(r) : r[i] = IF i < k THEN s[i] ELSE s[i + 1]
  <2> SUFFICES ASSUME NEW i \in 1 .. Len(r)
               PROVE  r[i] = IF i < k THEN s[i] ELSE s[i + 1]
    OBVIOUS
  <2>1. CASE i < k
    BY <1>a, <1>b, <1>c, <1>1, <2>1
  <2>2. CASE i >= k
    <3>1. i - (k - 1) \in 1 .. Len(s) - k /\ r[i] = after[i - (k - 1)]
      BY <1>a, <1>b, <1>c, <1>1, <2>2
    <3> QED BY <1>b, <3>1, <2>2
  <2> QED BY <1>1, <2>1, <2>2
<1> HIDE DEF r
<1>3. ASSUME NEW y, InSeq(y, r)  PROVE y # s[k] /\ InSeq(y, s)
  <2>1. PICK i \in 1 .. Len(r) : r[i] = y
    BY <1>3 DEF InSeq
  <2>2. CASE i < k
    BY <1>1, <1>2, <2>1, <2>2 DEF InSeq, NoRepeats
  <2>3. CASE i >= k
    <3>1. i + 1 \in 1 .. Len(s) /\ s[i + 1] = y /\ i + 1 # k
      BY <1>1, <1>2, <2>1, <2>3
    <3> QED BY <3>1 DEF InSeq, NoRepeats
  <2> QED BY <1>1, <2>2, <2>3
<1>4. ASSUME NEW y, y # s[k], InSeq(y, s)  PROVE InSeq(y, r)
  <2>1. PICK i \in 1 .. Len(s) : s[i] = y
    BY <1>4 DEF InSeq
  <2>2. CASE i < k
    <3>1. i \in 1 .. Len(r) /\ r[i] = y
      BY <1>1, <1>2, <2>1, <2>2
    <3> QED BY <3>1 DEF InSeq
  <2>3. CASE i > k
    <3>1. i - 1 \in 1 .. Len(r) /\ r[i - 1] = y
      BY <1>1, <1>2, <2>1, <2>3
    <3> QED BY <3>1 DEF InSeq
  <2> QED BY <1>4, <2>1, <2>2, <2>3
<1>5. NoRepeats(r)
  <2> SUFFICES ASSUME NEW i \in 1 .. Len(r), NEW j \in 1 .. Len(r), r[i] = r[j]
               PROVE  i = j
    BY DEF NoRepeats
  <2> DEFINE up(n) == IF n < k THEN n ELSE n + 1
  <2>1. up(i) \in 1 .. Len(s) /\ up(j) \in 1 .. Len(s) /\ s[up(i)] = s[up(j)]
    BY <1>1, <1>2
  <2>2. up(i) = up(j)
    BY <2>1 DEF NoRepeats
  <2> QED BY <2>2, <1>1
<1> QED BY <1>1, <1>3, <1>4, <1>5 DEF r

-----------------------------------------------------------------------------
(* The inductive invariant. *)

LEMMA LockInitInv == Lock!Init => LockInv
<1> SUFFICES ASSUME Lock!Init  PROVE LockInv
  OBVIOUS
<1>1. Lock!TypeOK
  BY EmptySeq DEF Lock!Init, Lock!TypeOK
<1>2. OneHolder /\ FreeMeansNone
  BY DEF Lock!Init, OneHolder, FreeMeansNone, Lock!Holds
<1>3. WaitersQueued /\ NoRepeats(queue)
  BY DEF Lock!Init, WaitersQueued, InSeq, NoRepeats
<1> QED BY <1>1, <1>2, <1>3 DEF LockInv

(* A task that is not waiting is not in the queue. *)
LEMMA AcquireKeeps ==
  ASSUME LockInv, NEW t \in Tasks, Lock!acquire(t)
  PROVE  LockInv'
<1> USE DEF LockInv, Lock!TypeOK
<1>1. CASE locked
  <2>1. /\ queue' = Append(queue, t) /\ locked' = locked
        /\ phase' = [phase EXCEPT ![t] = "waiting"] /\ phase[t] = "out"
    BY <1>1 DEF Lock!acquire
  <2>2. ~InSeq(t, queue)
    BY <2>1 DEF WaitersQueued
  <2>3. /\ queue' \in Seq(Tasks) /\ NoRepeats(queue')
        /\ \A y : InSeq(y, queue') <=> y = t \/ InSeq(y, queue)
    BY <2>1, <2>2, Appended
  <2>4. Lock!TypeOK'
    BY <2>1, <2>3
  <2>5. \A u \in Tasks : Lock!Holds(u)' <=> Lock!Holds(u)
    BY <2>1 DEF Lock!Holds
  <2>6. OneHolder' /\ FreeMeansNone'
    BY <2>1, <2>5, <1>1 DEF OneHolder, FreeMeansNone
  <2>7. WaitersQueued'
    <3> SUFFICES ASSUME NEW u \in Tasks  PROVE phase'[u] = "waiting" <=> InSeq(u, queue')
      BY DEF WaitersQueued, InSeq
    <3> QED BY <2>1, <2>3 DEF WaitersQueued
  <2>8. NoRepeats(queue)'
    BY <2>3 DEF NoRepeats
  <2> QED BY <2>4, <2>6, <2>7, <2>8
<1>2. CASE ~locked
  <2>1. /\ locked' = TRUE /\ queue' = queue /\ queue = <<>>
        /\ phase' = [phase EXCEPT ![t] = "granted"]
    BY <1>2 DEF Lock!acquire, FreeMeansNone
  <2>2. \A u \in Tasks : Lock!Holds(u)' <=> u = t
    BY <1>2, <2>1 DEF Lock!Holds, FreeMeansNone
  <2>3. Lock!TypeOK' /\ OneHolder' /\ FreeMeansNone'
    BY <2>1, <2>2 DEF OneHolder, FreeMeansNone
  <2>4. WaitersQueued' /\ NoRepeats(queue)'
    BY <1>2, <2>1 DEF WaitersQueued, InSeq, NoRepeats, Lock!acquire
  <2> QED BY <2>3, <2>4
<1> QED BY <1>1, <1>2

LEMMA EnterKeeps ==
  ASSUME LockInv, NEW t \in Tasks, Lock!enter(t)
  PROVE  LockInv'
<1> USE DEF LockInv, Lock!TypeOK, Lock!enter
<1>1. \A u \in Tasks : Lock!Holds(u)' <=> Lock!Holds(u)
  BY DEF Lock!Holds
<1>2. Lock!TypeOK' /\ OneHolder' /\ FreeMeansNone'
  BY <1>1 DEF OneHolder, FreeMeansNone
<1>3. WaitersQueued' /\ NoRepeats(queue)'
  BY DEF WaitersQueued, InSeq, NoRepeats
<1> QED BY <1>2, <1>3

LEMMA TimeoutKeeps ==
  ASSUME LockInv, NEW t \in Tasks, Lock!timeout(t)
  PROVE  LockInv'
<1> USE DEF LockInv, Lock!TypeOK
<1>1. PICK k \in 1 .. Len(queue) : queue[k] = t /\ queue' = Lock!RemoveAt(queue, k)
  BY DEF Lock!timeout
<1>2. /\ phase' = [phase EXCEPT ![t] = "out"] /\ locked' = locked /\ phase[t] = "waiting"
  BY DEF Lock!timeout
<1>3. /\ queue' \in Seq(Tasks) /\ NoRepeats(queue')
      /\ \A y : InSeq(y, queue') <=> y # t /\ InSeq(y, queue)
  BY <1>1, OneRemoved
<1>4. \A u \in Tasks : Lock!Holds(u)' <=> Lock!Holds(u)
  BY <1>2 DEF Lock!Holds
<1>5. Lock!TypeOK'
  BY <1>2, <1>3
<1>6. locked
  BY <1>1 DEF FreeMeansNone
<1>7. OneHolder' /\ FreeMeansNone'
  BY <1>2, <1>4, <1>6 DEF OneHolder, FreeMeansNone
<1>8. WaitersQueued'
  <2> SUFFICES ASSUME NEW u \in Tasks  PROVE phase'[u] = "waiting" <=> InSeq(u, queue')
    BY DEF WaitersQueued, InSeq
  <2> QED BY <1>2, <1>3 DEF WaitersQueued
<1>9. NoRepeats(queue)'
  BY <1>3 DEF NoRepeats
<1> QED BY <1>5, <1>7, <1>8, <1>9

(* The hand-off: the head of the queue is waiting, so it is not t. *)
LEMMA ReleaseKeeps ==
  ASSUME LockInv, NEW t \in Tasks, Lock!release(t)
  PROVE  LockInv'
<1> USE DEF LockInv, Lock!TypeOK
<1>1. phase[t] = "running" /\ locked
  BY DEF Lock!release, FreeMeansNone, Lock!Holds
<1>2. \A u \in Tasks : Lock!Holds(u) => u = t
  BY <1>1 DEF OneHolder, Lock!Holds
<1>3. CASE queue = <<>>
  <2>1. /\ locked' = FALSE /\ queue' = queue /\ phase' = [phase EXCEPT ![t] = "out"]
    BY <1>3 DEF Lock!release, Lock!handoff
  <2>2. \A u \in Tasks : ~Lock!Holds(u)'
    BY <1>2, <2>1 DEF Lock!Holds
  <2>3. Lock!TypeOK' /\ OneHolder' /\ FreeMeansNone'
    BY <1>3, <2>1, <2>2 DEF OneHolder, FreeMeansNone
  <2>4. WaitersQueued' /\ NoRepeats(queue)'
    BY <1>1, <2>1 DEF WaitersQueued, InSeq, NoRepeats
  <2> QED BY <2>3, <2>4
<1>4. CASE queue # <<>>
  <2> DEFINE h == Head(queue)
  <2>1. /\ locked' = locked /\ queue' = Tail(queue)
        /\ phase' = [phase EXCEPT ![t] = "out", ![h] = "granted"]
    BY <1>4 DEF Lock!release, Lock!handoff
  <2>2. /\ queue' \in Seq(Tasks) /\ h \in Tasks /\ InSeq(h, queue) /\ NoRepeats(queue')
        /\ \A y : InSeq(y, queue') <=> y # h /\ InSeq(y, queue)
    BY <1>4, <2>1, HeadTaken
  <2> HIDE DEF h
  <2>3. phase[h] = "waiting" /\ h # t
    BY <1>1, <2>2 DEF WaitersQueued
  <2>4. \A u \in Tasks : phase'[u] = IF u = t THEN "out" ELSE IF u = h THEN "granted" ELSE phase[u]
    BY <2>1, <2>2, <2>3
  <2>5. \A u \in Tasks : Lock!Holds(u)' <=> u = h
    BY <1>2, <2>3, <2>4 DEF Lock!Holds
  <2>6. Lock!TypeOK'
    BY <2>1, <2>2
  <2>7. OneHolder' /\ FreeMeansNone'
    BY <1>1, <2>1, <2>2, <2>5 DEF OneHolder, FreeMeansNone
  <2>8. WaitersQueued'
    <3> SUFFICES ASSUME NEW u \in Tasks  PROVE phase'[u] = "waiting" <=> InSeq(u, queue')
      BY DEF WaitersQueued, InSeq
    <3> QED BY <1>1, <2>2, <2>3, <2>4 DEF WaitersQueued
  <2>9. NoRepeats(queue)'
    BY <2>2 DEF NoRepeats
  <2> QED BY <2>6, <2>7, <2>8, <2>9
<1> QED BY <1>3, <1>4

LEMMA LockStepKeeps == LockInv /\ [Lock!Next]_Lock!vars => LockInv'
<1> SUFFICES ASSUME LockInv, [Lock!Next]_Lock!vars  PROVE LockInv'
  OBVIOUS
<1>1. ASSUME NEW t \in Tasks, Lock!run(t)  PROVE LockInv'
  BY <1>1, AcquireKeeps, EnterKeeps, TimeoutKeeps, ReleaseKeeps DEF Lock!run
<1>2. CASE UNCHANGED Lock!vars
  BY <1>2 DEF Lock!vars, LockInv, Lock!TypeOK, OneHolder, FreeMeansNone, WaitersQueued, InSeq, NoRepeats, Lock!Holds
<1> QED BY <1>1, <1>2 DEF Lock!Next

(* In the composition the lock makes steps of its own, or none. *)
LEMMA LockSteps == [MCNext]_MCVars => [Lock!Next]_Lock!vars
BY DEF MCNext, MCVars, lockVars, Lock!vars

LEMMA LockInvariance == MCSpec => []LockInv
<1>1. MCInit => LockInv
  BY LockInitInv DEF MCInit
<1>2. LockInv /\ [MCNext]_MCVars => LockInv'
  BY LockStepKeeps, LockSteps
<1> QED BY <1>1, <1>2, PTL DEF MCSpec

-----------------------------------------------------------------------------
(* The theorems. *)

(* At most one task holds the lock, granted or running, it is locked exactly
   while a task holds it, and nobody waits for a free lock; no hand-off is lost,
   whatever timers fire beside it, and the queue is the waiting tasks, each
   once. *)
THEOREM LockSafe == MCSpec => []LockSound
<1>1. LockInv => Lock!MutualExclusion
  BY DEF LockInv, OneHolder, FreeMeansNone, Lock!MutualExclusion, Lock!TypeOK
<1>2. LockInv => Lock!NeverStuck
  BY DEF LockInv, OneHolder, FreeMeansNone, Lock!NeverStuck, Lock!TypeOK
<1>3. LockInv => Lock!QueueIsWaiters
  BY DEF LockInv, WaitersQueued, InSeq, NoRepeats, Lock!QueueIsWaiters
<1>4. LockInv => LockSound
  BY <1>1, <1>2, <1>3 DEF LockSound, Lock!LockSound
<1> QED BY <1>4, LockInvariance, PTL

(* Waiters are served in the order in which they queued up. *)
THEOREM Fifo == MCSpec => FirstComeFirstServed
<1> DEFINE Step == \A i, j \in 1 .. Len(queue) :
                     (i < j /\ phase'[queue[j]] = "granted") => phase'[queue[i]] # "waiting"
<1>1. LockInv /\ [Lock!Next]_Lock!vars => [Step]_Lock!vars
  <2> SUFFICES ASSUME LockInv, Lock!Next, NEW i \in 1 .. Len(queue), NEW j \in 1 .. Len(queue),
                      i < j, phase'[queue[j]] = "granted"
               PROVE  FALSE
    OBVIOUS
  <2>1. /\ queue \in Seq(Tasks) /\ phase \in [Tasks -> {"out", "waiting", "granted", "running"}]
        /\ queue[i] \in Tasks /\ queue[j] \in Tasks /\ queue # <<>>
    BY DEF LockInv, Lock!TypeOK
  <2>2. phase[queue[j]] = "waiting" /\ locked
    BY <2>1 DEF LockInv, WaitersQueued, InSeq, FreeMeansNone
  <2>3. PICK t \in Tasks : Lock!run(t)
    BY DEF Lock!Next
  <2>4. ~Lock!acquire(t) /\ ~Lock!enter(t) /\ ~Lock!timeout(t)
    BY <2>1, <2>2 DEF Lock!acquire, Lock!enter, Lock!timeout
  <2>5. Lock!release(t)
    BY <2>3, <2>4 DEF Lock!run
  <2>6. Head(queue) = queue[1] /\ 1 \in 1 .. Len(queue)
    BY <2>1
  <2>7. phase' = [phase EXCEPT ![t] = "out", ![queue[1]] = "granted"]
    BY <2>1, <2>5, <2>6 DEF Lock!release, Lock!handoff
  <2>8. queue[j] # queue[1]
    <3>1. j # 1
      OBVIOUS
    <3> QED BY <2>6, <3>1 DEF LockInv, NoRepeats
  <2> QED BY <2>1, <2>2, <2>7, <2>8
<1> QED BY <1>1, LockSteps, LockInvariance, PTL DEF MCSpec, FirstComeFirstServed, Lock!FirstComeFirstServed

-----------------------------------------------------------------------------
(* The circuit of ExternalAPIGateway, for any number of calls, any threshold and
   any bucket: it counts only failures that overlap, and therefore never opens
   for callers that are fewer than the threshold. *)

CircuitTyping ==
  /\ stage \in [Requests -> {"idle", "waiting", "calling"}]
  /\ failures \in Nat
  /\ open_for \in 0 .. OpenDuration

CircuitInv == CircuitTyping /\ CountsOverlapOnly

(* The calls in flight are finitely many, and no more than there are slots. *)
LEMMA InFlightSize ==
  /\ IsFiniteSet(InFlight)
  /\ Cardinality(InFlight) \in Nat
  /\ Cardinality(Requests) \in Nat
  /\ Cardinality(InFlight) <= Cardinality(Requests)
<1>1. InFlight \subseteq Requests
  BY DEF InFlight
<1> QED BY <1>1, FS_Subset, FS_CardinalityType, ApiAssumption

(* The same of the next state. *)
LEMMA InFlightSizeNext ==
  /\ Cardinality(InFlight') \in Nat
  /\ Cardinality(InFlight') <= Cardinality(Requests)
<1>1. InFlight' \subseteq Requests
  BY DEF InFlight
<1> QED BY <1>1, FS_Subset, FS_CardinalityType, ApiAssumption

LEMMA CircuitInitInv == Init => CircuitInv
<1> SUFFICES ASSUME Init  PROVE CircuitInv
  OBVIOUS
<1>1. CircuitTyping
  BY ApiAssumption DEF Init, CircuitTyping
<1>2. CountsOverlapOnly
  BY InFlightSize DEF Init, CountsOverlapOnly
<1> QED BY <1>1, <1>2 DEF CircuitInv

(* A call that is let in starts the count again. *)
LEMMA StartKeeps ==
  ASSUME CircuitInv, NEW r \in Requests, Start(r)
  PROVE  CircuitInv' /\ open_for' = open_for
<1>1. /\ failures' = 0 /\ open_for' = open_for
      /\ stage' \in {[stage EXCEPT ![r] = "calling"], [stage EXCEPT ![r] = "waiting"]}
  BY DEF Start, isCircuitClosed, Take, Sleep
<1>2. CircuitTyping'
  BY <1>1 DEF CircuitInv, CircuitTyping
<1>3. CountsOverlapOnly'
  BY <1>1, InFlightSizeNext DEF CountsOverlapOnly
<1> QED BY <1>1, <1>2, <1>3 DEF CircuitInv

LEMMA WakeKeeps ==
  ASSUME CircuitInv, NEW r \in Requests, Wake(r)
  PROVE  CircuitInv' /\ open_for' = open_for
<1>1. /\ failures' = failures /\ open_for' = open_for
      /\ stage[r] = "waiting" /\ stage' = [stage EXCEPT ![r] = "calling"]
  BY DEF Wake, circuit
<1>2. CircuitTyping'
  BY <1>1 DEF CircuitInv, CircuitTyping
<1>3. InFlight' = InFlight
  BY <1>1 DEF CircuitInv, CircuitTyping, InFlight
<1>4. CountsOverlapOnly'
  BY <1>1, <1>3 DEF CircuitInv, CountsOverlapOnly
<1> QED BY <1>1, <1>2, <1>4 DEF CircuitInv

(* A call that returns leaves the calls in flight. *)
LEMMA ReturnLeaves ==
  ASSUME CircuitTyping, NEW r \in Requests, stage[r] = "calling", Return(r)
  PROVE  /\ stage' \in [Requests -> {"idle", "waiting", "calling"}]
         /\ Cardinality(InFlight') = Cardinality(InFlight) - 1
<1>1. stage' = [stage EXCEPT ![r] = "idle"]
  BY DEF Return
<1>2. InFlight' = InFlight \ {r} /\ r \in InFlight
  BY <1>1 DEF CircuitTyping, InFlight
<1>3. Cardinality(InFlight \ {r}) = Cardinality(InFlight) - 1
  BY <1>2, InFlightSize, FS_RemoveElement
<1> QED BY <1>1, <1>2, <1>3 DEF CircuitTyping

LEMMA SucceedsKeeps ==
  ASSUME CircuitInv, NEW r \in Requests, Succeeds(r)
  PROVE  CircuitInv' /\ open_for' = open_for
<1>1. /\ failures' = 0 /\ open_for' = open_for /\ Return(r) /\ stage[r] = "calling"
  BY DEF Succeeds, recordSuccess
<1>2. CircuitTyping'
  BY <1>1, ReturnLeaves DEF CircuitInv, CircuitTyping
<1>3. CountsOverlapOnly'
  BY <1>1, InFlightSizeNext DEF CountsOverlapOnly
<1> QED BY <1>1, <1>2, <1>3 DEF CircuitInv

(* One failure more, one call in flight less. *)
LEMMA FailureKeeps ==
  ASSUME CircuitInv, NEW r \in Requests, stage[r] = "calling", recordFailure, Return(r)
  PROVE  /\ CircuitInv'
         /\ Cardinality(Requests) < Threshold => open_for' = open_for
<1>1. /\ failures' = failures + 1
      /\ open_for' = IF failures + 1 >= Threshold THEN OpenDuration ELSE open_for
  BY DEF recordFailure
<1>2. /\ stage' \in [Requests -> {"idle", "waiting", "calling"}]
      /\ Cardinality(InFlight') = Cardinality(InFlight) - 1
  BY ReturnLeaves DEF CircuitInv
<1>3. CircuitTyping'
  BY <1>1, <1>2, ApiAssumption DEF CircuitInv, CircuitTyping
<1>4. CountsOverlapOnly'
  BY <1>1, <1>2, InFlightSize DEF CircuitInv, CircuitTyping, CountsOverlapOnly
<1>5. failures + 1 <= Cardinality(Requests)
  BY <1>1, <1>2, <1>4, InFlightSize, InFlightSizeNext DEF CircuitInv, CircuitTyping, CountsOverlapOnly
<1>6. Cardinality(Requests) < Threshold => open_for' = open_for
  BY <1>1, <1>5, InFlightSize, ApiAssumption DEF CircuitInv, CircuitTyping
<1> QED BY <1>3, <1>4, <1>6 DEF CircuitInv

LEMMA RetryKeeps ==
  ASSUME CircuitInv, UNCHANGED stage, UNCHANGED circuit
  PROVE  CircuitInv' /\ open_for' = open_for
BY DEF CircuitInv, CircuitTyping, CountsOverlapOnly, InFlight, circuit

LEMMA TickKeeps ==
  ASSUME CircuitInv, Tick
  PROVE  CircuitInv' /\ (open_for = 0 => open_for' = 0)
<1>1. /\ open_for' = IF open_for > 0 THEN open_for - 1 ELSE 0
      /\ failures' = failures /\ stage' = stage
  BY DEF Tick
<1>2. CircuitTyping'
  BY <1>1, ApiAssumption DEF CircuitInv, CircuitTyping
<1>3. CountsOverlapOnly'
  BY <1>1 DEF CircuitInv, CountsOverlapOnly, InFlight
<1> QED BY <1>1, <1>2, <1>3 DEF CircuitInv

LEMMA CircuitStepKeeps ==
  ASSUME CircuitInv, [Next]_vars
  PROVE  /\ CircuitInv'
         /\ (Cardinality(Requests) < Threshold /\ open_for = 0) => open_for' = 0
<1>1. ASSUME NEW r \in Requests, get_post(r)
      PROVE  CircuitInv' /\ (Cardinality(Requests) < Threshold => open_for' = open_for)
  <2>1. CASE Start(r)
    BY <2>1, StartKeeps
  <2>2. CASE Wake(r)
    BY <2>2, WakeKeeps
  <2>3. CASE Succeeds(r)
    BY <2>3, SucceedsKeeps
  <2>4. CASE ClientError(r)
    BY <2>4, FailureKeeps DEF ClientError
  <2>5. CASE Fails(r)
    <3>1. CASE attempt[r] + 1 < MaxAttempts(r)
      BY <2>5, <3>1, RetryKeeps DEF Fails
    <3>2. CASE ~(attempt[r] + 1 < MaxAttempts(r))
      BY <2>5, <3>2, FailureKeeps DEF Fails
    <3> QED BY <3>1, <3>2
  <2> QED BY <1>1, <2>1, <2>2, <2>3, <2>4, <2>5 DEF get_post
<1>2. CASE UNCHANGED vars
  BY <1>2, RetryKeeps DEF vars, circuit
<1>3. CASE Tick
  BY <1>3, TickKeeps
<1>4. CASE Exhausted
  BY <1>4, <1>2 DEF Exhausted
<1> QED BY <1>1, <1>2, <1>3, <1>4 DEF Next

LEMMA CircuitInvariance == Spec => []CircuitInv
<1>1. CircuitInv /\ [Next]_vars => CircuitInv'
  BY CircuitStepKeeps
<1> QED BY <1>1, CircuitInitInv, PTL DEF Spec

-----------------------------------------------------------------------------
(* The bucket.  Every step that lets a call through is paid by tokens that were
   there, by time that is booked as earned, or is a wait. *)

BucketTyping ==
  /\ tokens \in Nat /\ credit \in Nat
  /\ sent \in Nat /\ earned \in Nat /\ waited \in Nat

BInv == BucketTyping /\ BucketBooks

(* A refill adds no more than the time that passed is worth. *)
LEMMA RefillBounded ==
  ASSUME BucketTyping
  PROVE  /\ credit * Refill \in Nat
         /\ Refilled \in Nat /\ Refilled <= tokens + credit * Refill
<1>1. credit * Refill \in Nat
  BY ApiAssumption DEF BucketTyping
<1> QED BY <1>1, ApiAssumption DEF BucketTyping, Refilled, AtMost

(* One call more costs one price more. *)
LEMMA OneMore ==
  ASSUME NEW n \in Nat
  PROVE  /\ n * Price \in Nat
         /\ (n + 1) * Price = n * Price + Price
BY ApiAssumption

LEMMA TakeKeepsBooks ==
  ASSUME BInv, NEW r \in Requests, Take(r)
  PROVE  BInv'
<1>1. /\ Refilled >= Price /\ tokens' = Refilled - Price /\ credit' = 0
      /\ earned' = earned + credit * Refill /\ sent' = sent + 1 /\ waited' = waited
  BY DEF Take
<1>2. BucketTyping'
  BY <1>1, RefillBounded, ApiAssumption DEF BInv, BucketTyping
<1>3. sent' * Price = sent * Price + Price /\ sent * Price \in Nat /\ waited * Price \in Nat
  BY <1>1, OneMore DEF BInv, BucketTyping
<1>4. BucketBooks'
  BY <1>1, <1>3, RefillBounded, ApiAssumption DEF BInv, BucketTyping, BucketBooks
<1> QED BY <1>2, <1>4 DEF BInv

LEMMA SleepKeepsBooks ==
  ASSUME BInv, NEW r \in Requests, Sleep(r)
  PROVE  BInv'
<1>1. /\ tokens' = Refilled /\ credit' = 0
      /\ earned' = earned + credit * Refill /\ sent' = sent /\ waited' = waited
  BY DEF Sleep
<1>2. BucketTyping'
  BY <1>1, RefillBounded DEF BInv, BucketTyping
<1>3. sent * Price \in Nat /\ waited * Price \in Nat
  BY OneMore DEF BInv, BucketTyping
<1>4. BucketBooks'
  BY <1>1, <1>3, RefillBounded, ApiAssumption DEF BInv, BucketTyping, BucketBooks
<1> QED BY <1>2, <1>4 DEF BInv

LEMMA WakeKeepsBooks ==
  ASSUME BInv, NEW r \in Requests, Wake(r)
  PROVE  BInv'
<1>1. /\ tokens' = 0 /\ sent' = sent + 1 /\ waited' = waited + 1
      /\ credit' = credit /\ earned' = earned
  BY DEF Wake
<1>2. BucketTyping'
  BY <1>1 DEF BInv, BucketTyping
<1>3. /\ sent' * Price = sent * Price + Price /\ sent * Price \in Nat
      /\ waited' * Price = waited * Price + Price /\ waited * Price \in Nat
  BY <1>1, OneMore DEF BInv, BucketTyping
<1>4. BucketBooks'
  BY <1>1, <1>3, ApiAssumption DEF BInv, BucketTyping, BucketBooks
<1> QED BY <1>2, <1>4 DEF BInv

LEMMA BooksStep == BInv /\ [Next]_vars => BInv'
<1> SUFFICES ASSUME BInv, [Next]_vars  PROVE BInv'
  OBVIOUS
<1>1. ASSUME NEW r \in Requests, get_post(r)  PROVE BInv'
  <2>1. CASE Start(r)
    BY <2>1, TakeKeepsBooks, SleepKeepsBooks DEF Start
  <2>2. CASE Wake(r)
    BY <2>2, WakeKeepsBooks
  <2>3. CASE Succeeds(r) \/ ClientError(r) \/ Fails(r)
    BY <2>3 DEF Succeeds, ClientError, Fails, bucket, BInv, BucketTyping, BucketBooks
  <2> QED BY <1>1, <2>1, <2>2, <2>3 DEF get_post
<1>2. CASE UNCHANGED vars \/ Exhausted
  BY <1>2 DEF Exhausted, vars, BInv, BucketTyping, BucketBooks
<1>3. CASE Tick
  BY <1>3, ApiAssumption DEF Tick, AtMost, BInv, BucketTyping, BucketBooks
<1> QED BY <1>1, <1>2, <1>3 DEF Next

(* What the domain's circuit and bucket have on their books, for any number of
   calls, any burst and any rate. *)
THEOREM Books == Spec => []GatewayBooks
<1>1. Init => BInv
  BY ApiAssumption DEF Init, BInv, BucketTyping, BucketBooks
<1>2. CircuitInv /\ BInv => GatewayBooks
  BY DEF CircuitInv, BInv, GatewayBooks
<1> QED BY <1>1, <1>2, BooksStep, CircuitInvariance, PTL DEF Spec

-----------------------------------------------------------------------------
(* What the circuit counts never exceeds the calls that overlap. *)
THEOREM Overlap == Spec => []CountsOverlapOnly
<1>1. CircuitInv => CountsOverlapOnly
  BY DEF CircuitInv
<1> QED BY <1>1, CircuitInvariance, PTL

(* With fewer calls at a time than FAILURE_THRESHOLD the circuit stays closed,
   however many failures in a row the domain produced: "fail-fast after N
   consecutive errors" needs N callers at once. *)
THEOREM NeverOpensBelowThreshold ==
  ASSUME Cardinality(Requests) < Threshold
  PROVE  Spec => [](open_for = 0)
<1>1. Init => open_for = 0
  BY DEF Init
<1>2. CircuitInv /\ open_for = 0 /\ [Next]_vars => (open_for = 0)'
  BY CircuitStepKeeps
<1> QED BY <1>1, <1>2, CircuitInvariance, PTL DEF Spec
=============================================================================
