------------------------------ MODULE McpServer ------------------------------
(* crates/mcp-server: requests read from stdin, each a task of its own, the
   tokio locks their handlers take, and the two stores the handlers save.  A
   handler is the set of its possible programs; a step of a program is what runs
   between two awaits.  A lock taken and released within a step is `use'; only
   the locks held across an await are taken and given back.  Prompts, scores,
   the audit rows of the database and answers' contents are left out. *)
EXTENDS Integers, FiniteSets, Sequences

CONSTANTS NumTasks, Tools, PolicyTuner, MaxTools, OutCapacity, MaxMemories, DreamKeeps,  \* 100, 10 000 and 100 in the code
          MaxRequests, MaxMishaps   \* bounds: requests read; kills, ends of input and failed writes

ASSUME ServerAssumption == NumTasks \in Nat /\ MaxMemories \in Nat /\ DreamKeeps \in Nat

VARIABLES phase, todo,            \* per task
          owner, queue,           \* per lock
          data, disk, copy,       \* per store, per store, per task
          owing,                  \* per store: the tasks that changed it and have not saved it or ended
          excuse,                 \* per store: why it need not be what was saved last
          serving, out, requests, mishaps

serverVars == <<phase, todo, owner, queue, data, disk, copy, owing, excuse, serving, out, requests, mishaps>>
lockVars == <<owner, queue>>
storeVars == <<data, disk, copy, owing, excuse>>

Locks == {"users", "actor", "memories", "liquid_brain", "causal_brain", "thermo", "trauma",
          "tool_metrics", "dynamic_tools"}
Stores == {"memories", "users"}
Dreamer == 0            \* the background task of main
AllTasks == Dreamer..NumTasks
Nobody == -1
Torn == <<-1, 0>>       \* what does not parse
Fresh == <<0, 0>>       \* entries lo+1 .. hi
NoCopy == <<-2, 0>>

use(l) == <<"use", l>>
take(l) == <<"take", l>>
give(l) == <<"give", l>>
call(S) == <<"call", S \cap Tools>>

(* save_memories_to_disk, save_users_to_disk: a snapshot under the lock, the
   file without it; tokio::fs::write truncates first, the users' file is
   written beside and renamed. *)
save_memories == <<<<"snap", "memories">>, <<"truncate", "memories">>, <<"put", "memories">>>>
save_users == <<<<"snap", "users">>, <<"put", "users">>>>

record_tool_metric == <<use("tool_metrics")>>
effective_policy_thresholds == IF PolicyTuner THEN <<use("tool_metrics")>> ELSE <<>>
routing == <<use("thermo"), use("trauma"), use("tool_metrics")>> \o effective_policy_thresholds
route_action == {routing}
evaluate_ingress_policy == <<use("trauma"), use("tool_metrics")>> \o effective_policy_thresholds \o routing

recall_user == {<<use("users")>>}
sense_intent == {<<use("users"), use("actor")>> \o p \o <<use("liquid_brain"), use("thermo")>> :
                   p \in {<<>>, <<use("memories")>>}}
check_pattern == {<<use("trauma")>>}
simulate_response == {<<use("users"), use("trauma")>>}
\* Mutant: the memories stay locked while they are saved.
commit_pattern_holding ==
  {<<take("thermo"), <<"push", 1>>, take("memories")>> \o save_memories \o <<give("memories"), give("thermo")>>}

commit_pattern == {<<take("thermo"), <<"push", 1>>>> \o save_memories \o <<give("thermo")>>}
set_entropy == {<<use("thermo")>>}

\* Mutant: an outcome is remembered behind the save.
record_outcome_late == {<<use("trauma"), use("liquid_brain"), take("causal_brain")>> \o save_memories
                          \o <<<<"push", 2>>, give("causal_brain")>>}

record_outcome == {<<use("trauma"), use("liquid_brain"), take("causal_brain"), <<"push", 2>>>>
                     \o save_memories \o <<give("causal_brain")>>}
update_user == {<<<<"push_users", 1>>>> \o save_users}
dream_conversation == {<<take("thermo"), <<"prune", DreamKeeps>>, give("thermo")>>}
trigger_dream_sequence == {<<<<"dream", 0>>>> \o save_memories}

reason_chain == {<<use("tool_metrics"), use("trauma"), use("trauma"), use("thermo"), use("memories")>>}
recall_similar == {<<use("memories")>>}
memory_query == {<<use("memories")>>, <<use("memories"), use("causal_brain")>>}
compress_context == {<<>>, <<use("memories")>>}
orchestrate == {<<use("tool_metrics")>>}
tool_recommend == {<<use("tool_metrics"), use("tool_metrics")>>}
generated_tool_decision == {<<>>}    \* the database only
forge_tool == {<<>>, <<use("dynamic_tools")>>}
dynamic_tool == {<<use("dynamic_tools"), use("dynamic_tools")>> \o p : p \in {<<>>, <<<<"panic", 0>>>>}}

(* evaluate_subbrain_route_gate, and what becomes of one tool of a chain. *)
gate == routing \o record_tool_metric
inAutoList == {"recall_user", "sense_intent", "check_pattern", "simulate_response", "reason_chain",
               "recall_similar", "memory_query", "compress_context", "orchestrate"}
childEnds == [blocked |-> record_tool_metric,
              inhibited |-> <<take("trauma")>> \o record_tool_metric \o <<give("trauma")>>,
              unlisted |-> <<use("trauma")>> \o record_tool_metric,
              ok |-> <<use("trauma"), call(inAutoList)>> \o record_tool_metric,
              failed |-> <<use("trauma"), call(inAutoList)>> \o record_tool_metric \o <<use("trauma")>>]
(* The tools of a chain, one after the other, each as it turns out: so many
   were reached so far, so many executed, so many errors. *)
chain(tools, executed, errors) == <<"chain", <<tools, executed, errors>>>>
(* What follows the chain: executed tools are remembered, and the summary
   subtracts the errors, those of tools that never ran among them, from them. *)
chainEnds(executed, errors) ==
  (IF executed = 0 THEN <<>> ELSE <<<<"push_uncapped", 1>>>> \o save_memories)
  \o (IF executed > errors THEN <<use("causal_brain")>> ELSE <<>>)
  \o (IF errors > executed THEN <<<<"panic", 0>>>> ELSE <<>>)
subbrain_auto ==
  {<<call({"sense_intent"}), call({"tool_recommend"})>> \o gate \o planned \o <<chain(0, 0, 0)>> :
     planned \in {<<>>, <<use("tool_metrics")>>}}

Program ==
  [recall_user |-> recall_user, route_action |-> route_action, sense_intent |-> sense_intent,
   check_pattern |-> check_pattern, simulate_response |-> simulate_response,
   commit_pattern |-> commit_pattern, set_entropy |-> set_entropy, record_outcome |-> record_outcome,
   update_user |-> update_user, dream_conversation |-> dream_conversation, reason_chain |-> reason_chain,
   recall_similar |-> recall_similar, memory_query |-> memory_query, compress_context |-> compress_context,
   orchestrate |-> orchestrate, tool_recommend |-> tool_recommend,
   generated_tool_decision |-> generated_tool_decision, forge_tool |-> forge_tool,
   dynamic_tool |-> dynamic_tool, subbrain_auto |-> subbrain_auto]

(* run_stdio: a tools/call asks the ingress policy and is counted, executed or
   not; one that does not parse is counted; every other method is a tool's name;
   the resources take their locks one after the other. *)
tools_call == {record_tool_metric, evaluate_ingress_policy \o record_tool_metric,
               evaluate_ingress_policy \o <<call(DOMAIN Program)>> \o record_tool_metric}
read_resource == {<<use("memories"), use("users"), use("thermo")>>, <<use("memories")>>, <<use("tool_metrics")>>, <<>>}
request == tools_call \cup {<<call(DOMAIN Program)>>} \cup read_resource

Init ==
  /\ phase = [t \in AllTasks |-> "idle"] /\ todo = [t \in AllTasks |-> <<>>]
  /\ owner = [l \in Locks |-> Nobody] /\ queue = [l \in Locks |-> <<>>]
  /\ data = [s \in Stores |-> Fresh] /\ disk = [s \in Stores |-> Fresh]
  /\ copy = [t \in AllTasks |-> NoCopy]
  /\ owing = [s \in Stores |-> {}] /\ excuse = [s \in Stores |-> {}]
  /\ serving = TRUE /\ out = 0 /\ requests = 0 /\ mishaps = 0

reads(t) ==
  /\ serving /\ requests < MaxRequests /\ {n \in 1..t : phase[n] # "running"} = {t}
  /\ phase' = [phase EXCEPT ![t] = "running"] /\ requests' = requests + 1
  /\ \E p \in request : todo' = [todo EXCEPT ![t] = p]
  /\ UNCHANGED <<lockVars, storeVars, serving, out, mishaps>>

(* Five minutes without input: the timer does not ask whether tasks run. *)
dreams ==
  /\ serving /\ phase[Dreamer] # "running" /\ requests < MaxRequests
  /\ phase' = [phase EXCEPT ![Dreamer] = "running"] /\ requests' = requests + 1
  /\ \E p \in trigger_dream_sequence : todo' = [todo EXCEPT ![Dreamer] = p]
  /\ UNCHANGED <<lockVars, storeVars, serving, out, mishaps>>

op(t) == Head(todo[t])
next(t) == todo' = [todo EXCEPT ![t] = Tail(@)]
turn(t, l) == owner[l] = Nobody /\ Head(Append(queue[l], t)) = t
lockOf(t) ==
  CASE op(t)[1] \in {"use", "take"} -> op(t)[2]
    [] op(t)[1] \in {"push", "push_uncapped", "prune", "dream"} -> "memories"
    [] op(t)[1] = "push_users" -> "users"
    [] op(t)[1] = "snap" -> op(t)[2]
    [] OTHER -> "none"
unqueued(l) == [queue EXCEPT ![l] = IF @ = <<>> THEN @ ELSE Tail(@)]

(* tokio's RwLock is first come, first served. *)
waits(t) ==
  /\ todo[t] # <<>> /\ lockOf(t) # "none" /\ ~turn(t, lockOf(t))
  /\ \A i \in DOMAIN queue[lockOf(t)] : queue[lockOf(t)][i] # t
  /\ queue' = [queue EXCEPT ![lockOf(t)] = Append(@, t)]
  /\ UNCHANGED <<phase, todo, owner, storeVars, serving, out, requests, mishaps>>

(* A lock that is free does not make a task yield: it runs on through all of
   them. *)
freeRun(t) ==
  {n \in DOMAIN todo[t] : \A i \in 1..n : todo[t][i][1] = "use" /\ turn(t, todo[t][i][2])}
uses(t) ==
  /\ freeRun(t) # {} /\ todo' = [todo EXCEPT ![t] = SubSeq(@, Cardinality(freeRun(t)) + 1, Len(@))]
  /\ queue' = unqueued(op(t)[2])
  /\ UNCHANGED <<phase, owner, storeVars, serving, out, requests, mishaps>>

takes(t) ==
  /\ todo[t] # <<>> /\ op(t)[1] = "take" /\ turn(t, op(t)[2])
  /\ owner' = [owner EXCEPT ![op(t)[2]] = t] /\ queue' = unqueued(op(t)[2]) /\ next(t)
  /\ UNCHANGED <<phase, storeVars, serving, out, requests, mishaps>>

gives(t) ==
  /\ todo[t] # <<>> /\ op(t)[1] = "give"
  /\ owner' = [owner EXCEPT ![op(t)[2]] = Nobody] /\ next(t)
  /\ UNCHANGED <<phase, queue, storeVars, serving, out, requests, mishaps>>

calls(t) ==
  /\ todo[t] # <<>> /\ op(t)[1] = "call"
  /\ \E h \in op(t)[2] : \E p \in Program[h] : todo' = [todo EXCEPT ![t] = p \o Tail(@)]
  /\ UNCHANGED <<phase, lockVars, storeVars, serving, out, requests, mishaps>>

chains(t) ==
  LET tools == op(t)[2][1] executed == op(t)[2][2] errors == op(t)[2][3] IN
  /\ todo[t] # <<>> /\ op(t)[1] = "chain"
  /\ \/ \E e \in DOMAIN childEnds :
          /\ tools < MaxTools
          /\ todo' = [todo EXCEPT ![t] =
               gate \o childEnds[e]
                 \o <<chain(tools + 1, IF e \in {"ok", "failed"} THEN executed + 1 ELSE executed,
                            IF e = "ok" THEN errors ELSE errors + 1)>> \o Tail(@)]
     \/ todo' = [todo EXCEPT ![t] = chainEnds(executed, errors) \o Tail(@)]
  /\ UNCHANGED <<phase, lockVars, storeVars, serving, out, requests, mishaps>>

(* The guards of a task that panics are dropped; its request has no answer. *)
panics(t) ==
  /\ todo[t] # <<>> /\ op(t)[1] = "panic"
  /\ todo' = [todo EXCEPT ![t] = <<>>] /\ phase' = [phase EXCEPT ![t] = "panicked"]
  /\ owing' = [s \in Stores |-> owing[s] \ {t}]
  /\ UNCHANGED <<lockVars, data, disk, copy, excuse, serving, out, requests, mishaps>>

size(d) == IF d = Torn THEN 0 ELSE d[2] - d[1]
load(d) == IF d = Torn THEN Fresh ELSE d
keep(d, n) == <<IF size(d) > n THEN d[2] - n ELSE d[1], d[2]>>
pushed(d, n) == keep(<<d[1], d[2] + n>>, MaxMemories)

changes(t) ==
  LET s == lockOf(t) d == data[s] IN
  /\ todo[t] # <<>> /\ s \in Stores /\ op(t)[1] \notin {"use", "take", "snap"} /\ turn(t, s)
  /\ data' = [data EXCEPT ![s] =
       CASE op(t)[1] = "push" -> pushed(d, op(t)[2])
         [] op(t)[1] = "prune" -> keep(d, op(t)[2])
         [] op(t)[1] = "dream" -> d
         [] OTHER -> <<d[1], d[2] + op(t)[2]>>]
  /\ todo' = [todo EXCEPT ![t] =
       (IF op(t)[1] # "dream" THEN <<>>
        ELSE IF size(d) < 2 THEN <<use("memories")>> ELSE <<<<"push", 1>>>>) \o Tail(@)]
  /\ owing' = [owing EXCEPT ![s] = IF op(t)[1] \in {"prune", "dream"} THEN @ ELSE @ \cup {t}]
  /\ excuse' = [excuse EXCEPT ![s] = IF op(t)[1] = "prune" THEN @ \cup {"pruned"} ELSE @]
  /\ queue' = unqueued(s)
  /\ UNCHANGED <<phase, owner, disk, copy, serving, out, requests, mishaps>>

writing(s) == {t \in AllTasks : copy[t] # NoCopy /\ todo[t] # <<>> /\ op(t)[2] = s}

snaps(t) ==
  LET s == op(t)[2] IN
  /\ todo[t] # <<>> /\ op(t)[1] = "snap" /\ turn(t, s)
  /\ copy' = [copy EXCEPT ![t] = data[s]]
  /\ excuse' = [excuse EXCEPT ![s] = IF writing(s) = {} THEN {} ELSE @ \cup {"overlap"}]
  /\ queue' = unqueued(s) /\ next(t)
  /\ UNCHANGED <<phase, owner, data, disk, owing, serving, out, requests, mishaps>>

truncates(t) ==
  /\ todo[t] # <<>> /\ op(t)[1] = "truncate"
  /\ disk' = [disk EXCEPT !["memories"] = Torn] /\ next(t)
  /\ UNCHANGED <<phase, lockVars, data, copy, owing, excuse, serving, out, requests, mishaps>>

(* Both opened the file before one wrote: the longer text shows behind the
   shorter.  A rename replaces whatever is there. *)
puts(t) ==
  LET s == op(t)[2] IN
  /\ todo[t] # <<>> /\ op(t)[1] = "put"
  /\ disk' = [disk EXCEPT ![s] = IF s = "memories" /\ size(disk[s]) > size(copy[t]) THEN Torn ELSE copy[t]]
  /\ copy' = [copy EXCEPT ![t] = NoCopy] /\ owing' = [owing EXCEPT ![s] = @ \ {t}] /\ next(t)
  /\ UNCHANGED <<phase, lockVars, data, excuse, serving, out, requests, mishaps>>

mishap == mishaps < MaxMishaps /\ mishaps' = mishaps + 1

(* A failed write is only logged; what was truncated stays so. *)
writeFails(t) ==
  LET s == op(t)[2] IN
  /\ mishap /\ todo[t] # <<>> /\ op(t)[1] = "put"
  /\ copy' = [copy EXCEPT ![t] = NoCopy] /\ owing' = [owing EXCEPT ![s] = @ \ {t}]
  /\ excuse' = [excuse EXCEPT ![s] = @ \cup {"failed"}] /\ next(t)
  /\ UNCHANGED <<phase, lockVars, data, disk, serving, out, requests>>

answers(t) ==
  /\ phase[t] = "running" /\ todo[t] = <<>> /\ (t # Dreamer => out < OutCapacity)
  /\ phase' = [phase EXCEPT ![t] = "answered"] /\ out' = IF t = Dreamer THEN out ELSE out + 1
  /\ owing' = [s \in Stores |-> owing[s] \ {t}]
  /\ UNCHANGED <<todo, lockVars, data, disk, copy, excuse, serving, requests, mishaps>>

writes_stdout ==
  /\ serving /\ out > 0 /\ out' = out - 1
  /\ UNCHANGED <<phase, todo, lockVars, storeVars, serving, requests, mishaps>>

(* The end of input ends main: tasks are dropped at their await and answers in
   the channel with them; a blocking write that started runs to its end. *)
stdinEnds ==
  /\ mishap /\ serving /\ serving' = FALSE /\ out' = 0
  /\ phase' = [t \in AllTasks |-> IF phase[t] = "running" THEN "dropped" ELSE phase[t]]
  /\ todo' = [t \in AllTasks |-> IF copy[t] = NoCopy THEN <<>>
                                ELSE SubSeq(todo[t], 1, IF op(t)[1] = "put" THEN 1 ELSE 2)]
  /\ owner' = [l \in Locks |-> Nobody] /\ queue' = [l \in Locks |-> <<>>]
  /\ UNCHANGED <<storeVars, requests>>

starts ==
  /\ data' = [s \in Stores |-> load(disk[s])]
  /\ copy' = [t \in AllTasks |-> NoCopy] /\ owing' = [s \in Stores |-> {}] /\ out' = 0
  /\ owner' = [l \in Locks |-> Nobody] /\ queue' = [l \in Locks |-> <<>>]
  /\ serving' = TRUE /\ UNCHANGED <<disk, requests>>

restarts ==
  /\ ~serving /\ \A t \in AllTasks : todo[t] = <<>>
  /\ starts /\ UNCHANGED <<phase, todo, excuse, mishaps>>

killed ==
  /\ mishap /\ starts
  /\ excuse' = [s \in Stores |-> IF writing(s) = {} THEN excuse[s] ELSE excuse[s] \cup {"killed"}]
  /\ phase' = [t \in AllTasks |-> IF phase[t] = "running" THEN "dropped" ELSE phase[t]]
  /\ todo' = [t \in AllTasks |-> <<>>]

step(t) == waits(t) \/ uses(t) \/ takes(t) \/ gives(t) \/ calls(t) \/ chains(t) \/ panics(t) \/ changes(t)
           \/ snaps(t) \/ truncates(t) \/ puts(t) \/ answers(t)

Next ==
  \/ \E t \in 1..NumTasks : reads(t)
  \/ dreams \/ writes_stdout \/ stdinEnds \/ restarts \/ killed
  \/ \E t \in AllTasks : step(t) \/ writeFails(t)

Spec == Init /\ [][Next]_serverVars

canMove(t) == todo[t] = <<>> \/ lockOf(t) = "none" \/ turn(t, lockOf(t))

(* The handlers never wait for each other's locks in a circle, whatever is
   called together: as long as a request runs, some task can go on, and with
   requests that end by themselves every one is answered (dispatch.rs:123-456). *)
NoCircularWait ==
  (\E t \in AllTasks : phase[t] = "running") => \E t \in AllTasks : phase[t] = "running" /\ canMove(t)

(* When nobody saves, the file holds what the server remembers, unless two
   saves overlapped, one failed or was killed, or dream_conversation forgot
   without saving (memory_persist.rs:57, auth.rs:131, tools_learning.rs:165). *)
SavedUnlessRaced ==
  \A s \in Stores : owing[s] = {} /\ writing(s) = {} /\ excuse[s] = {} => disk[s] = data[s]

=============================================================================
