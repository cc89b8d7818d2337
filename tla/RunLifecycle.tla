---------------------------- MODULE RunLifecycle ----------------------------
(***************************************************************************)
(* The life of an agent run, from the request that triggers it to the      *)
(* event that announces its outcome, across four parts of the platform:    *)
(*                                                                         *)
(*   - the api-gateway: triggerRun creates a PENDING row, then publishes   *)
(*     scheduler.run.triggered; deleteAgent removes an agent's runs, then  *)
(*     the agent;                                                          *)
(*   - the agent-builder: handle_plan_confirmed stores the agent and       *)
(*     publishes three messages, the last of which triggers its first run; *)
(*   - JetStream's durable consumer runtime-run-triggered and the Python   *)
(*     client, which acknowledges a message BEFORE it calls the handler;   *)
(*   - the agent-runtime: handle_run_triggered claims the row, runs the    *)
(*     executor, records the outcome and announces it.                     *)
(*                                                                         *)
(* A step of the model is what happens between two awaits that other       *)
(* processes can observe: one SQL transaction or one publish.              *)
(*                                                                         *)
(* Faults: any publish or SQL transaction may raise, its effect there or   *)
(* not; any process may die between two steps and come back. They are      *)
(* bounded by MaxFaults, and `faulted` remembers the runs they struck.     *)
(*                                                                         *)
(* Bounds: MaxFaults, and MaxDuplicates for the copies that JetStream      *)
(* pushes again because ack_wait expires while a message waits in the      *)
(* client's buffer behind a long run.                                      *)
(***************************************************************************)
EXTENDS Integers, FiniteSets

CONSTANTS
  Agents,         \* the agent ids that exist or will be drawn (fresh UUIDs)
  InitialAgents,  \* the agents stored before the behaviour begins
  Runs,           \* the run ids that will be drawn (fresh UUIDs)
  AgentOf,        \* AgentOf[r]: the agent a run r is drawn for
  Runtimes,       \* the processes that run the agent-runtime image
  NoRun,          \* not a run: what an idle handler works on
  MaxFaults,
  MaxDuplicates

ASSUME AgentsAssumption == InitialAgents \subseteq Agents
ASSUME RunsAssumption == AgentOf \in [Runs -> Agents] /\ NoRun \notin Runs
ASSUME BoundsAssumption == MaxFaults \in Nat /\ MaxDuplicates \in Nat

VARIABLES
  agents,      \* the rows of AgentDefinition
  deleted,     \* the agents whose deletion was acknowledged
  rows,        \* rows[r]: status of AgentRun r, "none" when there is no row
  issued,      \* the run ids already drawn
  accepted,    \* the runs whose requester saw their trigger published
  trigger,     \* trigger[r]: stage of the triggerRun request that drew r
  deleting,    \* deleting[a]: stage of a deleteAgent request for a
  builder,     \* stage of handle_plan_confirmed
  firstRun,    \* the run it drew, whose agent is the one it creates
  unacked,     \* the messages of runtime-run-triggered JetStream holds unacknowledged
  buffered,    \* buffered[w][r]: copies of r's message in w's subscription
  stage,       \* stage[w]: where w's handle_run_triggered is
  job,         \* job[w]: the run it handles, NoRun when it is idle
  result,      \* result[w]: the executor's verdict
  feed,        \* feed[r]: the last lifecycle event published for r
  faulted,     \* the runs struck by a fault
  faults,      \* how many faults there were
  duplicates   \* how many times ack_wait expired on a message a client held

store == <<agents, deleted, rows>>
gateway == <<issued, accepted, trigger, deleting>>
building == <<builder, firstRun>>
queue == <<unacked, buffered, duplicates>>
runtime == <<stage, job, result>>
troubles == <<faulted, faults>>
vars == <<store, gateway, building, queue, runtime, feed, troubles>>

Outcome == {"SUCCEEDED", "FAILED"}
RunStatus == {"none", "PENDING", "RUNNING"} \cup Outcome
TriggerStage == {"idle", "found", "created", "done"}
BuilderStage == {"idle", "store", "created", "ready", "trigger"}
RuntimeStage == {"idle", "load", "lookup", "insert", "update", "start", "execute",
                 "commit", "announce", "fail"}

\* One type invariant: every variable holds what the tables, messages and
\* handlers can hold (handler.py:34-150), and a handler that is not idle has a
\* run to work on.
TypeOK ==
  /\ agents \subseteq Agents
  /\ deleted \subseteq Agents
  /\ rows \in [Runs -> RunStatus]
  /\ issued \subseteq Runs
  /\ accepted \subseteq Runs
  /\ trigger \in [Runs -> TriggerStage]
  /\ deleting \in [Agents -> BOOLEAN]
  /\ builder \in BuilderStage
  /\ firstRun \in Runs \cup {NoRun}
  /\ unacked \subseteq Runs
  /\ buffered \in [Runtimes -> [Runs -> Nat]]
  /\ stage \in [Runtimes -> RuntimeStage]
  /\ job \in [Runtimes -> Runs \cup {NoRun}]
  /\ result \in [Runtimes -> Outcome]
  /\ feed \in [Runs -> {"none", "STARTED"} \cup Outcome]
  /\ faulted \subseteq Runs
  /\ faults \in Nat
  /\ duplicates \in Nat
  /\ builder # "idle" => firstRun \in Runs
  /\ \A w \in Runtimes : stage[w] = "idle" <=> job[w] = NoRun

Init ==
  /\ agents = InitialAgents
  /\ deleted = {}
  /\ rows = [r \in Runs |-> "none"]
  /\ issued = {}
  /\ accepted = {}
  /\ trigger = [r \in Runs |-> "idle"]
  /\ deleting = [a \in Agents |-> FALSE]
  /\ builder = "idle"
  /\ firstRun = NoRun
  /\ unacked = {}
  /\ buffered = [w \in Runtimes |-> [r \in Runs |-> 0]]
  /\ stage = [w \in Runtimes |-> "idle"]
  /\ job = [w \in Runtimes |-> NoRun]
  /\ result = [w \in Runtimes |-> "FAILED"]
  /\ feed = [r \in Runs |-> "none"]
  /\ faulted = {}
  /\ faults = 0
  /\ duplicates = 0

-----------------------------------------------------------------------------
(* Faults.                                                                 *)

Strike(r) ==
  /\ faults < MaxFaults
  /\ faults' = faults + 1
  /\ faulted' = faulted \cup {r}

NoFault == UNCHANGED troubles

\* js.publish raised: a lost acknowledgement looks like a refusal.
EventMayBeStored(r, e) == feed' = feed \/ feed' = [feed EXCEPT ![r] = e]
TriggerMayBeStored(r) == unacked' = unacked \/ unacked' = unacked \cup {r}
\* commit() raised: a lost acknowledgement looks like a rollback.
RowMayBeStored(r, s) == rows' = rows \/ rows' = [rows EXCEPT ![r] = s]

-----------------------------------------------------------------------------
(* api-gateway.                                                            *)

\* findFirst answers the agent; a 404 changes nothing and is left out.
TriggerFind(r) ==
  /\ r \notin issued
  /\ AgentOf[r] \in agents
  /\ issued' = issued \cup {r}
  /\ trigger' = [trigger EXCEPT ![r] = "found"]
  /\ UNCHANGED <<store, accepted, deleting, building, queue, runtime, feed, troubles>>

\* agentRun.create: the foreign key refuses a run of an agent deleted meanwhile.
TriggerCreate(r) ==
  /\ trigger[r] = "found"
  /\ \/ /\ AgentOf[r] \in agents
        /\ rows' = [rows EXCEPT ![r] = "PENDING"]
        /\ trigger' = [trigger EXCEPT ![r] = "created"]
        /\ NoFault
     \/ /\ AgentOf[r] \notin agents
        /\ trigger' = [trigger EXCEPT ![r] = "done"]
        /\ UNCHANGED rows
        /\ NoFault
     \/ /\ AgentOf[r] \in agents
        /\ Strike(r)
        /\ RowMayBeStored(r, "PENDING")
        /\ trigger' = [trigger EXCEPT ![r] = "done"]
  /\ UNCHANGED <<agents, deleted, issued, accepted, deleting, building, queue,
                 runtime, feed>>

\* nats.publish, then the answer {runId, status: 'running'}.
TriggerPublish(r) ==
  /\ trigger[r] = "created"
  /\ trigger' = [trigger EXCEPT ![r] = "done"]
  /\ \/ /\ unacked' = unacked \cup {r}
        /\ accepted' = accepted \cup {r}
        /\ NoFault
     \/ /\ Strike(r)
        /\ TriggerMayBeStored(r)
        /\ UNCHANGED accepted
  /\ UNCHANGED <<store, issued, deleting, building, buffered, duplicates, runtime, feed>>

\* A gateway pod dies in the middle of a triggerRun request.
TriggerDies(r) ==
  /\ trigger[r] \in {"found", "created"}
  /\ Strike(r)
  /\ trigger' = [trigger EXCEPT ![r] = "done"]
  /\ UNCHANGED <<store, issued, accepted, deleting, building, queue, runtime, feed>>

\* deleteAgent, first statement: agentRun.deleteMany. No transaction holds
\* the two statements together.
DeleteRuns(a) ==
  /\ a \in agents
  /\ rows' = [r \in Runs |-> IF AgentOf[r] = a THEN "none" ELSE rows[r]]
  /\ deleting' = [deleting EXCEPT ![a] = TRUE]
  /\ UNCHANGED <<agents, deleted, issued, accepted, trigger, building, queue,
                 runtime, feed, troubles>>

\* Second statement: agentDefinition.delete. The foreign key refuses it when a
\* run was inserted in between; the request then fails and may be repeated.
\* It also stands for the request dying before the second statement.
DeleteAgentRow(a) ==
  /\ deleting[a]
  /\ deleting' = [deleting EXCEPT ![a] = FALSE]
  /\ \/ /\ \A r \in Runs : AgentOf[r] = a => rows[r] = "none"
        /\ agents' = agents \ {a}
        /\ deleted' = deleted \cup {a}
     \/ UNCHANGED <<agents, deleted>>
  /\ UNCHANGED <<rows, issued, accepted, trigger, building, queue, runtime, feed,
                 troubles>>

-----------------------------------------------------------------------------
(* agent-builder: handle_plan_confirmed. The confirmation itself may come  *)
(* at any time, so taking it needs nothing but an idle handler and ids     *)
(* that were not drawn before.                                             *)

BuilderTake(r) ==
  /\ builder = "idle"
  /\ r \notin issued
  /\ AgentOf[r] \notin agents \cup deleted
  /\ \A q \in issued : AgentOf[q] # AgentOf[r]
  /\ builder' = "store"
  /\ firstRun' = r
  /\ issued' = issued \cup {r}
  /\ UNCHANGED <<store, accepted, trigger, deleting, queue, runtime, feed, troubles>>

\* The except branch logs and returns; a crash drops the acknowledged message.
BuilderGivesUp ==
  /\ builder' = "idle"
  /\ Strike(firstRun)

\* Mutant: db.add without db.commit.
BuilderStoreUncommitted ==
  /\ builder = "store"
  /\ builder' = "created"
  /\ UNCHANGED <<store, gateway, firstRun, queue, runtime, feed, troubles>>

BuilderStore ==
  /\ builder = "store"
  /\ \/ /\ agents' = agents \cup {AgentOf[firstRun]}
        /\ builder' = "created"
        /\ NoFault
     \/ /\ BuilderGivesUp
        /\ agents' \in {agents, agents \cup {AgentOf[firstRun]}}
  /\ UNCHANGED <<deleted, rows, gateway, firstRun, queue, runtime, feed>>

\* AGENT_DEFINITION_CREATED, then AGENT_DEFINITION_READY: their readers are not
\* part of this module.
BuilderAnnounce ==
  /\ \/ /\ builder = "created"
        /\ builder' = "ready"
        /\ NoFault
     \/ /\ builder = "ready"
        /\ builder' = "trigger"
        /\ NoFault
     \/ /\ builder \in {"created", "ready"}
        /\ BuilderGivesUp
  /\ UNCHANGED <<store, gateway, firstRun, queue, runtime, feed>>

BuilderTrigger ==
  /\ builder = "trigger"
  /\ \/ /\ unacked' = unacked \cup {firstRun}
        /\ accepted' = accepted \cup {firstRun}
        /\ builder' = "idle"
        /\ NoFault
     \/ /\ BuilderGivesUp
        /\ TriggerMayBeStored(firstRun)
        /\ UNCHANGED accepted
  /\ UNCHANGED <<store, issued, trigger, deleting, firstRun, buffered, duplicates,
                 runtime, feed>>

-----------------------------------------------------------------------------
(* JetStream and the Python client's subscription.                         *)

Held(r) == \E w \in Runtimes : buffered[w][r] > 0

Push(w, r) == buffered' = [buffered EXCEPT ![w][r] = @ + 1]

\* The server pushes a message to a member of the queue group: the first time,
\* and again when no live subscription holds it.
Deliver(w, r) ==
  /\ r \in unacked
  /\ ~Held(r)
  /\ Push(w, r)
  /\ UNCHANGED <<store, gateway, building, unacked, duplicates, runtime, feed, troubles>>

\* The message waits behind a run that takes longer than ack_wait (30 s).
AckWaitExpires(w, r) ==
  /\ r \in unacked
  /\ \E v \in Runtimes : buffered[v][r] > 0 /\ stage[v] = "execute"
  /\ duplicates < MaxDuplicates
  /\ duplicates' = duplicates + 1
  /\ Push(w, r)
  /\ UNCHANGED <<store, gateway, building, unacked, runtime, feed, troubles>>

Pop(w, r) ==
  /\ stage[w] = "idle"
  /\ buffered[w][r] > 0
  /\ buffered' = [buffered EXCEPT ![w][r] = @ - 1]

\* Mutant: the handler is entered even though ack() raised, with nothing to do.
TakeUnacknowledged(w, r) ==
  /\ Pop(w, r)
  /\ stage' = [stage EXCEPT ![w] = "load"]
  /\ \/ unacked' = unacked \ {r} /\ job' = [job EXCEPT ![w] = r] /\ UNCHANGED faults
     \/ faults < MaxFaults /\ faults' = faults + 1 /\ UNCHANGED <<unacked, job>>
  /\ UNCHANGED <<store, gateway, building, duplicates, result, feed, faulted>>

\* Mutant: a consumer that acknowledges on delivery; an error before the handler
\* drops the message.
TakeAutoAck(w, r) ==
  /\ Pop(w, r)
  /\ unacked' = unacked \ {r}
  /\ \/ /\ stage' = [stage EXCEPT ![w] = "load"]
        /\ job' = [job EXCEPT ![w] = r]
        /\ UNCHANGED faults
     \/ faults < MaxFaults /\ faults' = faults + 1 /\ UNCHANGED <<stage, job>>
  /\ UNCHANGED <<store, gateway, building, duplicates, result, feed, faulted>>

\* _consume: ack first, then the handler. When ack() raises, the handler is not
\* called and the message stays on the server.
Take(w, r) ==
  /\ Pop(w, r)
  /\ \/ /\ unacked' = unacked \ {r}
        /\ stage' = [stage EXCEPT ![w] = "load"]
        /\ job' = [job EXCEPT ![w] = r]
        /\ UNCHANGED faults
     \/ /\ faults < MaxFaults
        /\ faults' = faults + 1
        /\ UNCHANGED <<unacked, stage, job>>
  /\ UNCHANGED <<store, gateway, building, duplicates, result, feed, faulted>>

-----------------------------------------------------------------------------
(* agent-runtime: handle_run_triggered.                                    *)

Goto(w, to) ==
  /\ stage' = [stage EXCEPT ![w] = to]
  /\ job' = IF to = "idle" THEN [job EXCEPT ![w] = NoRun] ELSE job

Move(w, from, to) == stage[w] = from /\ Goto(w, to)

\* db.get(AgentDefinition): an unknown agent ends the handler without a word.
LoadAgent(w) ==
  /\ \/ /\ Move(w, "load", "lookup")
        /\ AgentOf[job[w]] \in agents
        /\ NoFault
     \/ /\ Move(w, "load", "idle")
        /\ AgentOf[job[w]] \notin agents
        /\ NoFault
     \/ /\ Move(w, "load", "fail")
        /\ Strike(job[w])
  /\ UNCHANGED <<store, gateway, building, queue, result, feed>>

\* db.get(AgentRun) decides between UPDATE and INSERT. Nothing looks at the
\* status the row has.
LookupRun(w) ==
  /\ \/ /\ stage[w] = "lookup"
        /\ Goto(w, IF rows[job[w]] = "none" THEN "insert" ELSE "update")
        /\ NoFault
     \/ /\ Move(w, "lookup", "fail")
        /\ Strike(job[w])
  /\ UNCHANGED <<store, gateway, building, queue, result, feed>>

\* Mutant: AgentRun.agentId without its foreign key.
ClaimWithoutForeignKey(w) ==
  \/ stage[w] = "update" /\ rows[job[w]] # "none"
  \/ stage[w] = "insert" /\ rows[job[w]] = "none"

\* The UPDATE matches a row; the INSERT finds no row of that id and the agent
\* it refers to.
ClaimPossible(w) ==
  \/ stage[w] = "update" /\ rows[job[w]] # "none"
  \/ stage[w] = "insert" /\ rows[job[w]] = "none" /\ AgentOf[job[w]] \in agents

Claim(w) ==
  /\ stage[w] \in {"insert", "update"}
  /\ \/ /\ ClaimPossible(w)
        /\ rows' = [rows EXCEPT ![job[w]] = "RUNNING"]
        /\ Goto(w, "start")
        /\ NoFault
     \/ /\ ~ClaimPossible(w)
        /\ Goto(w, "fail")
        /\ UNCHANGED rows
        /\ NoFault
     \/ /\ ClaimPossible(w)
        /\ Strike(job[w])
        /\ RowMayBeStored(job[w], "RUNNING")
        /\ Goto(w, "fail")
  /\ UNCHANGED <<agents, deleted, gateway, building, queue, result, feed>>

\* Mutant: the executor is started without announcing it.
StartUnannounced(w) ==
  /\ Move(w, "start", "execute")
  /\ NoFault
  /\ UNCHANGED <<store, gateway, building, queue, result, feed>>

PublishStarted(w) ==
  /\ \/ /\ Move(w, "start", "execute")
        /\ feed' = [feed EXCEPT ![job[w]] = "STARTED"]
        /\ NoFault
     \/ /\ Move(w, "start", "fail")
        /\ Strike(job[w])
        /\ EventMayBeStored(job[w], "STARTED")
  /\ UNCHANGED <<store, gateway, building, queue, result>>

\* run_executor returns a verdict, or raises before its try block
\* (build_workspace_tools reads the database).
Execute(w) ==
  /\ \/ /\ Move(w, "execute", "commit")
        /\ \E o \in Outcome : result' = [result EXCEPT ![w] = o]
        /\ NoFault
     \/ /\ Move(w, "execute", "fail")
        /\ Strike(job[w])
        /\ UNCHANGED result
  /\ UNCHANGED <<store, gateway, building, queue, feed>>

\* Mutant: the row is written for a success only.
CommitSuccessOnly(w) ==
  /\ Move(w, "commit", "announce")
  /\ rows' = IF result[w] = "SUCCEEDED" /\ rows[job[w]] # "none"
             THEN [rows EXCEPT ![job[w]] = "SUCCEEDED"] ELSE rows
  /\ NoFault
  /\ UNCHANGED <<agents, deleted, gateway, building, queue, result, feed>>

\* The final UPDATE: it matches no row when the run was deleted meanwhile.
Commit(w) ==
  /\ \/ /\ Move(w, "commit", "announce")
        /\ rows[job[w]] # "none"
        /\ rows' = [rows EXCEPT ![job[w]] = result[w]]
        /\ NoFault
     \/ /\ Move(w, "commit", "fail")
        /\ rows[job[w]] = "none"
        /\ UNCHANGED rows
        /\ NoFault
     \/ /\ Move(w, "commit", "fail")
        /\ rows[job[w]] # "none"
        /\ Strike(job[w])
        /\ RowMayBeStored(job[w], result[w])
  /\ UNCHANGED <<agents, deleted, gateway, building, queue, result, feed>>

\* Mutant: RUN_SUCCEEDED whenever the executor returned.
AnnounceSuccess(w) ==
  /\ Move(w, "announce", "idle")
  /\ feed' = [feed EXCEPT ![job[w]] = "SUCCEEDED"]
  /\ NoFault
  /\ UNCHANGED <<store, gateway, building, queue, result>>

Announce(w) ==
  /\ \/ /\ Move(w, "announce", "idle")
        /\ feed' = [feed EXCEPT ![job[w]] = result[w]]
        /\ NoFault
     \/ /\ Move(w, "announce", "fail")
        /\ Strike(job[w])
        /\ EventMayBeStored(job[w], result[w])
  /\ UNCHANGED <<store, gateway, building, queue, result>>

\* Mutant: the except branch only logs, as handle_resume_requested's does.
FailSilently(w) ==
  /\ Move(w, "fail", "idle")
  /\ NoFault
  /\ UNCHANGED <<store, gateway, building, queue, result, feed>>

\* The except branch: RUN_FAILED is published, the row is left as it is, and an
\* error of this publish is logged.
Fail(w) ==
  /\ Move(w, "fail", "idle")
  /\ \/ /\ feed' = [feed EXCEPT ![job[w]] = "FAILED"]
        /\ NoFault
     \/ /\ Strike(job[w])
        /\ EventMayBeStored(job[w], "FAILED")
  /\ UNCHANGED <<store, gateway, building, queue, result>>

\* The process dies, or close() cancels its tasks: the handler's message is
\* already acknowledged, the buffered ones are not.
Crash(w) ==
  /\ stage[w] # "idle" \/ \E r \in Runs : buffered[w][r] > 0
  /\ faults < MaxFaults
  /\ faults' = faults + 1
  /\ faulted' = faulted \cup (IF stage[w] = "idle" THEN {} ELSE {job[w]})
  /\ Goto(w, "idle")
  /\ buffered' = [buffered EXCEPT ![w] = [r \in Runs |-> 0]]
  /\ UNCHANGED <<store, gateway, building, unacked, duplicates, result, feed>>

-----------------------------------------------------------------------------
GatewayStep(r) == TriggerCreate(r) \/ TriggerPublish(r)
BuilderStep == BuilderStore \/ BuilderAnnounce \/ BuilderTrigger
HandlerStep(w) ==
  LoadAgent(w) \/ LookupRun(w) \/ Claim(w) \/ PublishStarted(w) \/ Execute(w)
    \/ Commit(w) \/ Announce(w) \/ Fail(w)

Next ==
  \/ \E r \in Runs : TriggerFind(r) \/ GatewayStep(r) \/ TriggerDies(r) \/ BuilderTake(r)
  \/ \E a \in Agents : DeleteRuns(a) \/ DeleteAgentRow(a)
  \/ BuilderStep
  \/ \E w \in Runtimes : HandlerStep(w) \/ Crash(w)
  \/ \E w \in Runtimes, r \in Runs : Deliver(w, r) \/ AckWaitExpires(w, r) \/ Take(w, r)

\* Services make progress: the event loops schedule every ready task, an HTTP
\* or model call ends by its timeout and the executor by its recursion limit.
\* Users are not obliged to anything, nor are faults.
Fairness ==
  /\ \A r \in Runs : WF_vars(GatewayStep(r))
  /\ WF_vars(BuilderStep)
  /\ \A w \in Runtimes : WF_vars(HandlerStep(w))
  /\ \A r \in Runs :
       /\ WF_vars(\E w \in Runtimes : Deliver(w, r))
       /\ \A w \in Runtimes : WF_vars(Take(w, r))

Spec == Init /\ [][Next]_vars
FairSpec == Spec /\ Fairness
-----------------------------------------------------------------------------
(* Properties.                                                             *)

Handled(r) == \E w \in Runtimes : job[w] = r

\* A copy of r's message is on the server or in a buffer, or a handler works on it.
InPipeline(r) == r \in unacked \/ Held(r) \/ Handled(r)

\* Somebody still owes r a step. A buffered copy alone does not count: its
\* message may have been acknowledged through another copy.
Owed(r) == r \in unacked \/ Handled(r)

\* A requester who was told that the run is triggered gets an answer: unless a
\* fault struck the run or its agent was deleted, the trigger is still on its
\* way or the last event of the run is an outcome. Acknowledging before
\* handling, swallowing exceptions and the early return for an unknown agent
\* (handler.py:49-51, nats_client.py:107-115) are what could lose it.
AcceptedRunIsAnswered ==
  \A r \in accepted :
    Owed(r) \/ feed[r] \in Outcome \/ r \in faulted \/ AgentOf[r] \in deleted

PendingIsOwned(r) ==
  rows[r] = "PENDING" =>
    \/ trigger[r] = "created" \/ r \in unacked
    \/ \E w \in Runtimes : job[w] = r /\ stage[w] \in {"load", "lookup", "update"}

RunningIsOwned(r) ==
  rows[r] = "RUNNING" =>
    \E w \in Runtimes : job[w] = r /\ stage[w] \in {"start", "execute", "commit"}

\* No row is left PENDING or RUNNING for ever: unless a fault struck the run,
\* the request that created it has still to publish, or its message is on the
\* server, or a handler has it that will still find the row; and a RUNNING row
\* has a handler that will settle it.
UnsettledRowIsOwned ==
  \A r \in Runs \ faulted : PendingIsOwned(r) /\ RunningIsOwned(r)

\* What the chat window was last told of a run is what the runs resource
\* answers, once no handler works on the run, whatever was deleted or pushed
\* twice meanwhile. With one agent-runtime process only: two of them can
\* commit in one order and announce in the other.
FeedMatchesRow ==
  \A r \in Runs \ faulted :
    ~Handled(r) /\ rows[r] # "none" =>
      feed[r] = IF rows[r] = "PENDING" THEN "none" ELSE rows[r]

\* A trigger never overtakes the commit of the agent it names: whoever takes
\* it finds the agent, or the agent was deleted since.
TriggeredAgentExists ==
  \A r \in Runs : InPipeline(r) => AgentOf[r] \in agents \cup deleted

\* Nothing comes back from a deletion: once deleteAgent was acknowledged, no
\* row of a run of that agent exists, though triggers of it may still be queued
\* and an executor may still be working for it.
DeletionIsFinal ==
  \A r \in Runs : AgentOf[r] \in deleted => rows[r] = "none"

\* Every accepted trigger is eventually answered, with the same exceptions.
AcceptedRunSettles ==
  \A r \in Runs :
    r \in accepted ~>
      feed[r] \in Outcome \/ r \in faulted \/ AgentOf[r] \in deleted

\* A run whose outcome is recorded is not started again: what the comment in
\* nats_client.py:107-111 says acknowledging first achieves.
SettledRunIsNotRestarted ==
  [][\A r \in Runs : rows[r] \in Outcome => rows'[r] # "RUNNING"]_rows

\* The rows, the feed and the faults of the implementation keep the promise.
Promise == INSTANCE RunPromise WITH row <- rows, struck <- faulted

KeepsPromise == Promise!Spec

-----------------------------------------------------------------------------
(* The inductive invariants behind these properties (RunLifecycleProofs).  *)

\* The foreign key of AgentRun.
ForeignKey == \A r \in Runs : rows[r] # "none" => AgentOf[r] \in agents

\* Ids are drawn once: nothing is known of a run before it is drawn, and the
\* builder's agent is new until it is stored.
FreshIds ==
  /\ agents \cap deleted = {}
  /\ \A a \in Agents : deleting[a] => a \in agents
  /\ \A r \in Runs \ issued :
       /\ trigger[r] = "idle" /\ rows[r] = "none" /\ feed[r] = "none"
       /\ r \notin accepted /\ ~InPipeline(r)
  /\ builder # "idle" => firstRun \in issued /\ trigger[firstRun] = "idle"
  /\ builder = "store" => AgentOf[firstRun] \notin agents \cup deleted

\* Whoever is about to send a trigger, or has sent it, did so after the agent
\* was stored; the gateway sends it last of all.
TriggerOrder ==
  /\ \A r \in Runs :
       /\ InPipeline(r) => trigger[r] \in {"idle", "done"}
       /\ trigger[r] \in {"found", "created"} => AgentOf[r] \in agents \cup deleted
       /\ trigger[r] = "found" => rows[r] = "none" /\ feed[r] = "none"
  /\ builder \in {"created", "ready", "trigger"} =>
       AgentOf[firstRun] \in agents \cup deleted
  /\ TriggeredAgentExists

\* What a handler knows of its run's row and feed when it is the only one.
HandlerKnows ==
  \A w \in Runtimes :
    /\ stage[w] = "insert" => rows[job[w]] = "none"
    /\ stage[w] \in {"start", "execute", "commit"} => rows[job[w]] \in {"RUNNING", "none"}
    /\ stage[w] = "announce" => rows[job[w]] \in {result[w], "none"}
    /\ stage[w] \in {"execute", "commit", "announce"} => feed[job[w]] = "STARTED"
    /\ stage[w] = "fail" => job[w] \in faulted \/ rows[job[w]] = "none"

OneRuntime == \A v, w \in Runtimes : v = w
=============================================================================
