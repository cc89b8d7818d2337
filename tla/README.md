# A TLA+ project for agent-workflow-builder

agent-workflow-builder lets an end user describe a recurring task in a chat window; a language
model plans it, the user confirms the plan, and the platform runs the resulting agent on a
schedule or on request, calling third-party APIs through an integration provider. The platform
is a set of small NestJS and Python services that share one PostgreSQL database and talk over
NATS JetStream.

This directory holds formal models of the platform, written from its code: TLA+ modules, TLC
configurations that check them on small instances, and theorems about them, for every value of
their constants, that TLAPS proves. Paths in this file are relative to `src/`.

Contents: 1. [the system](#1-the-system) · 2. [what is hard in it](#2-what-is-hard-in-it) ·
3. [modules](#3-modules) · 4. [runs and bounds](#4-runs-and-bounds) ·
5. [fairness](#5-fairness) · 6. [what is proved](#6-what-is-proved) ·
7. [findings](#7-findings) · 8. [not modelled](#8-what-is-not-modelled) · 9. [plan](#9-plan)


## 1. The system

### Parts, their state and their operations

| Part | Source | State | Operations | Correct when |
|---|---|---|---|---|
| api-gateway, runs | `services/api-gateway/src/agents/agents.controller.ts` | rows of AgentDefinition, AgentRun | `triggerRun`, `resumeRun`, `deleteAgent`, `createAgent`, `submitCommand` | an accepted run is answered; nothing comes back from a deletion |
| agent-runtime | `services/agent-runtime-py/src/handler.py`, `executor/` | the message in hand, the row it claimed | `handle_run_triggered`, `handle_resume_requested`, `handle_connection_completed` | row and events tell one story; an outcome is recorded, then announced |
| agent-builder | `services/agent-builder-py/src/handler.py`, `planner/` | a planning thread per command | `handle_command_submitted`, `handle_plan_confirmed` | one confirmation makes one agent; its trigger never overtakes its commit |
| Python NATS client | `services/shared-py/shared/nats_client.py` | one task and one buffer per durable subscription | `publish`, `subscribe` (acknowledge, then handle), `close` | a message is handled by somebody, or its run is known to be lost |
| TypeScript NATS client | `libs/nats-client/src/nats.service.ts` | durable subscriptions | `publish`, `subscribe` (handle, then acknowledge) | a message is handled at least once |
| websocket-service | `services/websocket-service/src/` | sockets per workspace, `client.workspaceId` | connect, auth, submit, disconnect, one handler per event subject | every listener of a workspace and nobody else sees its events |
| proxy actions | `services/api-gateway/src/proxy-actions/`, `libs/integration-provider/src/proxy/` | rows of ProxyActionDefinition, one cache per process | create, toggle, remove, import, upload, load, invalidate, lookup | a cache is never stale without a known cause |
| tool registry | `libs/integration-provider/src/tool-registry.service.ts`, `services/api-gateway/src/tools/` | rows of ToolRegistryEntry | `syncTools`, `syncProxyTools` | what was synchronised or imported can be found |
| connections | `services/api-gateway/src/connections/`, `services/connection-registry/` | rows of ConnectionRef, AvailableIntegration | `configureEndpoint`, `syncIntegrations`, `syncConnections`, `connectionComplete`, `createConnectionRef`, `markReady` | a completed connection is not forgotten |
| runtime tools | `services/agent-runtime-py/src/executor/callbacks.py`, `tool_factory.py` | step counter, database session of a run | tool start, end and error callbacks, connection resolution | a step's end is reported for that step |
| scheduler-service | `services/scheduler-service/src/` | cron jobs and namespaces in the cluster | workspace provisioned, agent ready, agent deleted | a stored agent is scheduled, a deleted one is not |
| sign-up and workspaces | `services/api-gateway/src/auth/`, `onboarding/`, `workspaces/`, `services/onboarding-service/` | rows of Organization, Workspace, WorkspaceConfig | sign up, onboard, create, delete | a sign-up that failed half-way can be completed |
| chat application | `examples/chat-app/src/hooks/use-agent-chat.ts` | the message list, commands seen | one reducer case per event, user actions | the list tells the outcome, in whatever order events arrive |
| sockets of SDK, console and chat | `packages/sdk/src/ws-client.ts`, `frontend/web/src/lib/ws-client.ts`, `examples/chat-app/src/lib/ws.ts` | a WebSocket, a reconnection timer | connect, close, disconnect, reconnect | one live socket; a closed client stays closed |
| web console | `frontend/web/src/hooks/use-auth.ts`, `lib/api-client.ts`, `app/(dashboard)/tools/`, `proxy-actions/` | the key in the browser, user and workspaces, each page's lists | sign in, up, out, switch and create workspaces, toggle, edit, delete, import, sync | a request carries a key of the user who sends it; a page shows what is stored |
| action interpreter | `libs/integration-provider/src/proxy/declarative-config-interpreter.ts`, `services/shared-py/shared/nango_client.py` | none | find an action, build a request, map and enrich the answer | what the model fills in reaches the provider once; the port agrees with the original |

`PROJECT.json` lists these and the remaining parts (provider adapters, RAG, the API key guard,
observability and deployment) with what is modelled of each.

### How the parts interact

* **A command becomes an agent.** `submitCommand` over REST or `submit_command` over a socket
  publishes `AGENT_COMMAND_SUBMITTED`. The builder plans and publishes a preview. The user
  confirms; `handle_plan_confirmed` stores the agent, then publishes `AGENT_CREATED` (for the
  chat), `AGENT_DEFINITION_READY` (for the scheduler) and `SCHEDULER_RUN_TRIGGERED` (for the
  runtime), in this order.
* **A trigger becomes a run.** `triggerRun` creates a `PENDING` row and publishes
  `SCHEDULER_RUN_TRIGGERED`; the builder publishes it without a row. The runtime loads
  the agent, claims or inserts the row as `RUNNING`, publishes `RUN_STARTED`, executes, records the
  outcome, and publishes it.
* **Events become messages.** The websocket-service has a durable consumer per subject and hands
  each event to the sockets registered for its workspace at that moment.
* **Schedules.** The scheduler-service makes a Kubernetes cron job of an agent that is ready. Its pods
  run the agent-runtime image with an `AGENT_ID` that the image does not read
  (`cronjob-builder.service.ts:52`, `agent-runtime-py/src/main.py`): each becomes one more runtime.
* **Tools.** The planner reads the registry from the database, the runtime the definitions;
  api-gateway processes keep a five-minute cache of the enabled definitions.
* **Deletion.** `deleteAgent` removes runs, then the agent; only foreign keys stand between it and
  everything in flight.

Every service is one asynchronous event loop: what two awaits enclose is atomic towards the rest
of the process, and everything else interleaves. The database and JetStream are the only shared
state. `deploy/k8s/base/services.yaml` runs two replicas of the api-gateway and of the
websocket-service and one of each other service it lists. `docker-compose.yml` runs one
agent-runtime.


## 2. What is hard in it

`PROJECT.json` lists the hazards at their lines. They fall into six groups.

1. *Acknowledge, then handle.* The Python client acknowledges before it calls the handler and
   swallows its exceptions (`nats_client.py:107-115`), so JetStream never retries a run. Whatever the
   handler does not settle stays unsettled. Messages that wait behind a long run are nevertheless
   pushed again when `ack_wait` expires.
2. *Row and event are two writes.* Neither is transactional with the other; the except branch
   announces a failure whatever was committed before it.
3. *State read before an await.* The gateway's agent before the row it creates; the runtime's row
   before minutes of execution; the socket's workspace before a dynamic import; the cache load before
   an invalidation; the list of local connections before the provider's answer.
4. *Several statements without a transaction.* Deletion, sign-up, synchronisation, import, plan
   confirmation.
5. *No order across subjects.* Namespace before cron job, run started before run finished: each
   subject has its own durable consumer, and a browser folds all of them into one list of messages.
6. *Handles that outlive what they name.* A replaced WebSocket keeps its callbacks, a timer its effect, a
   plan preview its button, a page its lists when the workspace is switched, a question its asker who signed out; parallel
   tools share one step counter and one database session.


## 3. Modules

| Module | Role |
|---|---|
| `RunLifecycle` | gateway, builder, durable consumer and runtime, as far as a run is concerned |
| `RunPromise` | abstract: what somebody who watches one run is promised |
| `RunLifecycleProofs` | theorems about `RunLifecycle`, the refinement included |
| `WsFanout` | the websocket-service |
| `ToolCatalog` | definitions, registry and caches of one workspace |
| `SocketClient` | the WebSocket clients of SDK, console and chat |
| `SocketProofs` | theorems about the two ends of a socket, `WsFanout` and `SocketClient` |
| `ChatSession` | the chat application's message list, and what the services publish to it |
| `ChatSessionProofs` | theorems about it |
| `Connections` | connections, synchronisation, and the runs that wait for a connection |
| `ConnectionsProofs` | theorems about it |
| `AgentLife` | sign-up, namespaces, planning, confirmation and scheduling |
| `AgentLifeProofs` | theorems about it |
| `RunSteps` | the tools of one run or one planning thread and their step events |
| `RunStepsProofs` | theorems about it |
| `ActionInterpreter` | lookup, request and answer of a declarative action, in both implementations |
| `ToolProofs` | theorems about `ToolCatalog` and `ActionInterpreter` |
| `ConsoleSession` | the web console's session: user, key, workspaces, and the gateway's answers to it |
| `Console` | the two pages that edit proxy actions, over `ConsoleSession` |
| `ConsoleProofs` | theorems about both |
| `MC...` | instances for TLC, one for each module that is checked |

`PROJECT.json`, under `map`, gives the source lines of every definition. A definition whose comment
begins with "Mutant" is a plausible bug, used nowhere; putting it in the place of the
definition it mutates must break the property `PROJECT.json` pairs it with.

### RunLifecycle

| State | Code |
|---|---|
| `agents`, `rows` | the tables AgentDefinition and AgentRun; `ForeignKey` is the foreign key of the schema |
| `trigger[r]`, `deleting[a]` | how far the handlers `triggerRun` and `deleteAgent` are |
| `builder`, `firstRun` | how far `handle_plan_confirmed` is, and the run it will trigger |
| `unacked`, `buffered[w][r]` | the durable consumer `runtime-run-triggered` and the client's buffer for it |
| `stage[w]`, `job[w]`, `result[w]` | the runtime's `handle_run_triggered` |
| `feed[r]` | the last run event published |
| `accepted`, `deleted`, `faulted` | history: what was promised, and what excuses the platform |

One action is one SQL transaction or one publish. `TriggerFind`, `TriggerCreate`, `TriggerPublish` are
the three awaits of `triggerRun`; `DeleteRuns` and `DeleteAgentRow` the two statements of
`deleteAgent`; `BuilderTake`, `BuilderStore`, `BuilderAnnounce`, `BuilderTrigger` those of
`handle_plan_confirmed`. `Deliver` pushes a message into a buffer, `AckWaitExpires` makes JetStream
push it again although a client holds it, `Take` acknowledges and enters the handler. `LoadAgent`, `LookupRun`,
`Claim`, `PublishStarted`, `Execute`, `Commit`, `Announce`, `Fail` are `handle_run_triggered`. Each has,
besides its success, the disjuncts in which the statement or publish raises, with its effect there or
not, and each goes where the code's `except` goes. `Crash` loses handler and buffer.

`RunPromise` has a row, a feed and a set of struck runs and three kinds of steps: record, announce, forget.
`KeepsPromise` says that `RunLifecycle` implements it with `row <- rows`, `struck <- faulted`.

### WsFanout

`registry` is `WsService.workspaceSockets`, `workspaceId` the property of the client object, `lookups`
the queries `handleAuth` awaits. `HandleConnection`, `AuthSubmit`, `AuthSucceed`, `AuthFail`, `Request`,
`RequestPublish`, `Close` and `HandleDisconnect` are the gateway's handlers, split at their awaits; `Close` is the
transport's change of state and `HandleDisconnect` the handler of the event that follows. `Publish` is another service's,
`Consume` is the subject handler, `sendToWorkspace` and the acknowledgement. `audience` and
`received` are history: who should have, and who has, been sent an event. `raced` records the two
causes of a leaked registration.

### ToolCatalog

`defs` and `registry` are tables, `cache[p]` is the `ProxyActionRegistry` of process `p`. A request
walks through `stage[q]`: `Add`, `WriteBegin`, `Write`, `Invalidate` (create, toggle, remove),
`ImportBegin`, `ImportCreate`, `ImportInvalidate`, then `UseCache` or `Load` and `Set` (`ensureLoaded`), `Upsert`,
`ImportEnd` (`importTemplate`, `uploadTemplate` and `syncProxyTools`), `SyncBegin`, `SyncDelete`,
`SyncInsert` (`syncTools`). `Die` ends any of them between two statements. `Forget` is a restart or the
five-minute expiry. `behind` and `late` record the causes of staleness, `own` and `listing` what was promised.

### SocketClient

One client at a time, of one of the three kinds; the differences are the branches on `client`.
`phase[s]` is the `readyState` of a socket, `current` is `this.ws`, `timers` and `pings` count what runs in the
event loop, `timerKept` and `pingKept` say whether the object still holds a handle to the last of
them. `Connect`, `Disconnect`, `Opened`, `Answered`, `Closed` and `TimerFires` are the methods and
callbacks. `Unanswered` is the server's: `handleAuth` raised, the exception was logged, and the socket stays open without an
answer; the socket is then in `ignored`. A replaced socket keeps its callbacks, and these act on `this.ws`: the chat's
`onerror` closes it, whichever socket failed (`Gone`). `overlapped` is history: `connect()` was
called although something of the last connection was left.

### ChatSession

`messages`, `processing`, `pendingPlan` and `seen` are the state and the refs of `useAgentChat`. A message keeps
what the properties tell apart: its card, its status, the labels of its running steps, whether its
button was used. `agent_run_resumed` is left out, which is published for paused runs only, and nothing pauses one.
One action per case of `handleWsMessage` (`CommandAccepted`, `PlannerProgress`,
`PlanPreview`, `AgentCreated`, `RunStarted`, `RunThinking`, `RunStep`, `RunSucceeded`, `RunFailed`)
and per callback of the user (`Send`, `NextAction`, `ClickConnect`, `DialogFails`, `DialogConnects`,
`OAuthComplete`, `ConfirmPlan`, `ClearMessages`). `wire[k]` holds the events of one subject in order; across subjects
any may come first. `PlannerStep`, `Builder`, `Runtime` and `StrangerRuns` are the services,
reduced to what they publish and when. `Worlds` says which of these to look at together, and how much of them. `late` and
`crowded` record the causes for which the claims do not hold. `late`: an event came after the outcome of its run, a step
began in a finished message, or the completion of a connection finished a message over its running step (`Covers`).
`crowded`: a plan came while the cards of another were in use, or while a card was marked connected whose request had been
lost (`Crowded`).

### Connections

`ref`, `available` and `row` are tables of the gateway, `provider[c]` the connections as Nango knows them, `endpoint` the account
that the workspace is configured for, `Offers` the lists of integrations that an account may answer, the empty one included.
A connection is not a row: every authorization makes another connection, and several may share a row. `RowOf` is the row
that a synchronisation writes, found by the end user or, when the provider gives no tag, by the connection's own id;
`ReportedAs` the one that a client's report writes. They are two rows for an untagged connection.

A request walks
through `pc[q]`: `SyncList`, `SyncUpsert`, `SyncFind`, `SyncDelete` (`syncConnections`, which takes the connections of its list in
any order, so that of several for a row any may be the last), `CompleteUpsert` and
`CompletePublish` (`connectionComplete`), `ListFetch`, `ListClear`, `ListInsert` (`syncIntegrations`, and `configureEndpoint` after it
wrote the account in `ConfigureEndpoint`; an empty answer is not inserted),
and the single statements `CreateConnectionRef` and `MarkReady`. `SocketCompletes` is the completion that a
client reports to the websocket-service, which writes no row. `Wake` and `WakePublish` are
`handle_connection_completed`, `UserResumes` is `resumeRun`, `ResumeTake`, `ResumeSettles` and `ResumeFails` are
`handle_resume_requested`. `Prefix` is the relation of the query `startswith(pauseReason)`, `Need[r]` the key in the
reason of a run. That runs are `PAUSED` at all is external. `completed`, `raced`, `calm`, `bare` and `blended` are history: what
was reported and is `Sound` since, what was reported during a synchronisation, which synchronisation nobody disturbed, why
the list may be empty, and that two answers with nothing in common were to be inserted at once.

### AgentLife

Four chains of one state: `Account` (`signUp`, `createOrg`, `createWorkspace`, row by row), `Provision` (the scheduler's
handler of `ORG_CREATED`), `Planning` (`handle_command_submitted` and the planner's loop), `Building`
(`handle_plan_confirmed`, `createAgent`, `deleteAgent`) and `Scheduling` (the handler of
`AGENT_DEFINITION_READY`). `Call` is any statement, publish or cluster call: it succeeds, or it raises with
its effect there or not, which strikes the request or agent concerned. `SchedulerCrash` makes JetStream push again
what was not acknowledged. `cluster` says whether the scheduler found one when it started. To bound
the model there are two kinds of initial state: nobody has signed up and no command will be given, or an account is
there, its event not handled yet, and commands begin.

### RunSteps

The ReAct loop of the executor and of the planner, which differ in their callbacks (`kind`). `LLMCalls`
begins a round of parallel calls; each is a coroutine `pc[c]` that stops at its awaits: `ToolStart`, the
queries `Exact` and `Fallback` on the one database session (`QueryRaises` when two are under way), `Execute`,
`ToolEnd` or `ToolError`, and `Count`, which moves `step_index` on after the publish returned. `index`, `pending` and
`shown[c]` are the counter, `_pending_tools` and the step events with the index they carry. `opaque` holds the calls whose
arguments or result the callbacks cannot summarize: `ShowStart` and `ToolEnd` compute their summaries before their `try`, so that
nothing is shown and nothing counted; `ToolError` does so inside it, and counts. `Same` and `Like` are the comparisons of provider names,
by equality and by substring.

### ActionInterpreter

The functions are operators: `Find` (`ProxyActionRegistry.find`), `Offered` (`enrichInputSchema`), `AutoMapped`
(`extractInputMappings`), `Query` (`buildParamsBuilder`), `Body` (`buildBodyBuilder`), `Path`
(`executeProxy`), `Mapped` (`buildResponseMapper`), `Limit`. A definition places a field where it is filled in (`Filled`), or
only names it inside other text or as the condition of a constant part (`Unfilled`), which counts as a place (`Placed`) and sends nothing.
`SaysHow` is what makes a property be mapped automatically, where a null default and an empty list of aliases count in TypeScript only. Values
are the kinds that conversions tell apart, a whole number that the runtime's schema makes a float (`"float"`) being one of them.
`side` is the implementation, `"ts"` or `"py"`; the operators have one parameter more where the two differ. The
behaviour is a call: `Lookup`, `Send` with any definition and input, `Receive`, and `DetailArrives`, in any
order in TypeScript and in sequence in the port.

### ConsoleSession and Console

`firebase` is the user firebase holds, `key` the key every request carries (`ApiClient`), both kept by the browser; `user`,
`workspace`, `workspaces` and `initialized` are the state of `useAuth`, lost by a `Reload`. `asks` are requests to the gateway and
their answers: signing in asks twice (`"listen"` by firebase's listener, `"login"` by the form), signing up once each, `Created`
handles a new workspace. `Entered`, `Unknown` and `Created` are the three ways an answer becomes state, in any order and whoever
is signed in by then. `Broken` is JavaScript's `undefined`, which `createWorkspace` stores as a workspace when it was refused, whether
the gateway had stored the row already or not. `Fail` loses a request, or the answer to one that was done.
`Console` extends it with the gateway's `rows` and `registry`, and the `page` that is open with its `list`, `tools` and
editor. A `Call` takes the key of its moment along and is served in steps (`ReadRows`, `ReadTools`, `GetById`, then `Change`), so
that two of them interleave; `HandleLoad`, `HandleTools`, `HandleChange`, `HandleImport`, `HandleSync` and `HandleFailure` are
what the pages do with the answers; `ToolsRefused` is a refused answer to the tools
beside a good one to the actions, whose list is shown all the same. `SwitchWorkspace` leaves the page as it is, as the code does. `stored`, `by`, `listed`, `alone`
and `unsure` are history: for whom answers were stored, who sent a request, with which workspace the list was read, and which
rows were touched by requests that overlapped or got lost.


## 4. Runs and bounds

| Run | Asks | Instance | Size |
|---|---|---|---|
| `run_lifecycle` | are accepted runs answered, rows owned, row and feed in agreement, deletions final, and is `RunPromise` implemented? | an existing agent with a REST run, an agent the builder creates with its first run, one runtime, 2 faults, 1 duplicate | 150 526 states, 20 s |
| `run_restart` | is a run with an outcome ever started again? (violation, finding 1) | the same without faults | stops at the counterexample |
| `ws_fanout` | do listeners, and only they, get events? is anything leaked or left unconsumed? | 2 sockets, one with keys of both of 2 workspaces, an event for each, 1 crash, 1 lost acknowledgement | 394 659 states, 90 s |
| `tool_registry` | what can make a cache stale? what can a synchronisation lose? | 2 processes, 3 requests of which 2 at a time, 2 actions of an uploaded template, both listed by the provider | 1 132 152 states, 60 s |
| `tool_discovery` | are imported actions listed under their integration? (violation, finding 2) | 2 integrations of one kind and one other | stops at the counterexample |
| `socket_client` | is there one socket, timer and ping? does a client that left stay quiet, and one that stays come back? | one client of each kind, 3 sockets at a time, 3 connects, 2 drops or failing closes, 2 timers | 238 793 states, 38 s |
| `chat_session` | is a plan confirmed once and after its connections were reported? does an outcome end what it should? | two plans with 2 missing connections, 5 events and a duplicate; two plans and lost requests, 9 messages; or a plan, a run and a stranger's run with tools, 7 events | 2 221 000 states, 105 s |
| `connections` | does a completed connection survive? is the list whole? are waiting runs settled? | 2 keys, one a prefix of the other, 3 connections, two of them for one row and one without a tag, 2 accounts, 2 runs, 3 requests of which 2 at a time, 1 change at the provider, 1 fault | 853 650 states, 135 s |
| `agent_life` | is an account whole, does the cluster follow the rows, is a cron agent scheduled? | 2 requests for one account, 2 agents, 2 confirmations, 1 fault | 486 274 states, 60 s |
| `run_steps` | is every step closed once, under an index of its round? | 3 calls, all in parallel or in rounds, 2 integrations with similar names, 1 fault | 5 432 687 states, 90 s |
| `console` | are key, menu and changes those of the user who is signed in? does a change hit the clicked row, does a page show what is stored? | 2 users, 3 workspaces, 3 actions of one name in 2 workspaces, 3 requests | 2 312 272 states, 105 s |
| `action_interpreter` | does the model's input reach the provider once? do the two implementations agree? are details in order? | a field in up to three of seven places and with every property beside another, answers of up to 3 items | 354 919 states, 45 s |

Why these bounds show something:

* `MaxFaults = 2`: one fault inside the `try` and one inside its `except` branch, or a crash after a
  fault. `MaxDuplicates = 1`: one extra copy of one message; every interference of a copy with the
  original is between two. Two runs share one subscription, so that one waits behind the other.
* One runtime process is what `docker-compose.yml` runs and what `FeedMatchesRow` and `KeepsPromise`
  need; in a cluster the pods of cron jobs add more. The other invariants of the run are proved for any number of processes (section 6), and TLC
  agrees for two (445 555 states).
* Two sockets and two workspaces are the smallest instance in which one client may see what another
  must not, and in which one socket proves two keys. One crash and one lost acknowledgement give
  one redelivery of each kind.
* Two processes are needed for a change the other one does not hear of; the third request gives both
  processes one and lets one of them serve two at once. Two actions let an import die between two creates. Requests are reused when they end, so
  behaviours are of unbounded length.
* `socket_client`: the second socket makes an overlap, the third lets an overlap meet a reconnection; two drops
  lose the first connection and its reconnection. A socket that fails while it closes counts as a drop as well: the chat then closes the
  socket that replaced it, and without a bound this could go on for ever.
* `chat_session`: the three worlds are the ways the list is contended for: by cards of plans, by marks that outlive
  their plan, which takes a list of nine messages, and by events of runs. Two connections are needed for a plan that is nearly ready, and one duplicate for a second preview.
  `MaxInFlight = 2` lets one event overtake another.
* `connections`: two requests interleave, the third can begin after one of them ended. A request takes the first free
  slot, which loses nothing but names. The old connection works or is broken at first, so that one change, the second authorization
  for its row, makes a good and a bad one share it; another change authorizes the untagged one instead. The second account offers nothing,
  or what the first has not. One fault is
  enough to end a request anywhere. Without liveness TLC has also checked two changes with both accounts at first (6.3 million states).
* `agent_life`: two requests race for one account, a second confirmation makes a second agent, and one fault or crash meets
  each step. The initial states split the space, since sign-up and planning share nothing but the namespace.
* `run_steps`: three calls are three in a round, one round of two and one more, or three rounds; six super-steps are three
  rounds, so that the limit is reached too. A summary raises whenever it may, without a bound.
* `console`: three requests are the least with which a user signs in after another one, opens a page and changes something, and with
  which two changes overlap after a reading. Two actions of one name in one workspace make the name ambiguous, the third one, of another
  workspace, is what a switch can confuse. Two kinds of initial states: both users have accounts, or the second one signs up.
* `action_interpreter`: the operators look at one field at a time, except for aliases, which the second field
  provides. Three places are one more than any two uses of a field that could disagree. Limits are below, at and above the
  instance's default (10 in the code), with answers up to one longer.

`CHECK_DEADLOCK FALSE` is set where the system may stop: ids are used up in `RunLifecycle`, and the
events and sockets in `WsFanout`, the bounds of the other modules are reached, and a run, a planning
thread and a call end. `SYMMETRY` is used in `ToolCatalog`, for two requests of one process that nothing tells
apart and, in `tool_registry`, for the two actions, whose names and key are only compared, in `ChatSession`, for the commands and the runs of one world (not for providers, whose cards come in an order), and in `RunSteps`, for the two
connectors, which both comparisons of names treat alike; always with invariants, or an action property, only.


## 5. Fairness

Six properties are of liveness.

* `AcceptedRunSettles` under `RunLifecycle!FairSpec`: weak fairness of the gateway's and builder's handlers
  once begun, of the runtime's handler, of JetStream's delivery and of the client's loop. The code
  justifies it: event loops run every ready task, HTTP and model calls time out, and the executor has a
  recursion limit, so `Execute` ends. Nothing is assumed of users (new requests, deletions), of faults, or
  of the order of messages.
* `EveryEventIsConsumed` under `WsFanout!FairSpec`: weak fairness of `Restart` (the container's
  restart policy) and of `Consume` for each event (JetStream pushes again what is not acknowledged, and the
  subscription loop runs). Browsers are not obliged to anything.
* `StaysConnected` and `ConnectSettles` under `SocketClient!SCFairSpec`: weak fairness of the timer, of opening, of the server's
  handling of an `auth` and of the close event after `close()`. Browsers run their timers and report every close. The server
  handles every `auth`, which is not to say that it answers: the fairness is that of `Answered \/ Unanswered`, and a client that was
  `ignored` on a socket that stays open waits for ever, as both properties say. Nothing obliges the application to call anything, or the
  network to fail.
* `WokenRunSettles` under `Connections!FairSpec`: weak fairness of the
  runtime's two subscriptions and nothing else, for the same reasons as in `RunLifecycle`. Users, the requests of the gateway, the provider and
  faults are free.
* `CronAgentIsScheduled` under `AgentLife!FairSpec`: weak fairness of the scheduler's two handlers, whose calls time out and
  whose messages are pushed until acknowledged. The builder and the users are free: an agent whose `READY` event is out
  is what the property is about.

The bounds on faults, crashes and lost acknowledgements matter here: liveness holds when
these stop at some time.


## 6. What is proved

All proofs are for any values of the constants that satisfy the assumptions stated in the modules
(`AgentsAssumption`, `KeysAssumption` and so on: types of functions, bounds that are naturals, a null that is not a
member). No fairness and no finiteness is assumed.

**RunLifecycleProofs.** *For any number of runtimes*, `IndInvCorrect` establishes `IndInv`, the
conjunction of `TypeOK`, `ForeignKey`, `FreshIds`, `TriggerOrder`, `UnsettledRowIsOwned` and
`AcceptedRunIsAnswered`. The last two are the claims; they are not inductive alone. That a pending row
is owned relies on the claim finding the row, hence on `ForeignKey`; that a trigger is never lost on
the early return for an unknown agent relies on `TriggerOrder`, which says that whoever will send
it did so after the agent was committed; `FreshIds` keeps a new id from meeting old rows. From it follow `TypeCorrect`,
`AcceptedAnswered`, `UnsettledOwned`, `TriggeredExists` and `DeletionFinal`.
*With one runtime* (`OneRuntime`), `SoloInvCorrect` adds `HandlerKnows` (what a handler may assume of its
row and of the last event, since it is the only one to change them, deletion apart) and `FeedMatchesRow`;
from it follow `FeedAgrees` and `ImplementsPromise`, which maps each action to a step of `RunPromise` or
a stutter. `OneRuntime` is necessary: two handlers of two copies commit in one order and announce in
the other.

**SocketProofs, the service.** `IndInvCorrect` establishes `TypeOK`, `Proved` (a registration and a `workspaceId` were
proved by a key), `RequestsKnowWorkspace`, `AudienceListens` (whoever should be sent an event is
still registered for it; this is what makes `NoMissedEvent` inductive) and `OneWorkspace` (a
socket that did not race is registered exactly where `handleDisconnect` will look), with the
properties themselves.

**ToolProofs, the catalog.** `IndInvCorrect` adds `LoadIsCurrent` to `CacheIsCurrent`: the same claim of a load
under way, which becomes the cache's content later. `SyncedToolsFound` and `ProxyNamesAreStable` rely on
the unique index, which is part of `TypeOK` (a name is listed once).

**ConnectionsProofs.** `IndInvCorrect` adds to `TypeOK` `HoldsItsWork` (what a request holds suits its
next statement) and, for each claim, what makes it inductive. Nothing is assumed of the provider: connections may share rows or
have no tag, an account may answer any list. `CompletedStaysReady` needs `ReportedIsSound` and `SyncSparesReported`: every list
that is still to be applied has the row of each reported connection, with nothing broken for it, and no deletion has its id, which
rests on ids that are never shared. `ListIsWhole` needs that, unless `blended`, any two answers waiting to be inserted meet, and meet
what is listed (`ListInv`): then the unique index refuses the second. `SyncFaithful` needs `SyncIsOnItsWay`, what a synchronisation that
nobody disturbed has done so far: each connection of its list is still to be applied, or its row is `Right`, that is of one of the
connections that share it. The runs that wait take part in `TypeCorrect` only.

**SocketProofs, the clients.** `OneOfEach` and `QuietAfterDisconnect` are not inductive, since they say nothing of handles. As long as
no `connect()` overlapped, `IInv` has `TimerIsKept` (an armed timer is the one whose handle the object holds),
`OneConnection` (one socket, none beside a timer, and what is not closing is `this.ws`), `OnePing` (a ping is held and has
its socket; the SDK starts it once) and `Left` (what `disconnect()` leaves behind). `OneConnectionAtATime` and
`QuietOnceLeft` follow for any number of sockets, connects and drops.

**RunStepsProofs.** `StepsAreClosed` rests on an account of every call by its place: `Places` and `Histories` give for each `pc` what
the call has shown so far, `IndexCounts` says that `step_index` is the number of calls that were counted, and `Round` that the
base of a round is the number counted before it. A call that is not counted yet therefore leaves the index below
`base + team`: an argument by cardinality. A call in `opaque` is done without having been counted, unless it raised, which keeps the
bound. The proof found an assumption that was missing: connectors must not be
named like the built-in tools (`ConnectorsAssumption`), or the type invariant is false.

**AgentLifeProofs.** What each handler has done when it stands at a statement. `AccountsAreWhole` needs `RequestsInOrder`: the
organisation of the account is of a request that went on from its insert. `RowsAgreeWithCluster` needs `NamespacesInOrder` (a
namespace without its secret is the one the scheduler is working on, or a fault struck it), `RowsInOrder` (an agent
has its row before anybody hears of it) and `ScheduleInOrder` (a row behind its job is the one that is updated next). Crash and
redelivery are steps like others.

**ChatSessionProofs.** The largest of the proofs: `IInv` has `Wires` (an event on its way speaks of a command or a run that is as far
as that), `Cards` and `Plans` (which hold whatever happens) and `RunsAreOwned` (a command has no more runs than
confirmations, and the outcome of a run that is over is on its way or was handled). Without `crowded`, `CardsInUse`, `Pending` and
`PlanCards` say why a plan's card comes once: all cards and requests in use are those of the pending plan, so the last completion
finds no other. Without `late`, `InTime` says that whatever is processing is awaited by somebody. `ConfirmedPlansAreConnected`
holds without any exemption.
Two of the claims turned out to hold only because lists were short. A card that was marked connected although its request was lost
counts for a later plan as well, whose own completion then shows its card a second time; and a card under which a stranger's
step runs is completed without ending it. Both are now causes that the model records (`Crowded`, `Covers`), and the bounds
of the run are wide enough for both to happen.

**ToolProofs, the interpreter.** `CallInv` says of a call that failed or was sent that its input was made for its definition (`Sending`), and of
an answer that its items are in order and within the limit and that each detail is awaited or its item's (`Answering`). With it
`AnswersAreFaithful` holds for any response and any order of the details. That the port's filter keeps the order is an argument by
ranks: of a finite set of indices each rank up to its size is taken once (`RankTaken`, a pigeonhole), so `At` is a sequence in
order. `RequestsAreFaithful` is a statement about operators: `SidesAgree` follows one entry of a request from one
implementation to the other, by way of the argument it was made of (`ArgumentCrosses`, which needs that neither a null default nor an
empty list of aliases is all that maps it) and of the conversions of values that nobody disputes (`UndisputedAgree`); `FieldIsSent` finds the entry of a field; and `CopyHasOrigin` gives for an entry one of seven
origins it can come from, of which a field in at most one place, that no alias names, has at most one.

**ConsoleProofs.** `ConsoleInv` is about what is on its way. Of the session: the ids of questions are distinct (`AskTable`), an answer
carries workspaces of the user it is for (`AnswersAreOwn`, which relies on a workspace keeping its owner: a late answer is
old, not wrong), and whatever was stored is of somebody in `stored` (`SessionOfStored`). Of the pages: the rows that are shown are of the
workspace they were listed with, and the row that is edited has the name of the row that was clicked (`PageMeant`); a call past its
reading has found its row in the workspace of its key (`CallTable`), which its asker owns unless nobody was signed in
(`AskedByOwner`). `Pending` is what makes `RowsAreStored`
inductive: while a request is alone it is the only one that can touch a row, so what it was answered is what is stored
(`AloneIsAlone`, `AnswersAreStored`); a change that outlives its page makes every row unsure (`GoneIsUnsure`); and of each other
row either the page shows what is stored or the answer that will correct it is on its way (`RowsOrAnswers`). From it follow
`TheSessionIsOfTheUser`, `TypeCorrect`, `ShownRowsAreStored`, `EveryChangeHitsTheRow` and `EveryChangeIsOfTheUser`, for any users, workspaces and actions, and
any number of requests; that a free id exists for each is an argument by cardinality (`FreeIdExists`).

**Checked by TLAPS only.** `TypeOK` of `WsFanout`, `ToolCatalog`, `Connections` and `AgentLife`, `SCTypeOK` of `SocketClient`: as a part of the
inductive invariants it is proved for every instance, so that no run repeats it.

**Model-checked only.** The six liveness properties, because liveness under fairness and ENABLED are beyond the prover. Every invariant and
action property of the passing runs is the property of a theorem, `ImplementsPromise` for `KeepsPromise` included.
`SocketProofs` and `ToolProofs` are about two modules each, which is why the names that `SocketClient` and `ActionInterpreter` would share
with the other one carry a prefix (`SCSpec`, `CallSpec`).
No module that is proved about declares a RECURSIVE operator.


## 7. Findings

1. **A settled run is started again** (`run_restart`, `SettledRunIsNotRestarted`). The comment at
   `services/shared-py/shared/nats_client.py:107-111` says that acknowledging first avoids the
   redelivery of long runs. It does for the message in hand. A message that waits behind it in the
   buffer is not acknowledged: after `ack_wait` JetStream pushes it again, both copies are handled, and
   the second claim puts a row that has its outcome back to `RUNNING`.
2. **Imported actions that cannot be found** (`tool_discovery`, `ImportedActionsAreDiscoverable`). The
   comment at `libs/integration-provider/src/tool-registry.service.ts:63-64` says that proxy actions are
   upserted so that they are discoverable. The unique index is on workspace, provider and action name,
   without the integration: a second integration of the same kind takes over the first one's entries.

Known consequences the models describe and do not count as findings:

* A closed socket whose lookup is answered late stays registered (`LeaksOnlyByRace` names the cause).
* A cache may be stale for up to five minutes for three reasons (`CacheIsCurrent`), and after a failed INSERT the
  provider's tools are gone until the next synchronisation (`SyncedToolsAreFound`).
* A connection completed while a synchronisation is under way may be overwritten or deleted by its older list
  (`CompletedStaysReady` exempts `raced`). Of several connections that share a row the last one read wins, a broken old one over the
  new one; the row that a client reported of a connection without a tag is deleted by the next synchronisation, which writes one
  under the connection's id (`Sound` names both). After a change of the account, two synchronisations may leave the lists of both (`blended`).
* A client whose `auth` raised on the server waits on an open socket for ever (`StaysConnected` and `ConnectSettles` exempt `ignored`).
* A resume that fails only logs: the row stays `RUNNING` (`ResumeFails`, which `WokenRunSettles` exempts as a fault).
* A namespace that exists without its secret never gets it, for the redelivered message finds the namespace
  (`ClusterFollowsRows` exempts `struck`).
* An agent of `createAgent` is not announced to the scheduler, and a deleted agent keeps its cron job.
* A preview may be confirmed twice over REST or after it met the cards of another plan (`ConfirmedOnce`
  exempts `crowded`); nobody compares the `commandId`, so that two agents result (`AgentLife!Confirm`).
* An event that is handled after the outcome of its run puts a message back to processing (`NothingSpins` exempts
  `late`).
* In the console, an answer that comes after its user signed out is stored all the same: key and menu are then those of somebody
  else than firebase's user (`SessionIsOfUser` and `ChangesAreOfTheUser` exempt it by `stored`). A refused `createWorkspace` becomes a
  workspace that is `undefined`, after which the menu cannot be drawn. If the listener's login overtakes the sign-up, its refusal shows the
  user without a workspace until the sign-up answers.
* On the tools page a tool is matched to the first action of its name, which may be another integration's (`ChangesHitTheRow` asks for
  the name only); after a switch of the workspace the old list stays, and its buttons are refused by the gateway.
* A step of parallel tools may end under the index of another one of its round. A `finish` with invalid arguments is shown
  as a failed step that never began; a planner's step whose tool raised stays open, and so does an executor's whose result has no summary, an
  `"error": null` for example (`Closed`).
* A connection of a similar name is accepted by the executor (`tool_factory.py:125`), and the request then names
  the action's own provider key.
* Parameters that only a body template uses are offered for actions without a body and not sent, nor are fields inside other text of a
  template, or the condition of a constant part of the query (`SentOnce`). The
  port prints booleans and lists differently from the original, and whole numbers that its schema made floats as `10.0` in the path and in
  a query part; it keeps a zero in a query part, skips properties with a null default or an empty list of aliases, fails for
  an empty list in the path, takes a limit of 0 literally, and picks from records only (`Text`, `Part`, `SaysHow`, `PathFails`, `Limit`, `Mapped`).


## 8. What is not modelled

* *External parts, modelled by how the code uses them:* JetStream's durable push consumers (delivery,
  expiry of `ack_wait`, refusal of a second bound subscriber), PostgreSQL (a statement is
  atomic; foreign keys and unique indices hold), Kubernetes (a call takes effect or not), Nango (its lists and its Connect
  UI), the ReAct loop of LangGraph (it waits for all tools of a round, hands their exceptions to the model, and has a recursion limit).
* *Data:* prompts, plans, payloads, tool arguments and results, credentials, the texts and layout of the
  chat. The language model is a choice of outcome.
* *The cause of a pause:* nothing in the platform ever sets `PAUSED`, although the handlers look for it
  (`agent-runtime-py/src/handler.py:166`). `Connections` begins with paused runs; that a run
  pauses while it executes is not modelled.
* *Left out of modelled parts:* settings of an organisation and key regeneration; renaming updates of proxy
  actions; MIME messages, headers and the extraction of bodies and attachments; the port's filter by output schema;
  trimming of tool results; generated files; events no service publishes.
* *Of the web console:* the pages that show agents, runs, connections, keys and documents; several tabs over one browser storage; an edit that
  renames an action; a workspace without a provider. An import is one step of the gateway here, its statements are those of `ToolCatalog`.
* *Single statements and pure I/O:* connection-registry, RAG, provider adapters, template files, logging, manifests. They have no protocol of their own, so that a model would restate
  assignments.
* *What a cron job's pod does:* it starts one more runtime, which `RunLifecycle` covers as a second member of `Runtimes`.


## 9. Plan

The runs ask what the system has to be asked, and every safety property they check is proved. Left
are abstract specifications that would be worth stating: an agent's life (planned, stored, scheduled, deleted) that `AgentLife`
implements, a one-place client (`closed`, `connecting`, `open`) that `SocketClient` implements without overlaps, and that the
resume path of `Connections` keeps `RunPromise`.
