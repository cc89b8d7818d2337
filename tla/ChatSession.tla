---------------------------- MODULE ChatSession ----------------------------
(***************************************************************************)
(* A session of examples/chat-app: the hook useAgentChat, which folds the  *)
(* events of the websocket into a list of messages, and the cards in those *)
(* messages, by which the user connects accounts and confirms plans.       *)
(*                                                                         *)
(* Every event type is a JetStream subject with a subscription of its own  *)
(* in the websocket-service: events of one subject keep their order, those *)
(* of two subjects do not, and an event may be pushed twice. They go to    *)
(* everybody in the workspace, so that runs somebody else started are seen *)
(* here too. Planner, builder and runtime are reduced to the order in      *)
(* which they publish.                                                     *)
(*                                                                         *)
(* Left out: texts, icons, and the messages of the user and of the system, *)
(* which the updates of "the last agent message" skip; events that no      *)
(* service publishes (paused, sub-agent, iteration, wait_connection_oauth) *)
(* or that change no status (thinking of the planner, agent_scheduled);    *)
(* and agent_run_resumed, which the runtime publishes for a paused run: no *)
(* run of this module is ever paused, as no service pauses one.            *)
(*                                                                         *)
(* Bounds: one tool call of each planner and run, MaxInFlight and          *)
(* Worlds, that is which commands, missing connections, runs, tool calls,  *)
(* how many messages, events and duplicates to look at together.           *)
(***************************************************************************)
EXTENDS Integers, FiniteSetsExt, Functions, Sequences, SequencesExt

CONSTANTS
  Commands, Providers, Runs,
  NoCommand,       \* the command of a run that somebody else started
  Worlds,
  MaxInFlight      \* how many events may be on their way at a time

ASSUME NoCommandAssumption == NoCommand \notin Commands
ASSUME ProvidersAssumption == IsFiniteSet(Providers) /\ "none" \notin Providers
World ==
  [cmds : SUBSET Commands, needs : SUBSET Providers, runs : SUBSET Runs,
   tools : BOOLEAN, clears : BOOLEAN, messages : Nat, events : Nat, duplicates : Nat]

ASSUME WorldsAssumption == Worlds \subseteq World
ASSUME MaxAssumption == MaxInFlight \in Nat

VARIABLES
  world,           \* a member of Worlds
  messages,        \* the messages of role agent
  processing,
  pendingPlan,     \* pendingPlanRef.current, as the command of the plan
  seen,            \* seenCommandIdsRef.current
  dialog,          \* the message whose card has the Connect UI open, or 0
  registering,     \* requests of handleOAuthComplete under way, by provider
  registered,      \* connections the platform knows of
  lost,            \* connections whose request failed
  confirms,        \* confirms[c]: how often agent_plan_confirm was sent for c
  stage,           \* stage[c]: how far the builder is with c
  missing,         \* missing[c]: missingConnections of the plan of c
  run,             \* run[r]: how far the runtime is with r
  owner,           \* owner[r]: the command r was started for
  wire,            \* wire[k]: events of subject k that are on their way
  duplicates,
  published,
  settled,         \* runs whose outcome this session has handled
  late,            \* an event was handled after the outcome of its run, a step began
                   \* in a finished message, or a message was finished under its step
  crowded          \* a plan came while cards of another one were in use, or marked
                   \* connected without a connection

session == <<messages, processing, pendingPlan, seen>>
accounts == <<dialog, registering, registered, lost>>
server == <<stage, missing, run, owner>>
history == <<settled, late, crowded>>
traffic == <<wire, duplicates, published>>
vars == <<world, session, accounts, confirms, server, traffic, history>>

Subject == {"accepted", "progress", "preview", "created", "started", "thinking",
            "step", "succeeded", "failed"}
Label == {"analyze", "check", "create", "tool"}
RunStage == {"unused", "created", "running", "thought", "calling", "called", "over"}

\* A message: kind says which card is in it, spinning has the labels of its
\* running steps and steps whether it has any, busy is the state of the card
\* (connecting, confirmed), next whether it offers next actions.
Message ==
  [kind : {"note", "connect", "plan"}, status : {"processing", "complete", "error"},
   spinning : Seq(Label), steps : BOOLEAN, cmd : Commands \cup {NoCommand},
   provider : Providers \cup {"none"}, connected : BOOLEAN, busy : BOOLEAN,
   next : BOOLEAN]

\* One type invariant: a plan that is shown or waits to be was recorded as seen,
\* and a confirmation is of a plan that was seen.
TypeOK ==
  /\ world \in World
  /\ messages \in Seq(Message) /\ processing \in BOOLEAN
  /\ pendingPlan \in seen \cup {NoCommand} /\ seen \subseteq Commands
  /\ \A i \in DOMAIN messages : messages[i].cmd \in seen \cup {NoCommand}
  /\ dialog \in DOMAIN messages \cup {0} /\ registering \in [Providers -> Nat]
  /\ registered \cup lost \subseteq Providers
  /\ confirms \in [Commands -> Nat] /\ \A c \in Commands : confirms[c] > 0 => c \in seen
  /\ stage \in [Commands -> {"new", "planning", "checking", "checked", "previewed", "failed"}]
  /\ missing \in [Commands -> SUBSET Providers]
  /\ run \in [Runs -> RunStage] /\ owner \in [Runs -> Commands \cup {NoCommand}]
  /\ DOMAIN wire = Subject /\ duplicates \in Nat /\ published \in Nat
  /\ settled \subseteq Runs /\ late \in BOOLEAN /\ crowded \in BOOLEAN

Init ==
  /\ world \in Worlds
  /\ messages = <<>> /\ processing = FALSE /\ pendingPlan = NoCommand /\ seen = {}
  /\ dialog = 0 /\ registering = [p \in Providers |-> 0]
  /\ registered = {} /\ lost = {}
  /\ confirms = [c \in Commands |-> 0]
  /\ stage = [c \in Commands |-> "new"] /\ missing = [c \in Commands |-> {}]
  /\ run = [r \in Runs |-> "unused"] /\ owner = [r \in Runs |-> NoCommand]
  /\ wire = [k \in Subject |-> <<>>] /\ duplicates = 0 /\ published = 0
  /\ settled = {} /\ late = FALSE /\ crowded = FALSE

-----------------------------------------------------------------------------
(* The message list.                                                         *)

Note(status, spinning, steps) ==
  [kind |-> "note", status |-> status, spinning |-> spinning, steps |-> steps,
   cmd |-> NoCommand, provider |-> "none", connected |-> FALSE, busy |-> FALSE, next |-> FALSE]

PlanCard(c) ==
  [Note("processing", <<>>, TRUE) EXCEPT !.kind = "plan", !.cmd = c]

ConnectCard(c, p) ==
  [Note("processing", <<>>, FALSE) EXCEPT !.kind = "connect", !.cmd = c, !.provider = p]

Latest == Last(messages)

\* The list with a new version of the last message, if there is one.
UpdateLast(version) ==
  IF messages = <<>> THEN <<>> ELSE [messages EXCEPT ![Len(messages)] = version]

AddStep(m, label) == [m EXCEPT !.spinning = Append(@, label), !.steps = TRUE]

\* The running step with this label, or else the last running one, or else a
\* step of its own.
EndStep(m, label) ==
  LET matching == {i \in DOMAIN m.spinning : m.spinning[i] = label}
      running == IF matching = {} THEN DOMAIN m.spinning ELSE matching
  IN [m EXCEPT !.steps = TRUE,
               !.spinning = IF running = {} THEN @ ELSE RemoveAt(@, Max(running))]

\* Mutant: only the last message is finished.
FinishLast(ms) ==
  [i \in DOMAIN ms |->
     IF i = Len(ms) /\ ms[i].status = "processing"
     THEN [ms[i] EXCEPT !.status = "complete", !.spinning = <<>>]
     ELSE ms[i]]

\* An outcome finishes every message that is processing, with its steps.
FinishAll(ms) ==
  [i \in DOMAIN ms |->
     IF ms[i].status = "processing"
     THEN [ms[i] EXCEPT !.status = "complete", !.spinning = <<>>]
     ELSE ms[i]]

IsThinking(m) == ~m.steps /\ m.kind = "note"

-----------------------------------------------------------------------------
(* Events.                                                                   *)

Late(e) ==
  \/ e.run \in settled
  \/ e.status = "running" /\ messages # <<>> /\ Last(messages).status # "processing"
  \/ e.cmd # NoCommand /\ \E r \in settled : owner[r] = e.cmd

Coming(k) == IF wire[k] = <<>> THEN {} ELSE {Head(wire[k])}

\* The next event of a subject. Except for the answer to a command it may be
\* pushed again, before its acknowledgement or after it was lost.
Receive(k, e) ==
  /\ Len(messages) + Cardinality(world.needs) <= world.messages
  /\ \/ wire' = [wire EXCEPT ![k] = Tail(@)] /\ UNCHANGED duplicates
     \/ /\ k # "accepted" /\ duplicates < world.duplicates
        /\ duplicates' = duplicates + 1
        /\ UNCHANGED wire
  /\ UNCHANGED <<world, accounts, confirms, server, published>>

\* An event that only updates the list.
Shown(k, e, list) ==
  /\ Receive(k, e)
  /\ messages' = list
  /\ late' = (late \/ Late(e))
  /\ UNCHANGED <<pendingPlan, seen, settled, crowded>>

CommandAccepted(e) ==
  /\ Shown("accepted", e, Append(messages, Note("processing", <<"analyze">>, TRUE)))
  /\ processing' = TRUE

PlannerProgress(e) ==
  /\ Shown("progress", e, UpdateLast(
       IF e.status = "running" THEN AddStep(Latest, "check") ELSE EndStep(Latest, "check")))
  /\ UNCHANGED processing

\* A card that still shows its button, and a button that can be pressed.
InUse(m) == m.kind = "connect" /\ ~m.connected
CanConnect(m) == InUse(m) /\ ~m.busy
CanConfirm(m) == m.kind = "plan" /\ ~m.busy

\* What the preview of c makes of the list: the last message is complete, and the
\* cards follow, one for each missing connection or the one of the plan.
Previewed(c) ==
  LET analyzed == UpdateLast(
        [Latest EXCEPT !.status = "complete", !.spinning = <<>>, !.steps = TRUE])
      cards == IF missing[c] = {} THEN <<PlanCard(c)>>
               ELSE LET order == SetToSeq(missing[c])
                    IN [i \in DOMAIN order |-> ConnectCard(c, order[i])]
  IN analyzed \o cards

\* The plan of c meets cards of another one: a card in use, a request under way, or
\* a card that was marked connected although the plan lacks its connection still.
Crowded(c) ==
  \/ \E i \in DOMAIN messages :
       \/ InUse(messages[i])
       \/ messages[i].connected /\ messages[i].provider \in missing[c]
  \/ \E p \in Providers : registering[p] > 0

\* Mutant: the command is not remembered.
PlanPreviewForgotten(e) ==
  /\ Receive("preview", e)
  /\ IF e.cmd \in seen
     THEN UNCHANGED <<messages, pendingPlan, late, crowded>>
     ELSE /\ pendingPlan' = e.cmd
          /\ messages' = Previewed(e.cmd)
          /\ crowded' = (crowded \/ Crowded(e.cmd))
          /\ late' = (late \/ Late(e))
  /\ UNCHANGED <<seen, processing, settled>>

\* Mutant: a plan that is pushed twice is shown twice.
PlanPreviewAgain(e) ==
  /\ Receive("preview", e)
  /\ seen' = seen \cup {e.cmd}
  /\ pendingPlan' = e.cmd
  /\ messages' = Previewed(e.cmd)
  /\ crowded' = (crowded \/ (e.cmd \notin seen /\ Crowded(e.cmd)))
  /\ late' = (late \/ Late(e))
  /\ UNCHANGED <<processing, settled>>

\* agent_plan_preview: the plan replaces whichever was pending.
PlanPreview(e) ==
  /\ Receive("preview", e)
  /\ IF e.cmd \in seen
     THEN UNCHANGED <<messages, pendingPlan, seen, late, crowded>>
     ELSE /\ seen' = seen \cup {e.cmd}
          /\ pendingPlan' = e.cmd
          /\ messages' = Previewed(e.cmd)
          /\ crowded' = (crowded \/ Crowded(e.cmd))
          /\ late' = (late \/ Late(e))
  /\ UNCHANGED <<processing, settled>>

AgentCreated(e) ==
  /\ Shown("created", e, UpdateLast([Latest EXCEPT !.spinning = <<>>, !.steps = TRUE]))
  /\ UNCHANGED processing

RunStarted(e) ==
  /\ Shown("started", e, UpdateLast([Latest EXCEPT !.status = "processing", !.steps = TRUE]))
  /\ UNCHANGED processing

RunThinking(e) ==
  /\ Shown("thinking", e, Append(messages, Note("processing", <<>>, FALSE)))
  /\ UNCHANGED processing

RunStep(e) ==
  /\ Shown("step", e, UpdateLast(
       IF e.status = "running" THEN AddStep(Latest, "tool") ELSE EndStep(Latest, "tool")))
  /\ UNCHANGED processing

Outcome(k, e, list) ==
  /\ Receive(k, e)
  /\ messages' = list
  /\ processing' = FALSE
  /\ pendingPlan' = NoCommand
  /\ settled' = settled \cup {e.run}
  /\ UNCHANGED <<seen, late, crowded>>

\* A last message without steps or card is taken for the thinking that repeats the
\* summary, and becomes the result; otherwise the result is a message of its own.
RunSucceeded(e) ==
  LET done == FinishAll(messages)
      result == [Note("complete", <<>>, TRUE) EXCEPT !.next = TRUE]
  IN Outcome("succeeded", e,
       IF done # <<>> /\ IsThinking(Last(done))
       THEN [done EXCEPT ![Len(done)] = result]
       ELSE Append(done, result))

RunFailed(e) ==
  Outcome("failed", e, Append(FinishAll(messages), Note("error", <<>>, TRUE)))

-----------------------------------------------------------------------------
(* The user. While the Connect UI covers the page nothing else is clicked.   *)

FreeToClick == dialog = 0 /\ Len(messages) < world.messages

Publish(k, e) ==
  /\ FoldFunction(LAMBDA s, n : Len(s) + n, 0, wire) < MaxInFlight
  /\ published < world.events
  /\ published' = published + 1
  /\ wire' = [wire EXCEPT ![k] = Append(@, e)]

Event(c, r, status) == [cmd |-> c, run |-> r, status |-> status]

Dismiss(ms) == [i \in DOMAIN ms |-> [ms[i] EXCEPT !.next = FALSE]]

\* sendMessage, or the next action "schedule", which also dismisses the offers.
Send(c) ==
  /\ FreeToClick /\ stage[c] = "new"
  /\ stage' = [stage EXCEPT ![c] = "planning"]
  /\ Publish("accepted", Event(c, "none", "none"))
  /\ \/ UNCHANGED messages
     \/ /\ \E i \in DOMAIN messages : messages[i].next
        /\ messages' = Dismiss(messages)
  /\ UNCHANGED <<world, processing, pendingPlan, seen, accounts, confirms, missing, run, owner,
                 duplicates, history>>

\* The next actions "save" and "actions_on_data" answer by themselves.
NextAction ==
  /\ FreeToClick /\ \E i \in DOMAIN messages : messages[i].next
  /\ \E steps \in BOOLEAN :
       messages' = Append(Dismiss(messages), Note("complete", <<>>, steps))
  /\ UNCHANGED <<world, processing, pendingPlan, seen, accounts, confirms, server, traffic, history>>

\* The button of a connection card.
ClickConnect(i) ==
  /\ FreeToClick /\ CanConnect(messages[i])
  /\ messages' = [messages EXCEPT ![i].busy = TRUE]
  /\ dialog' = i
  /\ UNCHANGED <<world, processing, pendingPlan, seen, registering, registered, lost, confirms, server,
                 traffic, history>>

\* Closed, or refused by the session route: the button may be clicked again.
DialogFails ==
  /\ dialog # 0
  /\ dialog' = 0
  /\ messages' = [messages EXCEPT ![dialog].busy = FALSE]
  /\ UNCHANGED <<world, processing, pendingPlan, seen, registering, registered, lost, confirms, server,
                 traffic, history>>

\* handleOAuthComplete until its await.
DialogConnects ==
  /\ dialog # 0
  /\ dialog' = 0
  /\ registering' = [registering EXCEPT ![messages[dialog].provider] = @ + 1]
  /\ UNCHANGED <<world, session, registered, lost, confirms, server, traffic, history>>

AllReady(ms, c) ==
  \A p \in missing[c] : \E i \in DOMAIN ms : ms[i].provider = p /\ ms[i].connected

\* A card of the provider has a running step: RunStep puts it in the last message,
\* whatever that is. The card completes without ending the step.
Covers(p) ==
  \E i \in DOMAIN messages :
    messages[i].provider = p /\ ~messages[i].connected /\ messages[i].spinning # <<>>

\* Mutant: one of the connections is enough.
OAuthCompleteAny(p) ==
  LET updated == [i \in DOMAIN messages |->
        IF messages[i].provider = p /\ ~messages[i].connected
        THEN [messages[i] EXCEPT !.status = "complete", !.connected = TRUE] ELSE messages[i]]
  IN /\ registering[p] > 0 /\ Len(messages) < world.messages
     /\ registering' = [registering EXCEPT ![p] = @ - 1]
     /\ \/ registered' = registered \cup {p} /\ UNCHANGED lost
        \/ lost' = lost \cup {p} /\ UNCHANGED registered
     /\ messages' = IF pendingPlan # NoCommand /\ missing[pendingPlan] # {}
                    THEN Append(updated, PlanCard(pendingPlan)) ELSE updated
     /\ late' = (late \/ Covers(p))
     /\ UNCHANGED <<world, processing, pendingPlan, seen, dialog, confirms, server, traffic,
                    settled, crowded>>

\* handleOAuthComplete after it: whatever became of the request, every card of the
\* provider is connected, and the pending plan may be complete, once more perhaps.
OAuthComplete(p) ==
  LET updated == [i \in DOMAIN messages |->
        IF messages[i].provider = p /\ ~messages[i].connected
        THEN [messages[i] EXCEPT !.status = "complete", !.connected = TRUE] ELSE messages[i]]
      shows == /\ pendingPlan # NoCommand /\ missing[pendingPlan] # {}
               /\ AllReady(updated, pendingPlan)
  IN /\ registering[p] > 0 /\ Len(messages) < world.messages
     /\ registering' = [registering EXCEPT ![p] = @ - 1]
     /\ \/ registered' = registered \cup {p} /\ UNCHANGED lost
        \/ lost' = lost \cup {p} /\ UNCHANGED registered
     /\ messages' = IF shows THEN Append(updated, PlanCard(pendingPlan)) ELSE updated
     /\ late' = (late \/ Covers(p))
     /\ UNCHANGED <<world, processing, pendingPlan, seen, dialog, confirms, server, traffic,
                    settled, crowded>>

\* The button of a plan's card, and confirmPlan: no plan is pending any more.
ConfirmPlan(i) ==
  /\ FreeToClick /\ CanConfirm(messages[i])
  /\ messages' = Append([messages EXCEPT ![i].busy = TRUE],
                        Note("processing", <<"create">>, TRUE))
  /\ pendingPlan' = NoCommand
  /\ confirms' = [confirms EXCEPT ![messages[i].cmd] = @ + 1]
  /\ UNCHANGED <<world, processing, seen, accounts, server, traffic, history>>

ClearMessages ==
  /\ world.clears /\ FreeToClick /\ messages # <<>>
  /\ messages' = <<>> /\ processing' = FALSE /\ pendingPlan' = NoCommand
  /\ UNCHANGED <<world, seen, accounts, confirms, server, traffic, history>>

-----------------------------------------------------------------------------
(* The services, as far as the order of what they publish goes.              *)

Serving == UNCHANGED <<world, session, accounts, confirms, duplicates, history>>

\* The planner calls at most one tool here; when planning fails nothing is said.
PlannerStep(c, from, to) ==
  /\ stage[c] = from
  /\ to = "checking" => world.tools
  /\ stage' = [stage EXCEPT ![c] = to]
  /\ CASE to = "checking" -> Publish("progress", Event(c, "none", "running")) /\ UNCHANGED missing
       [] to = "checked"  -> Publish("progress", Event(c, "none", "completed")) /\ UNCHANGED missing
       [] to = "failed"   -> UNCHANGED <<wire, published, missing>>
       [] to = "previewed" ->
            /\ Publish("preview", Event(c, "none", "none"))
            /\ \E needed \in SUBSET world.needs :
                 missing' = [missing EXCEPT ![c] = needed \ registered]
  /\ UNCHANGED <<run, owner>> /\ Serving

\* handle_plan_confirmed announces the agent and starts a run of it.
Builder(c, r) ==
  /\ run[r] = "unused"
  /\ Cardinality({s \in Runs : owner[s] = c}) < confirms[c]
  /\ run' = [run EXCEPT ![r] = "created"]
  /\ owner' = [owner EXCEPT ![r] = c]
  /\ Publish("created", Event(c, r, "none"))
  /\ UNCHANGED <<stage, missing>> /\ Serving

\* A run that the console or a schedule started.
StrangerRuns(r) ==
  /\ run[r] = "unused"
  /\ run' = [run EXCEPT ![r] = "created"]
  /\ UNCHANGED <<stage, missing, owner, wire, published>> /\ Serving

\* What a run publishes, one event at a time.
RunPublishes(r, from, to, k, status) ==
  /\ run[r] = from
  /\ run' = [run EXCEPT ![r] = to]
  /\ Publish(k, Event(owner[r], r, status))
  /\ UNCHANGED <<stage, missing, owner>> /\ Serving

Runtime(r) ==
  \/ RunPublishes(r, "created", "running", "started", "none")
  \/ world.tools /\ RunPublishes(r, "running", "thought", "thinking", "none")
  \/ world.tools /\ \E from \in {"running", "thought"} : RunPublishes(r, from, "calling", "step", "running")
  \/ RunPublishes(r, "calling", "called", "step", "completed")
  \/ \E from \in {"running", "thought", "called"} :
       RunPublishes(r, from, "over", "succeeded", "none")
  \/ \E from \in RunStage \ {"unused", "over"} :
       RunPublishes(r, from, "over", "failed", "none")

-----------------------------------------------------------------------------
PlannerSteps ==
  {<<"planning", "checking">>, <<"checking", "checked">>, <<"planning", "failed">>,
   <<"planning", "previewed">>, <<"checked", "previewed">>}

Next ==
  \/ \E c \in world.cmds : Send(c)
  \/ \E c \in world.cmds, s \in PlannerSteps : PlannerStep(c, s[1], s[2])
  \/ \E c \in world.cmds, r \in world.runs : Builder(c, r)
  \/ \E r \in world.runs : StrangerRuns(r) \/ Runtime(r)
  \/ \E e \in Coming("accepted") : CommandAccepted(e)
  \/ \E e \in Coming("progress") : PlannerProgress(e)
  \/ \E e \in Coming("preview") : PlanPreview(e)
  \/ \E e \in Coming("created") : AgentCreated(e)
  \/ \E e \in Coming("started") : RunStarted(e)
  \/ \E e \in Coming("thinking") : RunThinking(e)
  \/ \E e \in Coming("step") : RunStep(e)
  \/ \E e \in Coming("succeeded") : RunSucceeded(e)
  \/ \E e \in Coming("failed") : RunFailed(e)
  \/ \E i \in DOMAIN messages : ClickConnect(i) \/ ConfirmPlan(i)
  \/ DialogFails \/ DialogConnects
  \/ \E p \in Providers : OAuthComplete(p)
  \/ NextAction \/ ClearMessages

Spec == Init /\ [][Next]_vars

-----------------------------------------------------------------------------
(* Properties.                                                               *)

\* A plan is confirmed only when each connection it lacked was reported to the
\* platform since, successfully or not: the card of a plan relies on the marks of
\* other messages, made by requests of other cards and other plans.
ConfirmedIsConnected ==
  \A c \in Commands : confirms[c] > 0 => missing[c] \subseteq registered \cup lost

\* A plan is confirmed once, and so becomes one agent, although its preview may be
\* pushed twice and its card is shown by whatever completes it. Not so when it met
\* cards of another plan: a completion of those shows its card again, and a card
\* whose request was lost counts for it, so that its own card shows it again.
ConfirmedOnce ==
  ~crowded => \A c \in Commands : confirms[c] <= 1

\* When every plan was confirmed, every run is over and every event was handled,
\* no message is processing, no step spins and the input is idle: the outcome
\* finishes what the other events left, wherever it is in the list. Not so when
\* an event was late, after the outcome of its run or for a finished message, or
\* when a connection card was completed under a running step.
Quiet ==
  /\ ~late
  /\ \A k \in Subject : wire[k] = <<>>
  /\ \A c \in Commands : stage[c] # "new" =>
       confirms[c] > 0 /\ Cardinality({r \in Runs : owner[r] = c}) = confirms[c]
  /\ \A r \in Runs : run[r] \in {"unused", "over"}

NothingSpins ==
  Quiet =>
    /\ ~processing
    /\ \A i \in DOMAIN messages :
         messages[i].spinning = <<>> /\ messages[i].status # "processing"
=============================================================================
