----------------------------- MODULE AgentLife -----------------------------
(***************************************************************************)
(* From an account to a scheduled agent: signing up stores organisation,   *)
(* workspace and configuration; the scheduler provisions a namespace for   *)
(* the workspace; the planner turns a command into a plan; a confirmed     *)
(* plan, or a request of the SDK, becomes an agent; and the scheduler      *)
(* turns an agent with a cron expression into a cron job.                  *)
(*                                                                         *)
(* Every statement, publish and cluster call is a step of its own. The     *)
(* agent-builder acknowledges a message before it is handled, the          *)
(* scheduler after; both catch every error of a handler and log it.        *)
(*                                                                         *)
(* Faults: a call that fails, with or without effect, or a process that    *)
(* dies; at most MaxFaults. Other bounds: MaxCommands, MaxRounds of the    *)
(* planner's loop, MaxConfirms clicks.                                     *)
(***************************************************************************)
EXTENDS FiniteSets, Integers

CONSTANTS
  Requests,        \* requests that create a workspace, and the workspaces
  First,           \* the one that signed up where Init has an account
  Agents,          \* ids of agents to be drawn
  None,            \* neither a request nor an agent
  MaxCommands, MaxRounds, MaxConfirms, MaxFaults

ASSUME RequestsAssumption == First \in Requests
ASSUME NoneAssumption == None \notin Requests \cup Agents
ASSUME BoundsAssumption == {MaxCommands, MaxRounds, MaxConfirms, MaxFaults} \subseteq Nat

VARIABLES
  cluster,         \* the scheduler found a cluster when it started
  pc,              \* pc[q]: the statement that request q executes next
  organization,    \* the request whose organisation the account has
  workspaces,      \* Workspace rows
  configs,         \* CustomerConfig rows
  orgEvents,       \* orgEvents[q]: ORG_CREATED, "sent" until it is acknowledged
  provisioner,     \* what the handler of ORG_CREATED does next, and for whom
  namespaces,
  secrets,         \* namespaces with db-credentials
  commands,        \* AGENT_COMMAND_SUBMITTED messages so far
  planner,         \* what the planner does next
  rounds,          \* of the planner's loop
  calls,           \* tools that the model called and that did not end yet
  plan,            \* submit_plan was called
  previews,        \* plans that users saw
  confirms,        \* confirmations on the server, and so far
  builder,         \* what handle_plan_confirmed does next, and for which agent
  row,             \* row[a]: AgentDefinition.status
  home,            \* home[a]: its workspace
  cron,            \* agents with a scheduleCron
  ready,           \* AGENT_DEFINITION_READY messages that are not acknowledged
  scheduler,       \* what the handler of these does next, and for whom
  jobs,            \* agents with a cron job in the cluster
  missed,          \* agents whose job found no namespace
  struck,          \* requests and agents that a fault struck
  faults

account == <<pc, organization, workspaces, configs, orgEvents>>
planning == <<commands, planner, rounds, calls, plan, previews>>
confirming == <<confirms, builder>>
agent == <<row, home, cron>>
scheduling == <<scheduler, jobs, missed>>
provisioning == <<provisioner, namespaces, secrets>>
troubles == <<struck, faults>>
vars == <<cluster, account, provisioning, planning, confirming, agent, ready, scheduling, troubles>>

Idle == [at |-> "idle", for |-> None]
Tools == {"check_connection", "submit_plan"}

\* One type invariant: a handler is for nobody exactly while it is idle, tools
\* run only in the planner's loop, and a secret needs a namespace.
TypeOK ==
  /\ cluster \in BOOLEAN /\ plan \in BOOLEAN
  /\ pc \in [Requests -> {"new", "org", "workspace", "config", "publish", "done", "add", "addConfig"}]
  /\ organization \in Requests \cup {None}
  /\ configs \subseteq workspaces /\ workspaces \subseteq Requests
  /\ orgEvents \in [Requests -> {"none", "sent", "acked"}]
  /\ provisioner.at \in {"idle", "read", "namespace", "secret"}
  /\ secrets \subseteq namespaces /\ namespaces \subseteq workspaces
  /\ planner \in {"idle", "model", "tools", "preview"}
  /\ calls \subseteq Tools /\ (calls # {} => planner = "tools")
  /\ {commands, rounds, previews, confirms.sent, confirms.queued, faults} \subseteq Nat
  /\ builder.at \in {"idle", "store", "created", "ready", "trigger"}
  /\ row \in [Agents -> {"none", "READY", "SCHEDULED", "deleted"}]
  /\ home \in [Agents -> workspaces \cup {None}] /\ cron \subseteq Agents
  /\ ready \subseteq Agents /\ jobs \subseteq cron /\ missed \subseteq cron
  /\ scheduler.at \in {"idle", "find", "job", "update", "publish"}
  /\ \A h \in {provisioner, builder, scheduler} : h.at = "idle" <=> h.for = None

\* Either nobody has signed up and, to bound the model, no command will be given,
\* or all requests are done, First as a sign-up: its event is about to be handled.
Init ==
  /\ cluster \in BOOLEAN
  /\ \/ /\ pc = [q \in Requests |-> "new"] /\ organization = None /\ workspaces = {}
        /\ orgEvents = [q \in Requests |-> "none"] /\ commands = MaxCommands
     \/ /\ pc = [q \in Requests |-> "done"] /\ organization = First /\ workspaces = Requests
        /\ orgEvents = [q \in Requests |-> IF q = First THEN "sent" ELSE "none"]
        /\ commands = 0
  /\ configs = workspaces /\ provisioner = Idle /\ namespaces = {} /\ secrets = {}
  /\ planner = "idle" /\ rounds = 0 /\ calls = {} /\ plan = FALSE /\ previews = 0
  /\ confirms = [sent |-> 0, queued |-> 0] /\ builder = Idle
  /\ row = [a \in Agents |-> "none"] /\ home = [a \in Agents |-> None] /\ cron = {}
  /\ ready = {} /\ scheduler = Idle /\ jobs = {} /\ missed = {} /\ struck = {} /\ faults = 0

Strike(x) ==
  /\ faults < MaxFaults
  /\ faults' = faults + 1
  /\ struck' = struck \cup {x}

\* A call takes effect and the caller goes on, or it raises, its effect there or not.
Call(x, effect, goesOn, nothing, ends) ==
  \/ effect /\ goesOn /\ UNCHANGED troubles
  \/ Strike(x) /\ (effect \/ nothing) /\ ends

-----------------------------------------------------------------------------
(* Accounts: signUp, createOrg of the gateway or the onboarding service, and *)
(* createWorkspace. The account is one e-mail address with its user id.      *)

Goes(q, s) == pc' = [pc EXCEPT ![q] = s]

\* Only signUp looks first whether the account has an organisation.
SignUp(q) ==
  /\ pc[q] = "new"
  /\ organization = None
  /\ Goes(q, "org")
  /\ UNCHANGED <<organization, workspaces, configs, orgEvents>>

CreateOrg(q) ==
  /\ pc[q] = "new"
  /\ Goes(q, "org")
  /\ UNCHANGED <<organization, workspaces, configs, orgEvents>>

CreateWorkspace(q) ==
  /\ pc[q] = "new" /\ organization # None
  /\ Goes(q, "add")
  /\ UNCHANGED <<organization, workspaces, configs, orgEvents>>

\* orgEmail and firebaseUid are unique: the second insert raises.
InsertOrg(q) ==
  /\ pc[q] = "org"
  /\ \/ organization # None /\ Goes(q, "done") /\ UNCHANGED <<organization, troubles>>
     \/ organization = None /\ Call(q, organization' = q, Goes(q, "workspace"), UNCHANGED organization, Goes(q, "done"))
  /\ UNCHANGED <<workspaces, configs, orgEvents>>

InsertWorkspace(q) ==
  /\ pc[q] \in {"workspace", "add"}
  /\ Call(q, workspaces' = workspaces \cup {q},
          Goes(q, IF pc[q] = "add" THEN "addConfig" ELSE "config"),
          UNCHANGED workspaces, Goes(q, "done"))
  /\ UNCHANGED <<organization, configs, orgEvents>>

\* Mutant: no request announces its organisation.
InsertConfigQuietly(q) ==
  /\ pc[q] \in {"config", "addConfig"}
  /\ Call(q, configs' = configs \cup {q}, Goes(q, "done"), UNCHANGED configs, Goes(q, "done"))
  /\ UNCHANGED <<organization, workspaces, orgEvents>>

\* A workspace that is added later is not announced to anybody.
InsertConfig(q) ==
  /\ pc[q] \in {"config", "addConfig"}
  /\ Call(q, configs' = configs \cup {q},
          Goes(q, IF pc[q] = "config" THEN "publish" ELSE "done"),
          UNCHANGED configs, Goes(q, "done"))
  /\ UNCHANGED <<organization, workspaces, orgEvents>>

PublishOrg(q) ==
  /\ pc[q] = "publish"
  /\ Call(q, orgEvents' = [orgEvents EXCEPT ![q] = "sent"], Goes(q, "done"),
          UNCHANGED orgEvents, Goes(q, "done"))
  /\ UNCHANGED <<organization, workspaces, configs>>

Account(q) ==
  /\ \/ (SignUp(q) \/ CreateOrg(q) \/ CreateWorkspace(q)) /\ UNCHANGED troubles
     \/ InsertOrg(q) \/ InsertWorkspace(q) \/ InsertConfig(q) \/ PublishOrg(q)
  /\ UNCHANGED <<cluster, provisioning, planning, confirming, agent, ready, scheduling>>

-----------------------------------------------------------------------------
(* The scheduler's namespaces.                                               *)

ProvisionTake(q) ==
  /\ provisioner = Idle /\ orgEvents[q] = "sent"
  /\ provisioner' = [at |-> "read", for |-> q]
  /\ UNCHANGED <<orgEvents, namespaces, secrets, troubles>>

\* The handler returned, or an error of it was logged: acknowledged either way.
Provisioned ==
  /\ provisioner' = Idle
  /\ orgEvents' = [orgEvents EXCEPT ![provisioner.for] = "acked"]

ProvisionGoes(s) == provisioner' = [provisioner EXCEPT !.at = s] /\ UNCHANGED orgEvents

\* Any error of the read is taken for a missing namespace.
ProvisionRead ==
  /\ provisioner.at = "read"
  /\ \/ (~cluster \/ provisioner.for \in namespaces) /\ Provisioned
     \/ cluster /\ provisioner.for \notin namespaces /\ ProvisionGoes("namespace")
  /\ UNCHANGED <<namespaces, secrets, troubles>>

ProvisionNamespace ==
  /\ provisioner.at = "namespace"
  /\ Call(provisioner.for, namespaces' = namespaces \cup {provisioner.for},
          ProvisionGoes("secret"), UNCHANGED namespaces, Provisioned)
  /\ UNCHANGED secrets

\* Mutant: the secret is left for a later message.
ProvisionSecretLater ==
  /\ provisioner.at = "secret"
  /\ Provisioned
  /\ UNCHANGED <<namespaces, secrets, troubles>>

ProvisionSecret ==
  /\ provisioner.at = "secret"
  /\ Call(provisioner.for, secrets' = secrets \cup {provisioner.for},
          Provisioned, UNCHANGED secrets, Provisioned)
  /\ UNCHANGED namespaces

Provision ==
  /\ \/ \E q \in Requests : ProvisionTake(q)
     \/ ProvisionRead \/ ProvisionNamespace \/ ProvisionSecret
  /\ UNCHANGED <<cluster, pc, organization, workspaces, configs, planning, confirming, agent,
                 ready, scheduling>>

-----------------------------------------------------------------------------
(* The planner: handle_command_submitted and its loop.                       *)

SubmitCommand ==
  /\ workspaces # {} /\ commands < MaxCommands /\ planner = "idle"
  /\ commands' = commands + 1
  /\ planner' = "model" /\ rounds' = 0 /\ plan' = FALSE
  /\ UNCHANGED <<calls, previews, troubles>>

\* The model calls tools, all at once, or ends the loop; then a plan that was
\* submitted is previewed, and without one the command fails without a word.
PlanModel ==
  /\ planner = "model"
  /\ \/ /\ rounds < MaxRounds
        /\ rounds' = rounds + 1
        /\ calls' \in SUBSET Tools \ {{}}
        /\ planner' = "tools"
     \/ /\ planner' = IF plan THEN "preview" ELSE "idle"
        /\ UNCHANGED <<rounds, calls>>
  /\ UNCHANGED <<commands, plan, previews, troubles>>

\* A tool ends, or raises: the error is told to the model, not to the user.
PlanTool(t) ==
  /\ t \in calls
  /\ calls' = calls \ {t}
  /\ planner' = IF calls = {t} THEN "model" ELSE "tools"
  /\ \/ plan' = (plan \/ t = "submit_plan") /\ UNCHANGED troubles
     \/ t = "check_connection" /\ Strike(None) /\ UNCHANGED plan
  /\ UNCHANGED <<commands, rounds, previews>>

PlanPreview ==
  /\ planner = "preview"
  /\ planner' = "idle"
  /\ Call(None, previews' = previews + 1, TRUE, UNCHANGED previews, TRUE)
  /\ UNCHANGED <<commands, rounds, calls, plan>>

Planning ==
  /\ SubmitCommand \/ PlanModel \/ PlanPreview \/ \E t \in Tools : PlanTool(t)
  /\ UNCHANGED <<cluster, account, provisioning, confirming, agent, ready, scheduling>>

-----------------------------------------------------------------------------
(* Agents: handle_plan_confirmed, createAgent, deleteAgent.                  *)

\* A preview may be confirmed again and again; nobody compares the commandId.
Confirm ==
  /\ previews > 0 /\ confirms.sent < MaxConfirms
  /\ confirms' = [sent |-> confirms.sent + 1, queued |-> confirms.queued + 1]
  /\ UNCHANGED <<builder, agent, ready, troubles>>

ConfirmTake(a) ==
  /\ builder = Idle /\ confirms.queued > 0
  /\ row[a] = "none" /\ a \notin struck
  /\ confirms' = [confirms EXCEPT !.queued = @ - 1]
  /\ builder' = [at |-> "store", for |-> a]
  /\ UNCHANGED <<agent, ready, troubles>>

BuilderGoes(s) == builder' = IF s = "idle" THEN Idle ELSE [builder EXCEPT !.at = s]

Stored(a) ==
  /\ row' = [row EXCEPT ![a] = "READY"]
  /\ \E q \in workspaces : home' = [home EXCEPT ![a] = q]
  /\ cron' \in {cron, cron \cup {a}}

ConfirmStore ==
  /\ builder.at = "store"
  /\ Call(builder.for, Stored(builder.for), BuilderGoes("created"), UNCHANGED agent, BuilderGoes("idle"))
  /\ UNCHANGED <<confirms, ready>>

\* AGENT_DEFINITION_CREATED and, at the end, the trigger of the first run.
ConfirmPublish ==
  /\ builder.at \in {"created", "trigger"}
  /\ \/ BuilderGoes(IF builder.at = "created" THEN "ready" ELSE "idle") /\ UNCHANGED troubles
     \/ Strike(builder.for) /\ BuilderGoes("idle")
  /\ UNCHANGED <<confirms, agent, ready>>

ConfirmReady ==
  /\ builder.at = "ready"
  /\ Call(builder.for, ready' = ready \cup {builder.for}, BuilderGoes("trigger"),
          UNCHANGED ready, BuilderGoes("idle"))
  /\ UNCHANGED <<confirms, agent>>

\* Only AGENT_DEFINITION_CREATED is published: the scheduler does not hear of it.
CreateAgent(a) ==
  /\ row[a] = "none" /\ builder.for # a /\ a \notin struck /\ workspaces # {}
  /\ Stored(a)
  /\ UNCHANGED <<confirming, ready, troubles>>

\* Nobody removes the cron job.
DeleteAgent(a) ==
  /\ row[a] \in {"READY", "SCHEDULED"}
  /\ row' = [row EXCEPT ![a] = "deleted"]
  /\ UNCHANGED <<home, cron, confirming, ready, troubles>>

Building ==
  /\ \/ Confirm \/ ConfirmStore \/ ConfirmPublish \/ ConfirmReady
     \/ \E a \in Agents : ConfirmTake(a) \/ CreateAgent(a) \/ DeleteAgent(a)
  /\ UNCHANGED <<cluster, account, provisioning, planning, scheduling>>

-----------------------------------------------------------------------------
(* The scheduler's cron jobs.                                                *)

ScheduleTake(a) ==
  /\ scheduler = Idle /\ a \in ready
  /\ scheduler' = [at |-> "find", for |-> a]
  /\ UNCHANGED <<row, ready, jobs, missed, troubles>>

\* Returned or logged, and acknowledged.
Scheduled == scheduler' = Idle /\ ready' = ready \ {scheduler.for}

ScheduleGoes(s) == scheduler' = [scheduler EXCEPT !.at = s] /\ UNCHANGED ready

ScheduleFind ==
  /\ scheduler.at = "find"
  /\ IF row[scheduler.for] # "deleted" /\ scheduler.for \in cron
     THEN ScheduleGoes(IF cluster THEN "job" ELSE "update")
     ELSE Scheduled
  /\ UNCHANGED <<row, jobs, missed, troubles>>

\* Refused where the namespace is missing, or the job is there already.
ScheduleJob ==
  /\ scheduler.at = "job"
  /\ LET a == scheduler.for IN
       IF a \in jobs \/ home[a] \notin namespaces
       THEN /\ Scheduled
            /\ missed' = IF a \in jobs THEN missed ELSE missed \cup {a}
            /\ UNCHANGED <<jobs, troubles>>
       ELSE /\ Call(a, jobs' = jobs \cup {a}, ScheduleGoes("update"), UNCHANGED jobs, Scheduled)
            /\ UNCHANGED missed
  /\ UNCHANGED row

\* Mutant: the row is left as it is.
ScheduleUpdateOnlyName ==
  /\ scheduler.at = "update"
  /\ ScheduleGoes("publish")
  /\ UNCHANGED <<row, jobs, missed, troubles>>

\* The update of a row that was deleted meanwhile raises.
ScheduleUpdate ==
  /\ scheduler.at = "update"
  /\ LET a == scheduler.for IN
       \/ row[a] = "deleted" /\ Scheduled /\ UNCHANGED <<row, troubles>>
       \/ /\ row[a] # "deleted"
          /\ Call(a, row' = [row EXCEPT ![a] = "SCHEDULED"], ScheduleGoes("publish"),
                  UNCHANGED row, Scheduled)
  /\ UNCHANGED <<jobs, missed>>

\* SCHEDULER_AGENT_SCHEDULED, which the chat shows.
SchedulePublish ==
  /\ scheduler.at = "publish"
  /\ Scheduled
  /\ UNCHANGED <<row, jobs, missed, troubles>>

Scheduling ==
  /\ \/ \E a \in Agents : ScheduleTake(a)
     \/ ScheduleFind \/ ScheduleJob \/ ScheduleUpdate \/ SchedulePublish
  /\ UNCHANGED <<cluster, account, provisioning, planning, confirming, home, cron>>

\* The scheduler dies; what it did not acknowledge is pushed again.
SchedulerCrash ==
  /\ scheduler # Idle \/ provisioner # Idle
  /\ faults < MaxFaults /\ faults' = faults + 1
  /\ struck' = struck \cup {scheduler.for, provisioner.for}
  /\ scheduler' = Idle /\ provisioner' = Idle
  /\ UNCHANGED <<cluster, account, namespaces, secrets, planning, confirming, agent, ready, jobs, missed>>

-----------------------------------------------------------------------------
Next ==
  \/ \E q \in Requests : Account(q)
  \/ Provision \/ Planning \/ Building \/ Scheduling \/ SchedulerCrash

\* The scheduler handles its messages; users and the model need not do anything.
Fairness == WF_vars(Scheduling) /\ WF_vars(Provision)

Spec == Init /\ [][Next]_vars
FairSpec == Spec /\ Fairness

-----------------------------------------------------------------------------
(* Properties.                                                               *)

\* However sign-ups race, the account has one organisation and, unless a fault
\* struck its request, that organisation is whole and announced once the request
\* is done: login finds a workspace, the workspace its configuration.
AccountIsWhole ==
  organization # None =>
    \/ pc[organization] \notin {"done"} \/ organization \in struck
    \/ organization \in configs /\ orgEvents[organization] # "none"

\* What the cluster has and what the rows say agree, unless a fault struck in
\* between: a namespace has the secret that its pods read, a SCHEDULED agent has
\* its cron job, and an agent with a job is not left READY.
ClusterFollowsRows ==
  /\ \A q \in namespaces \ secrets : provisioner.for = q \/ q \in struck
  /\ \A a \in Agents : row[a] = "SCHEDULED" /\ cluster => a \in jobs
  /\ \A a \in jobs : row[a] = "READY" => scheduler.for = a \/ a \in struck

\* A confirmed agent with a cron expression is scheduled, whoever else is; not so
\* one that is deleted, struck by a fault, or whose namespace is not there when
\* its only message is handled.
CronAgentIsScheduled ==
  \A a \in Agents :
    a \in ready /\ a \in cron ~> row[a] \in {"SCHEDULED", "deleted"} \/ a \in missed \cup struck
=============================================================================
