-------------------------- MODULE AgentLifeProofs --------------------------
(***************************************************************************)
(* What AgentLife guarantees for any number of requests and of agents, any *)
(* number of commands, rounds and confirmations, and any number of faults. *)
(***************************************************************************)
EXTENDS AgentLife, TLAPS

-----------------------------------------------------------------------------
(* The inductive invariant.                                                  *)

\* The variables of each part, as functions and records.
AccountTables ==
  /\ pc \in [Requests -> {"new", "org", "workspace", "config", "publish", "done", "add", "addConfig"}]
  /\ organization \in Requests \cup {None}
  /\ workspaces \subseteq Requests
  /\ orgEvents \in [Requests -> {"none", "sent", "acked"}]

ProvisionTables ==
  /\ provisioner \in [at : {"idle", "read", "namespace", "secret"}, for : Requests \cup {None}]
  /\ provisioner.at = "idle" <=> provisioner.for = None
  /\ provisioner.at = "secret" => provisioner.for \in namespaces
  /\ secrets \subseteq namespaces /\ namespaces \subseteq Requests

PlanningTables ==
  /\ planner \in {"idle", "model", "tools", "preview"}
  /\ calls \subseteq Tools /\ (calls # {} => planner = "tools")
  /\ commands \in Nat /\ rounds \in Nat /\ previews \in Nat

AgentTables ==
  /\ confirms \in [sent : Nat, queued : Nat]
  /\ builder \in [at : {"idle", "store", "created", "ready", "trigger"}, for : Agents \cup {None}]
  /\ builder.at = "idle" <=> builder.for = None
  /\ row \in [Agents -> {"none", "READY", "SCHEDULED", "deleted"}]
  /\ home \in [Agents -> Requests \cup {None}]
  /\ cron \subseteq Agents /\ ready \subseteq Agents

ScheduleTables ==
  /\ scheduler \in [at : {"idle", "find", "job", "update", "publish"}, for : Agents \cup {None}]
  /\ scheduler.at = "idle" <=> scheduler.for = None
  /\ jobs \subseteq cron /\ missed \subseteq cron

\* What a request has done when it comes to a statement. The organisation of the
\* account is of a request that went on from there, and through to the end if no
\* fault struck it.
RequestsInOrder ==
  /\ \A q \in Requests :
       /\ pc[q] \in {"config", "addConfig"} => q \in workspaces
       /\ pc[q] = "publish" => q \in configs
       /\ orgEvents[q] # "none" => q \in workspaces
  /\ configs \subseteq workspaces
  /\ organization # None =>
       /\ pc[organization] \in {"workspace", "config", "publish", "done"}
       /\ \/ pc[organization] # "done" \/ organization \in struck
          \/ organization \in configs /\ orgEvents[organization] # "none"

\* A namespace without its secret is the one that is getting it.
NamespacesInOrder ==
  /\ provisioner.for # None => provisioner.for \in workspaces
  /\ namespaces \subseteq workspaces
  /\ \A q \in namespaces \ secrets :
       \/ provisioner.at = "secret" /\ provisioner.for = q
       \/ q \in struck

HomesAreWorkspaces == \A a \in Agents : home[a] \in workspaces \cup {None}

\* The builder stores an agent under an id that nobody has, and an agent has its
\* row before anybody hears of it.
RowsInOrder ==
  /\ builder.at = "store" => row[builder.for] = "none"
  /\ builder.at \in {"created", "ready", "trigger"} => row[builder.for] # "none"
  /\ \A a \in Agents : a \in ready \cup jobs => row[a] # "none"
  /\ scheduler.for # None => row[scheduler.for] # "none"

\* What the scheduler has done when it comes to a statement; a row that is behind
\* its job is the one that it updates next.
ScheduleInOrder ==
  /\ scheduler.at \in {"job", "update", "publish"} => scheduler.for \in cron
  /\ cluster /\ scheduler.at \in {"update", "publish"} => scheduler.for \in jobs
  /\ cluster => \A a \in Agents : row[a] = "SCHEDULED" => a \in jobs
  /\ \A a \in jobs : row[a] = "READY" =>
       \/ scheduler.at = "update" /\ scheduler.for = a
       \/ a \in struck

IInv ==
  /\ cluster \in BOOLEAN /\ plan \in BOOLEAN /\ faults \in Nat
  /\ AccountTables /\ ProvisionTables /\ PlanningTables /\ AgentTables /\ ScheduleTables
  /\ RequestsInOrder /\ NamespacesInOrder /\ HomesAreWorkspaces
  /\ RowsInOrder /\ ScheduleInOrder

-----------------------------------------------------------------------------
(* Steps of each part.                                                       *)

\* A request keeps the types.
LEMMA AccountTypes ==
  ASSUME IInv, NEW q \in Requests, Account(q)
  PROVE  AccountTables'
<1> USE NoneAssumption
<1> USE DEF IInv, AccountTables
<1>0. UNCHANGED <<cluster, provisioner, namespaces, secrets, commands, planner, rounds,
                 calls, plan, previews, confirms, builder, row, home, cron, ready,
                 scheduler, jobs, missed>>
  BY DEF Account, provisioning, planning, confirming, agent, scheduling
<1>1. CASE SignUp(q) /\ UNCHANGED troubles
  BY <1>1, <1>0 DEF SignUp, Goes, troubles
<1>2. CASE CreateOrg(q) /\ UNCHANGED troubles
  BY <1>2, <1>0 DEF CreateOrg, Goes, troubles
<1>3. CASE CreateWorkspace(q) /\ UNCHANGED troubles
  BY <1>3, <1>0 DEF CreateWorkspace, Goes, troubles
<1>4. CASE InsertOrg(q)
  BY <1>4, <1>0 DEF InsertOrg, Goes, Call, Strike, troubles
<1>5. CASE InsertWorkspace(q)
  BY <1>5, <1>0 DEF InsertWorkspace, Goes, Call, Strike, troubles
<1>6. CASE InsertConfig(q)
  BY <1>6, <1>0 DEF InsertConfig, Goes, Call, Strike, troubles
<1>7. CASE PublishOrg(q)
  BY <1>7, <1>0 DEF PublishOrg, Goes, Call, Strike, troubles
<1>8. QED
  BY <1>1, <1>2, <1>3, <1>4, <1>5, <1>6, <1>7 DEF Account

\* A request goes on from its inserts only, and one insert of an organisation takes
\* effect.
LEMMA AccountOrder ==
  ASSUME IInv, NEW q \in Requests, Account(q)
  PROVE  RequestsInOrder'
<1> USE NoneAssumption
<1> USE DEF IInv, AccountTables, RequestsInOrder
<1>0. UNCHANGED <<cluster, provisioner, namespaces, secrets, commands, planner, rounds,
                 calls, plan, previews, confirms, builder, row, home, cron, ready,
                 scheduler, jobs, missed>>
  BY DEF Account, provisioning, planning, confirming, agent, scheduling
<1>1. CASE SignUp(q) /\ UNCHANGED troubles
  BY <1>1, <1>0 DEF SignUp, Goes, troubles
<1>2. CASE CreateOrg(q) /\ UNCHANGED troubles
  BY <1>2, <1>0 DEF CreateOrg, Goes, troubles
<1>3. CASE CreateWorkspace(q) /\ UNCHANGED troubles
  BY <1>3, <1>0 DEF CreateWorkspace, Goes, troubles
<1>4. CASE InsertOrg(q)
  BY <1>4, <1>0 DEF InsertOrg, Goes, Call, Strike, troubles
<1>5. CASE InsertWorkspace(q)
  BY <1>5, <1>0 DEF InsertWorkspace, Goes, Call, Strike, troubles
<1>6. CASE InsertConfig(q)
  BY <1>6, <1>0 DEF InsertConfig, Goes, Call, Strike, troubles
<1>7. CASE PublishOrg(q)
  BY <1>7, <1>0 DEF PublishOrg, Goes, Call, Strike, troubles
<1>8. QED
  BY <1>1, <1>2, <1>3, <1>4, <1>5, <1>6, <1>7 DEF Account

\* Provisioning keeps the types.
LEMMA ProvisionTypes ==
  ASSUME IInv, Provision
  PROVE  (ProvisionTables /\ AccountTables)'
<1> USE NoneAssumption
<1> USE DEF IInv, ProvisionTables, AccountTables
<1>0. UNCHANGED <<cluster, pc, organization, workspaces, configs, commands, planner, rounds,
                 calls, plan, previews, confirms, builder, row, home, cron, ready,
                 scheduler, jobs, missed>>
  BY DEF Provision, planning, confirming, agent, scheduling
<1>1. ASSUME NEW q \in Requests, ProvisionTake(q) PROVE (ProvisionTables /\ AccountTables)'
  BY <1>1, <1>0 DEF ProvisionTake, Idle, troubles
<1>2. CASE ProvisionRead
  BY <1>2, <1>0 DEF ProvisionRead, Provisioned, ProvisionGoes, Idle, troubles
<1>3. CASE ProvisionNamespace
  BY <1>3, <1>0 DEF ProvisionNamespace, Provisioned, ProvisionGoes, Idle, Call, Strike,
        troubles
<1>4. CASE ProvisionSecret
  <2>1. /\ provisioner.at = "secret" /\ provisioner.for \in Requests
        /\ Provisioned /\ UNCHANGED namespaces
        /\ secrets' \subseteq secrets \cup {provisioner.for}
    BY <1>4 DEF ProvisionSecret, Call, Provisioned, Idle
  <2>2. provisioner' = Idle /\ AccountTables'
    BY <2>1, <1>0 DEF Provisioned, Idle
  <2>3. provisioner.for \in namespaces
    BY <2>1
  <2>4. QED
    BY <2>1, <2>2, <2>3 DEF Idle
<1>5. QED
  BY <1>1, <1>2, <1>3, <1>4 DEF Provision

\* A namespace is made just before its secret.
LEMMA ProvisionOrder ==
  ASSUME IInv, Provision
  PROVE  (RequestsInOrder /\ NamespacesInOrder)'
<1> USE NoneAssumption
<1> USE DEF IInv, ProvisionTables, AccountTables, RequestsInOrder, NamespacesInOrder
<1>0. UNCHANGED <<cluster, pc, organization, workspaces, configs, commands, planner, rounds,
                 calls, plan, previews, confirms, builder, row, home, cron, ready,
                 scheduler, jobs, missed>>
  BY DEF Provision, planning, confirming, agent, scheduling
<1>1. ASSUME NEW q \in Requests, ProvisionTake(q) PROVE (RequestsInOrder /\ NamespacesInOrder)'
  BY <1>1, <1>0 DEF ProvisionTake, Idle, troubles
<1>2. CASE ProvisionRead
  BY <1>2, <1>0 DEF ProvisionRead, Provisioned, ProvisionGoes, Idle, troubles
<1>3. CASE ProvisionNamespace
  BY <1>3, <1>0 DEF ProvisionNamespace, Provisioned, ProvisionGoes, Idle, Call, Strike,
        troubles
<1>4. CASE ProvisionSecret
  BY <1>4, <1>0 DEF ProvisionSecret, Provisioned, Idle, Call, Strike, troubles
<1>5. QED
  BY <1>1, <1>2, <1>3, <1>4 DEF Provision

\* Planning keeps the types.
LEMMA PlanningTypes ==
  ASSUME IInv, Planning
  PROVE  PlanningTables'
<1> USE NoneAssumption
<1> USE DEF IInv, PlanningTables, Tools
<1>0. UNCHANGED <<cluster, pc, organization, workspaces, configs, orgEvents, provisioner,
                 namespaces, secrets, confirms, builder, row, home, cron, ready, scheduler,
                 jobs, missed>>
  BY DEF Planning, account, provisioning, confirming, agent, scheduling
<1>1. CASE SubmitCommand
  BY <1>1, <1>0 DEF SubmitCommand, troubles
<1>2. CASE PlanModel
  BY <1>2, <1>0 DEF PlanModel, troubles
<1>3. CASE PlanPreview
  BY <1>3, <1>0 DEF PlanPreview, Call, Strike, troubles
<1>4. ASSUME NEW t \in Tools, PlanTool(t) PROVE PlanningTables'
  BY <1>4, <1>0 DEF PlanTool, Strike, troubles
<1>5. QED
  BY <1>1, <1>2, <1>3, <1>4 DEF Planning

\* Building keeps the types.
LEMMA BuildingTypes ==
  ASSUME IInv, Building
  PROVE  (AgentTables /\ ScheduleTables)'
<1> USE NoneAssumption
<1> USE DEF IInv, AccountTables, AgentTables, ScheduleTables, agent, confirming
<1>0. UNCHANGED <<cluster, pc, organization, workspaces, configs, orgEvents, provisioner,
                 namespaces, secrets, commands, planner, rounds, calls, plan, previews,
                 scheduler, jobs, missed>>
  BY DEF Building, account, provisioning, planning, scheduling, agent, confirming
<1>1. CASE Confirm
  BY <1>1, <1>0 DEF Confirm, troubles
<1>2. CASE ConfirmStore
  BY <1>2, <1>0 DEF ConfirmStore, Stored, BuilderGoes, Idle, Call, Strike, troubles
<1>3. CASE ConfirmPublish
  BY <1>3, <1>0 DEF ConfirmPublish, BuilderGoes, Idle, Strike, troubles
<1>4. CASE ConfirmReady
  BY <1>4, <1>0 DEF ConfirmReady, BuilderGoes, Idle, Call, Strike, troubles
<1>5. ASSUME NEW a \in Agents, ConfirmTake(a) PROVE (AgentTables /\ ScheduleTables)'
  BY <1>5, <1>0 DEF ConfirmTake, Idle, troubles
<1>6. ASSUME NEW a \in Agents, CreateAgent(a) PROVE (AgentTables /\ ScheduleTables)'
  BY <1>6, <1>0 DEF CreateAgent, Stored, troubles
<1>7. ASSUME NEW a \in Agents, DeleteAgent(a) PROVE (AgentTables /\ ScheduleTables)'
  BY <1>7, <1>0 DEF DeleteAgent, troubles
<1>8. QED
  BY <1>1, <1>2, <1>3, <1>4, <1>5, <1>6, <1>7 DEF Building

\* An agent gets its row before anybody hears of it, and has no job then.
LEMMA BuildingOrder ==
  ASSUME IInv, Building
  PROVE  (HomesAreWorkspaces /\ RowsInOrder)'
<1> USE NoneAssumption
<1> USE DEF IInv, AgentTables, ScheduleTables, HomesAreWorkspaces, RowsInOrder, agent,
        confirming
<1>0. UNCHANGED <<cluster, pc, organization, workspaces, configs, orgEvents, provisioner,
                 namespaces, secrets, commands, planner, rounds, calls, plan, previews,
                 scheduler, jobs, missed>>
  BY DEF Building, account, provisioning, planning, scheduling, agent, confirming
<1>1. CASE Confirm
  BY <1>1, <1>0 DEF Confirm, troubles
<1>2. CASE ConfirmStore
  BY <1>2, <1>0 DEF ConfirmStore, Stored, BuilderGoes, Idle, Call, Strike, troubles
<1>3. CASE ConfirmPublish
  BY <1>3, <1>0 DEF ConfirmPublish, BuilderGoes, Idle, Strike, troubles
<1>4. CASE ConfirmReady
  BY <1>4, <1>0 DEF ConfirmReady, BuilderGoes, Idle, Call, Strike, troubles
<1>5. ASSUME NEW a \in Agents, ConfirmTake(a) PROVE (HomesAreWorkspaces /\ RowsInOrder)'
  BY <1>5, <1>0 DEF ConfirmTake, Idle, troubles
<1>6. ASSUME NEW a \in Agents, CreateAgent(a) PROVE (HomesAreWorkspaces /\ RowsInOrder)'
  BY <1>6, <1>0 DEF CreateAgent, Stored, troubles
<1>7. ASSUME NEW a \in Agents, DeleteAgent(a) PROVE (HomesAreWorkspaces /\ RowsInOrder)'
  BY <1>7, <1>0 DEF DeleteAgent, troubles
<1>8. QED
  BY <1>1, <1>2, <1>3, <1>4, <1>5, <1>6, <1>7 DEF Building

\* A row that is stored is of an agent without a job.
LEMMA BuildingSchedule ==
  ASSUME IInv, Building
  PROVE  ScheduleInOrder'
<1> USE NoneAssumption
<1> USE DEF IInv, AgentTables, ScheduleTables, RowsInOrder, ScheduleInOrder, agent,
        confirming
<1>0. UNCHANGED <<cluster, pc, organization, workspaces, configs, orgEvents, provisioner,
                 namespaces, secrets, commands, planner, rounds, calls, plan, previews,
                 scheduler, jobs, missed>>
  BY DEF Building, account, provisioning, planning, scheduling, agent, confirming
<1>1. CASE Confirm
  BY <1>1, <1>0 DEF Confirm, troubles
<1>2. CASE ConfirmStore
  BY <1>2, <1>0 DEF ConfirmStore, Stored, BuilderGoes, Idle, Call, Strike, troubles
<1>3. CASE ConfirmPublish
  BY <1>3, <1>0 DEF ConfirmPublish, BuilderGoes, Idle, Strike, troubles
<1>4. CASE ConfirmReady
  BY <1>4, <1>0 DEF ConfirmReady, BuilderGoes, Idle, Call, Strike, troubles
<1>5. ASSUME NEW a \in Agents, ConfirmTake(a) PROVE ScheduleInOrder'
  BY <1>5, <1>0 DEF ConfirmTake, Idle, troubles
<1>6. ASSUME NEW a \in Agents, CreateAgent(a) PROVE ScheduleInOrder'
  BY <1>6, <1>0 DEF CreateAgent, Stored, troubles
<1>7. ASSUME NEW a \in Agents, DeleteAgent(a) PROVE ScheduleInOrder'
  BY <1>7, <1>0 DEF DeleteAgent, troubles
<1>8. QED
  BY <1>1, <1>2, <1>3, <1>4, <1>5, <1>6, <1>7 DEF Building

\* Scheduling keeps the types.
LEMMA SchedulingTypes ==
  ASSUME IInv, Scheduling
  PROVE  (AgentTables /\ ScheduleTables)'
<1> USE NoneAssumption
<1> USE DEF IInv, AgentTables, ScheduleTables, ScheduleInOrder
<1>0. UNCHANGED <<cluster, pc, organization, workspaces, configs, orgEvents, provisioner,
                 namespaces, secrets, commands, planner, rounds, calls, plan, previews,
                 confirms, builder, home, cron>>
  BY DEF Scheduling, account, provisioning, planning, confirming, agent
<1>1. ASSUME NEW a \in Agents, ScheduleTake(a) PROVE (AgentTables /\ ScheduleTables)'
  BY <1>1, <1>0 DEF ScheduleTake, Idle, troubles
<1>2. CASE ScheduleFind
  BY <1>2, <1>0 DEF ScheduleFind, Scheduled, ScheduleGoes, Idle, troubles
<1>3. CASE ScheduleJob
  BY <1>3, <1>0 DEF ScheduleJob, Scheduled, ScheduleGoes, Idle, Call, Strike, troubles
<1>4. CASE ScheduleUpdate
  BY <1>4, <1>0 DEF ScheduleUpdate, Scheduled, ScheduleGoes, Idle, Call, Strike, troubles
<1>5. CASE SchedulePublish
  BY <1>5, <1>0 DEF SchedulePublish, Scheduled, Idle, troubles
<1>6. QED
  BY <1>1, <1>2, <1>3, <1>4, <1>5 DEF Scheduling

\* The scheduler handles agents that have a row.
LEMMA SchedulingRows ==
  ASSUME IInv, Scheduling
  PROVE  RowsInOrder'
<1> USE NoneAssumption
<1> USE DEF IInv, AgentTables, ScheduleTables, RowsInOrder
<1>0. UNCHANGED <<cluster, pc, organization, workspaces, configs, orgEvents, provisioner,
                 namespaces, secrets, commands, planner, rounds, calls, plan, previews,
                 confirms, builder, home, cron>>
  BY DEF Scheduling, account, provisioning, planning, confirming, agent
<1>1. ASSUME NEW a \in Agents, ScheduleTake(a) PROVE RowsInOrder'
  BY <1>1, <1>0 DEF ScheduleTake, Idle, troubles
<1>2. CASE ScheduleFind
  BY <1>2, <1>0 DEF ScheduleFind, Scheduled, ScheduleGoes, Idle, troubles
<1>3. CASE ScheduleJob
  BY <1>3, <1>0 DEF ScheduleJob, Scheduled, ScheduleGoes, Idle, Call, Strike, troubles
<1>4. CASE ScheduleUpdate
  BY <1>4, <1>0 DEF ScheduleUpdate, Scheduled, ScheduleGoes, Idle, Call, Strike, troubles
<1>5. CASE SchedulePublish
  BY <1>5, <1>0 DEF SchedulePublish, Scheduled, Idle, troubles
<1>6. QED
  BY <1>1, <1>2, <1>3, <1>4, <1>5 DEF Scheduling

\* A job is made just before its row is updated.
LEMMA SchedulingOrder ==
  ASSUME IInv, Scheduling
  PROVE  ScheduleInOrder'
<1> USE NoneAssumption
<1> USE DEF IInv, AgentTables, ScheduleTables, RowsInOrder, ScheduleInOrder
<1>0. UNCHANGED <<cluster, pc, organization, workspaces, configs, orgEvents, provisioner,
                 namespaces, secrets, commands, planner, rounds, calls, plan, previews,
                 confirms, builder, home, cron>>
  BY DEF Scheduling, account, provisioning, planning, confirming, agent
<1>1. ASSUME NEW a \in Agents, ScheduleTake(a) PROVE ScheduleInOrder'
  BY <1>1, <1>0 DEF ScheduleTake, Idle, troubles
<1>2. CASE ScheduleFind
  BY <1>2, <1>0 DEF ScheduleFind, Scheduled, ScheduleGoes, Idle, troubles
<1>3. CASE ScheduleJob
  BY <1>3, <1>0 DEF ScheduleJob, Scheduled, ScheduleGoes, Idle, Call, Strike, troubles
<1>4. CASE ScheduleUpdate
  BY <1>4, <1>0 DEF ScheduleUpdate, Scheduled, ScheduleGoes, Idle, Call, Strike, troubles
<1>5. CASE SchedulePublish
  BY <1>5, <1>0 DEF SchedulePublish, Scheduled, Idle, troubles
<1>6. QED
  BY <1>1, <1>2, <1>3, <1>4, <1>5 DEF Scheduling

\* The scheduler dies: whom it worked for is struck, and the rest stays.
LEMMA CrashKeeps ==
  ASSUME IInv, SchedulerCrash
  PROVE  IInv'
<1> USE NoneAssumption
<1>1. /\ UNCHANGED <<cluster, account, namespaces, secrets, planning, confirming, agent, ready, jobs, missed>>
      /\ scheduler' = [at |-> "idle", for |-> None] /\ provisioner' = [at |-> "idle", for |-> None]
      /\ struck' = struck \cup {scheduler.for, provisioner.for} /\ faults' = faults + 1
  BY DEF SchedulerCrash, Idle
<1> USE DEF account, planning, confirming, agent
<1>2. cluster' \in BOOLEAN /\ plan' \in BOOLEAN
  BY <1>1, Zenon DEF IInv
<1>3. AccountTables' /\ RequestsInOrder'
  BY <1>1 DEF IInv, AccountTables, RequestsInOrder
<1>4. ProvisionTables' /\ NamespacesInOrder'
  BY <1>1 DEF IInv, ProvisionTables, NamespacesInOrder
<1>5. PlanningTables' /\ AgentTables' /\ HomesAreWorkspaces'
  BY <1>1 DEF IInv, PlanningTables, AgentTables, HomesAreWorkspaces
<1>6. ScheduleTables' /\ RowsInOrder' /\ ScheduleInOrder'
  BY <1>1 DEF IInv, ScheduleTables, RowsInOrder, ScheduleInOrder
<1>7. faults' \in Nat
  BY <1>1 DEF IInv
<1>8. QED
  BY <1>2, <1>3, <1>4, <1>5, <1>6, <1>7 DEF IInv

\* A fault is remembered, and counted.
LEMMA FaultsGrow ==
  ASSUME IInv, [Next]_vars
  PROVE  struck \subseteq struck' /\ faults' \in Nat /\ cluster' = cluster /\ plan' \in BOOLEAN
<1> USE DEF IInv, Call, Strike, troubles
<1>1. ASSUME NEW q \in Requests, Account(q)
      PROVE  struck \subseteq struck' /\ faults' \in Nat /\ cluster' = cluster /\ plan' = plan
  BY <1>1 DEF Account, InsertOrg, InsertWorkspace, InsertConfig, PublishOrg, planning
<1>2. CASE Provision
  BY <1>2 DEF Provision, ProvisionTake, ProvisionRead, ProvisionNamespace, ProvisionSecret, planning
<1>3. CASE Planning
  <2>1. struck \subseteq struck' /\ faults' \in Nat /\ cluster' = cluster
    BY <1>3 DEF Planning, SubmitCommand, PlanModel, PlanPreview, PlanTool
  <2>2. plan' \in BOOLEAN
    BY <1>3, Zenon DEF Planning, SubmitCommand, PlanModel, PlanPreview, PlanTool
  <2>3. QED
    BY <2>1, <2>2
<1>4. CASE Building
  BY <1>4 DEF Building, Confirm, ConfirmTake, ConfirmStore, ConfirmPublish, ConfirmReady,
     CreateAgent, DeleteAgent, planning
<1>5. CASE Scheduling
  BY <1>5 DEF Scheduling, ScheduleTake, ScheduleFind, ScheduleJob, ScheduleUpdate, SchedulePublish,
     planning
<1>6. CASE SchedulerCrash
  BY <1>6 DEF SchedulerCrash, planning
<1>7. CASE UNCHANGED vars
  BY <1>7 DEF vars, planning
<1>8. QED
  BY <1>1, <1>2, <1>3, <1>4, <1>5, <1>6, <1>7 DEF Next

LEMMA InductiveInvariant == Spec => []IInv
<1>1. ASSUME Init PROVE IInv
  <2>1. cluster \in BOOLEAN /\ plan \in BOOLEAN
    BY <1>1, Zenon DEF Init
  <2>2. AccountTables /\ RequestsInOrder
    BY <1>1, RequestsAssumption DEF Init, AccountTables, RequestsInOrder
  <2>3. ProvisionTables /\ NamespacesInOrder /\ PlanningTables
    BY <1>1, BoundsAssumption DEF Init, ProvisionTables, NamespacesInOrder, PlanningTables, Idle
  <2>4. AgentTables /\ ScheduleTables /\ HomesAreWorkspaces /\ RowsInOrder /\ ScheduleInOrder
    BY <1>1 DEF Init, AgentTables, ScheduleTables, HomesAreWorkspaces, RowsInOrder, ScheduleInOrder,
       Idle
  <2>5. QED
    BY <1>1, <2>1, <2>2, <2>3, <2>4 DEF Init, IInv
<1>2. IInv /\ [Next]_vars => IInv'
  <2> SUFFICES ASSUME IInv, [Next]_vars PROVE IInv'
    OBVIOUS
  <2>0. struck \subseteq struck' /\ faults' \in Nat /\ cluster' \in BOOLEAN /\ plan' \in BOOLEAN
    <3>1. cluster \in BOOLEAN
      BY DEF IInv
    <3>2. QED
      BY <3>1, FaultsGrow, Zenon
  <2>1. ASSUME NEW q \in Requests, Account(q) PROVE IInv'
    <3>1. /\ UNCHANGED <<cluster, provisioning, planning, confirming, agent, ready, scheduling>>
          /\ workspaces \subseteq workspaces'
      BY <2>1 DEF Account, SignUp, CreateOrg, CreateWorkspace, InsertOrg, InsertWorkspace,
         InsertConfig, PublishOrg, Call
    <3>2. ProvisionTables' /\ NamespacesInOrder'
      BY <2>0, <3>1 DEF IInv, ProvisionTables, NamespacesInOrder, provisioning
    <3>3. PlanningTables' /\ AgentTables' /\ ScheduleTables'
      BY <3>1 DEF IInv, PlanningTables, AgentTables, ScheduleTables, planning, confirming, agent,
         scheduling
    <3>4. HomesAreWorkspaces' /\ RowsInOrder' /\ ScheduleInOrder'
      BY <2>0, <3>1 DEF IInv, HomesAreWorkspaces, RowsInOrder, ScheduleInOrder, AgentTables,
         confirming, agent, scheduling
    <3>5. QED
      BY <2>0, <2>1, <3>2, <3>3, <3>4, AccountTypes, AccountOrder DEF IInv
  <2>2. CASE Provision
    <3>1. UNCHANGED <<cluster, pc, organization, workspaces, configs, planning, confirming, agent,
                      ready, scheduling>>
      BY <2>2 DEF Provision
    <3>2. PlanningTables' /\ AgentTables' /\ ScheduleTables'
      BY <3>1 DEF IInv, PlanningTables, AgentTables, ScheduleTables, planning, confirming, agent,
         scheduling
    <3>3. HomesAreWorkspaces' /\ RowsInOrder' /\ ScheduleInOrder'
      BY <2>0, <3>1 DEF IInv, HomesAreWorkspaces, RowsInOrder, ScheduleInOrder, confirming, agent,
         scheduling
    <3>4. QED
      BY <2>0, <2>2, <3>2, <3>3, ProvisionTypes, ProvisionOrder DEF IInv
  <2>3. CASE Planning
    <3>1. UNCHANGED <<cluster, account, provisioning, confirming, agent, ready, scheduling>>
      BY <2>3 DEF Planning
    <3>2. /\ AccountTables' /\ RequestsInOrder' /\ ProvisionTables' /\ NamespacesInOrder'
          /\ HomesAreWorkspaces'
      BY <2>0, <3>1 DEF IInv, AccountTables, RequestsInOrder, ProvisionTables, NamespacesInOrder,
         HomesAreWorkspaces, account, provisioning, agent
    <3>3. AgentTables' /\ ScheduleTables' /\ RowsInOrder' /\ ScheduleInOrder'
      BY <2>0, <3>1 DEF IInv, AgentTables, ScheduleTables, RowsInOrder, ScheduleInOrder, confirming,
         agent, scheduling
    <3>4. QED
      BY <2>0, <2>3, <3>2, <3>3, PlanningTypes DEF IInv
  <2>4. CASE Building
    <3>1. UNCHANGED <<cluster, account, provisioning, planning, scheduling>>
      BY <2>4 DEF Building
    <3>2. /\ AccountTables' /\ RequestsInOrder' /\ ProvisionTables' /\ NamespacesInOrder'
          /\ PlanningTables'
      BY <2>0, <3>1 DEF IInv, AccountTables, RequestsInOrder, ProvisionTables, NamespacesInOrder,
         PlanningTables, account, provisioning, planning
    <3>3. QED
      BY <2>0, <2>4, <3>2, BuildingTypes, BuildingOrder, BuildingSchedule DEF IInv
  <2>5. CASE Scheduling
    <3>1. UNCHANGED <<cluster, account, provisioning, planning, confirming, home, cron>>
      BY <2>5 DEF Scheduling
    <3>2. /\ AccountTables' /\ RequestsInOrder' /\ ProvisionTables' /\ NamespacesInOrder'
          /\ PlanningTables' /\ HomesAreWorkspaces'
      BY <2>0, <3>1 DEF IInv, AccountTables, RequestsInOrder, ProvisionTables, NamespacesInOrder,
         PlanningTables, HomesAreWorkspaces, account, provisioning, planning
    <3>3. QED
      BY <2>0, <2>5, <3>2, SchedulingTypes, SchedulingRows, SchedulingOrder DEF IInv
  <2>6. CASE SchedulerCrash
    BY <2>6, CrashKeeps
  <2>7. CASE UNCHANGED vars
    <3> USE DEF vars, account, provisioning, planning, confirming, agent, scheduling, troubles
    <3>1. /\ AccountTables' /\ RequestsInOrder' /\ ProvisionTables' /\ NamespacesInOrder'
          /\ PlanningTables' /\ HomesAreWorkspaces'
      BY <2>7 DEF IInv, AccountTables, RequestsInOrder, ProvisionTables, NamespacesInOrder,
         PlanningTables, HomesAreWorkspaces
    <3>2. AgentTables' /\ ScheduleTables' /\ RowsInOrder' /\ ScheduleInOrder'
      BY <2>7 DEF IInv, AgentTables, ScheduleTables, RowsInOrder, ScheduleInOrder
    <3>3. QED
      BY <2>0, <3>1, <3>2 DEF IInv
  <2>8. QED
    BY <2>1, <2>2, <2>3, <2>4, <2>5, <2>6, <2>7 DEF Next
<1>3. QED
  BY <1>1, <1>2, PTL DEF Spec

-----------------------------------------------------------------------------
(* Theorems.                                                                 *)

\* Handlers work for somebody while they are not idle, tools run in the planner's
\* loop only, and nothing hangs in the air: a configuration has its workspace, a
\* secret its namespace, a namespace and an agent their workspace.
THEOREM TypeCorrect == Spec => []TypeOK
<1>1. IInv => TypeOK
  <2> SUFFICES ASSUME IInv PROVE TypeOK
    OBVIOUS
  <2>1. cluster \in BOOLEAN /\ plan \in BOOLEAN
    BY DEF IInv
  <2>2. AccountTables /\ configs \subseteq workspaces /\ namespaces \subseteq workspaces
    BY DEF IInv, RequestsInOrder, NamespacesInOrder
  <2>3. home \in [Agents -> workspaces \cup {None}]
    BY DEF IInv, AgentTables, HomesAreWorkspaces
  <2>4. {commands, rounds, previews, confirms.sent, confirms.queued, faults} \subseteq Nat
    BY DEF IInv, PlanningTables, AgentTables
  <2>5. \A h \in {provisioner, builder, scheduler} : h.at = "idle" <=> h.for = None
    BY DEF IInv, ProvisionTables, AgentTables, ScheduleTables
  <2>6. /\ provisioner.at \in {"idle", "read", "namespace", "secret"} /\ secrets \subseteq namespaces
        /\ planner \in {"idle", "model", "tools", "preview"}
        /\ calls \subseteq Tools /\ (calls # {} => planner = "tools")
    BY DEF IInv, ProvisionTables, PlanningTables
  <2>7. /\ builder.at \in {"idle", "store", "created", "ready", "trigger"}
        /\ row \in [Agents -> {"none", "READY", "SCHEDULED", "deleted"}]
        /\ cron \subseteq Agents /\ ready \subseteq Agents
        /\ jobs \subseteq cron /\ missed \subseteq cron
        /\ scheduler.at \in {"idle", "find", "job", "update", "publish"}
    BY DEF IInv, AgentTables, ScheduleTables
  <2>8. QED
    BY <2>1, <2>2, <2>3, <2>4, <2>5, <2>6, <2>7 DEF TypeOK, AccountTables
<1>2. QED
  BY InductiveInvariant, <1>1, PTL

\* However many requests race, the organisation of the account is whole and
\* announced when its request is done, unless a fault struck it.
THEOREM AccountsAreWhole == Spec => []AccountIsWhole
<1>1. IInv => AccountIsWhole
  BY DEF IInv, RequestsInOrder, AccountIsWhole
<1>2. QED
  BY InductiveInvariant, <1>1, PTL

\* What the cluster has and what the rows say part at a fault only.
THEOREM RowsAgreeWithCluster == Spec => []ClusterFollowsRows
<1>1. IInv => ClusterFollowsRows
  BY DEF IInv, NamespacesInOrder, ScheduleInOrder, ScheduleTables, AgentTables, ClusterFollowsRows
<1>2. QED
  BY InductiveInvariant, <1>1, PTL

=============================================================================
