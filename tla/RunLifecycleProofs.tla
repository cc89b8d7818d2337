------------------------- MODULE RunLifecycleProofs -------------------------
(***************************************************************************)
(* What RunLifecycle guarantees for every set of agents and runs, every    *)
(* number of faults and duplicates and, where it is not said otherwise,    *)
(* every number of agent-runtime processes.                                *)
(***************************************************************************)
EXTENDS RunLifecycle, TLAPS

-----------------------------------------------------------------------------
(* Type correctness.                                                       *)

\* A handler that moves on keeps its run, one that ends lets go of it.
LEMMA GotoType ==
  ASSUME TypeOK, NEW w \in Runtimes, stage[w] # "idle",
         NEW to \in RuntimeStage, Goto(w, to)
  PROVE  /\ stage' \in [Runtimes -> RuntimeStage]
         /\ job' \in [Runtimes -> Runs \cup {NoRun}]
         /\ \A v \in Runtimes : stage'[v] = "idle" <=> job'[v] = NoRun
  BY DEF TypeOK, Goto

\* Every step keeps the types: the rows and events written are legal ones, and a
\* handler works on a run exactly as long as it is not idle.
LEMMA TypeOKKept ==
  ASSUME TypeOK, [Next]_vars
  PROVE  TypeOK'
<1> USE RunsAssumption, BoundsAssumption
<1> USE DEF TypeOK, store, gateway, building, queue, runtime, troubles, NoFault, Strike
<1>1. ASSUME NEW r \in Runs, TriggerFind(r) PROVE TypeOK'
  <2>1. trigger' \in [Runs -> TriggerStage]
    BY <1>1 DEF TriggerFind, TriggerStage
  <2>2. QED
    BY <1>1, <2>1 DEF TriggerFind
<1>2. ASSUME NEW r \in Runs, TriggerCreate(r) PROVE TypeOK'
  <2>1. rows' \in [Runs -> RunStatus]
    BY <1>2 DEF TriggerCreate, RowMayBeStored, RunStatus
  <2>2. trigger' \in [Runs -> TriggerStage]
    BY <1>2 DEF TriggerCreate, TriggerStage
  <2>3. QED
    BY <1>2, <2>1, <2>2 DEF TriggerCreate
<1>3. ASSUME NEW r \in Runs, TriggerPublish(r) PROVE TypeOK'
  <2>1. trigger' \in [Runs -> TriggerStage]
    BY <1>3 DEF TriggerPublish, TriggerStage
  <2>2. QED
    BY <1>3, <2>1 DEF TriggerPublish, TriggerMayBeStored
<1>4. ASSUME NEW r \in Runs, TriggerDies(r) PROVE TypeOK'
  <2>1. trigger' \in [Runs -> TriggerStage]
    BY <1>4 DEF TriggerDies, TriggerStage
  <2>2. QED
    BY <1>4, <2>1 DEF TriggerDies
<1>5. ASSUME NEW r \in Runs, BuilderTake(r) PROVE TypeOK'
  BY <1>5 DEF BuilderTake, BuilderStage
<1>6. ASSUME NEW a \in Agents, DeleteRuns(a) PROVE TypeOK'
  <2>1. rows' \in [Runs -> RunStatus]
    BY <1>6 DEF DeleteRuns, RunStatus
  <2>2. QED
    BY <1>6, <2>1 DEF DeleteRuns
<1>7. ASSUME NEW a \in Agents, DeleteAgentRow(a) PROVE TypeOK'
  BY <1>7 DEF DeleteAgentRow
<1>8. CASE BuilderStore
  BY <1>8 DEF BuilderStore, BuilderGivesUp, BuilderStage
<1>9. CASE BuilderAnnounce
  BY <1>9 DEF BuilderAnnounce, BuilderGivesUp, BuilderStage
<1>10. CASE BuilderTrigger
  BY <1>10 DEF BuilderTrigger, BuilderGivesUp, TriggerMayBeStored, BuilderStage
<1>11. ASSUME NEW w \in Runtimes, NEW r \in Runs, Deliver(w, r) PROVE TypeOK'
  <2>1. buffered' \in [Runtimes -> [Runs -> Nat]]
    BY <1>11 DEF Deliver, Push
  <2>2. QED
    BY <1>11, <2>1 DEF Deliver
<1>12. ASSUME NEW w \in Runtimes, NEW r \in Runs, AckWaitExpires(w, r) PROVE TypeOK'
  <2>1. buffered' \in [Runtimes -> [Runs -> Nat]]
    BY <1>12 DEF AckWaitExpires, Push
  <2>2. QED
    BY <1>12, <2>1 DEF AckWaitExpires
<1>13. ASSUME NEW w \in Runtimes, NEW r \in Runs, Take(w, r) PROVE TypeOK'
  <2>1. buffered' \in [Runtimes -> [Runs -> Nat]]
    BY <1>13 DEF Take, Pop
  <2>2. stage' \in [Runtimes -> RuntimeStage]
    BY <1>13 DEF Take, RuntimeStage
  <2>3. job' \in [Runtimes -> Runs \cup {NoRun}]
    BY <1>13 DEF Take
  <2>4. \A v \in Runtimes : stage'[v] = "idle" <=> job'[v] = NoRun
    BY <1>13 DEF Take, Pop
  <2>5. QED
    BY <1>13, <2>1, <2>2, <2>3, <2>4 DEF Take
<1>14. ASSUME NEW w \in Runtimes, LoadAgent(w) PROVE TypeOK'
  <2>1. /\ stage' \in [Runtimes -> RuntimeStage]
        /\ job' \in [Runtimes -> Runs \cup {NoRun}]
        /\ \A v \in Runtimes : stage'[v] = "idle" <=> job'[v] = NoRun
    BY <1>14, GotoType DEF LoadAgent, Move, RuntimeStage
  <2>2. QED
    BY <1>14, <2>1 DEF LoadAgent, Move, Goto
<1>15. ASSUME NEW w \in Runtimes, LookupRun(w) PROVE TypeOK'
  <2>1. /\ stage' \in [Runtimes -> RuntimeStage]
        /\ job' \in [Runtimes -> Runs \cup {NoRun}]
        /\ \A v \in Runtimes : stage'[v] = "idle" <=> job'[v] = NoRun
    BY <1>15, GotoType DEF LookupRun, Move, RuntimeStage
  <2>2. QED
    BY <1>15, <2>1 DEF LookupRun, Move, Goto
<1>16. ASSUME NEW w \in Runtimes, Claim(w) PROVE TypeOK'
  <2>1. /\ stage' \in [Runtimes -> RuntimeStage]
        /\ job' \in [Runtimes -> Runs \cup {NoRun}]
        /\ \A v \in Runtimes : stage'[v] = "idle" <=> job'[v] = NoRun
    BY <1>16, GotoType DEF Claim, RuntimeStage
  <2>2. rows' \in [Runs -> RunStatus]
    BY <1>16 DEF Claim, RowMayBeStored, RunStatus
  <2>3. QED
    BY <1>16, <2>1, <2>2 DEF Claim
<1>17. ASSUME NEW w \in Runtimes, PublishStarted(w) PROVE TypeOK'
  <2>1. /\ stage' \in [Runtimes -> RuntimeStage]
        /\ job' \in [Runtimes -> Runs \cup {NoRun}]
        /\ \A v \in Runtimes : stage'[v] = "idle" <=> job'[v] = NoRun
    BY <1>17, GotoType DEF PublishStarted, Move, RuntimeStage
  <2>2. feed' \in [Runs -> {"none", "STARTED"} \cup Outcome]
    BY <1>17 DEF PublishStarted, EventMayBeStored, Move
  <2>3. QED
    BY <1>17, <2>1, <2>2 DEF PublishStarted, Move, Goto
<1>18. ASSUME NEW w \in Runtimes, Execute(w) PROVE TypeOK'
  <2>1. /\ stage' \in [Runtimes -> RuntimeStage]
        /\ job' \in [Runtimes -> Runs \cup {NoRun}]
        /\ \A v \in Runtimes : stage'[v] = "idle" <=> job'[v] = NoRun
    BY <1>18, GotoType DEF Execute, Move, RuntimeStage
  <2>2. result' \in [Runtimes -> Outcome]
    BY <1>18 DEF Execute
  <2>3. QED
    BY <1>18, <2>1, <2>2 DEF Execute, Move, Goto
<1>19. ASSUME NEW w \in Runtimes, Commit(w) PROVE TypeOK'
  <2>1. /\ stage' \in [Runtimes -> RuntimeStage]
        /\ job' \in [Runtimes -> Runs \cup {NoRun}]
        /\ \A v \in Runtimes : stage'[v] = "idle" <=> job'[v] = NoRun
    BY <1>19, GotoType DEF Commit, Move, RuntimeStage
  <2>2. rows' \in [Runs -> RunStatus]
    BY <1>19 DEF Commit, RowMayBeStored, RunStatus
  <2>3. QED
    BY <1>19, <2>1, <2>2 DEF Commit, Move, Goto
<1>20. ASSUME NEW w \in Runtimes, Announce(w) PROVE TypeOK'
  <2>1. /\ stage' \in [Runtimes -> RuntimeStage]
        /\ job' \in [Runtimes -> Runs \cup {NoRun}]
        /\ \A v \in Runtimes : stage'[v] = "idle" <=> job'[v] = NoRun
    BY <1>20, GotoType DEF Announce, Move, RuntimeStage
  <2>2. feed' \in [Runs -> {"none", "STARTED"} \cup Outcome]
    BY <1>20 DEF Announce, EventMayBeStored, Move
  <2>3. QED
    BY <1>20, <2>1, <2>2 DEF Announce, Move, Goto
<1>21. ASSUME NEW w \in Runtimes, Fail(w) PROVE TypeOK'
  <2>1. /\ stage' \in [Runtimes -> RuntimeStage]
        /\ job' \in [Runtimes -> Runs \cup {NoRun}]
        /\ \A v \in Runtimes : stage'[v] = "idle" <=> job'[v] = NoRun
    BY <1>21, GotoType DEF Fail, Move, RuntimeStage
  <2>2. feed' \in [Runs -> {"none", "STARTED"} \cup Outcome]
    BY <1>21 DEF Fail, EventMayBeStored, Move, Outcome
  <2>3. QED
    BY <1>21, <2>1, <2>2 DEF Fail, Move, Goto
<1>22. ASSUME NEW w \in Runtimes, Crash(w) PROVE TypeOK'
  <2>1. /\ stage' \in [Runtimes -> RuntimeStage]
        /\ job' \in [Runtimes -> Runs \cup {NoRun}]
        /\ \A v \in Runtimes : stage'[v] = "idle" <=> job'[v] = NoRun
    BY <1>22, GotoType DEF Crash, Goto, RuntimeStage
  <2>2. buffered' \in [Runtimes -> [Runs -> Nat]]
    BY <1>22 DEF Crash
  <2>3. QED
    BY <1>22, <2>1, <2>2 DEF Crash
<1>23. CASE UNCHANGED vars
  BY <1>23 DEF vars
<1>24. QED
  BY <1>1, <1>2, <1>3, <1>4, <1>5, <1>6, <1>7, <1>8, <1>9, <1>10, <1>11, <1>12,
     <1>13, <1>14, <1>15, <1>16, <1>17, <1>18, <1>19, <1>20, <1>21, <1>22, <1>23
  DEF Next, GatewayStep, BuilderStep, HandlerStep

-----------------------------------------------------------------------------
(* Who may put a run into the pipeline.                                    *)

\* The step from this state may publish r's trigger.
OwesTrigger(r) ==
  \/ trigger[r] = "created" /\ trigger'[r] = "done"
  \/ builder = "trigger" /\ firstRun = r

\* A run enters the pipeline only by a publish of its gateway request or of
\* the builder; JetStream and the runtimes pass on what they hold.
LEMMA PipelineEntry ==
  ASSUME TypeOK, [Next]_vars
  PROVE  \A r \in Runs : InPipeline(r)' => InPipeline(r) \/ OwesTrigger(r)
<1> SUFFICES ASSUME NEW r \in Runs, InPipeline(r)'
             PROVE  InPipeline(r) \/ OwesTrigger(r)
  OBVIOUS
<1> USE RunsAssumption
<1> USE DEF TypeOK, store, gateway, building, queue, runtime, troubles
<1> USE DEF InPipeline, Held, Handled, OwesTrigger
<1>1. ASSUME NEW q \in Runs, TriggerFind(q) PROVE InPipeline(r) \/ OwesTrigger(r)
  BY <1>1 DEF TriggerFind
<1>2. ASSUME NEW q \in Runs, TriggerCreate(q) PROVE InPipeline(r) \/ OwesTrigger(r)
  BY <1>2 DEF TriggerCreate, RowMayBeStored, NoFault, Strike
<1>3. ASSUME NEW q \in Runs, TriggerPublish(q) PROVE InPipeline(r) \/ OwesTrigger(r)
  BY <1>3 DEF TriggerPublish, TriggerMayBeStored, NoFault, Strike
<1>4. ASSUME NEW q \in Runs, TriggerDies(q) PROVE InPipeline(r) \/ OwesTrigger(r)
  BY <1>4 DEF TriggerDies, Strike
<1>5. ASSUME NEW q \in Runs, BuilderTake(q) PROVE InPipeline(r) \/ OwesTrigger(r)
  BY <1>5 DEF BuilderTake
<1>6. ASSUME NEW a \in Agents, DeleteRuns(a) PROVE InPipeline(r) \/ OwesTrigger(r)
  BY <1>6 DEF DeleteRuns
<1>7. ASSUME NEW a \in Agents, DeleteAgentRow(a) PROVE InPipeline(r) \/ OwesTrigger(r)
  BY <1>7 DEF DeleteAgentRow
<1>8. CASE BuilderStore
  BY <1>8 DEF BuilderStore, BuilderGivesUp, NoFault, Strike
<1>9. CASE BuilderAnnounce
  BY <1>9 DEF BuilderAnnounce, BuilderGivesUp, NoFault, Strike
<1>10. CASE BuilderTrigger
  BY <1>10 DEF BuilderTrigger, BuilderGivesUp, TriggerMayBeStored, NoFault, Strike
<1>11. ASSUME NEW w \in Runtimes, NEW q \in Runs, Deliver(w, q)
       PROVE  InPipeline(r) \/ OwesTrigger(r)
  BY <1>11 DEF Deliver, Push
<1>12. ASSUME NEW w \in Runtimes, NEW q \in Runs, AckWaitExpires(w, q)
       PROVE  InPipeline(r) \/ OwesTrigger(r)
  BY <1>12 DEF AckWaitExpires, Push
<1>13. ASSUME NEW w \in Runtimes, NEW q \in Runs, Take(w, q)
       PROVE  InPipeline(r) \/ OwesTrigger(r)
  BY <1>13 DEF Take, Pop
<1>14. ASSUME NEW w \in Runtimes, LoadAgent(w) PROVE InPipeline(r) \/ OwesTrigger(r)
  BY <1>14 DEF LoadAgent, Move, Goto, NoFault, Strike
<1>15. ASSUME NEW w \in Runtimes, LookupRun(w) PROVE InPipeline(r) \/ OwesTrigger(r)
  BY <1>15 DEF LookupRun, Move, Goto, NoFault, Strike
<1>16. ASSUME NEW w \in Runtimes, Claim(w) PROVE InPipeline(r) \/ OwesTrigger(r)
  BY <1>16 DEF Claim, ClaimPossible, RowMayBeStored, Goto, NoFault, Strike
<1>17. ASSUME NEW w \in Runtimes, PublishStarted(w)
       PROVE  InPipeline(r) \/ OwesTrigger(r)
  BY <1>17 DEF PublishStarted, Move, Goto, EventMayBeStored, NoFault, Strike
<1>18. ASSUME NEW w \in Runtimes, Execute(w) PROVE InPipeline(r) \/ OwesTrigger(r)
  BY <1>18 DEF Execute, Move, Goto, NoFault, Strike
<1>19. ASSUME NEW w \in Runtimes, Commit(w) PROVE InPipeline(r) \/ OwesTrigger(r)
  BY <1>19 DEF Commit, Move, Goto, RowMayBeStored, NoFault, Strike
<1>20. ASSUME NEW w \in Runtimes, Announce(w) PROVE InPipeline(r) \/ OwesTrigger(r)
  BY <1>20 DEF Announce, Move, Goto, EventMayBeStored, NoFault, Strike
<1>21. ASSUME NEW w \in Runtimes, Fail(w) PROVE InPipeline(r) \/ OwesTrigger(r)
  BY <1>21 DEF Fail, Move, Goto, EventMayBeStored, NoFault, Strike
<1>22. ASSUME NEW w \in Runtimes, Crash(w) PROVE InPipeline(r) \/ OwesTrigger(r)
  BY <1>22 DEF Crash, Goto
<1>23. CASE UNCHANGED vars
  BY <1>23 DEF vars
<1>24. QED
  BY <1>1, <1>2, <1>3, <1>4, <1>5, <1>6, <1>7, <1>8, <1>9, <1>10, <1>11, <1>12, <1>13,
     <1>14, <1>15, <1>16, <1>17, <1>18, <1>19, <1>20, <1>21, <1>22, <1>23 DEF Next,
     GatewayStep, BuilderStep, HandlerStep

\* The run a handler works on was drawn, and its gateway request is over.
LEMMA WorkedRun ==
  ASSUME TypeOK, FreshIds, TriggerOrder, NEW w \in Runtimes, stage[w] # "idle"
  PROVE  job[w] \in Runs /\ job[w] \in issued /\ trigger[job[w]] \in {"idle", "done"}
<1>1. job[w] \in Runs /\ InPipeline(job[w])
  BY DEF TypeOK, InPipeline, Handled
<1>2. QED
  BY <1>1 DEF FreshIds, TriggerOrder

-----------------------------------------------------------------------------
(* The inductive invariant, one conjunct at a time.                        *)

\* A row needs its agent's row: deletions go runs first, inserts are checked.
LEMMA ForeignKeyKept ==
  ASSUME TypeOK, ForeignKey, [Next]_vars
  PROVE  ForeignKey'
<1> USE RunsAssumption
<1> USE DEF TypeOK, store, gateway, building, queue, runtime, troubles
<1> USE DEF ForeignKey
<1>1. ASSUME NEW q \in Runs, TriggerFind(q) PROVE ForeignKey'
  BY <1>1 DEF TriggerFind
<1>2. ASSUME NEW q \in Runs, TriggerCreate(q) PROVE ForeignKey'
  BY <1>2 DEF TriggerCreate, RowMayBeStored, NoFault, Strike
<1>3. ASSUME NEW q \in Runs, TriggerPublish(q) PROVE ForeignKey'
  BY <1>3 DEF TriggerPublish, TriggerMayBeStored, NoFault, Strike
<1>4. ASSUME NEW q \in Runs, TriggerDies(q) PROVE ForeignKey'
  BY <1>4 DEF TriggerDies, Strike
<1>5. ASSUME NEW q \in Runs, BuilderTake(q) PROVE ForeignKey'
  BY <1>5 DEF BuilderTake
<1>6. ASSUME NEW a \in Agents, DeleteRuns(a) PROVE ForeignKey'
  BY <1>6 DEF DeleteRuns
<1>7. ASSUME NEW a \in Agents, DeleteAgentRow(a) PROVE ForeignKey'
  BY <1>7 DEF DeleteAgentRow
<1>8. CASE BuilderStore
  BY <1>8 DEF BuilderStore, BuilderGivesUp, NoFault, Strike
<1>9. CASE BuilderAnnounce
  BY <1>9 DEF BuilderAnnounce, BuilderGivesUp, NoFault, Strike
<1>10. CASE BuilderTrigger
  BY <1>10 DEF BuilderTrigger, BuilderGivesUp, TriggerMayBeStored, NoFault, Strike
<1>11. ASSUME NEW w \in Runtimes, NEW q \in Runs, Deliver(w, q) PROVE ForeignKey'
  BY <1>11 DEF Deliver, Push
<1>12. ASSUME NEW w \in Runtimes, NEW q \in Runs, AckWaitExpires(w, q) PROVE ForeignKey'
  BY <1>12 DEF AckWaitExpires, Push
<1>13. ASSUME NEW w \in Runtimes, NEW q \in Runs, Take(w, q) PROVE ForeignKey'
  BY <1>13 DEF Take, Pop
<1>14. ASSUME NEW w \in Runtimes, LoadAgent(w) PROVE ForeignKey'
  BY <1>14 DEF LoadAgent, Move, Goto, NoFault, Strike
<1>15. ASSUME NEW w \in Runtimes, LookupRun(w) PROVE ForeignKey'
  BY <1>15 DEF LookupRun, Move, Goto, NoFault, Strike
<1>16. ASSUME NEW w \in Runtimes, Claim(w) PROVE ForeignKey'
  BY <1>16 DEF Claim, ClaimPossible, RowMayBeStored, Goto, NoFault, Strike
<1>17. ASSUME NEW w \in Runtimes, PublishStarted(w) PROVE ForeignKey'
  BY <1>17 DEF PublishStarted, Move, Goto, EventMayBeStored, NoFault, Strike
<1>18. ASSUME NEW w \in Runtimes, Execute(w) PROVE ForeignKey'
  BY <1>18 DEF Execute, Move, Goto, NoFault, Strike
<1>19. ASSUME NEW w \in Runtimes, Commit(w) PROVE ForeignKey'
  BY <1>19 DEF Commit, Move, Goto, RowMayBeStored, NoFault, Strike
<1>20. ASSUME NEW w \in Runtimes, Announce(w) PROVE ForeignKey'
  BY <1>20 DEF Announce, Move, Goto, EventMayBeStored, NoFault, Strike
<1>21. ASSUME NEW w \in Runtimes, Fail(w) PROVE ForeignKey'
  BY <1>21 DEF Fail, Move, Goto, EventMayBeStored, NoFault, Strike
<1>22. ASSUME NEW w \in Runtimes, Crash(w) PROVE ForeignKey'
  BY <1>22 DEF Crash, Goto
<1>23. CASE UNCHANGED vars
  BY <1>23 DEF vars
<1>24. QED
  BY <1>1, <1>2, <1>3, <1>4, <1>5, <1>6, <1>7, <1>8, <1>9, <1>10, <1>11, <1>12, <1>13,
     <1>14, <1>15, <1>16, <1>17, <1>18, <1>19, <1>20, <1>21, <1>22, <1>23 DEF Next,
     GatewayStep, BuilderStep, HandlerStep

\* A run and an agent nobody drew are unknown everywhere.
LEMMA FreshIdsKept ==
  ASSUME TypeOK, ForeignKey, FreshIds, TriggerOrder, [Next]_vars
  PROVE  FreshIds'
<1> USE RunsAssumption
<1> USE DEF TypeOK, store, gateway, building, queue, runtime, troubles
<1> USE PipelineEntry
<1>1. ASSUME NEW q \in Runs, TriggerFind(q) PROVE FreshIds'
  BY <1>1 DEF TriggerFind, FreshIds, OwesTrigger
<1>2. ASSUME NEW q \in Runs, TriggerCreate(q) PROVE FreshIds'
  BY <1>2 DEF TriggerCreate, RowMayBeStored, NoFault, Strike, FreshIds, OwesTrigger
<1>3. ASSUME NEW q \in Runs, TriggerPublish(q) PROVE FreshIds'
  BY <1>3 DEF TriggerPublish, TriggerMayBeStored, NoFault, Strike, FreshIds, OwesTrigger
<1>4. ASSUME NEW q \in Runs, TriggerDies(q) PROVE FreshIds'
  BY <1>4 DEF TriggerDies, Strike, FreshIds, OwesTrigger
<1>5. ASSUME NEW q \in Runs, BuilderTake(q) PROVE FreshIds'
  BY <1>5 DEF BuilderTake, FreshIds, OwesTrigger
<1>6. ASSUME NEW a \in Agents, DeleteRuns(a) PROVE FreshIds'
  BY <1>6 DEF DeleteRuns, FreshIds, OwesTrigger
<1>7. ASSUME NEW a \in Agents, DeleteAgentRow(a) PROVE FreshIds'
  BY <1>7 DEF DeleteAgentRow, FreshIds, OwesTrigger
<1>8. CASE BuilderStore
  BY <1>8 DEF BuilderStore, BuilderGivesUp, NoFault, Strike, FreshIds, OwesTrigger
<1>9. CASE BuilderAnnounce
  BY <1>9 DEF BuilderAnnounce, BuilderGivesUp, NoFault, Strike, FreshIds, OwesTrigger
<1>10. CASE BuilderTrigger
  BY <1>10 DEF BuilderTrigger, BuilderGivesUp, TriggerMayBeStored, NoFault, Strike,
     FreshIds, OwesTrigger
<1>11. ASSUME NEW w \in Runtimes, NEW q \in Runs, Deliver(w, q) PROVE FreshIds'
  BY <1>11 DEF Deliver, Push, FreshIds, OwesTrigger
<1>12. ASSUME NEW w \in Runtimes, NEW q \in Runs, AckWaitExpires(w, q) PROVE FreshIds'
  BY <1>12 DEF AckWaitExpires, Push, FreshIds, OwesTrigger
<1>13. ASSUME NEW w \in Runtimes, NEW q \in Runs, Take(w, q) PROVE FreshIds'
  BY <1>13 DEF Take, Pop, FreshIds, OwesTrigger
<1>14. ASSUME NEW w \in Runtimes, LoadAgent(w) PROVE FreshIds'
  BY <1>14 DEF LoadAgent, Move, Goto, NoFault, Strike, FreshIds, OwesTrigger
<1>15. ASSUME NEW w \in Runtimes, LookupRun(w) PROVE FreshIds'
  BY <1>15 DEF LookupRun, Move, Goto, NoFault, Strike, FreshIds, OwesTrigger
<1>16. ASSUME NEW w \in Runtimes, Claim(w) PROVE FreshIds'
  <2>1. job[w] \in issued
    BY <1>16, WorkedRun DEF Claim
  <2>2. \A r \in Runs \ issued : rows'[r] = rows[r] /\ feed'[r] = feed[r]
    BY <1>16, <2>1 DEF Claim, ClaimPossible, RowMayBeStored, Goto, NoFault, Strike
  <2>3. UNCHANGED <<agents, deleted, issued, accepted, trigger, deleting, building>>
    BY <1>16 DEF Claim
  <2>4. QED
    BY <2>2, <2>3, PipelineEntry DEF FreshIds, OwesTrigger
<1>17. ASSUME NEW w \in Runtimes, PublishStarted(w) PROVE FreshIds'
  <2>1. job[w] \in issued
    BY <1>17, WorkedRun DEF PublishStarted, Move
  <2>2. \A r \in Runs \ issued : rows'[r] = rows[r] /\ feed'[r] = feed[r]
    BY <1>17, <2>1 DEF PublishStarted, Move, Goto, EventMayBeStored, NoFault, Strike
  <2>3. UNCHANGED <<agents, deleted, issued, accepted, trigger, deleting, building>>
    BY <1>17 DEF PublishStarted
  <2>4. QED
    BY <2>2, <2>3, PipelineEntry DEF FreshIds, OwesTrigger
<1>18. ASSUME NEW w \in Runtimes, Execute(w) PROVE FreshIds'
  BY <1>18 DEF Execute, Move, Goto, NoFault, Strike, FreshIds, OwesTrigger
<1>19. ASSUME NEW w \in Runtimes, Commit(w) PROVE FreshIds'
  BY <1>19 DEF Commit, Move, Goto, RowMayBeStored, NoFault, Strike, FreshIds,
     OwesTrigger
<1>20. ASSUME NEW w \in Runtimes, Announce(w) PROVE FreshIds'
  <2>1. job[w] \in issued
    BY <1>20, WorkedRun DEF Announce, Move
  <2>2. \A r \in Runs \ issued : rows'[r] = rows[r] /\ feed'[r] = feed[r]
    BY <1>20, <2>1 DEF Announce, Move, Goto, EventMayBeStored, NoFault, Strike
  <2>3. UNCHANGED <<agents, deleted, issued, accepted, trigger, deleting, building>>
    BY <1>20 DEF Announce
  <2>4. QED
    BY <2>2, <2>3, PipelineEntry DEF FreshIds, OwesTrigger
<1>21. ASSUME NEW w \in Runtimes, Fail(w) PROVE FreshIds'
  <2>1. job[w] \in issued
    BY <1>21, WorkedRun DEF Fail, Move
  <2>2. \A r \in Runs \ issued : rows'[r] = rows[r] /\ feed'[r] = feed[r]
    BY <1>21, <2>1 DEF Fail, Move, Goto, EventMayBeStored, NoFault, Strike
  <2>3. UNCHANGED <<agents, deleted, issued, accepted, trigger, deleting, building>>
    BY <1>21 DEF Fail
  <2>4. QED
    BY <2>2, <2>3, PipelineEntry DEF FreshIds, OwesTrigger
<1>22. ASSUME NEW w \in Runtimes, Crash(w) PROVE FreshIds'
  BY <1>22 DEF Crash, Goto, FreshIds, OwesTrigger
<1>23. CASE UNCHANGED vars
  BY <1>23 DEF vars, FreshIds, OwesTrigger
<1>24. QED
  BY <1>1, <1>2, <1>3, <1>4, <1>5, <1>6, <1>7, <1>8, <1>9, <1>10, <1>11, <1>12, <1>13,
     <1>14, <1>15, <1>16, <1>17, <1>18, <1>19, <1>20, <1>21, <1>22, <1>23 DEF Next,
     GatewayStep, BuilderStep, HandlerStep

\* The trigger is sent last, by the gateway after the row, by the builder after
\* the agent.
LEMMA TriggerOrderKept ==
  ASSUME TypeOK, FreshIds, TriggerOrder, [Next]_vars
  PROVE  TriggerOrder'
<1> USE RunsAssumption
<1> USE DEF TypeOK, store, gateway, building, queue, runtime, troubles
<1> USE PipelineEntry
<1>1. ASSUME NEW q \in Runs, TriggerFind(q) PROVE TriggerOrder'
  BY <1>1 DEF TriggerFind, TriggerOrder, TriggeredAgentExists, FreshIds, OwesTrigger
<1>2. ASSUME NEW q \in Runs, TriggerCreate(q) PROVE TriggerOrder'
  <2>1. trigger[q] = "found" /\ trigger'[q] \in {"created", "done"}
    BY <1>2 DEF TriggerCreate
  <2>2. trigger'[q] = "created" => AgentOf[q] \in agents
    BY <1>2 DEF TriggerCreate
  <2>3. \A r \in Runs : r # q => rows'[r] = rows[r] /\ trigger'[r] = trigger[r]
    BY <1>2 DEF TriggerCreate, RowMayBeStored
  <2>4. UNCHANGED <<agents, deleted, building, queue, runtime, feed>>
    BY <1>2 DEF TriggerCreate
  <2>5. \A r \in Runs : InPipeline(r)' <=> InPipeline(r)
    BY <2>4 DEF InPipeline, Held, Handled
  <2>6. QED
    BY <2>1, <2>2, <2>3, <2>4, <2>5 DEF TriggerOrder, TriggeredAgentExists, FreshIds
<1>3. ASSUME NEW q \in Runs, TriggerPublish(q) PROVE TriggerOrder'
  BY <1>3 DEF TriggerPublish, TriggerMayBeStored, NoFault, Strike, TriggerOrder,
     TriggeredAgentExists, FreshIds, OwesTrigger
<1>4. ASSUME NEW q \in Runs, TriggerDies(q) PROVE TriggerOrder'
  BY <1>4 DEF TriggerDies, Strike, TriggerOrder, TriggeredAgentExists, FreshIds,
     OwesTrigger
<1>5. ASSUME NEW q \in Runs, BuilderTake(q) PROVE TriggerOrder'
  BY <1>5 DEF BuilderTake, TriggerOrder, TriggeredAgentExists, FreshIds, OwesTrigger
<1>6. ASSUME NEW a \in Agents, DeleteRuns(a) PROVE TriggerOrder'
  BY <1>6 DEF DeleteRuns, TriggerOrder, TriggeredAgentExists, FreshIds, OwesTrigger
<1>7. ASSUME NEW a \in Agents, DeleteAgentRow(a) PROVE TriggerOrder'
  BY <1>7 DEF DeleteAgentRow, TriggerOrder, TriggeredAgentExists, FreshIds, OwesTrigger
<1>8. CASE BuilderStore
  BY <1>8 DEF BuilderStore, BuilderGivesUp, NoFault, Strike, TriggerOrder,
     TriggeredAgentExists, FreshIds, OwesTrigger
<1>9. CASE BuilderAnnounce
  BY <1>9 DEF BuilderAnnounce, BuilderGivesUp, NoFault, Strike, TriggerOrder,
     TriggeredAgentExists, FreshIds, OwesTrigger
<1>10. CASE BuilderTrigger
  BY <1>10 DEF BuilderTrigger, BuilderGivesUp, TriggerMayBeStored, NoFault, Strike,
     TriggerOrder, TriggeredAgentExists, FreshIds, OwesTrigger
<1>11. ASSUME NEW w \in Runtimes, NEW q \in Runs, Deliver(w, q) PROVE TriggerOrder'
  BY <1>11 DEF Deliver, Push, TriggerOrder, TriggeredAgentExists, FreshIds, OwesTrigger
<1>12. ASSUME NEW w \in Runtimes, NEW q \in Runs, AckWaitExpires(w, q)
       PROVE  TriggerOrder'
  BY <1>12 DEF AckWaitExpires, Push, TriggerOrder, TriggeredAgentExists, FreshIds,
     OwesTrigger
<1>13. ASSUME NEW w \in Runtimes, NEW q \in Runs, Take(w, q) PROVE TriggerOrder'
  BY <1>13 DEF Take, Pop, TriggerOrder, TriggeredAgentExists, FreshIds, OwesTrigger
<1>14. ASSUME NEW w \in Runtimes, LoadAgent(w) PROVE TriggerOrder'
  BY <1>14 DEF LoadAgent, Move, Goto, NoFault, Strike, TriggerOrder,
     TriggeredAgentExists, FreshIds, OwesTrigger
<1>15. ASSUME NEW w \in Runtimes, LookupRun(w) PROVE TriggerOrder'
  BY <1>15 DEF LookupRun, Move, Goto, NoFault, Strike, TriggerOrder,
     TriggeredAgentExists, FreshIds, OwesTrigger
<1>16. ASSUME NEW w \in Runtimes, Claim(w) PROVE TriggerOrder'
  <2>1. job[w] \in Runs /\ trigger[job[w]] \in {"idle", "done"}
    BY <1>16, WorkedRun DEF Claim
  <2>2. \A r \in Runs : trigger[r] = "found" => rows'[r] = rows[r] /\ feed'[r] = feed[r]
    BY <1>16, <2>1 DEF Claim, ClaimPossible, RowMayBeStored, Goto, NoFault, Strike
  <2>3. UNCHANGED <<agents, deleted, issued, accepted, trigger, deleting, building>>
    BY <1>16 DEF Claim
  <2>4. QED
    BY <2>2, <2>3, PipelineEntry
    DEF TriggerOrder, TriggeredAgentExists, FreshIds, OwesTrigger
<1>17. ASSUME NEW w \in Runtimes, PublishStarted(w) PROVE TriggerOrder'
  <2>1. job[w] \in Runs /\ trigger[job[w]] \in {"idle", "done"}
    BY <1>17, WorkedRun DEF PublishStarted, Move
  <2>2. \A r \in Runs : trigger[r] = "found" => rows'[r] = rows[r] /\ feed'[r] = feed[r]
    BY <1>17, <2>1 DEF PublishStarted, Move, Goto, EventMayBeStored, NoFault, Strike
  <2>3. UNCHANGED <<agents, deleted, issued, accepted, trigger, deleting, building>>
    BY <1>17 DEF PublishStarted
  <2>4. QED
    BY <2>2, <2>3, PipelineEntry
    DEF TriggerOrder, TriggeredAgentExists, FreshIds, OwesTrigger
<1>18. ASSUME NEW w \in Runtimes, Execute(w) PROVE TriggerOrder'
  BY <1>18 DEF Execute, Move, Goto, NoFault, Strike, TriggerOrder, TriggeredAgentExists,
     FreshIds, OwesTrigger
<1>19. ASSUME NEW w \in Runtimes, Commit(w) PROVE TriggerOrder'
  BY <1>19 DEF Commit, Move, Goto, RowMayBeStored, NoFault, Strike, TriggerOrder,
     TriggeredAgentExists, FreshIds, OwesTrigger
<1>20. ASSUME NEW w \in Runtimes, Announce(w) PROVE TriggerOrder'
  <2>1. job[w] \in Runs /\ trigger[job[w]] \in {"idle", "done"}
    BY <1>20, WorkedRun DEF Announce, Move
  <2>2. \A r \in Runs : trigger[r] = "found" => rows'[r] = rows[r] /\ feed'[r] = feed[r]
    BY <1>20, <2>1 DEF Announce, Move, Goto, EventMayBeStored, NoFault, Strike
  <2>3. UNCHANGED <<agents, deleted, issued, accepted, trigger, deleting, building>>
    BY <1>20 DEF Announce
  <2>4. QED
    BY <2>2, <2>3, PipelineEntry
    DEF TriggerOrder, TriggeredAgentExists, FreshIds, OwesTrigger
<1>21. ASSUME NEW w \in Runtimes, Fail(w) PROVE TriggerOrder'
  <2>1. job[w] \in Runs /\ trigger[job[w]] \in {"idle", "done"}
    BY <1>21, WorkedRun DEF Fail, Move
  <2>2. \A r \in Runs : trigger[r] = "found" => rows'[r] = rows[r] /\ feed'[r] = feed[r]
    BY <1>21, <2>1 DEF Fail, Move, Goto, EventMayBeStored, NoFault, Strike
  <2>3. UNCHANGED <<agents, deleted, issued, accepted, trigger, deleting, building>>
    BY <1>21 DEF Fail
  <2>4. QED
    BY <2>2, <2>3, PipelineEntry
    DEF TriggerOrder, TriggeredAgentExists, FreshIds, OwesTrigger
<1>22. ASSUME NEW w \in Runtimes, Crash(w) PROVE TriggerOrder'
  BY <1>22 DEF Crash, Goto, TriggerOrder, TriggeredAgentExists, FreshIds, OwesTrigger
<1>23. CASE UNCHANGED vars
  BY <1>23 DEF vars, TriggerOrder, TriggeredAgentExists, FreshIds, OwesTrigger
<1>24. QED
  BY <1>1, <1>2, <1>3, <1>4, <1>5, <1>6, <1>7, <1>8, <1>9, <1>10, <1>11, <1>12, <1>13,
     <1>14, <1>15, <1>16, <1>17, <1>18, <1>19, <1>20, <1>21, <1>22, <1>23 DEF Next,
     GatewayStep, BuilderStep, HandlerStep

\* An unsettled row keeps an owner in every step that strikes no fault at it.
LEMMA UnsettledRowIsOwnedKept ==
  ASSUME TypeOK, ForeignKey, FreshIds, UnsettledRowIsOwned, [Next]_vars
  PROVE  UnsettledRowIsOwned'
<1> SUFFICES ASSUME NEW r \in Runs, r \notin faulted'
             PROVE  PendingIsOwned(r)' /\ RunningIsOwned(r)'
  BY DEF UnsettledRowIsOwned
<1> USE RunsAssumption
<1> USE DEF TypeOK, store, gateway, building, queue, runtime, troubles
<1>1. ASSUME NEW q \in Runs, TriggerFind(q)
      PROVE  PendingIsOwned(r)' /\ RunningIsOwned(r)'
  <2>1. trigger[q] # "created" /\ (\A p \in Runs : p # q => trigger'[p] = trigger[p])
    BY <1>1 DEF TriggerFind, FreshIds
  <2>2. UNCHANGED <<rows, faulted, unacked, stage, job>>
    BY <1>1 DEF TriggerFind
  <2>3. QED
    BY <2>1, <2>2 DEF UnsettledRowIsOwned, PendingIsOwned, RunningIsOwned
<1>2. ASSUME NEW q \in Runs, TriggerCreate(q)
      PROVE  PendingIsOwned(r)' /\ RunningIsOwned(r)'
  BY <1>2 DEF TriggerCreate, RowMayBeStored, NoFault, Strike, UnsettledRowIsOwned,
     PendingIsOwned, RunningIsOwned
<1>3. ASSUME NEW q \in Runs, TriggerPublish(q)
      PROVE  PendingIsOwned(r)' /\ RunningIsOwned(r)'
  BY <1>3 DEF TriggerPublish, TriggerMayBeStored, NoFault, Strike, UnsettledRowIsOwned,
     PendingIsOwned, RunningIsOwned
<1>4. ASSUME NEW q \in Runs, TriggerDies(q)
      PROVE  PendingIsOwned(r)' /\ RunningIsOwned(r)'
  BY <1>4 DEF TriggerDies, Strike, UnsettledRowIsOwned, PendingIsOwned, RunningIsOwned
<1>5. ASSUME NEW q \in Runs, BuilderTake(q)
      PROVE  PendingIsOwned(r)' /\ RunningIsOwned(r)'
  BY <1>5 DEF BuilderTake, UnsettledRowIsOwned, PendingIsOwned, RunningIsOwned
<1>6. ASSUME NEW a \in Agents, DeleteRuns(a)
      PROVE  PendingIsOwned(r)' /\ RunningIsOwned(r)'
  BY <1>6 DEF DeleteRuns, UnsettledRowIsOwned, PendingIsOwned, RunningIsOwned
<1>7. ASSUME NEW a \in Agents, DeleteAgentRow(a)
      PROVE  PendingIsOwned(r)' /\ RunningIsOwned(r)'
  BY <1>7 DEF DeleteAgentRow, UnsettledRowIsOwned, PendingIsOwned, RunningIsOwned
<1>8. CASE BuilderStore
  BY <1>8 DEF BuilderStore, BuilderGivesUp, NoFault, Strike, UnsettledRowIsOwned,
     PendingIsOwned, RunningIsOwned
<1>9. CASE BuilderAnnounce
  BY <1>9 DEF BuilderAnnounce, BuilderGivesUp, NoFault, Strike, UnsettledRowIsOwned,
     PendingIsOwned, RunningIsOwned
<1>10. CASE BuilderTrigger
  BY <1>10 DEF BuilderTrigger, BuilderGivesUp, TriggerMayBeStored, NoFault, Strike,
     UnsettledRowIsOwned, PendingIsOwned, RunningIsOwned
<1>11. ASSUME NEW w \in Runtimes, NEW q \in Runs, Deliver(w, q)
       PROVE  PendingIsOwned(r)' /\ RunningIsOwned(r)'
  BY <1>11 DEF Deliver, Push, UnsettledRowIsOwned, PendingIsOwned, RunningIsOwned
<1>12. ASSUME NEW w \in Runtimes, NEW q \in Runs, AckWaitExpires(w, q)
       PROVE  PendingIsOwned(r)' /\ RunningIsOwned(r)'
  BY <1>12 DEF AckWaitExpires, Push, UnsettledRowIsOwned, PendingIsOwned, RunningIsOwned
<1>13. ASSUME NEW w \in Runtimes, NEW q \in Runs, Take(w, q)
       PROVE  PendingIsOwned(r)' /\ RunningIsOwned(r)'
  <2>1. /\ stage[w] = "idle" /\ job[w] = NoRun
        /\ \A v \in Runtimes \ {w} : stage'[v] = stage[v] /\ job'[v] = job[v]
    BY <1>13 DEF Take, Pop
  <2>2. UNCHANGED <<rows, trigger, faulted>>
    BY <1>13 DEF Take
  <2>3. PendingIsOwned(r) /\ RunningIsOwned(r)
    BY <2>2 DEF UnsettledRowIsOwned
  <2>4. CASE stage'[w] = "load" /\ job'[w] = q /\ unacked' = unacked \ {q}
    BY <2>1, <2>2, <2>3, <2>4 DEF PendingIsOwned, RunningIsOwned
  <2>5. CASE UNCHANGED <<unacked, stage, job>>
    BY <2>2, <2>3, <2>5 DEF PendingIsOwned, RunningIsOwned
  <2>6. QED
    BY <1>13, <2>4, <2>5 DEF Take
<1>14. ASSUME NEW w \in Runtimes, LoadAgent(w)
       PROVE  PendingIsOwned(r)' /\ RunningIsOwned(r)'
  <2>1. stage[w] # "idle" /\ job[w] \in Runs
    BY <1>14 DEF LoadAgent, Move
  <2>2. \A v \in Runtimes \ {w} : stage'[v] = stage[v] /\ job'[v] = job[v]
    BY <1>14 DEF LoadAgent, Move, Goto
  <2>3. UNCHANGED <<trigger, unacked>>
    BY <1>14 DEF LoadAgent
  <2>4. r \notin faulted
    BY <1>14 DEF LoadAgent, NoFault, Strike
  <2>5. PendingIsOwned(r) /\ RunningIsOwned(r)
    BY <2>4 DEF UnsettledRowIsOwned
  <2>6. CASE r = job[w]
    <3>1. stage[w] = "load" /\ (stage'[w] = "lookup" \/ AgentOf[r] \notin agents)
      BY <1>14, <2>6 DEF LoadAgent, Move, Goto, Strike
    <3>2. CASE stage'[w] = "lookup"
      <4>1. job'[w] = r
        BY <1>14, <2>6, <3>2 DEF LoadAgent, Move, Goto
      <4>2. UNCHANGED rows
        BY <1>14 DEF LoadAgent
      <4>3. QED
        BY <2>2, <2>3, <2>5, <3>1, <3>2, <4>1, <4>2 DEF PendingIsOwned, RunningIsOwned
    <3>3. CASE AgentOf[r] \notin agents
      BY <1>14, <3>3 DEF LoadAgent, ForeignKey, PendingIsOwned, RunningIsOwned
    <3>4. QED
      BY <3>1, <3>2, <3>3
  <2>7. CASE r # job[w]
    <3>1. rows'[r] = rows[r]
      BY <1>14, <2>1, <2>7 DEF LoadAgent
    <3>2. QED
      BY <2>2, <2>3, <2>5, <2>7, <3>1 DEF PendingIsOwned, RunningIsOwned
  <2>8. QED
    BY <2>6, <2>7
<1>15. ASSUME NEW w \in Runtimes, LookupRun(w)
       PROVE  PendingIsOwned(r)' /\ RunningIsOwned(r)'
  <2>1. stage[w] # "idle" /\ job[w] \in Runs
    BY <1>15 DEF LookupRun, Move
  <2>2. \A v \in Runtimes \ {w} : stage'[v] = stage[v] /\ job'[v] = job[v]
    BY <1>15 DEF LookupRun, Move, Goto
  <2>3. UNCHANGED <<trigger, unacked>>
    BY <1>15 DEF LookupRun
  <2>4. r \notin faulted
    BY <1>15 DEF LookupRun, NoFault, Strike
  <2>5. PendingIsOwned(r) /\ RunningIsOwned(r)
    BY <2>4 DEF UnsettledRowIsOwned
  <2>6. CASE r = job[w]
    <3>1. /\ stage[w] = "lookup" /\ job'[w] = r
          /\ stage'[w] = "update" \/ rows[r] = "none"
      BY <1>15, <2>6 DEF LookupRun, Move, Goto, Strike
    <3>2. UNCHANGED rows
      BY <1>15 DEF LookupRun
    <3>3. QED
      BY <2>2, <2>3, <2>5, <3>1, <3>2 DEF PendingIsOwned, RunningIsOwned
  <2>7. CASE r # job[w]
    <3>1. rows'[r] = rows[r]
      BY <1>15, <2>1, <2>7 DEF LookupRun
    <3>2. QED
      BY <2>2, <2>3, <2>5, <2>7, <3>1 DEF PendingIsOwned, RunningIsOwned
  <2>8. QED
    BY <2>6, <2>7
<1>16. ASSUME NEW w \in Runtimes, Claim(w)
       PROVE  PendingIsOwned(r)' /\ RunningIsOwned(r)'
  <2>1. stage[w] # "idle" /\ job[w] \in Runs
    BY <1>16 DEF Claim
  <2>2. \A v \in Runtimes \ {w} : stage'[v] = stage[v] /\ job'[v] = job[v]
    BY <1>16 DEF Claim, Goto
  <2>3. UNCHANGED <<trigger, unacked>>
    BY <1>16 DEF Claim
  <2>4. r \notin faulted
    BY <1>16 DEF Claim, NoFault, Strike
  <2>5. PendingIsOwned(r) /\ RunningIsOwned(r)
    BY <2>4 DEF UnsettledRowIsOwned
  <2>6. CASE r = job[w]
    <3>1. CASE rows'[r] = "RUNNING" /\ stage'[w] = "start"
      BY <1>16, <2>1, <2>6, <3>1 DEF Claim, Goto, PendingIsOwned, RunningIsOwned
    <3>2. CASE ~ClaimPossible(w) /\ UNCHANGED rows
      <4>1. rows[r] = "none" \/ stage[w] = "insert"
        BY <1>16, <2>6, <3>2 DEF Claim, ClaimPossible
      <4>2. QED
        BY <2>2, <2>3, <2>5, <3>2, <4>1 DEF PendingIsOwned, RunningIsOwned
    <3>3. QED
      BY <1>16, <2>1, <2>6, <3>1, <3>2 DEF Claim, Goto, Strike
  <2>7. CASE r # job[w]
    <3>1. rows'[r] = rows[r]
      BY <1>16, <2>1, <2>7 DEF Claim, RowMayBeStored
    <3>2. QED
      BY <2>2, <2>3, <2>5, <2>7, <3>1 DEF PendingIsOwned, RunningIsOwned
  <2>8. QED
    BY <2>6, <2>7
<1>17. ASSUME NEW w \in Runtimes, PublishStarted(w)
       PROVE  PendingIsOwned(r)' /\ RunningIsOwned(r)'
  <2>1. stage[w] # "idle" /\ job[w] \in Runs
    BY <1>17 DEF PublishStarted, Move
  <2>2. \A v \in Runtimes \ {w} : stage'[v] = stage[v] /\ job'[v] = job[v]
    BY <1>17 DEF PublishStarted, Move, Goto
  <2>3. UNCHANGED <<trigger, unacked>>
    BY <1>17 DEF PublishStarted
  <2>4. r \notin faulted
    BY <1>17 DEF PublishStarted, NoFault, Strike
  <2>5. PendingIsOwned(r) /\ RunningIsOwned(r)
    BY <2>4 DEF UnsettledRowIsOwned
  <2>6. CASE r = job[w]
    <3>1. stage[w] = "start" /\ stage'[w] = "execute" /\ job'[w] = r /\ UNCHANGED rows
      BY <1>17, <2>6 DEF PublishStarted, Move, Goto, Strike
    <3>2. QED
      BY <2>2, <2>3, <2>5, <3>1 DEF PendingIsOwned, RunningIsOwned
  <2>7. CASE r # job[w]
    <3>1. rows'[r] = rows[r]
      BY <1>17, <2>1, <2>7 DEF PublishStarted
    <3>2. QED
      BY <2>2, <2>3, <2>5, <2>7, <3>1 DEF PendingIsOwned, RunningIsOwned
  <2>8. QED
    BY <2>6, <2>7
<1>18. ASSUME NEW w \in Runtimes, Execute(w)
       PROVE  PendingIsOwned(r)' /\ RunningIsOwned(r)'
  <2>1. stage[w] # "idle" /\ job[w] \in Runs
    BY <1>18 DEF Execute, Move
  <2>2. \A v \in Runtimes \ {w} : stage'[v] = stage[v] /\ job'[v] = job[v]
    BY <1>18 DEF Execute, Move, Goto
  <2>3. UNCHANGED <<trigger, unacked>>
    BY <1>18 DEF Execute
  <2>4. r \notin faulted
    BY <1>18 DEF Execute, NoFault, Strike
  <2>5. PendingIsOwned(r) /\ RunningIsOwned(r)
    BY <2>4 DEF UnsettledRowIsOwned
  <2>6. CASE r = job[w]
    <3>1. stage[w] = "execute" /\ stage'[w] = "commit" /\ job'[w] = r /\ UNCHANGED rows
      BY <1>18, <2>6 DEF Execute, Move, Goto, Strike
    <3>2. QED
      BY <2>2, <2>3, <2>5, <3>1 DEF PendingIsOwned, RunningIsOwned
  <2>7. CASE r # job[w]
    <3>1. rows'[r] = rows[r]
      BY <1>18, <2>1, <2>7 DEF Execute
    <3>2. QED
      BY <2>2, <2>3, <2>5, <2>7, <3>1 DEF PendingIsOwned, RunningIsOwned
  <2>8. QED
    BY <2>6, <2>7
<1>19. ASSUME NEW w \in Runtimes, Commit(w)
       PROVE  PendingIsOwned(r)' /\ RunningIsOwned(r)'
  <2>1. stage[w] # "idle" /\ job[w] \in Runs
    BY <1>19 DEF Commit, Move
  <2>2. \A v \in Runtimes \ {w} : stage'[v] = stage[v] /\ job'[v] = job[v]
    BY <1>19 DEF Commit, Move, Goto
  <2>3. UNCHANGED <<trigger, unacked>>
    BY <1>19 DEF Commit
  <2>4. r \notin faulted
    BY <1>19 DEF Commit, NoFault, Strike
  <2>5. PendingIsOwned(r) /\ RunningIsOwned(r)
    BY <2>4 DEF UnsettledRowIsOwned
  <2>6. CASE r = job[w]
    <3>1. rows'[r] \in Outcome \/ rows'[r] = "none"
      BY <1>19, <2>6 DEF Commit, Strike
    <3>2. QED
      BY <3>1 DEF PendingIsOwned, RunningIsOwned, Outcome
  <2>7. CASE r # job[w]
    <3>1. rows'[r] = rows[r]
      BY <1>19, <2>1, <2>7 DEF Commit, RowMayBeStored
    <3>2. QED
      BY <2>2, <2>3, <2>5, <2>7, <3>1 DEF PendingIsOwned, RunningIsOwned
  <2>8. QED
    BY <2>6, <2>7
<1>20. ASSUME NEW w \in Runtimes, Announce(w)
       PROVE  PendingIsOwned(r)' /\ RunningIsOwned(r)'
  <2>1. stage[w] # "idle" /\ job[w] \in Runs
    BY <1>20 DEF Announce, Move
  <2>2. \A v \in Runtimes \ {w} : stage'[v] = stage[v] /\ job'[v] = job[v]
    BY <1>20 DEF Announce, Move, Goto
  <2>3. UNCHANGED <<trigger, unacked>>
    BY <1>20 DEF Announce
  <2>4. r \notin faulted
    BY <1>20 DEF Announce, NoFault, Strike
  <2>5. PendingIsOwned(r) /\ RunningIsOwned(r)
    BY <2>4 DEF UnsettledRowIsOwned
  <2>6. CASE r = job[w]
    <3>1. stage[w] = "announce" /\ UNCHANGED rows
      BY <1>20 DEF Announce, Move
    <3>2. QED
      BY <2>2, <2>3, <2>5, <3>1 DEF PendingIsOwned, RunningIsOwned
  <2>7. CASE r # job[w]
    <3>1. rows'[r] = rows[r]
      BY <1>20, <2>1, <2>7 DEF Announce
    <3>2. QED
      BY <2>2, <2>3, <2>5, <2>7, <3>1 DEF PendingIsOwned, RunningIsOwned
  <2>8. QED
    BY <2>6, <2>7
<1>21. ASSUME NEW w \in Runtimes, Fail(w) PROVE PendingIsOwned(r)' /\ RunningIsOwned(r)'
  <2>1. stage[w] # "idle" /\ job[w] \in Runs
    BY <1>21 DEF Fail, Move
  <2>2. \A v \in Runtimes \ {w} : stage'[v] = stage[v] /\ job'[v] = job[v]
    BY <1>21 DEF Fail, Move, Goto
  <2>3. UNCHANGED <<trigger, unacked>>
    BY <1>21 DEF Fail
  <2>4. r \notin faulted
    BY <1>21 DEF Fail, NoFault, Strike
  <2>5. PendingIsOwned(r) /\ RunningIsOwned(r)
    BY <2>4 DEF UnsettledRowIsOwned
  <2>6. CASE r = job[w]
    <3>1. stage[w] = "fail" /\ UNCHANGED rows
      BY <1>21 DEF Fail, Move
    <3>2. QED
      BY <2>2, <2>3, <2>5, <3>1 DEF PendingIsOwned, RunningIsOwned
  <2>7. CASE r # job[w]
    <3>1. rows'[r] = rows[r]
      BY <1>21, <2>1, <2>7 DEF Fail
    <3>2. QED
      BY <2>2, <2>3, <2>5, <2>7, <3>1 DEF PendingIsOwned, RunningIsOwned
  <2>8. QED
    BY <2>6, <2>7
<1>22. ASSUME NEW w \in Runtimes, Crash(w)
       PROVE  PendingIsOwned(r)' /\ RunningIsOwned(r)'
  <2>1. \A v \in Runtimes \ {w} : stage'[v] = stage[v] /\ job'[v] = job[v]
    BY <1>22 DEF Crash, Goto
  <2>2. UNCHANGED <<rows, trigger, unacked>>
    BY <1>22 DEF Crash
  <2>3. r # job[w] /\ r \notin faulted
    BY <1>22 DEF Crash
  <2>4. PendingIsOwned(r) /\ RunningIsOwned(r)
    BY <2>3 DEF UnsettledRowIsOwned
  <2>5. QED
    BY <2>1, <2>2, <2>3, <2>4 DEF PendingIsOwned, RunningIsOwned
<1>23. CASE UNCHANGED vars
  BY <1>23 DEF vars, UnsettledRowIsOwned, PendingIsOwned, RunningIsOwned
<1>24. QED
  BY <1>1, <1>2, <1>3, <1>4, <1>5, <1>6, <1>7, <1>8, <1>9, <1>10, <1>11, <1>12, <1>13,
     <1>14, <1>15, <1>16, <1>17, <1>18, <1>19, <1>20, <1>21, <1>22, <1>23 DEF Next,
     GatewayStep, BuilderStep, HandlerStep

\* The message of an accepted run, its handler, then its outcome: one follows
\* the other without a gap.
LEMMA AcceptedRunIsAnsweredKept ==
  ASSUME TypeOK, TriggerOrder, AcceptedRunIsAnswered, [Next]_vars
  PROVE  AcceptedRunIsAnswered'
<1> USE RunsAssumption
<1> USE DEF TypeOK, store, gateway, building, queue, runtime, troubles
<1> USE DEF AcceptedRunIsAnswered, Owed, Handled
<1>1. ASSUME NEW q \in Runs, TriggerFind(q) PROVE AcceptedRunIsAnswered'
  BY <1>1 DEF TriggerFind, TriggerOrder, TriggeredAgentExists, InPipeline, Outcome
<1>2. ASSUME NEW q \in Runs, TriggerCreate(q) PROVE AcceptedRunIsAnswered'
  BY <1>2 DEF TriggerCreate, RowMayBeStored, NoFault, Strike, TriggerOrder,
     TriggeredAgentExists, InPipeline, Outcome
<1>3. ASSUME NEW q \in Runs, TriggerPublish(q) PROVE AcceptedRunIsAnswered'
  BY <1>3 DEF TriggerPublish, TriggerMayBeStored, NoFault, Strike, TriggerOrder,
     TriggeredAgentExists, InPipeline, Outcome
<1>4. ASSUME NEW q \in Runs, TriggerDies(q) PROVE AcceptedRunIsAnswered'
  BY <1>4 DEF TriggerDies, Strike, TriggerOrder, TriggeredAgentExists, InPipeline,
     Outcome
<1>5. ASSUME NEW q \in Runs, BuilderTake(q) PROVE AcceptedRunIsAnswered'
  BY <1>5 DEF BuilderTake, TriggerOrder, TriggeredAgentExists, InPipeline, Outcome
<1>6. ASSUME NEW a \in Agents, DeleteRuns(a) PROVE AcceptedRunIsAnswered'
  BY <1>6 DEF DeleteRuns, TriggerOrder, TriggeredAgentExists, InPipeline, Outcome
<1>7. ASSUME NEW a \in Agents, DeleteAgentRow(a) PROVE AcceptedRunIsAnswered'
  BY <1>7 DEF DeleteAgentRow, TriggerOrder, TriggeredAgentExists, InPipeline, Outcome
<1>8. CASE BuilderStore
  BY <1>8 DEF BuilderStore, BuilderGivesUp, NoFault, Strike, TriggerOrder,
     TriggeredAgentExists, InPipeline, Outcome
<1>9. CASE BuilderAnnounce
  BY <1>9 DEF BuilderAnnounce, BuilderGivesUp, NoFault, Strike, TriggerOrder,
     TriggeredAgentExists, InPipeline, Outcome
<1>10. CASE BuilderTrigger
  BY <1>10 DEF BuilderTrigger, BuilderGivesUp, TriggerMayBeStored, NoFault, Strike,
     TriggerOrder, TriggeredAgentExists, InPipeline, Outcome
<1>11. ASSUME NEW w \in Runtimes, NEW q \in Runs, Deliver(w, q)
       PROVE  AcceptedRunIsAnswered'
  BY <1>11 DEF Deliver, Push, TriggerOrder, TriggeredAgentExists, InPipeline, Outcome
<1>12. ASSUME NEW w \in Runtimes, NEW q \in Runs, AckWaitExpires(w, q)
       PROVE  AcceptedRunIsAnswered'
  BY <1>12 DEF AckWaitExpires, Push, TriggerOrder, TriggeredAgentExists, InPipeline,
     Outcome
<1>13. ASSUME NEW w \in Runtimes, NEW q \in Runs, Take(w, q)
       PROVE  AcceptedRunIsAnswered'
  BY <1>13 DEF Take, Pop, TriggerOrder, TriggeredAgentExists, InPipeline, Outcome
<1>14. ASSUME NEW w \in Runtimes, LoadAgent(w) PROVE AcceptedRunIsAnswered'
  BY <1>14 DEF LoadAgent, Move, Goto, NoFault, Strike, TriggerOrder,
     TriggeredAgentExists, InPipeline, Outcome
<1>15. ASSUME NEW w \in Runtimes, LookupRun(w) PROVE AcceptedRunIsAnswered'
  BY <1>15 DEF LookupRun, Move, Goto, NoFault, Strike, TriggerOrder,
     TriggeredAgentExists, InPipeline, Outcome
<1>16. ASSUME NEW w \in Runtimes, Claim(w) PROVE AcceptedRunIsAnswered'
  BY <1>16 DEF Claim, ClaimPossible, RowMayBeStored, Goto, NoFault, Strike,
     TriggerOrder, TriggeredAgentExists, InPipeline, Outcome
<1>17. ASSUME NEW w \in Runtimes, PublishStarted(w) PROVE AcceptedRunIsAnswered'
  BY <1>17 DEF PublishStarted, Move, Goto, EventMayBeStored, NoFault, Strike,
     TriggerOrder, TriggeredAgentExists, InPipeline, Outcome
<1>18. ASSUME NEW w \in Runtimes, Execute(w) PROVE AcceptedRunIsAnswered'
  BY <1>18 DEF Execute, Move, Goto, NoFault, Strike, TriggerOrder, TriggeredAgentExists,
     InPipeline, Outcome
<1>19. ASSUME NEW w \in Runtimes, Commit(w) PROVE AcceptedRunIsAnswered'
  BY <1>19 DEF Commit, Move, Goto, RowMayBeStored, NoFault, Strike, TriggerOrder,
     TriggeredAgentExists, InPipeline, Outcome
<1>20. ASSUME NEW w \in Runtimes, Announce(w) PROVE AcceptedRunIsAnswered'
  BY <1>20 DEF Announce, Move, Goto, EventMayBeStored, NoFault, Strike, TriggerOrder,
     TriggeredAgentExists, InPipeline, Outcome
<1>21. ASSUME NEW w \in Runtimes, Fail(w) PROVE AcceptedRunIsAnswered'
  BY <1>21 DEF Fail, Move, Goto, EventMayBeStored, NoFault, Strike, TriggerOrder,
     TriggeredAgentExists, InPipeline, Outcome
<1>22. ASSUME NEW w \in Runtimes, Crash(w) PROVE AcceptedRunIsAnswered'
  BY <1>22 DEF Crash, Goto, TriggerOrder, TriggeredAgentExists, InPipeline, Outcome
<1>23. CASE UNCHANGED vars
  BY <1>23 DEF vars, TriggerOrder, TriggeredAgentExists, InPipeline, Outcome
<1>24. QED
  BY <1>1, <1>2, <1>3, <1>4, <1>5, <1>6, <1>7, <1>8, <1>9, <1>10, <1>11, <1>12, <1>13,
     <1>14, <1>15, <1>16, <1>17, <1>18, <1>19, <1>20, <1>21, <1>22, <1>23 DEF Next,
     GatewayStep, BuilderStep, HandlerStep

-----------------------------------------------------------------------------
(* What holds for every number of runtimes.                                *)

IndInv ==
  TypeOK /\ ForeignKey /\ FreshIds /\ TriggerOrder /\ UnsettledRowIsOwned
    /\ AcceptedRunIsAnswered

\* The inductive invariant: each conjunct is kept with the help of those before it.
THEOREM IndInvCorrect == Spec => []IndInv
<1>1. Init => IndInv
  <2> SUFFICES ASSUME Init
               PROVE  IndInv
    OBVIOUS
  <2> USE RunsAssumption
  <2>1. TypeOK
    BY AgentsAssumption
    DEF Init, TypeOK, RunStatus, TriggerStage, BuilderStage, RuntimeStage, Outcome
  <2>2. \A r \in Runs : ~InPipeline(r)
    BY DEF Init, InPipeline, Held, Handled
  <2>3. ForeignKey /\ UnsettledRowIsOwned /\ AcceptedRunIsAnswered
    BY DEF Init, ForeignKey, UnsettledRowIsOwned, PendingIsOwned, RunningIsOwned,
       AcceptedRunIsAnswered
  <2>4. FreshIds /\ TriggerOrder
    BY <2>2 DEF Init, FreshIds, TriggerOrder, TriggeredAgentExists
  <2>5. QED
    BY <2>1, <2>3, <2>4 DEF IndInv
<1>2. IndInv /\ [Next]_vars => IndInv'
  BY TypeOKKept, ForeignKeyKept, FreshIdsKept, TriggerOrderKept, UnsettledRowIsOwnedKept,
     AcceptedRunIsAnsweredKept DEF IndInv
<1>3. QED
  BY <1>1, <1>2, PTL DEF Spec

\* Every variable keeps its type, and a handler works on a run exactly as long
\* as it is not idle.
THEOREM TypeCorrect == Spec => []TypeOK
<1>1. IndInv => TypeOK
  BY DEF IndInv
<1>2. QED
  BY <1>1, IndInvCorrect, PTL

\* No accepted trigger is forgotten: acknowledging before handling loses one
\* only together with a fault, and the silent return for an unknown agent only
\* concerns deleted ones.
THEOREM AcceptedAnswered == Spec => []AcceptedRunIsAnswered
<1>1. IndInv => AcceptedRunIsAnswered
  BY DEF IndInv
<1>2. QED
  BY <1>1, IndInvCorrect, PTL

\* A row that no fault struck is never left PENDING or RUNNING without somebody
\* who will settle it, however the requests, copies and handlers interleave.
THEOREM UnsettledOwned == Spec => []UnsettledRowIsOwned
<1>1. IndInv => UnsettledRowIsOwned
  BY DEF IndInv
<1>2. QED
  BY <1>1, IndInvCorrect, PTL

\* A handler that finds no agent for its trigger is looking at a deleted one.
THEOREM TriggeredExists == Spec => []TriggeredAgentExists
<1>1. IndInv => TriggeredAgentExists
  BY DEF IndInv, TriggerOrder
<1>2. QED
  BY <1>1, IndInvCorrect, PTL

\* No run row outlives or comes after the acknowledged deletion of its agent,
\* although deleteAgent uses no transaction and handlers keep working.
THEOREM DeletionFinal == Spec => []DeletionIsFinal
<1>1. IndInv => DeletionIsFinal
  BY DEF IndInv, ForeignKey, FreshIds, DeletionIsFinal
<1>2. QED
  BY <1>1, IndInvCorrect, PTL

-----------------------------------------------------------------------------
(* What one agent-runtime process adds.                                    *)

\* Nobody but the only handler moves a claimed row, except for a deletion.
LEMMA HandlerKnowsKept ==
  ASSUME OneRuntime, TypeOK, TriggerOrder, HandlerKnows, [Next]_vars
  PROVE  HandlerKnows'
<1> USE RunsAssumption
<1> USE DEF TypeOK, store, gateway, building, queue, runtime, troubles
<1> USE DEF OneRuntime, HandlerKnows
<1>1. ASSUME NEW q \in Runs, TriggerFind(q) PROVE HandlerKnows'
  BY <1>1 DEF TriggerFind, TriggerOrder, InPipeline, Handled, Outcome
<1>2. ASSUME NEW q \in Runs, TriggerCreate(q) PROVE HandlerKnows'
  BY <1>2 DEF TriggerCreate, RowMayBeStored, NoFault, Strike, TriggerOrder, InPipeline,
     Handled, Outcome
<1>3. ASSUME NEW q \in Runs, TriggerPublish(q) PROVE HandlerKnows'
  BY <1>3 DEF TriggerPublish, TriggerMayBeStored, NoFault, Strike, TriggerOrder,
     InPipeline, Handled, Outcome
<1>4. ASSUME NEW q \in Runs, TriggerDies(q) PROVE HandlerKnows'
  BY <1>4 DEF TriggerDies, Strike, TriggerOrder, InPipeline, Handled, Outcome
<1>5. ASSUME NEW q \in Runs, BuilderTake(q) PROVE HandlerKnows'
  BY <1>5 DEF BuilderTake, TriggerOrder, InPipeline, Handled, Outcome
<1>6. ASSUME NEW a \in Agents, DeleteRuns(a) PROVE HandlerKnows'
  BY <1>6 DEF DeleteRuns, TriggerOrder, InPipeline, Handled, Outcome
<1>7. ASSUME NEW a \in Agents, DeleteAgentRow(a) PROVE HandlerKnows'
  BY <1>7 DEF DeleteAgentRow, TriggerOrder, InPipeline, Handled, Outcome
<1>8. CASE BuilderStore
  BY <1>8 DEF BuilderStore, BuilderGivesUp, NoFault, Strike, TriggerOrder, InPipeline,
     Handled, Outcome
<1>9. CASE BuilderAnnounce
  BY <1>9 DEF BuilderAnnounce, BuilderGivesUp, NoFault, Strike, TriggerOrder,
     InPipeline, Handled, Outcome
<1>10. CASE BuilderTrigger
  BY <1>10 DEF BuilderTrigger, BuilderGivesUp, TriggerMayBeStored, NoFault, Strike,
     TriggerOrder, InPipeline, Handled, Outcome
<1>11. ASSUME NEW w \in Runtimes, NEW q \in Runs, Deliver(w, q) PROVE HandlerKnows'
  BY <1>11 DEF Deliver, Push, TriggerOrder, InPipeline, Handled, Outcome
<1>12. ASSUME NEW w \in Runtimes, NEW q \in Runs, AckWaitExpires(w, q)
       PROVE  HandlerKnows'
  BY <1>12 DEF AckWaitExpires, Push, TriggerOrder, InPipeline, Handled, Outcome
<1>13. ASSUME NEW w \in Runtimes, NEW q \in Runs, Take(w, q) PROVE HandlerKnows'
  BY <1>13 DEF Take, Pop, TriggerOrder, InPipeline, Handled, Outcome
<1>14. ASSUME NEW w \in Runtimes, LoadAgent(w) PROVE HandlerKnows'
  BY <1>14 DEF LoadAgent, Move, Goto, NoFault, Strike, TriggerOrder, InPipeline,
     Handled, Outcome
<1>15. ASSUME NEW w \in Runtimes, LookupRun(w) PROVE HandlerKnows'
  BY <1>15 DEF LookupRun, Move, Goto, NoFault, Strike, TriggerOrder, InPipeline,
     Handled, Outcome
<1>16. ASSUME NEW w \in Runtimes, Claim(w) PROVE HandlerKnows'
  BY <1>16 DEF Claim, ClaimPossible, RowMayBeStored, Goto, NoFault, Strike,
     TriggerOrder, InPipeline, Handled, Outcome
<1>17. ASSUME NEW w \in Runtimes, PublishStarted(w) PROVE HandlerKnows'
  BY <1>17 DEF PublishStarted, Move, Goto, EventMayBeStored, NoFault, Strike,
     TriggerOrder, InPipeline, Handled, Outcome
<1>18. ASSUME NEW w \in Runtimes, Execute(w) PROVE HandlerKnows'
  BY <1>18 DEF Execute, Move, Goto, NoFault, Strike, TriggerOrder, InPipeline, Handled,
     Outcome
<1>19. ASSUME NEW w \in Runtimes, Commit(w) PROVE HandlerKnows'
  BY <1>19 DEF Commit, Move, Goto, RowMayBeStored, NoFault, Strike, TriggerOrder,
     InPipeline, Handled, Outcome
<1>20. ASSUME NEW w \in Runtimes, Announce(w) PROVE HandlerKnows'
  BY <1>20 DEF Announce, Move, Goto, EventMayBeStored, NoFault, Strike, TriggerOrder,
     InPipeline, Handled, Outcome
<1>21. ASSUME NEW w \in Runtimes, Fail(w) PROVE HandlerKnows'
  BY <1>21 DEF Fail, Move, Goto, EventMayBeStored, NoFault, Strike, TriggerOrder,
     InPipeline, Handled, Outcome
<1>22. ASSUME NEW w \in Runtimes, Crash(w) PROVE HandlerKnows'
  BY <1>22 DEF Crash, Goto, TriggerOrder, InPipeline, Handled, Outcome
<1>23. CASE UNCHANGED vars
  BY <1>23 DEF vars, TriggerOrder, InPipeline, Handled, Outcome
<1>24. QED
  BY <1>1, <1>2, <1>3, <1>4, <1>5, <1>6, <1>7, <1>8, <1>9, <1>10, <1>11, <1>12, <1>13,
     <1>14, <1>15, <1>16, <1>17, <1>18, <1>19, <1>20, <1>21, <1>22, <1>23 DEF Next,
     GatewayStep, BuilderStep, HandlerStep

\* A handler lets go of its run only when feed and row agree, the row is gone
\* or a fault struck.
LEMMA FeedMatchesRowKept ==
  ASSUME OneRuntime, TypeOK, ForeignKey, TriggerOrder, HandlerKnows, FeedMatchesRow,
         [Next]_vars
  PROVE  FeedMatchesRow'
<1> DEFINE News(s) == IF s = "PENDING" THEN "none" ELSE s
<1> SUFFICES ASSUME NEW r \in Runs \ faulted', ~Handled(r)', rows'[r] # "none"
             PROVE  feed'[r] = News(rows'[r])
  BY DEF FeedMatchesRow
<1> USE RunsAssumption
<1> USE DEF TypeOK, store, gateway, building, queue, runtime, troubles
<1> USE DEF OneRuntime, Handled
<1>1. ASSUME NEW q \in Runs, TriggerFind(q) PROVE feed'[r] = News(rows'[r])
  BY <1>1 DEF TriggerFind, FeedMatchesRow, HandlerKnows, ForeignKey, TriggerOrder,
     InPipeline
<1>2. ASSUME NEW q \in Runs, TriggerCreate(q) PROVE feed'[r] = News(rows'[r])
  BY <1>2 DEF TriggerCreate, RowMayBeStored, NoFault, Strike, FeedMatchesRow,
     HandlerKnows, ForeignKey, TriggerOrder, InPipeline
<1>3. ASSUME NEW q \in Runs, TriggerPublish(q) PROVE feed'[r] = News(rows'[r])
  BY <1>3 DEF TriggerPublish, TriggerMayBeStored, NoFault, Strike, FeedMatchesRow,
     HandlerKnows, ForeignKey, TriggerOrder, InPipeline
<1>4. ASSUME NEW q \in Runs, TriggerDies(q) PROVE feed'[r] = News(rows'[r])
  BY <1>4 DEF TriggerDies, Strike, FeedMatchesRow, HandlerKnows, ForeignKey,
     TriggerOrder, InPipeline
<1>5. ASSUME NEW q \in Runs, BuilderTake(q) PROVE feed'[r] = News(rows'[r])
  BY <1>5 DEF BuilderTake, FeedMatchesRow, HandlerKnows, ForeignKey, TriggerOrder,
     InPipeline
<1>6. ASSUME NEW a \in Agents, DeleteRuns(a) PROVE feed'[r] = News(rows'[r])
  BY <1>6 DEF DeleteRuns, FeedMatchesRow, HandlerKnows, ForeignKey, TriggerOrder,
     InPipeline
<1>7. ASSUME NEW a \in Agents, DeleteAgentRow(a) PROVE feed'[r] = News(rows'[r])
  BY <1>7 DEF DeleteAgentRow, FeedMatchesRow, HandlerKnows, ForeignKey, TriggerOrder,
     InPipeline
<1>8. CASE BuilderStore
  BY <1>8 DEF BuilderStore, BuilderGivesUp, NoFault, Strike, FeedMatchesRow,
     HandlerKnows, ForeignKey, TriggerOrder, InPipeline
<1>9. CASE BuilderAnnounce
  BY <1>9 DEF BuilderAnnounce, BuilderGivesUp, NoFault, Strike, FeedMatchesRow,
     HandlerKnows, ForeignKey, TriggerOrder, InPipeline
<1>10. CASE BuilderTrigger
  BY <1>10 DEF BuilderTrigger, BuilderGivesUp, TriggerMayBeStored, NoFault, Strike,
     FeedMatchesRow, HandlerKnows, ForeignKey, TriggerOrder, InPipeline
<1>11. ASSUME NEW w \in Runtimes, NEW q \in Runs, Deliver(w, q)
       PROVE  feed'[r] = News(rows'[r])
  BY <1>11 DEF Deliver, Push, FeedMatchesRow, HandlerKnows, ForeignKey, TriggerOrder,
     InPipeline
<1>12. ASSUME NEW w \in Runtimes, NEW q \in Runs, AckWaitExpires(w, q)
       PROVE  feed'[r] = News(rows'[r])
  BY <1>12 DEF AckWaitExpires, Push, FeedMatchesRow, HandlerKnows, ForeignKey,
     TriggerOrder, InPipeline
<1>13. ASSUME NEW w \in Runtimes, NEW q \in Runs, Take(w, q)
       PROVE  feed'[r] = News(rows'[r])
  BY <1>13 DEF Take, Pop, FeedMatchesRow, HandlerKnows, ForeignKey, TriggerOrder,
     InPipeline
<1>14. ASSUME NEW w \in Runtimes, LoadAgent(w) PROVE feed'[r] = News(rows'[r])
  BY <1>14 DEF LoadAgent, Move, Goto, NoFault, Strike, FeedMatchesRow, HandlerKnows,
     ForeignKey, TriggerOrder, InPipeline
<1>15. ASSUME NEW w \in Runtimes, LookupRun(w) PROVE feed'[r] = News(rows'[r])
  BY <1>15 DEF LookupRun, Move, Goto, NoFault, Strike, FeedMatchesRow, HandlerKnows,
     ForeignKey, TriggerOrder, InPipeline
<1>16. ASSUME NEW w \in Runtimes, Claim(w) PROVE feed'[r] = News(rows'[r])
  BY <1>16 DEF Claim, ClaimPossible, RowMayBeStored, Goto, NoFault, Strike,
     FeedMatchesRow, HandlerKnows, ForeignKey, TriggerOrder, InPipeline
<1>17. ASSUME NEW w \in Runtimes, PublishStarted(w) PROVE feed'[r] = News(rows'[r])
  BY <1>17 DEF PublishStarted, Move, Goto, EventMayBeStored, NoFault, Strike,
     FeedMatchesRow, HandlerKnows, ForeignKey, TriggerOrder, InPipeline
<1>18. ASSUME NEW w \in Runtimes, Execute(w) PROVE feed'[r] = News(rows'[r])
  BY <1>18 DEF Execute, Move, Goto, NoFault, Strike, FeedMatchesRow, HandlerKnows,
     ForeignKey, TriggerOrder, InPipeline
<1>19. ASSUME NEW w \in Runtimes, Commit(w) PROVE feed'[r] = News(rows'[r])
  BY <1>19 DEF Commit, Move, Goto, RowMayBeStored, NoFault, Strike, FeedMatchesRow,
     HandlerKnows, ForeignKey, TriggerOrder, InPipeline
<1>20. ASSUME NEW w \in Runtimes, Announce(w) PROVE feed'[r] = News(rows'[r])
  <2>1. job[w] \in Runs /\ stage[w] = "announce"
    BY <1>20 DEF Announce, Move
  <2>2. CASE r = job[w]
    <3>1. feed' = [feed EXCEPT ![r] = result[w]] /\ rows' = rows
      BY <1>20, <2>2 DEF Announce, Strike
    <3>2. rows[r] = result[w] /\ result[w] # "PENDING"
      BY <2>1, <2>2, <3>1 DEF HandlerKnows, Outcome
    <3>3. QED
      BY <2>1, <3>1, <3>2
  <2>3. CASE r # job[w]
    <3>1. feed'[r] = feed[r] /\ rows' = rows /\ r \notin faulted
      BY <1>20, <2>1, <2>3 DEF Announce, EventMayBeStored, NoFault, Strike
    <3>2. ~Handled(r)
      BY <2>3
    <3>3. QED
      BY <3>1, <3>2 DEF FeedMatchesRow
  <2>4. QED
    BY <2>2, <2>3
<1>21. ASSUME NEW w \in Runtimes, Fail(w) PROVE feed'[r] = News(rows'[r])
  BY <1>21 DEF Fail, Move, Goto, EventMayBeStored, NoFault, Strike, FeedMatchesRow,
     HandlerKnows, ForeignKey, TriggerOrder, InPipeline
<1>22. ASSUME NEW w \in Runtimes, Crash(w) PROVE feed'[r] = News(rows'[r])
  BY <1>22 DEF Crash, Goto, FeedMatchesRow, HandlerKnows, ForeignKey, TriggerOrder,
     InPipeline
<1>23. CASE UNCHANGED vars
  BY <1>23 DEF vars, FeedMatchesRow, HandlerKnows, ForeignKey, TriggerOrder, InPipeline
<1>24. QED
  BY <1>1, <1>2, <1>3, <1>4, <1>5, <1>6, <1>7, <1>8, <1>9, <1>10, <1>11, <1>12, <1>13,
     <1>14, <1>15, <1>16, <1>17, <1>18, <1>19, <1>20, <1>21, <1>22, <1>23 DEF Next,
     GatewayStep, BuilderStep, HandlerStep

SoloInv == IndInv /\ HandlerKnows /\ FeedMatchesRow

\* The inductive invariant of a platform with one agent-runtime process.
THEOREM SoloInvCorrect ==
  ASSUME OneRuntime
  PROVE  Spec => []SoloInv
<1>1. Init => HandlerKnows /\ FeedMatchesRow
  BY DEF Init, HandlerKnows, FeedMatchesRow
<1>2. IndInv /\ HandlerKnows /\ FeedMatchesRow /\ [Next]_vars
        => (HandlerKnows /\ FeedMatchesRow)'
  BY OneRuntime, HandlerKnowsKept, FeedMatchesRowKept DEF IndInv
<1>3. QED
  BY <1>1, <1>2, IndInvCorrect, PTL DEF Spec, SoloInv

\* With one runtime process, the runs resource and the chat window agree about
\* every run that no fault struck and no handler works on.
THEOREM FeedAgrees ==
  ASSUME OneRuntime
  PROVE  Spec => []FeedMatchesRow
<1>1. SoloInv => FeedMatchesRow
  BY DEF SoloInv
<1>2. QED
  BY <1>1, SoloInvCorrect, OneRuntime, PTL

\* A step of RunPromise, or one it does not see.
PromiseStep == Promise!Next \/ UNCHANGED <<rows, feed, faulted>>

\* Every step is one of the promise's, or changes nothing the promise is about.
LEMMA StepKeepsPromise ==
  ASSUME OneRuntime, TypeOK, FreshIds, TriggerOrder, HandlerKnows, [Next]_vars
  PROVE  PromiseStep
<1> USE RunsAssumption
<1> USE DEF PromiseStep, TypeOK, store, gateway, building, queue, runtime, troubles
<1>1. ASSUME NEW q \in Runs, TriggerFind(q) PROVE PromiseStep
  BY <1>1 DEF TriggerFind
<1>2. ASSUME NEW q \in Runs, TriggerCreate(q) PROVE PromiseStep
  <2>1. /\ rows[q] = "none"
        /\ (faulted' = faulted \/ faulted' = faulted \cup {q})
        /\ UNCHANGED feed
    BY <1>2 DEF TriggerCreate, NoFault, Strike, TriggerOrder
  <2>2. CASE rows' = [rows EXCEPT ![q] = "PENDING"]
    BY <2>1, <2>2 DEF Promise!Next, Promise!Accept, Promise!MayBeStruck
  <2>3. CASE UNCHANGED rows
    BY <2>1, <2>3 DEF Promise!Next, Promise!Trouble
  <2>4. QED
    BY <1>2, <2>2, <2>3 DEF TriggerCreate, RowMayBeStored
<1>3. ASSUME NEW q \in Runs, TriggerPublish(q) PROVE PromiseStep
  <2>1. UNCHANGED <<rows, feed>> /\ (faulted' = faulted \/ faulted' = faulted \cup {q})
    BY <1>3 DEF TriggerPublish, NoFault, Strike
  <2>2. QED
    BY <2>1 DEF Promise!Next, Promise!Trouble
<1>4. ASSUME NEW q \in Runs, TriggerDies(q) PROVE PromiseStep
  <2>1. UNCHANGED <<rows, feed>> /\ (faulted' = faulted \/ faulted' = faulted \cup {q})
    BY <1>4 DEF TriggerDies, Strike
  <2>2. QED
    BY <2>1 DEF Promise!Next, Promise!Trouble
<1>5. ASSUME NEW q \in Runs, BuilderTake(q) PROVE PromiseStep
  BY <1>5 DEF BuilderTake
<1>6. ASSUME NEW a \in Agents, DeleteRuns(a) PROVE PromiseStep
  <2> DEFINE rs == {r \in Runs : AgentOf[r] = a}
  <2>1. rows' = [r \in Runs |-> IF r \in rs THEN "none" ELSE rows[r]]
    BY <1>6 DEF DeleteRuns
  <2>2. rs \in SUBSET Runs /\ UNCHANGED <<feed, faulted>>
    BY <1>6 DEF DeleteRuns
  <2>3. Promise!Remove(rs)
    BY <2>1, <2>2 DEF Promise!Remove
  <2>4. QED
    BY <2>2, <2>3 DEF Promise!Next
<1>7. ASSUME NEW a \in Agents, DeleteAgentRow(a) PROVE PromiseStep
  BY <1>7 DEF DeleteAgentRow
<1>8. CASE BuilderStore
  <2>1. /\ firstRun \in Runs
        /\ UNCHANGED <<rows, feed>>
        /\ (faulted' = faulted \/ faulted' = faulted \cup {firstRun})
    BY <1>8 DEF BuilderStore, BuilderGivesUp, NoFault, Strike
  <2>2. QED
    BY <2>1 DEF Promise!Next, Promise!Trouble
<1>9. CASE BuilderAnnounce
  <2>1. /\ firstRun \in Runs
        /\ UNCHANGED <<rows, feed>>
        /\ (faulted' = faulted \/ faulted' = faulted \cup {firstRun})
    BY <1>9 DEF BuilderAnnounce, BuilderGivesUp, NoFault, Strike
  <2>2. QED
    BY <2>1 DEF Promise!Next, Promise!Trouble
<1>10. CASE BuilderTrigger
  <2>1. /\ firstRun \in Runs
        /\ UNCHANGED <<rows, feed>>
        /\ (faulted' = faulted \/ faulted' = faulted \cup {firstRun})
    BY <1>10 DEF BuilderTrigger, BuilderGivesUp, NoFault, Strike
  <2>2. QED
    BY <2>1 DEF Promise!Next, Promise!Trouble
<1>11. ASSUME NEW w \in Runtimes, NEW q \in Runs, Deliver(w, q) PROVE PromiseStep
  BY <1>11 DEF Deliver
<1>12. ASSUME NEW w \in Runtimes, NEW q \in Runs, AckWaitExpires(w, q) PROVE PromiseStep
  BY <1>12 DEF AckWaitExpires
<1>13. ASSUME NEW w \in Runtimes, NEW q \in Runs, Take(w, q) PROVE PromiseStep
  BY <1>13 DEF Take
<1>14. ASSUME NEW w \in Runtimes, LoadAgent(w) PROVE PromiseStep
  <2>1. /\ job[w] \in Runs
        /\ UNCHANGED <<rows, feed>>
        /\ (faulted' = faulted \/ faulted' = faulted \cup {job[w]})
    BY <1>14 DEF LoadAgent, Move, NoFault, Strike
  <2>2. QED
    BY <2>1 DEF Promise!Next, Promise!Trouble
<1>15. ASSUME NEW w \in Runtimes, LookupRun(w) PROVE PromiseStep
  <2>1. /\ job[w] \in Runs
        /\ UNCHANGED <<rows, feed>>
        /\ (faulted' = faulted \/ faulted' = faulted \cup {job[w]})
    BY <1>15 DEF LookupRun, Move, NoFault, Strike
  <2>2. QED
    BY <2>1 DEF Promise!Next, Promise!Trouble
<1>16. ASSUME NEW w \in Runtimes, Claim(w) PROVE PromiseStep
  <2>1. job[w] \in Runs
    BY <1>16 DEF Claim, HandlerKnows
  <2>2. (faulted' = faulted \/ faulted' = faulted \cup {job[w]}) /\ UNCHANGED feed
    BY <1>16 DEF Claim, NoFault, Strike
  <2>3. CASE rows' = [rows EXCEPT ![job[w]] = "RUNNING"]
    <3>1. Promise!Begin(job[w])
      BY <2>1, <2>2, <2>3 DEF Promise!Begin, Promise!MayBeStruck
    <3>2. QED
      BY <2>1, <3>1 DEF Promise!Next, Promise!Outcome
  <2>4. CASE UNCHANGED rows
    BY <2>1, <2>2, <2>4 DEF Promise!Next, Promise!Trouble
  <2>5. QED
    BY <1>16, <2>3, <2>4 DEF Claim, RowMayBeStored
<1>17. ASSUME NEW w \in Runtimes, PublishStarted(w) PROVE PromiseStep
  <2>1. job[w] \in Runs /\ rows[job[w]] \in {"RUNNING", "none"}
    BY <1>17 DEF PublishStarted, Move, HandlerKnows
  <2>2. (faulted' = faulted \/ faulted' = faulted \cup {job[w]}) /\ UNCHANGED rows
    BY <1>17 DEF PublishStarted, NoFault, Strike
  <2>3. CASE feed' = [feed EXCEPT ![job[w]] = "STARTED"]
    <3>1. Promise!AnnounceStart(job[w])
      BY <2>1, <2>2, <2>3 DEF Promise!AnnounceStart, Promise!MayBeStruck
    <3>2. QED
      BY <2>1, <3>1 DEF Promise!Next, Promise!Outcome
  <2>4. CASE UNCHANGED feed
    BY <2>1, <2>2, <2>4 DEF Promise!Next, Promise!Trouble
  <2>5. QED
    BY <1>17, <2>3, <2>4 DEF PublishStarted, EventMayBeStored
<1>18. ASSUME NEW w \in Runtimes, Execute(w) PROVE PromiseStep
  <2>1. /\ job[w] \in Runs
        /\ UNCHANGED <<rows, feed>>
        /\ (faulted' = faulted \/ faulted' = faulted \cup {job[w]})
    BY <1>18 DEF Execute, Move, NoFault, Strike
  <2>2. QED
    BY <2>1 DEF Promise!Next, Promise!Trouble
<1>19. ASSUME NEW w \in Runtimes, Commit(w) PROVE PromiseStep
  <2>1. /\ job[w] \in Runs
        /\ rows[job[w]] \in {"RUNNING", "none"}
        /\ feed[job[w]] = "STARTED"
        /\ result[w] \in {"SUCCEEDED", "FAILED"}
    BY <1>19 DEF Commit, Move, HandlerKnows, Outcome
  <2>2. (faulted' = faulted \/ faulted' = faulted \cup {job[w]}) /\ UNCHANGED feed
    BY <1>19 DEF Commit, NoFault, Strike
  <2>3. CASE rows' = [rows EXCEPT ![job[w]] = result[w]] /\ rows[job[w]] # "none"
    <3>1. Promise!Settle(job[w], result[w])
      BY <2>1, <2>2, <2>3 DEF Promise!Settle, Promise!MayBeStruck
    <3>2. QED
      BY <2>1, <3>1 DEF Promise!Next, Promise!Outcome
  <2>4. CASE UNCHANGED rows
    BY <2>1, <2>2, <2>4 DEF Promise!Next, Promise!Trouble
  <2>5. QED
    BY <1>19, <2>3, <2>4 DEF Commit, RowMayBeStored
<1>20. ASSUME NEW w \in Runtimes, Announce(w) PROVE PromiseStep
  <2>1. /\ job[w] \in Runs
        /\ rows[job[w]] \in {result[w], "none"}
        /\ feed[job[w]] = "STARTED"
        /\ result[w] \in {"SUCCEEDED", "FAILED"}
    BY <1>20 DEF Announce, Move, HandlerKnows, Outcome
  <2>2. (faulted' = faulted \/ faulted' = faulted \cup {job[w]}) /\ UNCHANGED rows
    BY <1>20 DEF Announce, NoFault, Strike
  <2>3. CASE feed' = [feed EXCEPT ![job[w]] = result[w]]
    <3>1. Promise!Report(job[w], result[w])
      BY <2>1, <2>2, <2>3 DEF Promise!Report, Promise!MayBeStruck
    <3>2. QED
      BY <2>1, <3>1 DEF Promise!Next, Promise!Outcome
  <2>4. CASE UNCHANGED feed
    BY <2>1, <2>2, <2>4 DEF Promise!Next, Promise!Trouble
  <2>5. QED
    BY <1>20, <2>3, <2>4 DEF Announce, EventMayBeStored
<1>21. ASSUME NEW w \in Runtimes, Fail(w) PROVE PromiseStep
  <2>1. job[w] \in Runs /\ (job[w] \in faulted \/ rows[job[w]] = "none")
    BY <1>21 DEF Fail, Move, HandlerKnows
  <2>2. (faulted' = faulted \/ faulted' = faulted \cup {job[w]}) /\ UNCHANGED rows
    BY <1>21 DEF Fail, NoFault, Strike
  <2>3. CASE feed' = [feed EXCEPT ![job[w]] = "FAILED"]
    BY <2>1, <2>2, <2>3 DEF Promise!Next, Promise!GiveUp, Promise!MayBeStruck
  <2>4. CASE UNCHANGED feed
    BY <2>1, <2>2, <2>4 DEF Promise!Next, Promise!Trouble
  <2>5. QED
    BY <1>21, <2>3, <2>4 DEF Fail, EventMayBeStored
<1>22. ASSUME NEW w \in Runtimes, Crash(w) PROVE PromiseStep
  <2>1. UNCHANGED <<rows, feed>>
    BY <1>22 DEF Crash
  <2>2. CASE stage[w] = "idle"
    BY <1>22, <2>1, <2>2 DEF Crash
  <2>3. CASE stage[w] # "idle"
    BY <1>22, <2>1, <2>3 DEF Crash, Promise!Next, Promise!Trouble
  <2>4. QED
    BY <2>2, <2>3
<1>23. CASE UNCHANGED vars
  BY <1>23 DEF vars
<1>24. QED
  BY <1>1, <1>2, <1>3, <1>4, <1>5, <1>6, <1>7, <1>8, <1>9, <1>10, <1>11, <1>12, <1>13,
     <1>14, <1>15, <1>16, <1>17, <1>18, <1>19, <1>20, <1>21, <1>22, <1>23 DEF Next,
     GatewayStep, BuilderStep, HandlerStep

\* With one runtime process, rows and events behave as RunPromise says: outcomes
\* are recorded before they are announced, and a failure that the row does not
\* show is announced only for a deleted run or one a fault struck.
THEOREM ImplementsPromise ==
  ASSUME OneRuntime
  PROVE  Spec => KeepsPromise
<1>1. Init => Promise!Init
  BY DEF Init, Promise!Init
<1>2. SoloInv /\ [Next]_vars => [Promise!Next]_(Promise!promiseVars)
  BY OneRuntime, StepKeepsPromise DEF SoloInv, IndInv, PromiseStep, Promise!promiseVars
<1>3. QED
  BY <1>1, <1>2, SoloInvCorrect, OneRuntime, PTL DEF Spec, KeepsPromise, Promise!Spec
=============================================================================
