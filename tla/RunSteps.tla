----------------------------- MODULE RunSteps -----------------------------
(***************************************************************************)
(* One run of a ReAct agent: the executor of the agent-runtime, or the     *)
(* planner of the agent-builder. The language model asks for some tools at *)
(* a time, they run as coroutines of one event loop, and callbacks tell    *)
(* the clients of every step. A coroutine is interrupted at its awaits     *)
(* only: the queries of a tool, and the publish of an event, which has     *)
(* been sent when it waits.                                                *)
(*                                                                         *)
(* All tools of a run query over one database session. Two queries at a    *)
(* time are undefined: either may raise.                                   *)
(*                                                                         *)
(* External: the model, which asks for anything; the agent loop, which     *)
(* waits for all tools of a round and hands an exception of a tool back to *)
(* the model; the services behind the tools, which answer or fail; the     *)
(* callback manager, which logs and drops what a callback raises.          *)
(* Left out: texts, arguments, results, the thoughts of the model, except  *)
(* whether the callbacks can summarize them.                               *)
(*                                                                         *)
(* Bounds: MaxCalls of tools, MaxParallel in a round, SuperSteps of the    *)
(* loop (a round takes two), MaxFaults, that is publishes that fail and    *)
(* model calls that raise.                                                 *)
(***************************************************************************)
EXTENDS FiniteSets, Integers, Sequences

CONSTANTS
  Connectors,      \* integrations with tools
  Same, Like,      \* integrations equal to a connector by some name, or similar to it
  MaxCalls,
  MaxParallel,
  SuperSteps,
  MaxFaults

\* A name that is equal is contained; an empty name is contained in every name.
ASSUME LikeAssumption == Same \subseteq Like /\ Like \subseteq Connectors \X Connectors
\* The other tools are not integrations.
ASSUME ConnectorsAssumption == Connectors \cap {"local", "finish", "submit_plan"} = {}
ASSUME BoundsAssumption ==
  /\ MaxCalls \in Nat /\ MaxParallel \in Nat \ {0} /\ SuperSteps \in Nat /\ MaxFaults \in Nat

Calls == 1..MaxCalls

VARIABLES
  kind,            \* "executor" or "planner"
  ready,           \* the connectors with a READY row of the end user
  phase,           \* "llm", "tools" or "returned"
  supersteps,
  used,            \* calls so far are 1..used
  tool,            \* tool[c]: a connector, "local", "finish" or "submit_plan"
  pc,              \* pc[c]: where the coroutine of call c is
  base, team,      \* base[c], team[c]: the step index when its round began, the size of that round
  index,           \* step_index
  pending,         \* _pending_tools
  shown,           \* shown[c]: the events of call c, with their index
  lost,            \* calls an event of which was not published
  opaque,          \* calls whose arguments, or result, cannot be summarized
  raised,          \* calls that raised
  said,            \* a summary was recorded, or a plan submitted
  outcome,
  faults

calls == <<used, tool, base, team>>
vars == <<kind, ready, phase, supersteps, calls, pc, index, pending, shown, lost, opaque, raised, said, outcome, faults>>

Tools == IF kind = "executor" THEN Connectors \cup {"local", "finish"} ELSE Connectors \cup {"submit_plan"}

Querying == {"exact", "fallback"}
AfterCount == {"idle", "called", "started", "returned", "raised", "counting"} \cup Querying

\* One type invariant: the step index counts the steps that were closed, and
\* what the callbacks keep of a call is what they have to close.
TypeOK ==
  /\ kind \in {"executor", "planner"} /\ ready \subseteq Connectors
  /\ phase \in {"llm", "tools", "returned"} /\ supersteps \in 0..SuperSteps
  /\ used \in 0..MaxCalls
  /\ \A c \in 1..used : tool[c] \in Tools /\ base[c] \in Nat /\ team[c] \in 1..MaxParallel
  /\ pc \in [Calls -> AfterCount \cup {"bound", "done"}]
  /\ index = Cardinality({c \in Calls : pc[c] = "done" /\ kind = "executor"
                                        /\ (tool[c] = "finish" \/ c \in opaque => c \in raised)})
  /\ pending = {c \in 1..used : \/ pc[c] \in Querying \cup {"started", "bound", "returned"}
                                \/ pc[c] = "raised" /\ tool[c] # "finish"
                                \/ pc[c] = "done" /\ c \in raised /\ kind = "planner"}
  /\ \A c \in Calls : \A i \in DOMAIN shown[c] :
       /\ shown[c][i].status \in {"running", "completed", "failed"}
       /\ shown[c][i].index \in Nat
  /\ lost \cup opaque \cup raised \subseteq 1..used /\ said \in BOOLEAN
  /\ outcome \in {"none", "succeeded", "failed", "plan", "no plan"}
  /\ outcome = "none" <=> phase # "returned"
  /\ faults \in 0..MaxFaults

Init ==
  /\ kind \in {"executor", "planner"} /\ ready \in SUBSET Connectors
  /\ phase = "llm" /\ supersteps = 0 /\ used = 0
  /\ tool = [c \in Calls |-> "local"] /\ base = [c \in Calls |-> 0] /\ team = [c \in Calls |-> 1]
  /\ pc = [c \in Calls |-> "idle"]
  /\ index = 0 /\ pending = {} /\ shown = [c \in Calls |-> <<>>] /\ lost = {} /\ opaque = {} /\ raised = {}
  /\ said = FALSE /\ outcome = "none" /\ faults = 0

Goto(c, place) == pc' = [pc EXCEPT ![c] = place]

-----------------------------------------------------------------------------
(* Callbacks.                                                                *)

\* A publish that fails is logged. The payload holds the index of this moment.
Publish(c, status) ==
  \/ /\ shown' = [shown EXCEPT ![c] = Append(@, [status |-> status, index |-> index])]
     /\ UNCHANGED <<lost, faults>>
  \/ /\ faults < MaxFaults /\ faults' = faults + 1
     /\ lost' = lost \cup {c}
     /\ UNCHANGED shown

\* Before it publishes a callback computes what it shows. The summary of
\* arguments that are no record raises, and the planner's label of an
\* integration key that is no text: the callback ends there.
ShowStart(c) ==
  \/ Publish(c, "running") /\ UNCHANGED opaque
  \/ /\ kind = "planner" => tool[c] \in Connectors
     /\ opaque' = opaque \cup {c}
     /\ UNCHANGED <<shown, lost, faults>>

\* Mutant: the index moves on when a step is shown, not when it is closed.
ToolStartCounts(c) ==
  /\ pc[c] = "called" /\ tool[c] # "finish"
  /\ pending' = pending \cup {c}
  /\ ShowStart(c)
  /\ index' = index + 1
  /\ Goto(c, "started")
  /\ UNCHANGED <<kind, ready, phase, supersteps, calls, raised, said, outcome>>

\* on_tool_start. The executor does not show finish, whose call ends here
\* unless its arguments are invalid.
ToolStart(c) ==
  /\ pc[c] = "called" /\ tool[c] # "finish"
  /\ pending' = pending \cup {c}
  /\ ShowStart(c)
  /\ Goto(c, "started")
  /\ UNCHANGED <<kind, ready, phase, supersteps, calls, index, raised, said, outcome>>

Finish(c) ==
  /\ pc[c] = "called" /\ tool[c] = "finish"
  /\ said' = TRUE
  /\ Goto(c, "done")
  /\ UNCHANGED <<kind, ready, phase, supersteps, calls, index, pending, shown, lost, opaque, raised, outcome, faults>>

\* on_tool_end, until its publish has been answered. It summarizes arguments and
\* result before its try: when that raises nothing is shown and nothing counted.
ToolEnd(c) ==
  /\ pc[c] = "returned"
  /\ pending' = pending \ {c}
  /\ \/ /\ c \notin opaque
        /\ Publish(c, "completed")
        /\ Goto(c, IF kind = "executor" THEN "counting" ELSE "done")
     \/ /\ c \in opaque
        /\ Goto(c, "done")
        /\ UNCHANGED <<shown, lost, faults>>
  /\ UNCHANGED <<kind, ready, phase, supersteps, calls, index, opaque, raised, said, outcome>>

\* Mutant: only tools that return close their step, as it is for the planner.
ToolErrorIsSilent(c) ==
  /\ pc[c] = "raised" /\ kind = "executor"
  /\ pending' = pending \ {c}
  /\ Goto(c, "counting")
  /\ UNCHANGED <<kind, ready, phase, supersteps, calls, index, shown, lost, opaque, raised, said, outcome, faults>>

\* on_tool_error. An exception does not come with the name of its tool: a
\* finish that raised is shown as an unknown tool. Its summary is inside the
\* try: without one nothing is shown, but the step counts. The planner has no
\* such callback, and its step stays open.
ToolError(c) ==
  /\ pc[c] = "raised" /\ kind = "executor"
  /\ pending' = pending \ {c}
  /\ \/ c \notin opaque /\ Publish(c, "failed")
     \/ c \in opaque /\ UNCHANGED <<shown, lost, faults>>
  /\ Goto(c, "counting")
  /\ UNCHANGED <<kind, ready, phase, supersteps, calls, index, opaque, raised, said, outcome>>

PlannerError(c) ==
  /\ pc[c] = "raised" /\ kind = "planner"
  /\ Goto(c, "done")
  /\ UNCHANGED <<kind, ready, phase, supersteps, calls, index, pending, shown, lost, opaque, raised, said, outcome, faults>>

\* The publish has returned, or raised.
Count(c) ==
  /\ pc[c] = "counting"
  /\ index' = index + 1
  /\ Goto(c, "done")
  /\ UNCHANGED <<kind, ready, phase, supersteps, calls, pending, shown, lost, opaque, raised, said, outcome, faults>>

-----------------------------------------------------------------------------
(* Tools.                                                                    *)

\* What a tool does to the run, except for its place.
Body == UNCHANGED <<kind, ready, phase, supersteps, calls, index, pending, shown, lost, opaque, outcome, faults>>

Raise(c) == raised' = raised \cup {c} /\ Goto(c, "raised") /\ UNCHANGED said

\* The arguments do not fit the tool's schema: raised before its body is run,
\* for finish after a start that was not shown.
InvalidArguments(c) ==
  /\ \/ pc[c] = "started"
     \/ pc[c] = "called" /\ tool[c] = "finish"
  /\ Raise(c) /\ Body

\* File tools and the web search catch what goes wrong and return it as text.
Local(c) ==
  /\ pc[c] = "started" /\ tool[c] = "local"
  /\ Goto(c, "returned")
  /\ UNCHANGED <<raised, said>> /\ Body

SubmitPlan(c) ==
  /\ pc[c] = "started" /\ tool[c] = "submit_plan"
  /\ said' = TRUE
  /\ Goto(c, "returned")
  /\ UNCHANGED raised /\ Body

\* An integration key that is no text does not fit the planner's schema.
Resolve(c) ==
  /\ pc[c] = "started" /\ tool[c] \in Connectors
  /\ kind = "planner" => c \notin opaque
  /\ Goto(c, "exact")
  /\ UNCHANGED <<raised, said>> /\ Body

\* Without a row of this key, the integrations that are called the same; for the
\* executor also those of which one name contains the other.
Exact(c) ==
  /\ pc[c] = "exact"
  /\ Goto(c, IF tool[c] \in ready THEN "bound" ELSE "fallback")
  /\ UNCHANGED <<raised, said>> /\ Body

Alternatives(connector) ==
  {k \in ready : <<connector, k>> \in (IF kind = "executor" THEN Like ELSE Same)}

\* No connection is an answer, not an exception.
Fallback(c) ==
  /\ pc[c] = "fallback"
  /\ Goto(c, IF Alternatives(tool[c]) # {} THEN "bound" ELSE "returned")
  /\ UNCHANGED <<raised, said>> /\ Body

\* The query of another tool is under way on the same session.
QueryRaises(c) ==
  /\ pc[c] \in Querying
  /\ \E d \in Calls \ {c} : pc[d] \in Querying
  /\ Raise(c) /\ Body

\* _summarize_output takes the first letters of a record's "error": there are none
\* of null, a number or a record.
ResultSummary(c) ==
  \/ UNCHANGED opaque
  \/ kind = "executor" /\ opaque' = opaque \cup {c}

\* Whatever the request over the provider comes to is returned as text.
Execute(c) ==
  /\ pc[c] = "bound"
  /\ Goto(c, "returned")
  /\ ResultSummary(c)
  /\ UNCHANGED <<kind, ready, phase, supersteps, calls, index, pending, shown, lost, raised, said, outcome, faults>>

-----------------------------------------------------------------------------
(* The loop.                                                                 *)

Loop == UNCHANGED <<kind, ready, index, pending, shown, lost, opaque, raised, said>>

\* The model asks for n tools. Enough steps are left to run them and answer.
LLMCalls(n) ==
  /\ phase = "llm" /\ supersteps + 2 <= SuperSteps /\ used + n <= MaxCalls
  /\ LET round == used + 1..used + n IN
       /\ \E f \in [round -> Tools] : tool' = [c \in Calls |-> IF c \in round THEN f[c] ELSE tool[c]]
       /\ base' = [c \in Calls |-> IF c \in round THEN index ELSE base[c]]
       /\ team' = [c \in Calls |-> IF c \in round THEN n ELSE team[c]]
       /\ pc' = [c \in Calls |-> IF c \in round THEN "called" ELSE pc[c]]
  /\ used' = used + n
  /\ supersteps' = supersteps + 1
  /\ phase' = "tools"
  /\ UNCHANGED <<outcome, faults>> /\ Loop

RoundEnds ==
  /\ phase = "tools" /\ \A c \in 1..used : pc[c] = "done"
  /\ phase' = "llm"
  /\ supersteps' = supersteps + 1
  /\ UNCHANGED <<calls, pc, outcome, faults>> /\ Loop

Return(result) ==
  /\ phase = "llm"
  /\ phase' = "returned" /\ outcome' = result
  /\ UNCHANGED <<supersteps, calls, pc>> /\ Loop

\* The model answers without a tool: the executor has succeeded, with the last
\* message for a summary if none was recorded; the planner has if there is a plan.
Answered == IF kind = "executor" THEN "succeeded" ELSE IF said THEN "plan" ELSE "no plan"
Broken == IF kind = "executor" THEN "failed" ELSE "no plan"

LLMAnswers == Return(Answered) /\ UNCHANGED faults

\* The model's service fails. A plan or summary recorded before is dropped.
LLMRaises ==
  /\ faults < MaxFaults /\ faults' = faults + 1
  /\ Return(Broken)

\* Out of steps: the loop raises, or ends with an apology for its last message.
OutOfSteps ==
  /\ supersteps + 2 > SuperSteps
  /\ \E result \in {Answered, Broken} : Return(result)
  /\ UNCHANGED faults

Next ==
  \/ \E c \in Calls :
       \/ ToolStart(c) \/ Finish(c) \/ ToolEnd(c) \/ ToolError(c) \/ PlannerError(c) \/ Count(c)
       \/ InvalidArguments(c) \/ Local(c) \/ SubmitPlan(c)
       \/ Resolve(c) \/ Exact(c) \/ Fallback(c) \/ QueryRaises(c) \/ Execute(c)
  \/ \E n \in 1..MaxParallel : LLMCalls(n)
  \/ RoundEnds \/ LLMAnswers \/ LLMRaises \/ OutOfSteps

Spec == Init /\ [][Next]_vars

-----------------------------------------------------------------------------
(* Properties.                                                               *)

Statuses(c) == [i \in DOMAIN shown[c] |-> shown[c][i].status]

\* When the run returns, and so before its outcome is announced, every step
\* that was shown as running was closed exactly once, as failed if and only if
\* the tool raised. Three kinds are not: a planner's step whose tool raised stays
\* open; a step whose result has no summary too, although its tool returned; and
\* a finish with invalid arguments is closed without having been shown. A step
\* without a summary of its arguments is never shown.
Closed(c) ==
  CASE tool[c] = "finish" /\ c \notin raised -> Statuses(c) = <<>>
    [] tool[c] = "finish" /\ c \in raised -> Statuses(c) = <<"failed">>
    [] tool[c] # "finish" /\ c \in opaque ->
         \/ Statuses(c) = <<>>
         \/ kind = "executor" /\ c \notin raised /\ Statuses(c) = <<"running">>
    [] tool[c] # "finish" /\ c \notin opaque /\ c \notin raised -> Statuses(c) = <<"running", "completed">>
    [] tool[c] # "finish" /\ c \notin opaque /\ c \in raised ->
         Statuses(c) = IF kind = "executor" THEN <<"running", "failed">> ELSE <<"running">>

\* Tools that run together share the one counter, so that a step may end under
\* the index of another; but never under one of another round, and a step that
\* ran alone starts and ends under the same index, which is its own.
Numbered(c) ==
  \A i \in DOMAIN shown[c] :
    /\ base[c] <= shown[c][i].index
    /\ kind = "executor" => shown[c][i].index < base[c] + team[c]

EveryStepIsClosed ==
  /\ phase = "returned" => \A c \in (1..used) \ lost : Closed(c)
  /\ \A c \in 1..used : Numbered(c)
=============================================================================
