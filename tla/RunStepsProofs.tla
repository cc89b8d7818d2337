--------------------------- MODULE RunStepsProofs ---------------------------
(***************************************************************************)
(* What RunSteps guarantees for any set of connectors, any number of calls *)
(* and of calls at a time, and any number of steps and faults.             *)
(***************************************************************************)
EXTENDS RunSteps, FiniteSetTheorems, TLAPS

-----------------------------------------------------------------------------
(* The inductive invariant.                                                  *)

Event == [status : {"running", "completed", "failed"}, index : Nat]
Names == Connectors \cup {"local", "finish", "submit_plan"}

\* The variables, as functions; calls that were not made are idle.
Tables ==
  /\ kind \in {"executor", "planner"} /\ ready \subseteq Connectors
  /\ used \in 0..MaxCalls /\ index \in Nat
  /\ tool \in [Calls -> Names]
  /\ base \in [Calls -> Nat] /\ team \in [Calls -> 1..MaxParallel]
  /\ pc \in [Calls -> AfterCount \cup {"bound", "done"}]
  /\ shown \in [Calls -> Seq(Event)]
  /\ \A c \in Calls : pc[c] = "idle" <=> c > used
  /\ \A c \in 1..used : tool[c] \in Tools

\* What the loop and its bounds keep.
Control ==
  /\ phase \in {"llm", "tools", "returned"} /\ supersteps \in 0..SuperSteps
  /\ phase = "tools" => supersteps < SuperSteps
  /\ outcome \in {"none", "succeeded", "failed", "plan", "no plan"}
  /\ outcome = "none" <=> phase # "returned"
  /\ faults \in 0..MaxFaults
  /\ lost \subseteq 1..used /\ opaque \subseteq 1..used /\ raised \subseteq 1..used

Shown == Querying \cup {"started", "bound", "returned"}

\* How a call came to the place where it is: finish is not shown and not
\* summarized, only the executor counts, and only what raised is in "raised".
Place(c) ==
  /\ pc[c] \in Shown => tool[c] # "finish"
  /\ c \in opaque => tool[c] # "finish" /\ pc[c] # "called"
  /\ pc[c] = "counting" =>
       kind = "executor" /\ (tool[c] = "finish" \/ c \in opaque => c \in raised)
  /\ pc[c] = "raised" => c \in raised
  /\ c \in raised => pc[c] \in {"raised", "counting", "done"}

Places == \A c \in Calls : Place(c)

\* What the callbacks keep of the calls they have to close.
PendingOf(c) ==
  \/ pc[c] \in Shown
  \/ pc[c] = "raised" /\ tool[c] # "finish"
  \/ pc[c] = "done" /\ c \in raised /\ kind = "planner"

PendingIsOpen == pending \subseteq Calls /\ \A c \in Calls : c \in pending <=> PendingOf(c)

\* The step index is the number of calls that were counted.
Counts(c) ==
  pc[c] = "done" /\ kind = "executor" /\ (tool[c] = "finish" \/ c \in opaque => c \in raised)
Counted == {c \in Calls : Counts(c)}
IndexCounts == index = Cardinality(Counted)

\* The events of call c, none of which was lost, are those of its place.
WithoutSummary(c) ==
  \/ Len(shown[c]) = 0
  \/ kind = "executor" /\ c \notin raised /\ Len(shown[c]) = 1 /\ shown[c][1].status = "running"

Begun(c) ==
  /\ tool[c] = "finish" => Len(shown[c]) = 0
  /\ tool[c] # "finish" /\ c \in opaque => WithoutSummary(c)
  /\ tool[c] # "finish" /\ c \notin opaque => Len(shown[c]) = 1 /\ shown[c][1].status = "running"

Ended(c) ==
  /\ tool[c] = "finish" /\ c \notin raised => Len(shown[c]) = 0
  /\ tool[c] = "finish" /\ c \in raised => Len(shown[c]) = 1 /\ shown[c][1].status = "failed"
  /\ tool[c] # "finish" /\ c \in opaque => WithoutSummary(c)
  /\ tool[c] # "finish" /\ c \notin opaque /\ c \in raised /\ kind = "planner" =>
       Len(shown[c]) = 1 /\ shown[c][1].status = "running"
  /\ tool[c] # "finish" /\ c \notin opaque /\ c \in raised /\ kind = "executor" =>
       Len(shown[c]) = 2 /\ shown[c][1].status = "running" /\ shown[c][2].status = "failed"
  /\ tool[c] # "finish" /\ c \notin opaque /\ c \notin raised =>
       Len(shown[c]) = 2 /\ shown[c][1].status = "running" /\ shown[c][2].status = "completed"

\* Until its tool has returned, a call has no summary for its arguments only,
\* and so was not shown.
History(c) ==
  /\ pc[c] \in {"idle", "called"} => Len(shown[c]) = 0
  /\ pc[c] \in Shown \cup {"raised"} => Begun(c)
  /\ pc[c] \in Shown \ {"returned"} /\ c \in opaque => Len(shown[c]) = 0
  /\ pc[c] \in {"counting", "done"} => Ended(c)

Histories == \A c \in Calls \ lost : History(c)

\* While a round runs, all calls before it are done, and those that counted are
\* as many as its base says.
Start == used - team[used]
CountedBefore == {c \in Counted : c <= Start}

Round ==
  IF phase = "tools"
  THEN /\ used > 0 /\ Start >= 0
       /\ \A c \in Start + 1..used : base[c] = base[used] /\ team[c] = team[used]
       /\ \A c \in 1..Start : pc[c] = "done"
       /\ base[used] = Cardinality(CountedBefore)
  ELSE \A c \in 1..used : pc[c] = "done"

\* Every index shown is one of the round of its call.
Numbers == \A c \in 1..used : base[c] <= index /\ Numbered(c)

IInv ==
  /\ Tables /\ Control /\ said \in BOOLEAN /\ Places /\ PendingIsOpen /\ IndexCounts
  /\ Histories /\ Round /\ Numbers

-----------------------------------------------------------------------------
(* Steps of one call.                                                        *)

CallStep(c) ==
  \/ ToolStart(c) \/ Finish(c) \/ ToolEnd(c) \/ ToolError(c) \/ PlannerError(c) \/ Count(c)
  \/ InvalidArguments(c) \/ Local(c) \/ SubmitPlan(c)
  \/ Resolve(c) \/ Exact(c) \/ Fallback(c) \/ QueryRaises(c) \/ Execute(c)

\* A publish adds one event with the index of this moment, or loses it.
LEMMA Published ==
  ASSUME NEW c \in Calls, NEW status \in {"running", "completed", "failed"}, Tables, Control,
         Publish(c, status), c <= used
  PROVE  /\ shown' \in [Calls -> Seq(Event)]
         /\ \A d \in Calls \ {c} : shown'[d] = shown[d] /\ (d \in lost' <=> d \in lost)
         /\ c \notin lost' =>
              /\ c \notin lost
              /\ Len(shown'[c]) = Len(shown[c]) + 1
              /\ shown'[c][Len(shown[c]) + 1].status = status
              /\ \A i \in 1..Len(shown[c]) : shown'[c][i] = shown[c][i]
         /\ \A i \in DOMAIN shown'[c] : \/ i \in DOMAIN shown[c] /\ shown'[c][i] = shown[c][i]
                                        \/ shown'[c][i].index = index
         /\ lost' \subseteq 1..used /\ faults' \in 0..MaxFaults
<1> USE BoundsAssumption DEF Tables
<1>1. CASE /\ shown' = [shown EXCEPT ![c] = Append(@, [status |-> status, index |-> index])]
           /\ UNCHANGED <<lost, faults>>
  <2> DEFINE e == [status |-> status, index |-> index]
  <2>1. e \in Event /\ e.status = status /\ e.index = index
    BY DEF Event
  <2>2. shown[c] \in Seq(Event)
    OBVIOUS
  <2>3. shown'[c] = Append(shown[c], e)
    BY <1>1
  <2> HIDE DEF e
  <2>4. /\ shown'[c] \in Seq(Event) /\ Len(shown'[c]) = Len(shown[c]) + 1
        /\ shown'[c][Len(shown[c]) + 1] = e
        /\ \A i \in 1..Len(shown[c]) : shown'[c][i] = shown[c][i]
    BY <2>1, <2>2, <2>3
  <2>5. DOMAIN shown'[c] = 1..Len(shown[c]) + 1 /\ DOMAIN shown[c] = 1..Len(shown[c])
    BY <2>2, <2>4
  <2>6. \A i \in DOMAIN shown'[c] : i \in DOMAIN shown[c] \/ i = Len(shown[c]) + 1
    BY <2>2, <2>5
  <2>7. shown' \in [Calls -> Seq(Event)]
    BY <1>1, <2>3, <2>4
  <2>8. \A d \in Calls \ {c} : shown'[d] = shown[d]
    BY <1>1
  <2>9. QED
    BY <1>1, <2>1, <2>4, <2>5, <2>6, <2>7, <2>8 DEF Control
<1>2. CASE /\ faults < MaxFaults /\ faults' = faults + 1
           /\ lost' = lost \cup {c}
           /\ UNCHANGED shown
  <2>1. lost' \subseteq 1..used /\ faults' \in 0..MaxFaults
    <3>1. c \in 1..used
      BY DEF Calls
    <3>2. lost' \subseteq 1..used
      BY <1>2, <3>1 DEF Control
    <3>3. faults' \in 0..MaxFaults
      <4>1. faults \in 0..MaxFaults
        BY DEF Control
      <4>2. QED
        BY <1>2, <4>1
    <3>4. QED
      BY <3>2, <3>3
  <2>2. c \in lost' /\ \A d \in Calls \ {c} : d \in lost' <=> d \in lost
    BY <1>2
  <2>3. shown' = shown
    BY <1>2
  <2>4. QED
    BY <2>1, <2>2, <2>3
<1>3. QED
  BY <1>1, <1>2 DEF Publish

\* The same of a callback that ends before it publishes.
LEMMA PublishedOrNot ==
  ASSUME NEW c \in Calls, NEW status \in {"running", "completed", "failed"}, Tables, Control,
         Publish(c, status) \/ UNCHANGED <<shown, lost, faults>>, c <= used
  PROVE  /\ shown' \in [Calls -> Seq(Event)]
         /\ \A d \in Calls \ {c} : shown'[d] = shown[d] /\ (d \in lost' <=> d \in lost)
         /\ \A i \in DOMAIN shown'[c] : \/ i \in DOMAIN shown[c] /\ shown'[c][i] = shown[c][i]
                                        \/ shown'[c][i].index = index
         /\ lost' \subseteq 1..used /\ faults' \in 0..MaxFaults
<1>1. CASE Publish(c, status)
  BY <1>1, Published
<1>2. CASE UNCHANGED <<shown, lost, faults>>
  BY <1>2 DEF Tables, Control
<1>3. QED
  BY <1>1, <1>2

\* A step of call c concerns no other call and nothing of the loop.
Only(c) ==
  /\ kind' = kind /\ ready' = ready /\ phase' = phase /\ supersteps' = supersteps
  /\ outcome' = outcome
  /\ used' = used /\ tool' = tool /\ base' = base /\ team' = team
  /\ pc[c] \notin {"idle", "done"} /\ c <= used
  /\ pc' \in [Calls -> AfterCount \cup {"bound", "done"}] /\ pc'[c] # "idle"
  /\ shown' \in [Calls -> Seq(Event)]
  /\ \A d \in Calls \ {c} :
       /\ pc'[d] = pc[d] /\ shown'[d] = shown[d]
       /\ d \in raised' <=> d \in raised
       /\ d \in lost' <=> d \in lost
       /\ d \in opaque' <=> d \in opaque
       /\ d \in pending' <=> d \in pending
  /\ pending \subseteq Calls => pending' \subseteq Calls
  /\ raised' \subseteq 1..used /\ lost' \subseteq 1..used /\ opaque' \subseteq 1..used
  /\ faults' \in 0..MaxFaults

\* What a call has shown is there as long as nobody touches it.
LEMMA HistoryKept ==
  ASSUME NEW d, kind' = kind, tool'[d] = tool[d], pc'[d] = pc[d], shown'[d] = shown[d],
         d \in raised' <=> d \in raised, d \in opaque' <=> d \in opaque
  PROVE  History(d) => History(d)'
BY DEF History, Begun, Ended, WithoutSummary

LEMMA StepOfOne ==
  ASSUME Tables, Control, NEW c \in Calls, CallStep(c)
  PROVE  Only(c)
<1> USE DEF Tables, Calls, AfterCount, Querying, calls, Only
<1>0. pc[c] # "idle" => c <= used /\ c \in 1..used
  OBVIOUS
<1>1. CASE ToolStart(c)
  <2>1. /\ shown' \in [Calls -> Seq(Event)]
        /\ \A d \in Calls \ {c} : shown'[d] = shown[d] /\ (d \in lost' <=> d \in lost)
        /\ lost' \subseteq 1..used /\ faults' \in 0..MaxFaults
    BY <1>0, <1>1, PublishedOrNot DEF ToolStart, ShowStart
  <2>2. QED
    BY <1>0, <1>1, <2>1 DEF ToolStart, ShowStart, Publish, Goto, Control
<1>2. CASE Finish(c)
  BY <1>0, <1>2 DEF Finish, Goto, Control
<1>3. CASE ToolEnd(c)
  <2>1. /\ shown' \in [Calls -> Seq(Event)]
        /\ \A d \in Calls \ {c} : shown'[d] = shown[d] /\ (d \in lost' <=> d \in lost)
        /\ lost' \subseteq 1..used /\ faults' \in 0..MaxFaults
    BY <1>0, <1>3, PublishedOrNot DEF ToolEnd
  <2>2. QED
    BY <1>0, <1>3, <2>1 DEF ToolEnd, Goto, Control
<1>4. CASE ToolError(c)
  <2>1. /\ shown' \in [Calls -> Seq(Event)]
        /\ \A d \in Calls \ {c} : shown'[d] = shown[d] /\ (d \in lost' <=> d \in lost)
        /\ lost' \subseteq 1..used /\ faults' \in 0..MaxFaults
    BY <1>0, <1>4, PublishedOrNot DEF ToolError
  <2>2. QED
    BY <1>0, <1>4, <2>1 DEF ToolError, Goto, Control
<1>5. CASE PlannerError(c)
  BY <1>0, <1>5 DEF PlannerError, Goto, Control
<1>6. CASE Count(c)
  BY <1>0, <1>6 DEF Count, Goto, Control
<1>7. CASE InvalidArguments(c)
  BY <1>0, <1>7 DEF InvalidArguments, Raise, Body, Goto, Control
<1>8. CASE Local(c)
  BY <1>0, <1>8 DEF Local, Body, Goto, Control
<1>9. CASE SubmitPlan(c)
  BY <1>0, <1>9 DEF SubmitPlan, Body, Goto, Control
<1>10. CASE Resolve(c)
  BY <1>0, <1>10 DEF Resolve, Body, Goto, Control
<1>11. CASE Exact(c)
  BY <1>0, <1>11 DEF Exact, Body, Goto, Querying, Control
<1>12. CASE Fallback(c)
  BY <1>0, <1>12 DEF Fallback, Body, Goto, Querying, Control
<1>13. CASE QueryRaises(c)
  BY <1>0, <1>13 DEF QueryRaises, Raise, Body, Goto, Querying, Control
<1>14. CASE Execute(c)
  BY <1>0, <1>14 DEF Execute, ResultSummary, Body, Goto, Control
<1>15. QED
  BY <1>1, <1>2, <1>3, <1>4, <1>5, <1>6, <1>7, <1>8, <1>9, <1>10, <1>11, <1>12, <1>13, <1>14 DEF CallStep

\* A call comes to its next place with what that place needs.
LEMMA PlacesCall ==
  ASSUME IInv, NEW c \in Calls, CallStep(c)
  PROVE  Places'
<1> USE ConnectorsAssumption, BoundsAssumption
<1>0. Only(c)
  BY StepOfOne DEF IInv
<1>1. CASE ToolStart(c)
  <2>1. Place(c)'
    BY <1>0, <1>1 DEF ToolStart, ShowStart, Goto, Only,
       IInv, Tables, Control, Places, Place, Shown, Calls, AfterCount, Querying, Tools, Names
  <2>2. QED
    BY <1>0, <2>1 DEF Only, IInv, Places, Place
<1>2. CASE Finish(c)
  <2>1. Place(c)'
    BY <1>0, <1>2 DEF Finish, Goto, Only,
       IInv, Tables, Control, Places, Place, Shown, Calls, AfterCount, Querying, Tools, Names
  <2>2. QED
    BY <1>0, <2>1 DEF Only, IInv, Places, Place
<1>3. CASE ToolEnd(c)
  <2>1. /\ pc[c] = "returned" /\ opaque' = opaque /\ raised' = raised /\ tool' = tool /\ kind' = kind
        /\ pc'[c] = "done" \/ (pc'[c] = "counting" /\ kind = "executor" /\ c \notin opaque)
    BY <1>0, <1>3 DEF ToolEnd, Goto, Only, IInv, Tables
  <2>2. Place(c)
    BY DEF IInv, Places
  <2>3. Place(c)'
    BY <2>1, <2>2 DEF Place, Shown, Querying
  <2>4. QED
    BY <1>0, <2>3 DEF Only, IInv, Places, Place
<1>4. CASE ToolError(c)
  <2>1. /\ pc[c] = "raised" /\ pc'[c] = "counting" /\ kind = "executor"
        /\ opaque' = opaque /\ raised' = raised /\ tool' = tool /\ kind' = kind
    BY <1>0, <1>4 DEF ToolError, Goto, Only, IInv, Tables
  <2>2. Place(c)
    BY DEF IInv, Places
  <2>3. Place(c)'
    BY <2>1, <2>2 DEF Place, Shown, Querying
  <2>4. QED
    BY <1>0, <2>3 DEF Only, IInv, Places, Place
<1>5. CASE PlannerError(c)
  <2>1. Place(c)'
    BY <1>0, <1>5 DEF PlannerError, Goto, Only,
       IInv, Tables, Control, Places, Place, Shown, Calls, AfterCount, Querying, Tools, Names
  <2>2. QED
    BY <1>0, <2>1 DEF Only, IInv, Places, Place
<1>6. CASE Count(c)
  <2>1. /\ pc[c] = "counting" /\ pc'[c] = "done"
        /\ opaque' = opaque /\ raised' = raised /\ tool' = tool /\ kind' = kind
    BY <1>0, <1>6 DEF Count, Goto, Only, IInv, Tables
  <2>2. Place(c)
    BY DEF IInv, Places
  <2>3. Place(c)'
    BY <2>1, <2>2 DEF Place, Shown, Querying
  <2>4. QED
    BY <1>0, <2>3 DEF Only, IInv, Places, Place
<1>7. CASE InvalidArguments(c)
  <2>1. Place(c)'
    BY <1>0, <1>7 DEF InvalidArguments, Raise, Body, Goto, Only,
       IInv, Tables, Control, Places, Place, Shown, Calls, AfterCount, Querying, Tools, Names
  <2>2. QED
    BY <1>0, <2>1 DEF Only, IInv, Places, Place
<1>8. CASE Local(c)
  <2>1. Place(c)'
    BY <1>0, <1>8 DEF Local, Body, Goto, Only,
       IInv, Tables, Control, Places, Place, Shown, Calls, AfterCount, Querying, Tools, Names
  <2>2. QED
    BY <1>0, <2>1 DEF Only, IInv, Places, Place
<1>9. CASE SubmitPlan(c)
  <2>1. Place(c)'
    BY <1>0, <1>9 DEF SubmitPlan, Body, Goto, Only,
       IInv, Tables, Control, Places, Place, Shown, Calls, AfterCount, Querying, Tools, Names
  <2>2. QED
    BY <1>0, <2>1 DEF Only, IInv, Places, Place
<1>10. CASE Resolve(c)
  <2>1. Place(c)'
    BY <1>0, <1>10 DEF Resolve, Body, Goto, Only,
       IInv, Tables, Control, Places, Place, Shown, Calls, AfterCount, Querying, Tools, Names
  <2>2. QED
    BY <1>0, <2>1 DEF Only, IInv, Places, Place
<1>11. CASE Exact(c)
  <2>1. Place(c)'
    BY <1>0, <1>11 DEF Exact, Body, Goto, Querying, Only,
       IInv, Tables, Control, Places, Place, Shown, Calls, AfterCount, Querying, Tools, Names
  <2>2. QED
    BY <1>0, <2>1 DEF Only, IInv, Places, Place
<1>12. CASE Fallback(c)
  <2>1. Place(c)'
    BY <1>0, <1>12 DEF Fallback, Body, Goto, Querying, Only,
       IInv, Tables, Control, Places, Place, Shown, Calls, AfterCount, Querying, Tools, Names
  <2>2. QED
    BY <1>0, <2>1 DEF Only, IInv, Places, Place
<1>13. CASE QueryRaises(c)
  <2>1. Place(c)'
    BY <1>0, <1>13 DEF QueryRaises, Raise, Body, Goto, Querying, Only,
       IInv, Tables, Control, Places, Place, Shown, Calls, AfterCount, Querying, Tools, Names
  <2>2. QED
    BY <1>0, <2>1 DEF Only, IInv, Places, Place
<1>14. CASE Execute(c)
  <2>1. Place(c)'
    BY <1>0, <1>14 DEF Execute, ResultSummary, Body, Goto, Only,
       IInv, Tables, Control, Places, Place, Shown, Calls, AfterCount, Querying, Tools, Names
  <2>2. QED
    BY <1>0, <2>1 DEF Only, IInv, Places, Place
<1>15. QED
  BY <1>1, <1>2, <1>3, <1>4, <1>5, <1>6, <1>7, <1>8, <1>9, <1>10, <1>11, <1>12, <1>13, <1>14 DEF CallStep

\* A call is pending from its start until it is closed.
LEMMA PendingCall ==
  ASSUME IInv, NEW c \in Calls, CallStep(c)
  PROVE  PendingIsOpen'
<1> USE ConnectorsAssumption, BoundsAssumption
<1>0. Only(c)
  BY StepOfOne DEF IInv
<1>1. CASE ToolStart(c)
  <2>1. (c \in pending <=> PendingOf(c))'
    BY <1>0, <1>1 DEF ToolStart, ShowStart, Goto, Only,
       IInv, Tables, Control, Places, Place, Shown, Calls, AfterCount, Querying, Tools, Names, PendingIsOpen, PendingOf
  <2>2. QED
    BY <1>0, <2>1 DEF Only, IInv, PendingIsOpen, PendingOf
<1>2. CASE Finish(c)
  <2>1. (c \in pending <=> PendingOf(c))'
    BY <1>0, <1>2 DEF Finish, Goto, Only,
       IInv, Tables, Control, Places, Place, Shown, Calls, AfterCount, Querying, Tools, Names, PendingIsOpen, PendingOf
  <2>2. QED
    BY <1>0, <2>1 DEF Only, IInv, PendingIsOpen, PendingOf
<1>3. CASE ToolEnd(c)
  <2>1. /\ pc[c] = "returned" /\ c \notin pending' /\ raised' = raised
        /\ pc'[c] \in {"done", "counting"}
    BY <1>0, <1>3 DEF ToolEnd, Goto, Only, IInv, Tables
  <2>2. c \notin raised
    BY <2>1 DEF IInv, Places, Place
  <2>3. QED
    BY <1>0, <2>1, <2>2 DEF Only, IInv, PendingIsOpen, PendingOf, Shown, Querying
<1>4. CASE ToolError(c)
  <2>1. pc'[c] = "counting" /\ c \notin pending'
    BY <1>0, <1>4 DEF ToolError, Goto, IInv, Tables
  <2>2. QED
    BY <1>0, <2>1 DEF Only, IInv, PendingIsOpen, PendingOf, Shown, Querying
<1>5. CASE PlannerError(c)
  <2>1. (c \in pending <=> PendingOf(c))'
    BY <1>0, <1>5 DEF PlannerError, Goto, Only,
       IInv, Tables, Control, Places, Place, Shown, Calls, AfterCount, Querying, Tools, Names, PendingIsOpen, PendingOf
  <2>2. QED
    BY <1>0, <2>1 DEF Only, IInv, PendingIsOpen, PendingOf
<1>6. CASE Count(c)
  <2>1. /\ pc[c] = "counting" /\ pc'[c] = "done" /\ pending' = pending /\ kind' = kind /\ kind = "executor"
    BY <1>0, <1>6 DEF Count, Goto, Only, IInv, Tables, Places, Place
  <2>2. c \notin pending
    BY <2>1 DEF IInv, PendingIsOpen, PendingOf, Shown, Querying
  <2>3. QED
    BY <1>0, <2>1, <2>2 DEF Only, IInv, PendingIsOpen, PendingOf, Shown, Querying
<1>7. CASE InvalidArguments(c)
  <2>1. /\ pc'[c] = "raised" /\ pending' = pending /\ tool' = tool
        /\ \/ pc[c] = "started"
           \/ pc[c] = "called" /\ tool[c] = "finish"
    BY <1>0, <1>7 DEF InvalidArguments, Raise, Body, Goto, Only, IInv, Tables
  <2>2. c \in pending <=> tool[c] # "finish"
    BY <2>1 DEF IInv, Places, Place, PendingIsOpen, PendingOf, Shown, Querying
  <2>3. QED
    BY <1>0, <2>1, <2>2 DEF Only, IInv, PendingIsOpen, PendingOf, Shown, Querying
<1>8. CASE Local(c)
  <2>1. pc[c] = "started" /\ pc'[c] = "returned" /\ pending' = pending
    BY <1>0, <1>8 DEF Local, Body, Goto, Only, IInv, Tables
  <2>2. QED
    BY <1>0, <2>1 DEF Only, IInv, PendingIsOpen, PendingOf, Shown, Querying
<1>9. CASE SubmitPlan(c)
  <2>1. (c \in pending <=> PendingOf(c))'
    BY <1>0, <1>9 DEF SubmitPlan, Body, Goto, Only,
       IInv, Tables, Control, Places, Place, Shown, Calls, AfterCount, Querying, Tools, Names, PendingIsOpen, PendingOf
  <2>2. QED
    BY <1>0, <2>1 DEF Only, IInv, PendingIsOpen, PendingOf
<1>10. CASE Resolve(c)
  <2>1. (c \in pending <=> PendingOf(c))'
    BY <1>0, <1>10 DEF Resolve, Body, Goto, Only,
       IInv, Tables, Control, Places, Place, Shown, Calls, AfterCount, Querying, Tools, Names, PendingIsOpen, PendingOf
  <2>2. QED
    BY <1>0, <2>1 DEF Only, IInv, PendingIsOpen, PendingOf
<1>11. CASE Exact(c)
  <2>1. (c \in pending <=> PendingOf(c))'
    BY <1>0, <1>11 DEF Exact, Body, Goto, Querying, Only,
       IInv, Tables, Control, Places, Place, Shown, Calls, AfterCount, Querying, Tools, Names, PendingIsOpen, PendingOf
  <2>2. QED
    BY <1>0, <2>1 DEF Only, IInv, PendingIsOpen, PendingOf
<1>12. CASE Fallback(c)
  <2>1. (c \in pending <=> PendingOf(c))'
    BY <1>0, <1>12 DEF Fallback, Body, Goto, Querying, Only,
       IInv, Tables, Control, Places, Place, Shown, Calls, AfterCount, Querying, Tools, Names, PendingIsOpen, PendingOf
  <2>2. QED
    BY <1>0, <2>1 DEF Only, IInv, PendingIsOpen, PendingOf
<1>13. CASE QueryRaises(c)
  <2>1. (c \in pending <=> PendingOf(c))'
    BY <1>0, <1>13 DEF QueryRaises, Raise, Body, Goto, Querying, Only,
       IInv, Tables, Control, Places, Place, Shown, Calls, AfterCount, Querying, Tools, Names, PendingIsOpen, PendingOf
  <2>2. QED
    BY <1>0, <2>1 DEF Only, IInv, PendingIsOpen, PendingOf
<1>14. CASE Execute(c)
  <2>1. (c \in pending <=> PendingOf(c))'
    BY <1>0, <1>14 DEF Execute, ResultSummary, Body, Goto, Only,
       IInv, Tables, Control, Places, Place, Shown, Calls, AfterCount, Querying, Tools, Names, PendingIsOpen, PendingOf
  <2>2. QED
    BY <1>0, <2>1 DEF Only, IInv, PendingIsOpen, PendingOf
<1>15. QED
  BY <1>1, <1>2, <1>3, <1>4, <1>5, <1>6, <1>7, <1>8, <1>9, <1>10, <1>11, <1>12, <1>13, <1>14 DEF CallStep

\* What is published of a call is the event its place calls for.
LEMMA HistoryCall ==
  ASSUME IInv, NEW c \in Calls, CallStep(c)
  PROVE  Histories'
<1>0. /\ Only(c) /\ tool[c] \in Tools /\ Place(c) /\ (c \notin lost => History(c))
      /\ c \in 1..used /\ Len(shown[c]) \in Nat
  <2>1. Only(c)
    BY StepOfOne DEF IInv
  <2>2. c \in 1..used /\ tool[c] \in Tools
    BY <2>1 DEF IInv, Tables, Only, Calls
  <2>3. shown[c] \in Seq(Event)
    BY DEF IInv, Tables
  <2>4. QED
    BY <2>1, <2>2, <2>3 DEF IInv, Places, Histories
<1>00. ASSUME NEW d \in Calls \ lost', d # c PROVE History(d)'
  BY <1>0, <1>00, HistoryKept DEF Only, IInv, Histories
<1>1. CASE ToolStart(c)
  <2>1. /\ pc[c] = "called" /\ pc'[c] = "started" /\ tool[c] # "finish" /\ c \notin opaque
        /\ tool' = tool /\ raised' = raised /\ kind' = kind /\ c \notin raised
    BY <1>0, <1>1 DEF ToolStart, Goto, Only, IInv, Tables, Place, Shown
  <2>2. ASSUME Publish(c, "running"), UNCHANGED opaque, c \notin lost' PROVE Begun(c)'
    <3>1. /\ c \notin lost
          /\ Len(shown'[c]) = Len(shown[c]) + 1
          /\ shown'[c][Len(shown[c]) + 1].status = "running"
      BY <2>2, <1>0, Published DEF Only, IInv
    <3>2. Len(shown[c]) = 0
      BY <1>0, <2>1, <3>1 DEF History
    <3>3. Len(shown'[c]) = 1 /\ shown'[c][1].status = "running"
      BY <3>1, <3>2
    <3>4. QED
      BY <2>1, <2>2, <3>3 DEF Begun
  <2>3. ASSUME opaque' = opaque \cup {c}, UNCHANGED <<shown, lost>>, c \notin lost'
        PROVE  Len(shown'[c]) = 0 /\ Begun(c)'
    BY <1>0, <2>1, <2>3 DEF History, Begun, WithoutSummary
  <2>4. c \notin lost' => Begun(c)' /\ (c \in opaque' => Len(shown'[c]) = 0)
    BY <1>1, <2>1, <2>2, <2>3 DEF ToolStart, ShowStart
  <2>5. c \notin lost' => History(c)'
    BY <2>1, <2>4 DEF History, Shown, Querying
  <2>6. QED
    BY <1>00, <2>5 DEF Histories
<1>2. CASE Finish(c)
  <2>1. /\ pc[c] = "called" /\ tool[c] = "finish" /\ pc'[c] = "done" /\ opaque' = opaque
        /\ shown' = shown /\ lost' = lost /\ tool' = tool /\ raised' = raised /\ kind' = kind
    BY <1>0, <1>2 DEF Finish, Goto, Only, IInv, Tables
  <2>2. c \notin raised
    BY <1>0, <2>1 DEF Place
  <2>3. c \notin lost => Ended(c)'
    BY <1>0, <2>1, <2>2 DEF History, Ended
  <2>4. c \notin lost' => History(c)'
    BY <2>1, <2>3 DEF History, Shown, Querying
  <2>5. QED
    BY <1>00, <2>4 DEF Histories
<1>3. CASE ToolEnd(c)
  <2>1. /\ pc[c] = "returned" /\ pc'[c] \in {"counting", "done"} /\ tool[c] # "finish" /\ c \notin raised
        /\ tool' = tool /\ raised' = raised /\ kind' = kind /\ opaque' = opaque
    BY <1>0, <1>3 DEF ToolEnd, Goto, Only, IInv, Tables, Place, Shown
  <2>2. ASSUME c \notin opaque, Publish(c, "completed"), c \notin lost' PROVE Ended(c)'
    <3>1. /\ c \notin lost
          /\ Len(shown'[c]) = Len(shown[c]) + 1
          /\ shown'[c][Len(shown[c]) + 1].status = "completed"
          /\ \A i \in 1..Len(shown[c]) : shown'[c][i] = shown[c][i]
      BY <2>2, <1>0, Published DEF Only, IInv
    <3>2. Len(shown[c]) = 1 /\ shown[c][1].status = "running"
      BY <1>0, <2>1, <2>2, <3>1 DEF History, Shown, Begun
    <3>3. Len(shown'[c]) = 2 /\ shown'[c][1].status = "running" /\ shown'[c][2].status = "completed"
      BY <3>1, <3>2
    <3>4. QED
      BY <2>1, <2>2, <3>3 DEF Ended
  <2>3. ASSUME c \in opaque, UNCHANGED <<shown, lost>>, c \notin lost' PROVE Ended(c)'
    <3>1. WithoutSummary(c)
      BY <1>0, <2>1, <2>3 DEF History, Shown, Begun
    <3>2. WithoutSummary(c)'
      BY <2>1, <2>3, <3>1 DEF WithoutSummary
    <3>3. QED
      BY <2>1, <2>3, <3>2 DEF Ended
  <2>4. c \notin lost' => Ended(c)'
    BY <1>3, <2>2, <2>3 DEF ToolEnd
  <2>5. c \notin lost' => History(c)'
    BY <2>1, <2>4 DEF History, Shown, Querying
  <2>6. QED
    BY <1>00, <2>5 DEF Histories
<1>4. CASE ToolError(c)
  <2>1. /\ pc[c] = "raised" /\ pc'[c] = "counting" /\ kind = "executor" /\ c \in raised
        /\ tool' = tool /\ raised' = raised /\ kind' = kind /\ opaque' = opaque
        /\ c \in opaque => tool[c] # "finish"
    BY <1>0, <1>4 DEF ToolError, Goto, Only, IInv, Tables, Place, Shown
  <2>2. ASSUME c \notin opaque, Publish(c, "failed"), c \notin lost' PROVE Ended(c)'
    <3>1. /\ c \notin lost
          /\ Len(shown'[c]) = Len(shown[c]) + 1
          /\ shown'[c][Len(shown[c]) + 1].status = "failed"
          /\ \A i \in 1..Len(shown[c]) : shown'[c][i] = shown[c][i]
      BY <2>2, <1>0, Published DEF Only, IInv
    <3>2. Begun(c)
      BY <1>0, <2>1, <3>1 DEF History
    <3>3. CASE tool[c] = "finish"
      <4>1. Len(shown[c]) = 0
        BY <3>2, <3>3 DEF Begun
      <4>2. Len(shown'[c]) = 1 /\ shown'[c][1].status = "failed"
        BY <3>1, <4>1
      <4>3. QED
        BY <2>1, <3>3, <4>2 DEF Ended
    <3>4. CASE tool[c] # "finish"
      <4>1. Len(shown[c]) = 1 /\ shown[c][1].status = "running"
        BY <2>2, <3>2, <3>4 DEF Begun
      <4>2. Len(shown'[c]) = 2 /\ shown'[c][1].status = "running" /\ shown'[c][2].status = "failed"
        BY <3>1, <4>1
      <4>3. QED
        BY <2>1, <2>2, <3>4, <4>2 DEF Ended
    <3>5. QED
      BY <3>3, <3>4
  <2>3. ASSUME c \in opaque, UNCHANGED <<shown, lost>>, c \notin lost' PROVE Ended(c)'
    <3>1. WithoutSummary(c)
      BY <1>0, <2>1, <2>3 DEF History, Begun
    <3>2. WithoutSummary(c)'
      BY <2>1, <2>3, <3>1 DEF WithoutSummary
    <3>3. QED
      BY <2>1, <2>3, <3>2 DEF Ended
  <2>4. c \notin lost' => Ended(c)'
    BY <1>4, <2>2, <2>3 DEF ToolError
  <2>5. c \notin lost' => History(c)'
    BY <2>1, <2>4 DEF History, Shown, Querying
  <2>6. QED
    BY <1>00, <2>5 DEF Histories
<1>5. CASE PlannerError(c)
  <2>1. /\ pc[c] = "raised" /\ pc'[c] = "done" /\ kind = "planner" /\ opaque' = opaque
        /\ shown' = shown /\ lost' = lost /\ tool' = tool /\ raised' = raised /\ kind' = kind
    BY <1>0, <1>5 DEF PlannerError, Goto, Only, IInv, Tables
  <2>2. c \in raised /\ tool[c] # "finish"
    BY <1>0, <2>1, ConnectorsAssumption DEF Place, Tools
  <2>3. c \notin lost => Begun(c)
    BY <1>0, <2>1 DEF History
  <2>4. c \notin lost => Ended(c)'
    BY <2>1, <2>2, <2>3 DEF Ended, Begun, WithoutSummary
  <2>5. c \notin lost' => History(c)'
    BY <2>1, <2>4 DEF History, Shown, Querying
  <2>6. QED
    BY <1>00, <2>5 DEF Histories
<1>6. CASE Count(c)
  <2>1. /\ pc[c] = "counting" /\ pc'[c] = "done" /\ shown' = shown /\ lost' = lost
        /\ tool' = tool /\ raised' = raised /\ kind' = kind /\ opaque' = opaque
    BY <1>0, <1>6 DEF Count, Goto, Only, IInv, Tables
  <2>2. c \notin lost => Ended(c)
    BY <1>0, <2>1 DEF History
  <2>3. c \notin lost => Ended(c)'
    BY <2>1, <2>2 DEF Ended, WithoutSummary
  <2>4. c \notin lost' => History(c)'
    BY <2>1, <2>3 DEF History, Shown, Querying
  <2>5. QED
    BY <1>00, <2>4 DEF Histories
<1>7. CASE InvalidArguments(c)
  <2>1. /\ pc'[c] = "raised" /\ shown' = shown /\ lost' = lost /\ tool' = tool
        /\ opaque' = opaque /\ kind' = kind
        /\ \/ pc[c] = "started"
           \/ pc[c] = "called" /\ tool[c] = "finish"
    BY <1>0, <1>7 DEF InvalidArguments, Raise, Body, Goto, Only, IInv, Tables
  <2>2. c \notin lost => Begun(c)'
    <3>1. CASE pc[c] = "started"
      <4>1. c \notin lost => Begun(c) /\ (c \in opaque => Len(shown[c]) = 0)
        BY <1>0, <3>1 DEF History, Shown
      <4>2. QED
        BY <2>1, <4>1 DEF Begun, WithoutSummary
    <3>2. CASE pc[c] = "called" /\ tool[c] = "finish"
      BY <1>0, <2>1, <3>2 DEF History, Begun
    <3>3. QED
      BY <2>1, <3>1, <3>2
  <2>3. c \notin lost' => History(c)'
    BY <2>1, <2>2 DEF History, Shown, Querying
  <2>4. QED
    BY <1>00, <2>3 DEF Histories
<1>8. CASE Local(c)
  <2>1. /\ pc[c] = "started" /\ pc'[c] = "returned" /\ kind' = kind
        /\ opaque' = opaque /\ raised' = raised
        /\ shown' = shown /\ lost' = lost /\ tool' = tool
    BY <1>0, <1>8 DEF Local, Body, Goto, Only, IInv, Tables
  <2>2. pc[c] \in Shown \ {"returned"}
    BY <2>1 DEF Shown, Querying
  <2>3. c \notin lost => Begun(c)' /\ (c \in opaque => Len(shown'[c]) = 0)
    BY <1>0, <2>1, <2>2 DEF History, Begun, WithoutSummary, Place, Querying
  <2>4. History(c)' \/ c \in lost
    BY <2>1, <2>3 DEF History, Shown, Querying
  <2>5. QED
    BY <1>00, <2>1, <2>4 DEF Histories
<1>9. CASE SubmitPlan(c)
  <2>1. /\ pc[c] = "started" /\ pc'[c] = "returned" /\ kind' = kind
        /\ opaque' = opaque /\ raised' = raised
        /\ shown' = shown /\ lost' = lost /\ tool' = tool
    BY <1>0, <1>9 DEF SubmitPlan, Body, Goto, Only, IInv, Tables
  <2>2. pc[c] \in Shown \ {"returned"}
    BY <2>1 DEF Shown, Querying
  <2>3. c \notin lost => Begun(c)' /\ (c \in opaque => Len(shown'[c]) = 0)
    BY <1>0, <2>1, <2>2 DEF History, Begun, WithoutSummary, Place, Querying
  <2>4. History(c)' \/ c \in lost
    BY <2>1, <2>3 DEF History, Shown, Querying
  <2>5. QED
    BY <1>00, <2>1, <2>4 DEF Histories
<1>10. CASE Resolve(c)
  <2>1. /\ pc[c] = "started" /\ pc'[c] = "exact" /\ kind' = kind
        /\ opaque' = opaque /\ raised' = raised
        /\ shown' = shown /\ lost' = lost /\ tool' = tool
    BY <1>0, <1>10 DEF Resolve, Body, Goto, Only, IInv, Tables
  <2>2. pc[c] \in Shown \ {"returned"}
    BY <2>1 DEF Shown, Querying
  <2>3. c \notin lost => Begun(c)' /\ (c \in opaque => Len(shown'[c]) = 0)
    BY <1>0, <2>1, <2>2 DEF History, Begun, WithoutSummary, Place, Querying
  <2>4. History(c)' \/ c \in lost
    BY <2>1, <2>3 DEF History, Shown, Querying
  <2>5. QED
    BY <1>00, <2>1, <2>4 DEF Histories
<1>11. CASE Exact(c)
  <2>1. /\ pc[c] = "exact" /\ pc'[c] \in {"bound", "fallback"} /\ kind' = kind
        /\ opaque' = opaque /\ raised' = raised
        /\ shown' = shown /\ lost' = lost /\ tool' = tool
    BY <1>0, <1>11 DEF Exact, Body, Goto, Only, IInv, Tables
  <2>2. pc[c] \in Shown \ {"returned"}
    BY <2>1 DEF Shown, Querying
  <2>3. c \notin lost => Begun(c)' /\ (c \in opaque => Len(shown'[c]) = 0)
    BY <1>0, <2>1, <2>2 DEF History, Begun, WithoutSummary, Place, Querying
  <2>4. History(c)' \/ c \in lost
    BY <2>1, <2>3 DEF History, Shown, Querying
  <2>5. QED
    BY <1>00, <2>1, <2>4 DEF Histories
<1>12. CASE Fallback(c)
  <2>1. /\ pc[c] = "fallback" /\ pc'[c] \in {"bound", "returned"} /\ kind' = kind
        /\ opaque' = opaque /\ raised' = raised
        /\ shown' = shown /\ lost' = lost /\ tool' = tool
    BY <1>0, <1>12 DEF Fallback, Body, Goto, Only, IInv, Tables
  <2>2. pc[c] \in Shown \ {"returned"}
    BY <2>1 DEF Shown, Querying
  <2>3. c \notin lost => Begun(c)' /\ (c \in opaque => Len(shown'[c]) = 0)
    BY <1>0, <2>1, <2>2 DEF History, Begun, WithoutSummary, Place, Querying
  <2>4. History(c)' \/ c \in lost
    BY <2>1, <2>3 DEF History, Shown, Querying
  <2>5. QED
    BY <1>00, <2>1, <2>4 DEF Histories
<1>13. CASE QueryRaises(c)
  <2>1. /\ pc[c] \in Querying /\ pc'[c] = "raised" /\ kind' = kind
        /\ opaque' = opaque
        /\ shown' = shown /\ lost' = lost /\ tool' = tool
    BY <1>0, <1>13 DEF QueryRaises, Raise, Body, Goto, Only, IInv, Tables
  <2>2. pc[c] \in Shown \ {"returned"}
    BY <2>1 DEF Shown, Querying
  <2>3. c \notin lost => Begun(c)' /\ (c \in opaque => Len(shown'[c]) = 0)
    BY <1>0, <2>1, <2>2 DEF History, Begun, WithoutSummary, Place, Querying
  <2>4. History(c)' \/ c \in lost
    BY <2>1, <2>3 DEF History, Shown, Querying
  <2>5. QED
    BY <1>00, <2>1, <2>4 DEF Histories
<1>14. CASE Execute(c)
  <2>1. /\ pc[c] = "bound" /\ pc'[c] = "returned" /\ kind' = kind
        /\ opaque \subseteq opaque' /\ (kind = "executor" \/ opaque' = opaque) /\ raised' = raised
        /\ shown' = shown /\ lost' = lost /\ tool' = tool
    BY <1>0, <1>14 DEF Execute, ResultSummary, Goto, Only, IInv, Tables
  <2>2. pc[c] \in Shown \ {"returned"}
    BY <2>1 DEF Shown, Querying
  <2>3. c \notin lost => Begun(c)' /\ (c \in opaque => Len(shown'[c]) = 0)
    BY <1>0, <2>1, <2>2 DEF History, Begun, WithoutSummary, Place, Querying
  <2>4. History(c)' \/ c \in lost
    BY <2>1, <2>3 DEF History, Shown, Querying
  <2>5. QED
    BY <1>00, <2>1, <2>4 DEF Histories
<1>15. QED
  BY <1>1, <1>2, <1>3, <1>4, <1>5, <1>6, <1>7, <1>8, <1>9, <1>10, <1>11, <1>12, <1>13, <1>14 DEF CallStep

\* A step of a call keeps types, the bounds of the loop and the flag.
LEMMA TablesCall ==
  ASSUME IInv, NEW c \in Calls, CallStep(c)
  PROVE  Tables' /\ Control' /\ said' \in BOOLEAN
<1>1. Only(c) /\ Tables /\ Control
  BY StepOfOne DEF IInv
<1>2. index' \in Nat
  BY <1>1 DEF Tables, CallStep, ToolStart, Finish, ToolEnd, ToolError, PlannerError, Count,
     InvalidArguments, Local, SubmitPlan, Resolve, Exact, Fallback, QueryRaises, Execute, Body
<1>3. said' \in BOOLEAN
  BY Zenon DEF IInv, CallStep, ToolStart, Finish, ToolEnd, ToolError, PlannerError, Count,
     InvalidArguments, Local, SubmitPlan, Resolve, Exact, Fallback, QueryRaises, Execute, Body, Raise
<1>4. \A d \in Calls : pc'[d] = "idle" <=> d > used'
  BY <1>1 DEF Tables, Only
<1>5. Tables'
  BY <1>1, <1>2, <1>4 DEF Tables, Only, Tools
<1>6. Control'
  BY <1>1 DEF Control, Only
<1>7. QED
  BY <1>3, <1>5, <1>6

-----------------------------------------------------------------------------
(* The step index.                                                           *)

LEMMA CallsAreFinite ==
  /\ IsFiniteSet(Calls)
  /\ IsFiniteSet(Counted) /\ IsFiniteSet(CountedBefore) /\ Cardinality(Counted) \in Nat
<1>1. IsFiniteSet(Calls)
  BY BoundsAssumption, FS_Interval DEF Calls
<1>2. IsFiniteSet(Counted)
  BY <1>1, FS_Subset DEF Counted
<1>3. IsFiniteSet(CountedBefore)
  BY <1>2, FS_Subset DEF CountedBefore
<1>4. QED
  BY <1>1, <1>2, <1>3, FS_CardinalityType

\* A step of call c counts nothing but c, and then moves the index by one.
LEMMA CountsOne ==
  ASSUME IInv, NEW c \in Calls, CallStep(c)
  PROVE  /\ c \notin Counted
         /\ \/ Counted' = Counted /\ index' = index
            \/ Counted' = Counted \cup {c} /\ index' = index + 1
<1>1. Only(c) /\ Tables /\ Place(c)
  BY StepOfOne DEF IInv, Places
<1>2. c \notin Counted
  BY <1>1 DEF Counted, Counts, Only
<1>3. \A d \in Calls \ {c} : Counts(d)' <=> Counts(d)
  BY <1>1 DEF Counts, Only
<1>4. \/ Counts(c)' /\ index' = index + 1
      \/ ~Counts(c)' /\ index' = index
  <2> USE DEF Counts, Place, Only, Tables, calls, Shown, Goto
  <2>1. CASE Count(c)
    BY <1>1, <2>1 DEF Count
  <2>2. CASE Finish(c)
    BY <1>1, <2>2 DEF Finish
  <2>3. CASE PlannerError(c)
    BY <1>1, <2>3 DEF PlannerError
  <2>4. CASE ToolEnd(c)
    BY <1>1, <2>4 DEF ToolEnd
  <2>5. CASE ToolStart(c) \/ ToolError(c)
    BY <1>1, <2>5 DEF ToolStart, ToolError
  <2>6. CASE \/ InvalidArguments(c) \/ Local(c) \/ SubmitPlan(c)
             \/ Resolve(c) \/ Exact(c) \/ Fallback(c) \/ QueryRaises(c) \/ Execute(c)
    BY <1>1, <2>6 DEF InvalidArguments, Local, SubmitPlan, Resolve, Exact, Fallback, QueryRaises,
       Execute, ResultSummary, Body, Raise
  <2>7. QED
    BY <2>1, <2>2, <2>3, <2>4, <2>5, <2>6 DEF CallStep
<1>5. Counted' = {d \in Calls : Counts(d)'}
  BY DEF Counted
<1>6. CASE Counts(c)' /\ index' = index + 1
  <2>1. Counted' = Counted \cup {c}
    BY <1>2, <1>3, <1>5, <1>6 DEF Counted
  <2>2. QED
    BY <1>2, <1>6, <2>1
<1>7. CASE ~Counts(c)' /\ index' = index
  <2>1. Counted' = Counted
    BY <1>2, <1>3, <1>5, <1>7 DEF Counted
  <2>2. QED
    BY <1>2, <1>7, <2>1
<1>8. QED
  BY <1>2, <1>4, <1>6, <1>7

LEMMA IndexCall ==
  ASSUME IInv, NEW c \in Calls, CallStep(c)
  PROVE  IndexCounts' /\ index <= index' /\ index' \in Nat
<1>1. IsFiniteSet(Counted) /\ Cardinality(Counted) \in Nat /\ index = Cardinality(Counted)
  BY CallsAreFinite DEF IInv, IndexCounts
<1>2. CASE Counted' = Counted /\ index' = index
  BY <1>1, <1>2 DEF IndexCounts
<1>3. CASE Counted' = Counted \cup {c} /\ index' = index + 1
  <2>1. Cardinality(Counted') = Cardinality(Counted) + 1
    BY <1>1, <1>3, CountsOne, FS_AddElement
  <2>2. QED
    BY <1>1, <1>3, <2>1 DEF IndexCounts
<1>4. QED
  BY <1>2, <1>3, CountsOne

\* A call runs during its round only.
LEMMA RunsInItsRound ==
  ASSUME IInv, NEW c \in 1..used, pc[c] # "done"
  PROVE  /\ phase = "tools" /\ Start \in Nat /\ c \in Start + 1..used
         /\ base[c] = base[used] /\ team[c] = team[used]
<1>1. phase = "tools"
  BY DEF IInv, Round
<1>2. used \in Calls /\ used \in Nat /\ team[used] \in Nat /\ Start \in Nat
  BY <1>1, BoundsAssumption DEF IInv, Round, Tables, Calls, Start
<1>3. c \in Start + 1..used
  BY <1>1, <1>2 DEF IInv, Round
<1>4. QED
  BY <1>1, <1>2, <1>3 DEF IInv, Round

LEMMA RoundCall ==
  ASSUME IInv, NEW c \in Calls, CallStep(c)
  PROVE  Round'
<1>1. Only(c) /\ used \in Nat
  BY StepOfOne, BoundsAssumption DEF IInv, Tables
<1>2. c \in 1..used /\ pc[c] # "done"
  BY <1>1 DEF Only, Calls
<1>3. phase = "tools" /\ Start \in Nat /\ c \in Start + 1..used
  BY <1>2, RunsInItsRound
<1>4. Start' = Start
  BY <1>1 DEF Only, Start
<1>5. CountedBefore' = CountedBefore
  <2>1. \A d \in Calls : d <= Start => d # c
    BY <1>1, <1>3
  <2>2. \A d \in Calls : d <= Start => (d \in Counted' <=> d \in Counted)
    BY <2>1, CountsOne
  <2>3. Counted \subseteq Calls /\ Counted' \subseteq Calls
    BY DEF Counted
  <2>4. QED
    BY <1>4, <2>2, <2>3 DEF CountedBefore
<1>6. \A d \in 1..Start : pc'[d] = "done"
  <2>1. ASSUME NEW d \in 1..Start PROVE d \in Calls \ {c} /\ pc[d] = "done"
    BY <1>1, <1>3, BoundsAssumption DEF IInv, Round, Tables, Calls
  <2>2. QED
    BY <1>1, <2>1 DEF Only
<1>7. QED
  BY <1>1, <1>3, <1>4, <1>5, <1>6 DEF IInv, Round, Only

\* While a call of the executor is not done, the index stays below the end of its
\* round: the round counts its other calls at most.
LEMMA RoomInRound ==
  ASSUME IInv, NEW c \in 1..used, pc[c] # "done"
  PROVE  index < base[c] + team[c]
<1> DEFINE Others == (Start + 1..used) \ {c}
<1>1. /\ phase = "tools" /\ Start \in Nat /\ c \in Start + 1..used
      /\ base[c] = base[used] /\ team[c] = team[used]
  BY RunsInItsRound
<1>2. used \in Nat /\ team[used] \in Nat /\ Start = used - team[used]
  BY <1>1, BoundsAssumption DEF IInv, Tables, Start, Round, Calls
<1>3. IsFiniteSet(Start + 1..used) /\ Cardinality(Start + 1..used) = team[used]
  <2> DEFINE a == Start + 1
  <2>1. a \in Int /\ used \in Int /\ ~(a > used) /\ used - a + 1 = team[used]
    BY <1>1, <1>2
  <2> HIDE DEF a
  <2>2. IsFiniteSet(a..used) /\ Cardinality(a..used) = used - a + 1
    BY <2>1, FS_Interval
  <2>3. QED
    BY <2>1, <2>2 DEF a
<1>4. IsFiniteSet(Others) /\ Cardinality(Others) = team[used] - 1
  BY <1>1, <1>3, FS_RemoveElement
<1>5. Counted \subseteq CountedBefore \cup Others
  <2> SUFFICES ASSUME NEW d \in Counted, d \notin CountedBefore PROVE d \in Others
    OBVIOUS
  <2>1. d \in Calls /\ pc[d] = "done" /\ ~(d <= Start)
    BY DEF Counted, Counts, CountedBefore
  <2>2. d <= used
    BY <2>1 DEF IInv, Tables, Calls
  <2>3. QED
    BY <1>1, <1>2, <2>1, <2>2 DEF Calls
<1>6. IsFiniteSet(CountedBefore) /\ IsFiniteSet(Counted) /\ index = Cardinality(Counted)
  BY CallsAreFinite DEF IInv, IndexCounts
<1>7. /\ IsFiniteSet(CountedBefore \cup Others)
      /\ Cardinality(CountedBefore \cup Others)
           = Cardinality(CountedBefore) + Cardinality(Others) - Cardinality(CountedBefore \cap Others)
  BY <1>4, <1>6, FS_Union
<1>8. Cardinality(Counted) <= Cardinality(CountedBefore \cup Others)
  BY <1>5, <1>7, FS_Subset
<1>9. /\ Cardinality(CountedBefore \cap Others) \in Nat /\ Cardinality(CountedBefore) \in Nat
      /\ Cardinality(Counted) \in Nat
  BY <1>4, <1>6, FS_Intersection, FS_CardinalityType
<1>10. base[used] = Cardinality(CountedBefore)
  BY <1>1 DEF IInv, Round
<1>11. Cardinality(CountedBefore \cup Others) \in Nat
  BY <1>7, FS_CardinalityType
<1> HIDE DEF Others
<1>12. QED
  BY <1>1, <1>2, <1>4, <1>6, <1>7, <1>8, <1>9, <1>10, <1>11

\* An event that a call adds has the index of this moment.
LEMMA EventsOfNow ==
  ASSUME IInv, NEW c \in Calls, CallStep(c), NEW i \in DOMAIN shown'[c]
  PROVE  \/ i \in DOMAIN shown[c] /\ shown'[c][i] = shown[c][i]
         \/ shown'[c][i].index = index
<1>1. Only(c) /\ c <= used /\ Tables /\ Control
  BY StepOfOne DEF IInv, Only
<1>2. CASE ToolStart(c)
  BY <1>1, <1>2, PublishedOrNot DEF ToolStart, ShowStart
<1>3. CASE ToolEnd(c)
  BY <1>1, <1>3, PublishedOrNot DEF ToolEnd
<1>4. CASE ToolError(c)
  BY <1>1, <1>4, PublishedOrNot DEF ToolError
<1>5. CASE \/ Finish(c) \/ PlannerError(c) \/ Count(c)
           \/ InvalidArguments(c) \/ Local(c) \/ SubmitPlan(c)
           \/ Resolve(c) \/ Exact(c) \/ Fallback(c) \/ QueryRaises(c) \/ Execute(c)
  <2>1. shown' = shown
    BY <1>5 DEF Finish, PlannerError, Count, InvalidArguments, Local, SubmitPlan, Resolve, Exact,
       Fallback, QueryRaises, Execute, Body
  <2>2. QED
    BY <2>1
<1>6. QED
  BY <1>2, <1>3, <1>4, <1>5 DEF CallStep

LEMMA NumbersCall ==
  ASSUME IInv, NEW c \in Calls, CallStep(c)
  PROVE  Numbers'
<1>1. Only(c) /\ c \in 1..used /\ pc[c] # "done" /\ used \in Nat /\ index \in Nat
  <2>1. Only(c) /\ used \in Nat /\ index \in Nat
    BY StepOfOne, BoundsAssumption DEF IInv, Tables
  <2>2. QED
    BY <2>1 DEF Only, Calls
<1>2. index < base[c] + team[c] /\ base[c] <= index
  BY <1>1, RoomInRound DEF IInv, Numbers
<1>3. Numbered(c)'
  <2> SUFFICES ASSUME NEW i \in DOMAIN shown'[c]
               PROVE  /\ base[c] <= shown'[c][i].index
                      /\ kind = "executor" => shown'[c][i].index < base[c] + team[c]
    BY <1>1 DEF Numbered, Only
  <2>1. Numbered(c)
    BY <1>1 DEF IInv, Numbers
  <2>2. CASE i \in DOMAIN shown[c] /\ shown'[c][i] = shown[c][i]
    BY <2>1, <2>2 DEF Numbered
  <2>3. CASE shown'[c][i].index = index
    BY <1>2, <2>3
  <2>4. QED
    BY <2>2, <2>3, EventsOfNow
<1>4. ASSUME NEW d \in 1..used, d # c PROVE Numbered(d)'
  <2>1. d \in Calls \ {c}
    BY <1>1, <1>4, BoundsAssumption DEF IInv, Tables, Calls
  <2>2. shown'[d] = shown[d] /\ base'[d] = base[d] /\ team'[d] = team[d] /\ kind' = kind
    BY <1>1, <2>1 DEF Only
  <2>3. Numbered(d)
    BY DEF IInv, Numbers
  <2>4. QED
    BY <2>2, <2>3 DEF Numbered
<1>5. ASSUME NEW d \in 1..used PROVE base[d] <= index'
  <2>1. base[d] <= index /\ base[d] \in Nat
    BY <1>1, BoundsAssumption DEF IInv, Numbers, Tables, Calls
  <2>2. index <= index' /\ index' \in Nat
    BY IndexCall
  <2>3. QED
    BY <1>1, <2>1, <2>2
<1>6. QED
  BY <1>1, <1>3, <1>4, <1>5 DEF Numbers, Only

-----------------------------------------------------------------------------
(* Steps of the loop.                                                        *)

\* A round begins with calls that nobody has heard of, at the index of this moment.
LEMMA LLMCallsKeeps ==
  ASSUME IInv, NEW n \in 1..MaxParallel, LLMCalls(n)
  PROVE  IInv'
<1> DEFINE round == used + 1..used + n
<1>1. /\ phase = "llm" /\ supersteps + 2 <= SuperSteps /\ used + n <= MaxCalls
      /\ used' = used + n /\ supersteps' = supersteps + 1 /\ phase' = "tools"
      /\ outcome' = outcome /\ faults' = faults /\ kind' = kind /\ ready' = ready
      /\ index' = index /\ pending' = pending /\ shown' = shown /\ lost' = lost
      /\ opaque' = opaque /\ raised' = raised /\ said' = said
  BY DEF LLMCalls, Loop
<1>2. /\ \E f \in [round -> Tools] : tool' = [c \in Calls |-> IF c \in round THEN f[c] ELSE tool[c]]
      /\ base' = [c \in Calls |-> IF c \in round THEN index ELSE base[c]]
      /\ team' = [c \in Calls |-> IF c \in round THEN n ELSE team[c]]
      /\ pc' = [c \in Calls |-> IF c \in round THEN "called" ELSE pc[c]]
  BY DEF LLMCalls
<1>3. /\ Tables /\ Control /\ Places /\ PendingIsOpen /\ IndexCounts /\ Histories /\ Round /\ Numbers
      /\ said \in BOOLEAN
  BY DEF IInv
<1>4. n \in Nat /\ n > 0 /\ n \in 1..MaxParallel /\ used \in Nat /\ MaxCalls \in Nat /\ index \in Nat
  BY <1>3, BoundsAssumption DEF Tables
<1>5. \A c \in Calls : c \in round <=> c > used /\ c <= used'
  BY <1>1, <1>4 DEF Calls
<1>6. round \subseteq Calls /\ \A c \in 1..used : c \in Calls /\ c \notin round
  BY <1>1, <1>4 DEF Calls
<1>7. Tools \subseteq Names /\ Tools' = Tools
  BY <1>1 DEF Tools, Names
<1>8. \A c \in Calls : IF c \in round THEN tool'[c] \in Tools ELSE tool'[c] = tool[c]
  BY <1>2
<1>9. tool' \in [Calls -> Names]
  BY <1>2, <1>3, <1>7 DEF Tables
<1>10. \A c \in Calls : /\ c \in round => base'[c] = index /\ team'[c] = n /\ pc'[c] = "called"
                        /\ c \notin round => base'[c] = base[c] /\ team'[c] = team[c] /\ pc'[c] = pc[c]
  BY <1>2
<1>11. base' \in [Calls -> Nat] /\ team' \in [Calls -> 1..MaxParallel]
  BY <1>2, <1>3, <1>4 DEF Tables
<1>12. pc' \in [Calls -> AfterCount \cup {"bound", "done"}]
  BY <1>2, <1>3 DEF Tables, AfterCount
<1>13. \A c \in 1..used' : c \in round \/ c \in 1..used
  BY <1>1, <1>4
<1>14. \A c \in round : pc[c] = "idle" /\ c \notin raised /\ c \notin lost /\ c \notin opaque
  <2>1. \A c \in round : c \in Calls /\ c > used /\ c \notin 1..used
    BY <1>4, <1>5, <1>6
  <2>2. QED
    BY <1>3, <2>1 DEF Tables, Control
<1> HIDE DEF round
<1>15. Tables'
  <2>1. \A c \in Calls : pc'[c] = "idle" <=> c > used'
    <3> SUFFICES ASSUME NEW c \in Calls PROVE pc'[c] = "idle" <=> c > used'
      OBVIOUS
    <3>1. CASE c \in round
      BY <1>1, <1>4, <1>5, <1>10, <3>1 DEF Calls
    <3>2. CASE c \notin round
      <4>1. pc'[c] = pc[c] /\ (pc[c] = "idle" <=> c > used)
        BY <1>3, <1>10, <3>2 DEF Tables
      <4>2. c > used <=> c > used'
        BY <1>1, <1>4, <1>5, <3>2 DEF Calls
      <4>3. QED
        BY <4>1, <4>2
    <3>3. QED
      BY <3>1, <3>2
  <2>2. \A c \in 1..used' : tool'[c] \in Tools
    BY <1>3, <1>6, <1>8, <1>13 DEF Tables
  <2>3. used' \in 0..MaxCalls
    BY <1>1, <1>4
  <2>4. QED
    BY <1>1, <1>3, <1>7, <1>9, <1>11, <1>12, <2>1, <2>2, <2>3 DEF Tables
<1>16. Control'
  <2>1. 1..used \subseteq 1..used'
    BY <1>1, <1>4
  <2>2. supersteps' \in 0..SuperSteps /\ supersteps' < SuperSteps
    BY <1>1, <1>3, BoundsAssumption DEF Control
  <2>3. QED
    BY <1>1, <1>3, <2>1, <2>2 DEF Control
<1>17. Places'
  BY <1>1, <1>3, <1>8, <1>10, <1>14 DEF Places, Place, Shown, Querying
<1>18. PendingIsOpen'
  BY <1>1, <1>3, <1>8, <1>10, <1>14 DEF PendingIsOpen, PendingOf, Shown, Querying
<1>19. Counted' = Counted
  <2>1. \A c \in Calls : Counts(c)' <=> Counts(c)
    BY <1>1, <1>8, <1>10, <1>14 DEF Counts
  <2>2. QED
    BY <2>1 DEF Counted
<1>20. IndexCounts'
  BY <1>1, <1>3, <1>19 DEF IndexCounts
<1>21. Histories'
  <2> SUFFICES ASSUME NEW c \in Calls \ lost PROVE History(c)'
    BY <1>1 DEF Histories
  <2>1. CASE c \in round
    <3>1. Len(shown[c]) = 0
      BY <1>3, <1>14, <2>1 DEF Histories, History
    <3>2. QED
      BY <1>1, <1>10, <2>1, <3>1 DEF History, Shown, Querying
  <2>2. CASE c \notin round
    BY <1>1, <1>3, <1>8, <1>10, <2>2, HistoryKept DEF Histories
  <2>3. QED
    BY <2>1, <2>2
<1>22. Round'
  <2>1. used' \in round
    BY <1>1, <1>4 DEF round
  <2>2. used' \in Calls /\ team'[used'] = n /\ base'[used'] = index /\ Start' = used
    BY <1>1, <1>4, <1>6, <1>10, <2>1 DEF Start
  <2>3. CountedBefore' = Counted
    <3>1. \A c \in Counted : c <= used /\ c \in Calls
      BY <1>3, <1>4 DEF Counted, Counts, Tables, Calls
    <3>2. QED
      BY <1>19, <2>2, <3>1 DEF CountedBefore
  <2>4. \A c \in used + 1..used' : base'[c] = base'[used'] /\ team'[c] = team'[used']
    BY <1>1, <1>6, <1>10, <2>2 DEF round
  <2>5. \A c \in 1..used : pc'[c] = "done"
    BY <1>1, <1>3, <1>6, <1>10 DEF Round
  <2>6. QED
    BY <1>1, <1>3, <1>4, <2>2, <2>3, <2>4, <2>5 DEF Round, IndexCounts
<1>23. Numbers'
  <2> SUFFICES ASSUME NEW c \in 1..used' PROVE base'[c] <= index /\ Numbered(c)'
    BY <1>1 DEF Numbers
  <2>1. CASE c \in round
    <3>1. c \in Calls \ lost /\ pc[c] = "idle"
      BY <1>6, <1>14, <2>1
    <3>2. shown[c] \in Seq(Event) /\ Len(shown[c]) = 0
      BY <1>3, <3>1 DEF Tables, Histories, History
    <3>3. DOMAIN shown[c] = {}
      BY <3>2
    <3>4. QED
      BY <1>1, <1>4, <1>10, <2>1, <3>1, <3>3 DEF Numbered
  <2>2. CASE c \in 1..used
    BY <1>1, <1>3, <1>6, <1>10, <2>2 DEF Numbers, Numbered
  <2>3. QED
    BY <1>13, <2>1, <2>2
<1>24. QED
  BY <1>1, <1>3, <1>15, <1>16, <1>17, <1>18, <1>20, <1>21, <1>22, <1>23 DEF IInv

\* What is about the calls stays as it is when no call moves.
CallsStay ==
  UNCHANGED <<kind, ready, used, tool, base, team, pc, index, pending, shown, lost, opaque, raised, said>>

LEMMA CallsStayAsTheyAre ==
  ASSUME IInv, CallsStay
  PROVE  /\ Tables' /\ Places' /\ PendingIsOpen' /\ IndexCounts' /\ Histories' /\ Numbers'
         /\ said' \in BOOLEAN
         /\ Start' = Start /\ CountedBefore' = CountedBefore
<1> USE DEF CallsStay
<1>1. Tables'
  BY DEF IInv, Tables, Tools
<1>2. Places' /\ PendingIsOpen'
  BY DEF IInv, Places, Place, PendingIsOpen, PendingOf
<1>3. Counted' = Counted
  BY DEF Counted, Counts
<1>4. Histories'
  BY HistoryKept DEF IInv, Histories
<1>5. Numbers'
  BY DEF IInv, Numbers, Numbered
<1>6. QED
  BY <1>1, <1>2, <1>3, <1>4, <1>5 DEF IInv, IndexCounts, Start, CountedBefore

\* A round ends when all its calls are done, and the run returns between rounds.
LEMMA LoopKeeps ==
  ASSUME IInv, RoundEnds \/ LLMAnswers \/ LLMRaises \/ OutOfSteps \/ UNCHANGED vars
  PROVE  IInv'
<1>1. CallsStay
  BY DEF RoundEnds, LLMAnswers, LLMRaises, OutOfSteps, Return, Loop, calls, vars, CallsStay
<1>2. /\ Tables' /\ Places' /\ PendingIsOpen' /\ IndexCounts' /\ Histories' /\ Numbers'
      /\ said' \in BOOLEAN /\ Start' = Start /\ CountedBefore' = CountedBefore
  BY <1>1, CallsStayAsTheyAre
<1>3. Control
  BY DEF IInv
<1>4. CASE RoundEnds
  <2>1. /\ phase = "tools" /\ phase' = "llm" /\ supersteps' = supersteps + 1
        /\ outcome' = outcome /\ faults' = faults /\ \A c \in 1..used : pc[c] = "done"
    BY <1>4 DEF RoundEnds
  <2>2. supersteps' \in 0..SuperSteps
    BY <1>3, <2>1, BoundsAssumption DEF Control
  <2>3. Control'
    BY <1>1, <1>3, <2>1, <2>2 DEF Control, CallsStay
  <2>4. Round'
    BY <1>1, <2>1 DEF Round, CallsStay
  <2>5. QED
    BY <1>2, <2>3, <2>4 DEF IInv
<1>5. CASE LLMAnswers \/ LLMRaises \/ OutOfSteps
  <2>1. /\ phase = "llm" /\ phase' = "returned" /\ supersteps' = supersteps
        /\ outcome' \in {"succeeded", "failed", "plan", "no plan"}
        /\ faults' = faults \/ (faults < MaxFaults /\ faults' = faults + 1)
    BY <1>5 DEF LLMAnswers, LLMRaises, OutOfSteps, Return, Answered, Broken
  <2>2. faults \in 0..MaxFaults
    BY <1>3 DEF Control
  <2>3. faults' \in 0..MaxFaults
    <3>1. CASE faults' = faults
      BY <2>2, <3>1
    <3>2. CASE faults < MaxFaults /\ faults' = faults + 1
      BY <2>2, <3>2, BoundsAssumption
    <3>3. QED
      BY <2>1, <3>1, <3>2
  <2>4. Control'
    BY <1>1, <1>3, <2>1, <2>3 DEF Control, CallsStay
  <2>5. Round'
    BY <1>1, <2>1 DEF IInv, Round, CallsStay
  <2>6. QED
    BY <1>2, <2>4, <2>5 DEF IInv
<1>6. CASE UNCHANGED vars
  <2>1. Control'
    BY <1>1, <1>3, <1>6 DEF Control, vars, CallsStay
  <2>2. Round'
    BY <1>1, <1>2, <1>6 DEF IInv, Round, vars, CallsStay
  <2>3. QED
    BY <1>2, <2>1, <2>2 DEF IInv
<1>7. QED
  BY <1>4, <1>5, <1>6

LEMMA InductiveInvariant == Spec => []IInv
<1>1. ASSUME Init PROVE IInv
  <2> USE BoundsAssumption DEF Init
  <2>1. Tables
    <3>1. shown \in [Calls -> Seq(Event)]
      BY <1>1
    <3>2. QED
      BY <1>1, <3>1 DEF Tables, Calls, Names, AfterCount
  <2>2. Control /\ Places /\ PendingIsOpen
    BY <1>1 DEF Control, Places, Place, PendingIsOpen, PendingOf, Shown, Querying
  <2>3. said \in BOOLEAN
    BY <1>1, Zenon
  <2>4. Counted = {}
    BY <1>1 DEF Counted, Counts
  <2>5. IndexCounts
    BY <1>1, <2>4, FS_EmptySet DEF IndexCounts
  <2>6. Histories
    BY <1>1 DEF Histories, History, Shown, Querying
  <2>7. Round /\ Numbers
    BY <1>1 DEF Round, Numbers
  <2>8. QED
    BY <2>1, <2>2, <2>3, <2>5, <2>6, <2>7 DEF IInv
<1>2. IInv /\ [Next]_vars => IInv'
  <2> SUFFICES ASSUME IInv, [Next]_vars PROVE IInv'
    OBVIOUS
  <2>1. ASSUME NEW c \in Calls, CallStep(c) PROVE IInv'
    BY <2>1, TablesCall, PlacesCall, PendingCall, IndexCall, HistoryCall, RoundCall, NumbersCall
       DEF IInv
  <2>2. ASSUME NEW n \in 1..MaxParallel, LLMCalls(n) PROVE IInv'
    BY <2>2, LLMCallsKeeps
  <2>3. CASE RoundEnds \/ LLMAnswers \/ LLMRaises \/ OutOfSteps \/ UNCHANGED vars
    BY <2>3, LoopKeeps
  <2>4. QED
    BY <2>1, <2>2, <2>3 DEF Next, CallStep
<1>3. QED
  BY <1>1, <1>2, PTL DEF Spec

-----------------------------------------------------------------------------
(* Theorems.                                                                 *)

\* The step index counts the steps that were closed, and what the callbacks keep
\* of a call is what they have to close, whatever runs at a time.
THEOREM TypeCorrect == Spec => []TypeOK
<1>1. IInv => TypeOK
  <2> SUFFICES ASSUME IInv PROVE TypeOK
    OBVIOUS
  <2>1. Tables /\ Control /\ used \in Nat /\ said \in BOOLEAN
    BY BoundsAssumption DEF IInv, Tables
  <2>2. \A c \in 1..used : c \in Calls
    BY <2>1, BoundsAssumption DEF Tables, Calls
  <2>3. index = Cardinality({c \in Calls : pc[c] = "done" /\ kind = "executor"
                                           /\ (tool[c] = "finish" \/ c \in opaque => c \in raised)})
    BY DEF IInv, IndexCounts, Counted, Counts
  <2>4. pending = {c \in 1..used : \/ pc[c] \in Querying \cup {"started", "bound", "returned"}
                                   \/ pc[c] = "raised" /\ tool[c] # "finish"
                                   \/ pc[c] = "done" /\ c \in raised /\ kind = "planner"}
    <3>1. pending = {c \in Calls : PendingOf(c)}
      BY DEF IInv, PendingIsOpen
    <3>2. \A c \in Calls : PendingOf(c) => c \in 1..used
      BY <2>1 DEF Tables, Calls, PendingOf, Shown, Querying
    <3>3. pending = {c \in 1..used : PendingOf(c)}
      BY <2>2, <3>1, <3>2
    <3>4. QED
      BY <3>3 DEF PendingOf, Shown
  <2>5. \A c \in Calls : \A i \in DOMAIN shown[c] :
          /\ shown[c][i].status \in {"running", "completed", "failed"}
          /\ shown[c][i].index \in Nat
    <3> SUFFICES ASSUME NEW c \in Calls, NEW i \in DOMAIN shown[c] PROVE shown[c][i] \in Event
      BY DEF Event
    <3>1. shown[c] \in Seq(Event)
      BY <2>1 DEF Tables
    <3>2. QED
      BY <3>1
  <2>6. \A c \in 1..used : tool[c] \in Tools /\ base[c] \in Nat /\ team[c] \in 1..MaxParallel
    BY <2>1, <2>2 DEF Tables
  <2>7. QED
    BY <2>1, <2>3, <2>4, <2>5, <2>6 DEF Tables, Control, TypeOK
<1>2. QED
  BY InductiveInvariant, <1>1, PTL

\* Every step that was shown and has a summary is closed once when the run
\* returns, as failed if and only if its tool raised; those that stay open are the
\* ones Closed names; and no step is shown under the index of another round.
THEOREM StepsAreClosed == Spec => []EveryStepIsClosed
<1>1. IInv => EveryStepIsClosed
  <2> SUFFICES ASSUME IInv PROVE EveryStepIsClosed
    OBVIOUS
  <2>1. \A c \in 1..used : Numbered(c)
    BY DEF IInv, Numbers
  <2>2. ASSUME phase = "returned", NEW c \in (1..used) \ lost PROVE Closed(c)
    <3>1. c \in Calls /\ tool[c] \in Tools
      BY BoundsAssumption DEF IInv, Tables, Calls
    <3>2. pc[c] = "done"
      BY <2>2 DEF IInv, Round
    <3>3. Ended(c)
      BY <3>1, <3>2 DEF IInv, Histories, History
    <3>4. shown[c] \in Seq(Event) /\ kind \in {"executor", "planner"}
      BY <3>1 DEF IInv, Tables
    <3>5. tool[c] = "finish" => kind = "executor"
      BY <3>1, <3>4, ConnectorsAssumption DEF Tools
    <3> DEFINE n == Len(shown[c])
    <3>6. DOMAIN shown[c] = 1..n /\ n \in Nat
      BY <3>4
    <3>7. Statuses(c) = [i \in 1..n |-> shown[c][i].status]
      BY <3>6 DEF Statuses
    <3>8. CASE tool[c] = "finish" /\ c \notin raised
      <4>1. n = 0
        BY <3>3, <3>8 DEF Ended
      <4>2. Statuses(c) = <<>>
        BY <3>7, <4>1
      <4>3. QED
        BY <3>8, <4>2 DEF Closed
    <3>9. CASE tool[c] = "finish" /\ c \in raised
      <4>1. n = 1 /\ shown[c][1].status = "failed"
        BY <3>3, <3>9 DEF Ended
      <4>2. Statuses(c) = <<"failed">>
        BY <3>7, <4>1
      <4>3. QED
        BY <3>9, <4>2 DEF Closed
    <3>10. CASE tool[c] # "finish" /\ c \in opaque
      <4>1. WithoutSummary(c)
        BY <3>3, <3>10 DEF Ended
      <4>2. CASE n = 0
        <5>1. Statuses(c) = <<>>
          BY <3>7, <4>2
        <5>2. QED
          BY <3>10, <5>1 DEF Closed
      <4>3. CASE kind = "executor" /\ c \notin raised /\ n = 1 /\ shown[c][1].status = "running"
        <5>1. Statuses(c) = <<"running">>
          BY <3>7, <4>3
        <5>2. QED
          BY <3>10, <4>3, <5>1 DEF Closed
      <4>4. QED
        BY <4>1, <4>2, <4>3 DEF WithoutSummary
    <3>11. CASE tool[c] # "finish" /\ c \notin opaque /\ c \notin raised
      <4>1. n = 2 /\ shown[c][1].status = "running" /\ shown[c][2].status = "completed"
        BY <3>3, <3>11 DEF Ended
      <4>2. Statuses(c) = <<"running", "completed">>
        BY <3>7, <4>1
      <4>3. QED
        BY <3>11, <4>2 DEF Closed
    <3>12. CASE tool[c] # "finish" /\ c \notin opaque /\ c \in raised /\ kind = "executor"
      <4>1. n = 2 /\ shown[c][1].status = "running" /\ shown[c][2].status = "failed"
        BY <3>3, <3>12 DEF Ended
      <4>2. Statuses(c) = <<"running", "failed">>
        BY <3>7, <4>1
      <4>3. QED
        BY <3>12, <4>2 DEF Closed
    <3>13. CASE tool[c] # "finish" /\ c \notin opaque /\ c \in raised /\ kind = "planner"
      <4>1. n = 1 /\ shown[c][1].status = "running"
        BY <3>3, <3>13 DEF Ended
      <4>2. Statuses(c) = <<"running">>
        BY <3>7, <4>1
      <4>3. QED
        BY <3>13, <4>2 DEF Closed
    <3>14. QED
      BY <3>4, <3>8, <3>9, <3>10, <3>11, <3>12, <3>13
  <2>3. QED
    BY <2>1, <2>2 DEF EveryStepIsClosed
<1>2. QED
  BY InductiveInvariant, <1>1, PTL

=============================================================================
