----------------------------- MODULE RunPromise -----------------------------
(***************************************************************************)
(* What the platform promises somebody who watches one agent run, both     *)
(* through the runs REST resource (the row) and through the lifecycle      *)
(* events pushed to the chat window (the feed):                            *)
(*                                                                         *)
(*   - an outcome is first recorded in the row and only then announced;    *)
(*   - an outcome is recorded only while the last news of the run is that  *)
(*     it started;                                                         *)
(*   - a failure that the row does not record is announced only for a run  *)
(*     whose row was removed or that an infrastructure fault struck.       *)
(*                                                                         *)
(* Nothing is said here of consumers, queues, handlers or retries: module  *)
(* RunLifecycle has them and implements this one.                          *)
(***************************************************************************)
CONSTANT Runs

VARIABLES
  row,      \* row[r]: the status column of AgentRun r, "none" without a row
  feed,     \* feed[r]: the last lifecycle event announced for r
  struck    \* the runs that a crash or an infrastructure error has struck

promiseVars == <<row, feed, struck>>

Outcome == {"SUCCEEDED", "FAILED"}

Init ==
  /\ row = [r \in Runs |-> "none"]
  /\ feed = [r \in Runs |-> "none"]
  /\ struck = {}

-----------------------------------------------------------------------------
\* A fault may strike the very step that records or announces something: the
\* effect is there, and whoever performed the step saw an error.
MayBeStruck(r) == struck' = struck \/ struck' = struck \cup {r}

\* The run is recorded, to be picked up later.
Accept(r) ==
  /\ row[r] = "none"
  /\ row' = [row EXCEPT ![r] = "PENDING"]
  /\ MayBeStruck(r)
  /\ UNCHANGED feed

\* An attempt begins: the first, or another one of a run that was handled before.
Begin(r) ==
  /\ row' = [row EXCEPT ![r] = "RUNNING"]
  /\ MayBeStruck(r)
  /\ UNCHANGED feed

AnnounceStart(r) ==
  /\ row[r] \in {"RUNNING", "none"}
  /\ feed' = [feed EXCEPT ![r] = "STARTED"]
  /\ MayBeStruck(r)
  /\ UNCHANGED row

Settle(r, o) ==
  /\ row[r] = "RUNNING"
  /\ feed[r] = "STARTED"
  /\ row' = [row EXCEPT ![r] = o]
  /\ MayBeStruck(r)
  /\ UNCHANGED feed

\* The announced outcome is the recorded one, unless the row is gone by then.
Report(r, o) ==
  /\ row[r] \in {o, "none"}
  /\ feed[r] = "STARTED"
  /\ feed' = [feed EXCEPT ![r] = o]
  /\ MayBeStruck(r)
  /\ UNCHANGED row

GiveUp(r) ==
  /\ r \in struck \/ row[r] = "none"
  /\ feed' = [feed EXCEPT ![r] = "FAILED"]
  /\ MayBeStruck(r)
  /\ UNCHANGED row

\* A fault that hides the effect of the step it strikes.
Trouble(r) ==
  /\ struck' = struck \cup {r}
  /\ UNCHANGED <<row, feed>>

\* An agent is deleted together with its runs.
Remove(rs) ==
  /\ row' = [r \in Runs |-> IF r \in rs THEN "none" ELSE row[r]]
  /\ UNCHANGED <<feed, struck>>

Next ==
  \/ \E r \in Runs :
        \/ Accept(r) \/ Begin(r) \/ AnnounceStart(r) \/ GiveUp(r) \/ Trouble(r)
        \/ \E o \in Outcome : Settle(r, o) \/ Report(r, o)
  \/ \E rs \in SUBSET Runs : Remove(rs)

Spec == Init /\ [][Next]_promiseVars
=============================================================================
