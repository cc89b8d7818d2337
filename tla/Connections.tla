---------------------------- MODULE Connections ----------------------------
(***************************************************************************)
(* The connections of one workspace: the ConnectionRef rows of the         *)
(* api-gateway, which follow the provider (Nango) by synchronisation and   *)
(* by "complete" calls of clients, the list of available integrations,     *)
(* and the runs of the agent-runtime that wait for a connection and are    *)
(* resumed when it is completed.                                           *)
(*                                                                         *)
(* A row and a connection of the provider are not the same thing. Every    *)
(* authorization makes a new connection (the chat's session names none to  *)
(* renew), so one row may stand for several; and the provider knows the    *)
(* end user by a tag that may be missing, where the synchronisation takes  *)
(* the connection's own id instead.                                        *)
(*                                                                         *)
(* A request of the gateway is a process that stops at every await, a      *)
(* statement of its own transaction; two of them interleave. The runtime   *)
(* handles the messages of a subscription one at a time.                   *)
(*                                                                         *)
(* That a run is paused is external: no service sets PAUSED. The endpoint  *)
(* is one account or another of Nango: the other two providers of the      *)
(* schema fetch nothing yet. The tools that configureEndpoint also         *)
(* synchronises are in ToolCatalog.                                        *)
(*                                                                         *)
(* Bounds: Requests at a time and MaxRequests in all with the reports      *)
(* over sockets, MaxChanges at the provider, MaxFaults, that is failing    *)
(* statements or publishes.                                                *)
(***************************************************************************)
EXTENDS FiniteSets, Integers, Sequences

CONSTANTS
  Keys,            \* provider config keys
  Prefix,          \* pairs of keys, the first of which is a prefix of the second
  Users,           \* end users
  Accounts,        \* accounts at the provider, one of which is the endpoint
  Configured,      \* those that it may be at first
  Conns,           \* connections of the provider
  KeyOf, UserOf, AccountOf, \* of a connection
  Untagged,        \* the connections that the provider lists without an end user
  Old,             \* the connections that were there before
  Runs,
  Need,            \* Need[r]: the key that the pauseReason of run r names
  Offers,          \* Offers[a]: the lists of integrations that account a may answer, at any time
  Requests,        \* the slots of requests under way, numbered
  MaxRequests,
  MaxChanges,
  MaxFaults

ASSUME PrefixAssumption == Prefix \subseteq Keys \X Keys /\ \A k \in Keys : <<k, k>> \in Prefix
ASSUME BoundsAssumption ==
  Requests \subseteq Nat /\ MaxRequests \in Nat /\ MaxChanges \in Nat /\ MaxFaults \in Nat
ASSUME NeedAssumption == Need \in [Runs -> Keys]
ASSUME ConnsAssumption ==
  /\ KeyOf \in [Conns -> Keys] /\ UserOf \in [Conns -> Users] /\ AccountOf \in [Conns -> Accounts]
  /\ Untagged \subseteq Conns /\ Old \subseteq Conns /\ Configured \subseteq Accounts

VARIABLES
  provider,        \* provider[c]: the connection c as the provider knows it
  endpoint,        \* the account that the workspace's configuration names
  authorized,      \* connections whose OAuth succeeded and whose client did not report it
  ref,             \* ref[w]: the ConnectionRef row w, id 0 when there is none
  nextId,          \* the id of the next row
  completed,       \* connections reported by a client and sound ever since
  raced,           \* those among them reported while a synchronisation was under way
  pc,              \* pc[q]: the statement that request q executes next
  todo,            \* todo[q]: what its loop has left
  found,           \* found[q]: what it read: an account, live rows, or stale ids
  calm,            \* calm[q]: nobody else changed a row or the provider since it listed
  available,       \* the AvailableIntegration rows
  bare,            \* the list was never filled, or left empty by an empty answer or a failure
  blended,         \* when last deleted, two answers to be inserted had nothing in common
  announced,       \* CONNECTION_COMPLETED events on the server, by key
  waking,          \* runs handle_connection_completed has still to publish
  asked,           \* RUNTIME_RUN_RESUME_REQUESTED messages
  row,             \* row[r]: the run's status
  resuming,        \* the run that handle_resume_requested executes
  requests, changes, faults

world == <<provider, endpoint, authorized>>
refs == <<ref, nextId, completed, raced>>
procs == <<pc, todo, found, calm>>
list == <<available, bare, blended>>
resume == <<announced, waking, asked, row, resuming>>
bounds == <<requests, changes, faults>>
vars == <<world, refs, procs, list, resume, bounds>>

\* The row that a client's report writes, and the one that a synchronisation
\* does: the end user's, or the connection's own when it has no tag.
ReportedAs(c) == <<KeyOf[c], UserOf[c]>>
RowOf(c) == <<KeyOf[c], IF c \in Untagged THEN c ELSE UserOf[c]>>
Rows == {ReportedAs(c) : c \in Conns} \cup {RowOf(c) : c \in Conns}

NoRow == [id |-> 0, status |-> "none", conn |-> {}]

Status == {"none", "PENDING", "READY", "FAILED"}
SyncPc == {"upsert", "find", "delete"}
ListPc == {"fetch", "clear", "insert"}

\* One type invariant: a row that does not exist has no id, ids are not used
\* twice, and only a request that listed something has something to do.
TypeOK ==
  /\ provider \in [Conns -> {"unborn", "ok", "error", "gone"}] /\ endpoint \in Accounts
  /\ authorized \cup completed \cup raced \subseteq Conns
  /\ ref \in [Rows -> [id : Nat, status : Status, conn : SUBSET Conns]]
  /\ nextId \in Nat \ {0}
  /\ \A w \in Rows : ref[w] = NoRow \/ (ref[w].id \in 1 .. (nextId - 1) /\ ref[w].status # "none")
  /\ \A v, w \in Rows : v # w /\ ref[v].id = ref[w].id => ref[v].id = 0
  /\ calm \in [Requests -> BOOLEAN]
  /\ pc \in [Requests -> {"idle", "announce"} \cup SyncPc \cup ListPc]
  /\ \A q \in Requests : pc[q] \in {"fetch", "find", "delete", "idle"} => todo[q] = {}
  /\ \A q \in Requests : pc[q] = "insert" => todo[q] # {}
  /\ bare \in BOOLEAN /\ blended \in BOOLEAN
  /\ announced \subseteq Keys /\ waking \subseteq Runs /\ asked \in Seq(Runs)
  /\ row \in [Runs -> {"PAUSED", "RUNNING", "SETTLED"}]
  /\ resuming \subseteq Runs /\ Cardinality(resuming) <= 1
  /\ \A r \in resuming : row[r] = "RUNNING"
  /\ requests \in Nat /\ changes \in Nat /\ faults \in Nat

Init ==
  /\ provider \in {p \in [Conns -> {"unborn", "ok", "error"}] : \A c \in Conns : p[c] = "unborn" <=> c \notin Old}
  /\ endpoint \in Configured /\ authorized = {c \in Old : provider[c] = "ok"}
  /\ ref = [w \in Rows |-> NoRow] /\ nextId = 1 /\ completed = {} /\ raced = {}
  /\ pc = [q \in Requests |-> "idle"] /\ todo = [q \in Requests |-> {}]
  /\ found = [q \in Requests |-> {}] /\ calm = [q \in Requests |-> FALSE]
  /\ available = {} /\ bare = TRUE /\ blended = FALSE
  /\ announced = {} /\ waking = {} /\ asked = <<>>
  /\ row = [r \in Runs |-> "PAUSED"] /\ resuming = {}
  /\ requests = 0 /\ changes = 0 /\ faults = 0

-----------------------------------------------------------------------------
(* The provider and its users.                                               *)

\* The endpoint's list of connections, and those of one row among them.
Live == {c \in Conns : AccountOf[c] = endpoint /\ provider[c] \in {"ok", "error"}}
Shared(w) == {c \in Live : RowOf(c) = w}

\* A connection that works, whose row no other makes FAILED and none that the
\* provider lists by its own id.
Sound(c) ==
  c \in Live \ Untagged /\ \A d \in Shared(RowOf(c)) \cup {c} : provider[d] = "ok"

Disturbed(others) == calm' = [q \in Requests |-> calm[q] /\ q \notin others]

Change ==
  /\ changes < MaxChanges
  /\ changes' = changes + 1
  /\ UNCHANGED <<resume, requests, faults>>

\* The end user authorizes, whether he has connections already or not.
Authorize(c) ==
  /\ Change /\ provider[c] = "unborn"
  /\ provider' = [provider EXCEPT ![c] = "ok"]
  /\ authorized' = authorized \cup {c}
  /\ Disturbed(Requests)
  /\ UNCHANGED <<endpoint, refs, pc, todo, found, list>>

\* A connection breaks, works again, or is removed at the provider.
ProviderChanges(c) ==
  /\ Change /\ provider[c] \in {"ok", "error"}
  /\ \E s \in {"ok", "error", "gone"} \ {provider[c]} : provider' = [provider EXCEPT ![c] = s]
  /\ UNCHANGED <<endpoint, authorized, ref, nextId, raced, pc, todo, found, list>>
  /\ completed' = {d \in completed : Sound(d)'}
  /\ Disturbed(Requests)

-----------------------------------------------------------------------------
(* ConnectionRef rows.                                                       *)

\* upsert on (workspace, provider config key, external id), one statement.
Upsert(w, conn, status) ==
  /\ ref' = [ref EXCEPT ![w] =
               [id |-> IF @.id = 0 THEN nextId ELSE @.id, status |-> status, conn |-> conn]]
  /\ nextId' = IF ref[w].id = 0 THEN nextId + 1 ELSE nextId

\* A request takes the first free slot, which loses no behaviour but names.
Begin(q) ==
  /\ pc[q] = "idle" /\ requests < MaxRequests
  /\ \A p \in Requests : p < q => pc[p] # "idle"
  /\ requests' = requests + 1
  /\ UNCHANGED <<changes, faults>>

Syncing == {q \in Requests : pc[q] \in SyncPc}

\* connectionComplete, until its publish.
CompleteUpsert(q, c) ==
  /\ Begin(q) /\ c \in authorized
  /\ Upsert(ReportedAs(c), {c}, "READY")
  /\ authorized' = authorized \ {c}
  /\ completed' = IF Sound(c) THEN completed \cup {c} ELSE completed
  /\ raced' = IF Syncing = {} THEN raced \ {c} ELSE raced \cup {c}
  /\ pc' = [pc EXCEPT ![q] = "announce"]
  /\ todo' = [todo EXCEPT ![q] = {KeyOf[c]}]
  /\ Disturbed(Requests)
  /\ UNCHANGED <<provider, endpoint, found, list, resume>>

CompletePublish(q) ==
  /\ pc[q] = "announce"
  /\ announced' = announced \cup todo[q]
  /\ pc' = [pc EXCEPT ![q] = "idle"]
  /\ todo' = [todo EXCEPT ![q] = {}]
  /\ UNCHANGED <<world, refs, found, calm, list, waking, asked, row, resuming, bounds>>

\* A client reports over its socket instead: announced, and no row is written.
SocketCompletes(c) ==
  /\ c \in authorized /\ requests < MaxRequests
  /\ requests' = requests + 1
  /\ authorized' = authorized \ {c}
  /\ announced' = announced \cup {KeyOf[c]}
  /\ UNCHANGED <<provider, endpoint, refs, procs, list, waking, asked, row, resuming, changes, faults>>

\* Nobody reads the events of these two.
CreateConnectionRef(q, w) ==
  /\ Begin(q) /\ ref[w].id = 0
  /\ Upsert(w, {}, "PENDING")
  /\ Disturbed(Requests)
  /\ UNCHANGED <<world, completed, raced, pc, todo, found, list, resume>>

MarkReady(q, w) ==
  /\ Begin(q) /\ ref[w].id # 0
  /\ Upsert(w, ref[w].conn, "READY")
  /\ Disturbed(Requests)
  /\ UNCHANGED <<world, completed, raced, pc, todo, found, list, resume>>

\* syncConnections: the endpoint's list, which the rest of the request works from.
SyncList(q) ==
  /\ Begin(q)
  /\ pc' = [pc EXCEPT ![q] = IF Live = {} THEN "find" ELSE "upsert"]
  /\ todo' = [todo EXCEPT ![q] = {<<c, provider[c]>> : c \in Live}]
  /\ found' = [found EXCEPT ![q] = {RowOf(c) : c \in Live}]
  /\ calm' = [calm EXCEPT ![q] = TRUE]
  /\ UNCHANGED <<world, refs, list, resume>>

Mirror(s) == IF s = "error" THEN "FAILED" ELSE "READY"

\* Mutant: the status of a row that exists is left alone.
SyncUpsertCreates(q) ==
  /\ pc[q] = "upsert"
  /\ \E c \in todo[q] :
       /\ IF ref[RowOf(c[1])].id # 0 THEN UNCHANGED <<ref, nextId>>
          ELSE Upsert(RowOf(c[1]), {c[1]}, Mirror(c[2]))
       /\ todo' = [todo EXCEPT ![q] = @ \ {c}]
       /\ pc' = [pc EXCEPT ![q] = IF todo[q] = {c} THEN "find" ELSE @]
  /\ Disturbed(Requests \ {q})
  /\ UNCHANGED <<world, completed, raced, found, list, resume, bounds>>

\* The list has any order: of several connections of a row the last one wins.
SyncUpsert(q) ==
  /\ pc[q] = "upsert"
  /\ \E c \in todo[q] :
       /\ Upsert(RowOf(c[1]), {c[1]}, Mirror(c[2]))
       /\ todo' = [todo EXCEPT ![q] = @ \ {c}]
       /\ pc' = [pc EXCEPT ![q] = IF todo[q] = {c} THEN "find" ELSE @]
  /\ Disturbed(Requests \ {q})
  /\ UNCHANGED <<world, completed, raced, found, list, resume, bounds>>

\* The rows that the list did not have, by id.
SyncFind(q) ==
  /\ pc[q] = "find"
  /\ pc' = [pc EXCEPT ![q] = "delete"]
  /\ found' = [found EXCEPT ![q] = {ref[w].id : w \in Rows \ @} \ {0}]
  /\ UNCHANGED <<world, refs, todo, calm, list, resume, bounds>>

SyncDelete(q) ==
  /\ pc[q] = "delete"
  /\ pc' = [pc EXCEPT ![q] = "idle"]
  /\ ref' = [w \in Rows |-> IF ref[w].id \in found[q] THEN NoRow ELSE ref[w]]
  /\ found' = [found EXCEPT ![q] = {}]
  /\ Disturbed(Requests \ {q})
  /\ UNCHANGED <<world, nextId, completed, raced, todo, list, resume, bounds>>

-----------------------------------------------------------------------------
(* The endpoint and its list of integrations.                                *)

\* configureEndpoint and syncIntegrations go on with the account they wrote or
\* read, whatever the configuration says later.
FetchesFrom(q, a) ==
  /\ pc' = [pc EXCEPT ![q] = "fetch"]
  /\ found' = [found EXCEPT ![q] = {a}]
  /\ UNCHANGED <<provider, authorized, ref, nextId, raced, todo, list, resume>>

\* The configuration is written in a statement of its own.
ConfigureEndpoint(q, a) ==
  /\ Begin(q)
  /\ endpoint' = a
  /\ completed' = IF a = endpoint THEN completed ELSE {}
  /\ Disturbed(IF a = endpoint THEN {} ELSE Requests)
  /\ FetchesFrom(q, a)

SyncIntegrations(q) ==
  /\ Begin(q)
  /\ FetchesFrom(q, endpoint)
  /\ UNCHANGED <<endpoint, completed, calm>>

ListFetch(q) ==
  /\ pc[q] = "fetch"
  /\ \E a \in found[q] : \E answer \in Offers[a] : todo' = [todo EXCEPT ![q] = answer]
  /\ pc' = [pc EXCEPT ![q] = "clear"]
  /\ found' = [found EXCEPT ![q] = {}]
  /\ UNCHANGED <<world, refs, calm, list, resume, bounds>>

Answers == UNION {Offers[a] : a \in Accounts}
Inserting == {q \in Requests : pc[q] = "insert"}

\* An empty answer is not inserted: the deletion was all.
ListClear(q) ==
  /\ pc[q] = "clear"
  /\ available' = {}
  /\ pc' = [pc EXCEPT ![q] = IF todo[q] = {} THEN "idle" ELSE "insert"]
  /\ bare' = (bare \/ todo[q] = {})
  /\ blended' = \E p, r \in Inserting' : todo[p] \cap todo[r] = {}
  /\ UNCHANGED <<world, refs, todo, found, calm, resume, bounds>>

\* Mutant: rows that exist are skipped instead of refused.
ListInsertSkips(q) ==
  /\ pc[q] = "insert"
  /\ available' = available \cup todo[q]
  /\ pc' = [pc EXCEPT ![q] = "idle"]
  /\ todo' = [todo EXCEPT ![q] = {}]
  /\ bare' = FALSE
  /\ UNCHANGED <<world, refs, found, calm, blended, resume, bounds>>

\* createMany: one row that is there already refuses them all.
ListInsert(q) ==
  /\ pc[q] = "insert"
  /\ available' = IF available \cap todo[q] = {} THEN available \cup todo[q] ELSE available
  /\ pc' = [pc EXCEPT ![q] = "idle"]
  /\ todo' = [todo EXCEPT ![q] = {}]
  /\ bare' = FALSE
  /\ UNCHANGED <<world, refs, found, calm, blended, resume, bounds>>

\* Mutant: a synchronisation that fails deletes what it has not upserted.
RequestFailsLate(q) ==
  /\ pc[q] # "idle" /\ faults < MaxFaults
  /\ faults' = faults + 1
  /\ pc' = [pc EXCEPT ![q] = IF @ = "upsert" THEN "find" ELSE "idle"]
  /\ found' = [found EXCEPT ![q] = IF pc[q] = "upsert" THEN @ \ {RowOf(c[1]) : c \in todo[q]} ELSE {}]
  /\ todo' = [todo EXCEPT ![q] = {}]
  /\ calm' = [calm EXCEPT ![q] = FALSE]
  /\ bare' = (bare \/ pc[q] = "insert")
  /\ UNCHANGED <<world, refs, available, blended, resume, requests, changes>>

\* A statement or a publish fails: the request ends there, caught or not.
RequestFails(q) ==
  /\ pc[q] # "idle" /\ faults < MaxFaults
  /\ faults' = faults + 1
  /\ pc' = [pc EXCEPT ![q] = "idle"]
  /\ todo' = [todo EXCEPT ![q] = {}]
  /\ found' = [found EXCEPT ![q] = {}]
  /\ calm' = [calm EXCEPT ![q] = FALSE]
  /\ bare' = (bare \/ pc[q] = "insert")
  /\ UNCHANGED <<world, refs, available, blended, resume, requests, changes>>

-----------------------------------------------------------------------------
(* The runtime: handle_connection_completed and handle_resume_requested.     *)

Gateway == UNCHANGED <<world, refs, procs, list, requests, changes>>

\* Mutant: the next message replaces what the loop has left.
WakeOverlapping(k) ==
  /\ k \in announced
  /\ announced' = announced \ {k}
  /\ waking' = {r \in Runs : row[r] = "PAUSED" /\ <<k, Need[r]>> \in Prefix}
  /\ UNCHANGED <<asked, row, resuming, faults>> /\ Gateway

\* The query: paused runs whose reason starts with the key, of any workspace.
Wake(k) ==
  /\ k \in announced /\ waking = {}
  /\ announced' = announced \ {k}
  /\ waking' = {r \in Runs : row[r] = "PAUSED" /\ <<k, Need[r]>> \in Prefix}
  /\ UNCHANGED <<asked, row, resuming, faults>> /\ Gateway

\* Its loop of publishes; the first that fails ends it.
WakePublish(r) ==
  /\ r \in waking
  /\ \/ waking' = waking \ {r} /\ asked' = Append(asked, r) /\ UNCHANGED faults
     \/ waking' = {} /\ faults < MaxFaults /\ faults' = faults + 1 /\ UNCHANGED asked
  /\ UNCHANGED <<announced, row, resuming>> /\ Gateway

\* resumeRun of the gateway, for a run that is paused when it looks.
UserResumes(q, r) ==
  /\ Begin(q) /\ row[r] = "PAUSED"
  /\ asked' = Append(asked, r)
  /\ UNCHANGED <<world, refs, procs, list, announced, waking, row, resuming>>

\* A message is taken when the one before is done; a run that is not paused any
\* more is left alone, which makes a second message harmless.
ResumeTake ==
  /\ asked # <<>> /\ resuming = {}
  /\ asked' = Tail(asked)
  /\ IF row[Head(asked)] = "PAUSED"
     THEN /\ row' = [row EXCEPT ![Head(asked)] = "RUNNING"]
          /\ resuming' = {Head(asked)}
     ELSE UNCHANGED <<row, resuming>>
  /\ UNCHANGED <<announced, waking, faults>> /\ Gateway

\* The executor ends, and its outcome is committed and announced.
ResumeSettles(r) ==
  /\ r \in resuming
  /\ row' = [row EXCEPT ![r] = "SETTLED"]
  /\ resuming' = {}
  /\ UNCHANGED <<announced, waking, asked, faults>> /\ Gateway

\* Any exception is only logged: the row stays RUNNING for good.
ResumeFails(r) ==
  /\ r \in resuming /\ faults < MaxFaults
  /\ faults' = faults + 1
  /\ resuming' = {}
  /\ UNCHANGED <<announced, waking, asked, row>> /\ Gateway

-----------------------------------------------------------------------------
ConnectionCompleted == (\E k \in Keys : Wake(k)) \/ \E r \in Runs : WakePublish(r)
ResumeRequested == ResumeTake \/ \E r \in Runs : ResumeSettles(r)

Next ==
  \/ \E c \in Conns : Authorize(c) \/ ProviderChanges(c) \/ SocketCompletes(c)
  \/ \E q \in Requests :
       \/ CompletePublish(q) \/ RequestFails(q)
       \/ SyncList(q) \/ SyncUpsert(q) \/ SyncFind(q) \/ SyncDelete(q)
       \/ SyncIntegrations(q) \/ ListFetch(q) \/ ListClear(q) \/ ListInsert(q)
       \/ \E a \in Accounts : ConfigureEndpoint(q, a)
       \/ \E c \in Conns : CompleteUpsert(q, c)
       \/ \E w \in Rows : CreateConnectionRef(q, w) \/ MarkReady(q, w)
       \/ \E r \in Runs : UserResumes(q, r)
  \/ ConnectionCompleted \/ ResumeRequested \/ \E r \in Runs : ResumeFails(r)

\* The runtime handles the messages of each of its two subscriptions. No user is
\* obliged to anything, and no request of the gateway to go on.
Fairness == WF_vars(ConnectionCompleted) /\ WF_vars(ResumeRequested)

Spec == Init /\ [][Next]_vars
FairSpec == Spec /\ Fairness

-----------------------------------------------------------------------------
(* Properties.                                                               *)

\* A connection that a client reported has a READY row as long as it is sound:
\* it works at the endpoint's account, no other connection of its row is broken
\* there, and the provider lists it under its end user. Synchronisations before
\* and after, and such as fail in the middle, keep the row. Not so the row of a
\* connection reported during a synchronisation, whose older list overwrites or
\* deletes it.
CompletedStaysReady ==
  \A c \in completed \ raced : ref[RowOf(c)].status = "READY"

\* A synchronisation during which nobody else wrote leaves a row exactly where
\* the endpoint lists a connection, and the row's connection and status are those
\* of one and the same, whatever rows there were before.
SyncIsFaithful ==
  [][\A q \in Requests :
       pc[q] = "delete" /\ pc'[q] = "idle" /\ calm'[q] =>
         \A w \in Rows :
           IF Shared(w) = {} THEN ref'[w] = NoRow
           ELSE \E c \in Shared(w) : ref'[w].conn = {c} /\ ref'[w].status = Mirror(provider[c])]_vars

\* However list synchronisations interleave, the integrations are those of one
\* answer of the provider, unless two answers with nothing in common were to be
\* inserted at once; and there are none at all only before the first, between
\* two statements, after an empty answer or after a failure.
ListIsWhole ==
  /\ blended \/ available \in Answers \cup {{}}
  /\ available = {} => bare \/ Inserting # {}

\* A run that waits for a connection is settled after it was completed, unless a
\* fault gets in the way, however many runs wait and whoever else resumes them.
WokenRunSettles ==
  \A r \in Runs :
    (row[r] = "PAUSED" /\ Need[r] \in announced) ~> (row[r] = "SETTLED" \/ faults > 0)
=============================================================================
