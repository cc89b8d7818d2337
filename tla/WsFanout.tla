------------------------------ MODULE WsFanout ------------------------------
(***************************************************************************)
(* The websocket-service: browsers connect, prove an API key, submit       *)
(* commands and are told every event of their workspace.                   *)
(*                                                                         *)
(* The service reads its events from durable JetStream consumers and       *)
(* acknowledges an event after it was handed to the sockets that are       *)
(* registered for its workspace at that moment. A client's messages are    *)
(* handled concurrently: handleAuth waits for the database, and the socket *)
(* may close, or prove another key, before the answer arrives.             *)
(*                                                                         *)
(* One process: JetStream refuses a second subscription to a durable push  *)
(* consumer while the first is bound, so a second replica fails to start.  *)
(*                                                                         *)
(* Bounds: MaxCrashes, and MaxLostAcks for acknowledgements that do not    *)
(* reach the server, after which the event is pushed again.                *)
(***************************************************************************)
EXTENDS Integers, FiniteSets

CONSTANTS
  Sockets,      \* the connections browsers will open
  Workspaces,
  KeysOf,       \* KeysOf[s]: the workspaces whose API key the client of s holds
  Events,       \* the events other services will publish
  WorkspaceOf,  \* WorkspaceOf[e]: the workspaceId in the payload of e
  NoWorkspace,  \* client.workspaceId of a socket that proved no key
  MaxCrashes,
  MaxLostAcks

ASSUME KeysAssumption == KeysOf \in [Sockets -> SUBSET Workspaces]
ASSUME EventsAssumption == WorkspaceOf \in [Events -> Workspaces]
ASSUME NoWorkspaceAssumption == NoWorkspace \notin Workspaces
ASSUME BoundsAssumption == MaxCrashes \in Nat /\ MaxLostAcks \in Nat

VARIABLES
  up,           \* is the process running and subscribed
  transport,    \* transport[s]: where the connection is in its life
  workspaceId,  \* client.workspaceId
  lookups,      \* the pairs <<s, w>> whose workspace query has not answered yet
  registry,     \* WsService.workspaceSockets
  requesting,   \* the sockets whose request is being published
  published,    \* the events stored in the stream
  unacked,      \* those the service has not acknowledged
  audience,     \* audience[e]: the sockets listening since e was published
  received,     \* received[s]: the events sent to s while it is open
  raced,        \* the sockets registered after their close, or for two workspaces
  crashes,
  lostAcks

clients == <<transport, workspaceId, lookups, registry, raced>>
stream == <<published, unacked, lostAcks>>
views == <<audience, received>>
process == <<up, crashes>>
vars == <<clients, requesting, stream, views, process>>

TransportState == {"new", "open", "closing", "closed"}

\* One type invariant: every variable holds what the service's maps and the
\* stream can hold (ws.service.ts:7, ws.gateway.ts:16-20).
TypeOK ==
  /\ up \in BOOLEAN
  /\ transport \in [Sockets -> TransportState]
  /\ workspaceId \in [Sockets -> Workspaces \cup {NoWorkspace}]
  /\ lookups \subseteq Sockets \X Workspaces
  /\ registry \in [Workspaces -> SUBSET Sockets]
  /\ requesting \subseteq Sockets
  /\ published \subseteq Events
  /\ unacked \subseteq published
  /\ audience \in [Events -> SUBSET Sockets]
  /\ received \in [Sockets -> SUBSET Events]
  /\ raced \subseteq Sockets
  /\ crashes \in Nat
  /\ lostAcks \in Nat

Init ==
  /\ up = TRUE
  /\ transport = [s \in Sockets |-> "new"]
  /\ workspaceId = [s \in Sockets |-> NoWorkspace]
  /\ lookups = {}
  /\ registry = [w \in Workspaces |-> {}]
  /\ requesting = {}
  /\ published = {}
  /\ unacked = {}
  /\ audience = [e \in Events |-> {}]
  /\ received = [s \in Sockets |-> {}]
  /\ raced = {}
  /\ crashes = 0
  /\ lostAcks = 0

-----------------------------------------------------------------------------
(* Connections and their authentication.                                   *)

HandleConnection(s) ==
  /\ up
  /\ transport[s] = "new"
  /\ transport' = [transport EXCEPT ![s] = "open"]
  /\ UNCHANGED <<workspaceId, lookups, registry, raced, requesting, stream, views, process>>

\* handleAuth up to its await. The client may send any key, any number of times.
AuthSubmit(s, w) ==
  /\ up
  /\ transport[s] = "open"
  /\ lookups' = lookups \cup {<<s, w>>}
  /\ UNCHANGED <<transport, workspaceId, registry, raced, requesting, stream, views, process>>

\* Mutant: the socket is registered whether or not the query found the workspace.
AuthWithoutCheck(s, w) ==
  /\ <<s, w>> \in lookups
  /\ lookups' = lookups \ {<<s, w>>}
  /\ workspaceId' = [workspaceId EXCEPT ![s] = w]
  /\ registry' = [registry EXCEPT ![w] = @ \cup {s}]
  /\ UNCHANGED <<transport, raced, requesting, stream, views, process>>

\* The query found the workspace of the key: nothing looks at the transport.
AuthSucceed(s, w) ==
  /\ <<s, w>> \in lookups
  /\ w \in KeysOf[s]
  /\ lookups' = lookups \ {<<s, w>>}
  /\ workspaceId' = [workspaceId EXCEPT ![s] = w]
  /\ registry' = [registry EXCEPT ![w] = @ \cup {s}]
  /\ raced' = IF transport[s] = "closed" \/ workspaceId[s] \notin {NoWorkspace, w}
              THEN raced \cup {s} ELSE raced
  /\ UNCHANGED <<transport, requesting, stream, views, process>>

\* No workspace has that key, or the query failed: an earlier proof stands.
AuthFail(s, w) ==
  /\ <<s, w>> \in lookups
  /\ lookups' = lookups \ {<<s, w>>}
  /\ UNCHANGED <<transport, workspaceId, registry, raced, requesting, stream, views, process>>

\* readyState leaves OPEN before the close event is handled.
Close(s) ==
  /\ transport[s] = "open"
  /\ transport' = [transport EXCEPT ![s] = "closing"]
  /\ audience' = [e \in Events |-> audience[e] \ {s}]
  /\ received' = [received EXCEPT ![s] = {}]
  /\ UNCHANGED <<workspaceId, lookups, registry, raced, requesting, stream, process>>

\* Mutant: WsService.unregister drops the workspace's entry without asking
\* whether sockets are left in it.
UnregisterAll(w, s) == [registry EXCEPT ![w] = IF s \in @ THEN {} ELSE @]

Unregister(w, s) == [registry EXCEPT ![w] = @ \ {s}]

\* Mutant: the close is handled, the registry is left as it is.
DisconnectOnly(s) ==
  /\ transport[s] = "closing"
  /\ transport' = [transport EXCEPT ![s] = "closed"]
  /\ UNCHANGED <<workspaceId, lookups, registry, raced, requesting, stream, views, process>>

\* handleDisconnect knows the last workspace only.
HandleDisconnect(s) ==
  /\ transport[s] = "closing"
  /\ transport' = [transport EXCEPT ![s] = "closed"]
  /\ registry' = IF workspaceId[s] = NoWorkspace THEN registry
                 ELSE Unregister(workspaceId[s], s)
  /\ UNCHANGED <<workspaceId, lookups, raced, requesting, stream, views, process>>

-----------------------------------------------------------------------------
(* Requests: agent_command_submit, agent_plan_confirm and the two          *)
(* connection messages share the check, the await and the publish.         *)

\* Mutant: the request is not checked for a workspace.
RequestUnchecked(s) ==
  /\ up
  /\ transport[s] = "open"
  /\ requesting' = requesting \cup {s}
  /\ UNCHANGED <<clients, stream, views, process>>

Request(s) ==
  /\ up
  /\ transport[s] = "open"
  /\ workspaceId[s] # NoWorkspace
  /\ requesting' = requesting \cup {s}
  /\ UNCHANGED <<clients, stream, views, process>>

\* The payload carries the workspaceId the client has by now. The other
\* services read it; a publish that raises only ends the handler.
RequestPublish(s) ==
  /\ s \in requesting
  /\ requesting' = requesting \ {s}
  /\ UNCHANGED <<clients, stream, views, process>>

-----------------------------------------------------------------------------
(* Events.                                                                 *)

Listening(w) == {s \in registry[w] : transport[s] = "open"}

Publish(e) ==
  /\ e \notin published
  /\ published' = published \cup {e}
  /\ unacked' = unacked \cup {e}
  /\ audience' = [audience EXCEPT ![e] = Listening(WorkspaceOf[e])]
  /\ UNCHANGED <<received, lostAcks, clients, requesting, process>>

\* WsService.sendToWorkspace.
SendToWorkspace(e) ==
  received' = [s \in Sockets |-> IF s \in Listening(WorkspaceOf[e])
                                 THEN received[s] \cup {e} ELSE received[s]]

\* Mutant: an event for a workspace nobody listens to is refused with nak.
ConsumeWithAudience(e) ==
  /\ up
  /\ e \in unacked
  /\ Listening(WorkspaceOf[e]) # {}
  /\ SendToWorkspace(e)
  /\ unacked' = unacked \ {e}
  /\ UNCHANGED <<audience, lostAcks, published, clients, requesting, process>>

\* The handler of the subject, sendToWorkspace, then msg.ack(). Nothing but a
\* settled promise is awaited between them.
Consume(e) ==
  /\ up
  /\ e \in unacked
  /\ SendToWorkspace(e)
  /\ \/ unacked' = unacked \ {e} /\ UNCHANGED lostAcks
     \/ lostAcks < MaxLostAcks /\ lostAcks' = lostAcks + 1 /\ UNCHANGED unacked
  /\ UNCHANGED <<audience, published, clients, requesting, process>>

-----------------------------------------------------------------------------
(* The process.                                                            *)

\* Everything in memory is gone and every connection with it; the durable
\* consumers keep what was not acknowledged.
Crash ==
  /\ up
  /\ crashes < MaxCrashes
  /\ crashes' = crashes + 1
  /\ up' = FALSE
  /\ transport' = [s \in Sockets |-> IF transport[s] = "new" THEN "new" ELSE "closed"]
  /\ registry' = [w \in Workspaces |-> {}]
  /\ lookups' = {}
  /\ requesting' = {}
  /\ audience' = [e \in Events |-> {}]
  /\ received' = [s \in Sockets |-> {}]
  /\ UNCHANGED <<workspaceId, raced, stream>>

Restart ==
  /\ ~up
  /\ up' = TRUE
  /\ UNCHANGED <<clients, requesting, stream, views, crashes>>

-----------------------------------------------------------------------------
Next ==
  \/ \E s \in Sockets :
        \/ HandleConnection(s) \/ Close(s) \/ HandleDisconnect(s)
        \/ Request(s) \/ RequestPublish(s)
        \/ \E w \in Workspaces : AuthSubmit(s, w) \/ AuthSucceed(s, w) \/ AuthFail(s, w)
  \/ \E e \in Events : Publish(e) \/ Consume(e)
  \/ Crash \/ Restart

\* The event loop runs every ready subscription, and the container is restarted
\* when it exits. Browsers and other services are obliged to nothing.
Fairness ==
  /\ WF_vars(Restart)
  /\ \A e \in Events : WF_vars(Consume(e))

Spec == Init /\ [][Next]_vars
FairSpec == Spec /\ Fairness
-----------------------------------------------------------------------------
(* Properties.                                                             *)

\* A client sees the events of the workspaces whose key it holds and of no
\* other, whatever keys it tried, in whatever order its lookups were answered.
OnlyItsWorkspaces ==
  \A s \in Sockets : \A e \in received[s] : WorkspaceOf[e] \in KeysOf[s]

\* Whenever the payload of a request is built, and that is after an await, it
\* names a workspace whose key the client holds, whatever other keys the client
\* tried between the check and the publish.
RequestsAreAuthenticated ==
  \A s \in requesting : workspaceId[s] \in KeysOf[s]

\* An acknowledged event was sent to everybody who was listening when it was
\* published and has not gone since, whoever else came, left or proved a key.
NoMissedEvent ==
  \A e \in published \ unacked : \A s \in audience[e] : e \in received[s]

\* The registry forgets a socket whose close was handled, except in two cases:
\* its lookup was answered after the close, or it had proved two keys.
LeaksOnlyByRace ==
  \A w \in Workspaces : \A s \in registry[w] : transport[s] = "closed" => s \in raced

\* Every event is consumed in the end, crashes and lost acknowledgements
\* notwithstanding, also when nobody listens to its workspace.
EveryEventIsConsumed ==
  \A e \in Events : e \in published ~> e \notin unacked

-----------------------------------------------------------------------------
(* The inductive invariants behind these properties (WsFanoutProofs).      *)

\* What a socket is registered for, it proved.
Proved ==
  /\ \A s \in Sockets : workspaceId[s] # NoWorkspace => workspaceId[s] \in KeysOf[s]
  /\ \A w \in Workspaces : \A s \in registry[w] : w \in KeysOf[s]

\* Whoever publishes a request has proved a key.
RequestsKnowWorkspace == \A s \in requesting : workspaceId[s] # NoWorkspace

\* Whoever listened to an event's workspace when it was published still does.
AudienceListens ==
  \A e \in Events : audience[e] \subseteq Listening(WorkspaceOf[e])

\* A socket that did not race is registered where handleDisconnect will look.
OneWorkspace ==
  \A w \in Workspaces : \A s \in registry[w] : s \in raced \/ workspaceId[s] = w
=============================================================================
