---------------------------- MODULE SocketProofs ----------------------------
(***************************************************************************)
(* The two ends of a socket. What WsFanout guarantees for every set of     *)
(* sockets, workspaces, keys and events and every number of crashes and    *)
(* lost acknowledgements; and what SocketClient guarantees for any number  *)
(* of sockets, however often connect() is called and connections are lost. *)
(***************************************************************************)
EXTENDS WsFanout, SocketClient, FiniteSetTheorems, TLAPS

-----------------------------------------------------------------------------
(* WsFanout: what each step preserves.                                       *)

\* Every step keeps the types.
LEMMA TypeOKKept ==
  ASSUME TypeOK, [Next]_vars
  PROVE  TypeOK'
<1> USE DEF TypeOK, clients, stream, views, process
<1>1. ASSUME NEW s \in Sockets, HandleConnection(s) PROVE TypeOK'
  <2>1. transport' \in [Sockets -> TransportState]
    BY <1>1 DEF HandleConnection, TransportState
  <2>2. QED
    BY <1>1, <2>1 DEF HandleConnection
<1>2. ASSUME NEW s \in Sockets, Close(s) PROVE TypeOK'
  <2>1. transport' \in [Sockets -> TransportState]
    BY <1>2 DEF Close, TransportState
  <2>2. QED
    BY <1>2, <2>1 DEF Close
<1>3. ASSUME NEW s \in Sockets, HandleDisconnect(s) PROVE TypeOK'
  <2>1. transport' \in [Sockets -> TransportState]
    BY <1>3 DEF HandleDisconnect, TransportState
  <2>2. registry' \in [Workspaces -> SUBSET Sockets]
    BY <1>3 DEF HandleDisconnect, Unregister
  <2>3. QED
    BY <1>3, <2>1, <2>2 DEF HandleDisconnect
<1>4. ASSUME NEW s \in Sockets, Request(s) PROVE TypeOK'
  BY <1>4 DEF Request
<1>5. ASSUME NEW s \in Sockets, RequestPublish(s) PROVE TypeOK'
  BY <1>5 DEF RequestPublish
<1>6. ASSUME NEW s \in Sockets, NEW w \in Workspaces, AuthSubmit(s, w) PROVE TypeOK'
  BY <1>6 DEF AuthSubmit
<1>7. ASSUME NEW s \in Sockets, NEW w \in Workspaces, AuthSucceed(s, w) PROVE TypeOK'
  <2>1. registry' \in [Workspaces -> SUBSET Sockets]
    BY <1>7 DEF AuthSucceed
  <2>2. raced' \subseteq Sockets
    BY <1>7 DEF AuthSucceed
  <2>3. QED
    BY <1>7, <2>1, <2>2 DEF AuthSucceed
<1>8. ASSUME NEW s \in Sockets, NEW w \in Workspaces, AuthFail(s, w) PROVE TypeOK'
  BY <1>8 DEF AuthFail
<1>9. ASSUME NEW e \in Events, Publish(e) PROVE TypeOK'
  <2>1. Listening(WorkspaceOf[e]) \subseteq Sockets
    BY EventsAssumption DEF Listening
  <2>2. audience' \in [Events -> SUBSET Sockets]
    BY <1>9, <2>1 DEF Publish
  <2>3. QED
    BY <1>9, <2>2 DEF Publish
<1>10. ASSUME NEW e \in Events, Consume(e) PROVE TypeOK'
  <2>1. received' \in [Sockets -> SUBSET Events]
    BY <1>10 DEF Consume, SendToWorkspace, Listening
  <2>2. QED
    BY <1>10, <2>1 DEF Consume, SendToWorkspace, Listening
<1>11. CASE Crash
  <2>1. transport' \in [Sockets -> TransportState]
    BY <1>11 DEF Crash, TransportState
  <2>2. registry' \in [Workspaces -> SUBSET Sockets]
    BY <1>11 DEF Crash
  <2>3. audience' \in [Events -> SUBSET Sockets]
    BY <1>11 DEF Crash
  <2>4. received' \in [Sockets -> SUBSET Events]
    BY <1>11 DEF Crash
  <2>5. crashes' \in Nat
    BY <1>11 DEF Crash
  <2>6. up' \in BOOLEAN
    BY <1>11 DEF Crash
  <2>7. lookups' \subseteq Sockets \X Workspaces /\ requesting' \subseteq Sockets
    BY <1>11 DEF Crash
  <2>8. UNCHANGED <<workspaceId, raced, published, unacked, lostAcks>>
    BY <1>11 DEF Crash
  <2>9. QED
    BY <2>1, <2>2, <2>3, <2>4, <2>5, <2>6, <2>7, <2>8
<1>12. CASE Restart
  BY <1>12 DEF Restart
<1>13. CASE UNCHANGED vars
  BY <1>13 DEF vars
<1>14. QED
  BY <1>1, <1>2, <1>3, <1>4, <1>5, <1>6, <1>7, <1>8, <1>9, <1>10, <1>11, <1>12, <1>13
     DEF Next

\* A socket gets a workspace, or a place in the registry, only through a lookup
\* that found the workspace of its key.
LEMMA ProvedKept ==
  ASSUME TypeOK, Proved, [Next]_vars
  PROVE  Proved'
<1> USE DEF TypeOK, Proved, clients, stream, views, process
<1>1. ASSUME NEW s \in Sockets, HandleConnection(s) PROVE Proved'
  BY <1>1 DEF HandleConnection
<1>2. ASSUME NEW s \in Sockets, Close(s) PROVE Proved'
  BY <1>2 DEF Close
<1>3. ASSUME NEW s \in Sockets, HandleDisconnect(s) PROVE Proved'
  BY <1>3 DEF HandleDisconnect, Unregister
<1>4. ASSUME NEW s \in Sockets, Request(s) PROVE Proved'
  BY <1>4 DEF Request
<1>5. ASSUME NEW s \in Sockets, RequestPublish(s) PROVE Proved'
  BY <1>5 DEF RequestPublish
<1>6. ASSUME NEW s \in Sockets, NEW w \in Workspaces, AuthSubmit(s, w) PROVE Proved'
  BY <1>6 DEF AuthSubmit
<1>7. ASSUME NEW s \in Sockets, NEW w \in Workspaces, AuthSucceed(s, w) PROVE Proved'
  BY <1>7 DEF AuthSucceed
<1>8. ASSUME NEW s \in Sockets, NEW w \in Workspaces, AuthFail(s, w) PROVE Proved'
  BY <1>8 DEF AuthFail
<1>9. ASSUME NEW e \in Events, Publish(e) PROVE Proved'
  BY <1>9 DEF Publish
<1>10. ASSUME NEW e \in Events, Consume(e) PROVE Proved'
  BY <1>10 DEF Consume
<1>11. CASE Crash
  BY <1>11 DEF Crash
<1>12. CASE Restart
  BY <1>12 DEF Restart
<1>13. CASE UNCHANGED vars
  BY <1>13 DEF vars
<1>14. QED
  BY <1>1, <1>2, <1>3, <1>4, <1>5, <1>6, <1>7, <1>8, <1>9, <1>10, <1>11, <1>12, <1>13
     DEF Next

\* client.workspaceId is never taken back.
LEMMA RequestsKnowWorkspaceKept ==
  ASSUME TypeOK, RequestsKnowWorkspace, [Next]_vars
  PROVE  RequestsKnowWorkspace'
<1> USE DEF TypeOK, RequestsKnowWorkspace, clients, stream, views, process
<1>1. ASSUME NEW s \in Sockets, HandleConnection(s) PROVE RequestsKnowWorkspace'
  BY <1>1 DEF HandleConnection
<1>2. ASSUME NEW s \in Sockets, Close(s) PROVE RequestsKnowWorkspace'
  BY <1>2 DEF Close
<1>3. ASSUME NEW s \in Sockets, HandleDisconnect(s) PROVE RequestsKnowWorkspace'
  BY <1>3 DEF HandleDisconnect
<1>4. ASSUME NEW s \in Sockets, Request(s) PROVE RequestsKnowWorkspace'
  BY <1>4 DEF Request
<1>5. ASSUME NEW s \in Sockets, RequestPublish(s) PROVE RequestsKnowWorkspace'
  BY <1>5 DEF RequestPublish
<1>6. ASSUME NEW s \in Sockets, NEW w \in Workspaces, AuthSubmit(s, w)
      PROVE  RequestsKnowWorkspace'
  BY <1>6 DEF AuthSubmit
<1>7. ASSUME NEW s \in Sockets, NEW w \in Workspaces, AuthSucceed(s, w)
      PROVE  RequestsKnowWorkspace'
  BY <1>7, NoWorkspaceAssumption DEF AuthSucceed
<1>8. ASSUME NEW s \in Sockets, NEW w \in Workspaces, AuthFail(s, w)
      PROVE  RequestsKnowWorkspace'
  BY <1>8 DEF AuthFail
<1>9. ASSUME NEW e \in Events, Publish(e) PROVE RequestsKnowWorkspace'
  BY <1>9 DEF Publish
<1>10. ASSUME NEW e \in Events, Consume(e) PROVE RequestsKnowWorkspace'
  BY <1>10 DEF Consume
<1>11. CASE Crash
  BY <1>11 DEF Crash
<1>12. CASE Restart
  BY <1>12 DEF Restart
<1>13. CASE UNCHANGED vars
  BY <1>13 DEF vars
<1>14. QED
  BY <1>1, <1>2, <1>3, <1>4, <1>5, <1>6, <1>7, <1>8, <1>9, <1>10, <1>11, <1>12, <1>13
     DEF Next

\* An event is handed to the sockets registered for its workspace.
LEMMA OnlyItsWorkspacesKept ==
  ASSUME TypeOK, Proved, OnlyItsWorkspaces, [Next]_vars
  PROVE  OnlyItsWorkspaces'
<1> USE DEF TypeOK, Proved, OnlyItsWorkspaces, clients, stream, views, process
<1>1. ASSUME NEW s \in Sockets, HandleConnection(s) PROVE OnlyItsWorkspaces'
  BY <1>1 DEF HandleConnection
<1>2. ASSUME NEW s \in Sockets, Close(s) PROVE OnlyItsWorkspaces'
  BY <1>2 DEF Close
<1>3. ASSUME NEW s \in Sockets, HandleDisconnect(s) PROVE OnlyItsWorkspaces'
  BY <1>3 DEF HandleDisconnect
<1>4. ASSUME NEW s \in Sockets, Request(s) PROVE OnlyItsWorkspaces'
  BY <1>4 DEF Request
<1>5. ASSUME NEW s \in Sockets, RequestPublish(s) PROVE OnlyItsWorkspaces'
  BY <1>5 DEF RequestPublish
<1>6. ASSUME NEW s \in Sockets, NEW w \in Workspaces, AuthSubmit(s, w) PROVE OnlyItsWorkspaces'
  BY <1>6 DEF AuthSubmit
<1>7. ASSUME NEW s \in Sockets, NEW w \in Workspaces, AuthSucceed(s, w)
      PROVE  OnlyItsWorkspaces'
  BY <1>7 DEF AuthSucceed
<1>8. ASSUME NEW s \in Sockets, NEW w \in Workspaces, AuthFail(s, w) PROVE OnlyItsWorkspaces'
  BY <1>8 DEF AuthFail
<1>9. ASSUME NEW e \in Events, Publish(e) PROVE OnlyItsWorkspaces'
  BY <1>9 DEF Publish
<1>10. ASSUME NEW e \in Events, Consume(e) PROVE OnlyItsWorkspaces'
  BY <1>10, EventsAssumption DEF Consume, SendToWorkspace, Listening
<1>11. CASE Crash
  BY <1>11 DEF Crash
<1>12. CASE Restart
  BY <1>12 DEF Restart
<1>13. CASE UNCHANGED vars
  BY <1>13 DEF vars
<1>14. QED
  BY <1>1, <1>2, <1>3, <1>4, <1>5, <1>6, <1>7, <1>8, <1>9, <1>10, <1>11, <1>12, <1>13
     DEF Next

\* Whoever leaves the registry had closed its connection before.
LEMMA AudienceListensKept ==
  ASSUME TypeOK, AudienceListens, [Next]_vars
  PROVE  AudienceListens'
<1> USE DEF TypeOK, AudienceListens, Listening, clients, stream, views, process
<1>1. ASSUME NEW s \in Sockets, HandleConnection(s) PROVE AudienceListens'
  BY <1>1, EventsAssumption DEF HandleConnection
<1>2. ASSUME NEW s \in Sockets, Close(s) PROVE AudienceListens'
  BY <1>2, EventsAssumption DEF Close
<1>3. ASSUME NEW s \in Sockets, HandleDisconnect(s) PROVE AudienceListens'
  BY <1>3, EventsAssumption DEF HandleDisconnect, Unregister
<1>4. ASSUME NEW s \in Sockets, Request(s) PROVE AudienceListens'
  BY <1>4 DEF Request
<1>5. ASSUME NEW s \in Sockets, RequestPublish(s) PROVE AudienceListens'
  BY <1>5 DEF RequestPublish
<1>6. ASSUME NEW s \in Sockets, NEW w \in Workspaces, AuthSubmit(s, w) PROVE AudienceListens'
  BY <1>6 DEF AuthSubmit
<1>7. ASSUME NEW s \in Sockets, NEW w \in Workspaces, AuthSucceed(s, w) PROVE AudienceListens'
  BY <1>7, EventsAssumption DEF AuthSucceed
<1>8. ASSUME NEW s \in Sockets, NEW w \in Workspaces, AuthFail(s, w) PROVE AudienceListens'
  BY <1>8 DEF AuthFail
<1>9. ASSUME NEW e \in Events, Publish(e) PROVE AudienceListens'
  BY <1>9, EventsAssumption DEF Publish
<1>10. ASSUME NEW e \in Events, Consume(e) PROVE AudienceListens'
  BY <1>10 DEF Consume
<1>11. CASE Crash
  BY <1>11 DEF Crash
<1>12. CASE Restart
  BY <1>12 DEF Restart
<1>13. CASE UNCHANGED vars
  BY <1>13 DEF vars
<1>14. QED
  BY <1>1, <1>2, <1>3, <1>4, <1>5, <1>6, <1>7, <1>8, <1>9, <1>10, <1>11, <1>12, <1>13
     DEF Next

\* An event leaves `unacked` in the step that sends it to all who listen.
LEMMA NoMissedEventKept ==
  ASSUME TypeOK, AudienceListens, NoMissedEvent, [Next]_vars
  PROVE  NoMissedEvent'
<1> USE DEF TypeOK, AudienceListens, NoMissedEvent, clients, stream, views, process
<1>1. ASSUME NEW s \in Sockets, HandleConnection(s) PROVE NoMissedEvent'
  BY <1>1 DEF HandleConnection
<1>2. ASSUME NEW s \in Sockets, Close(s) PROVE NoMissedEvent'
  BY <1>2 DEF Close
<1>3. ASSUME NEW s \in Sockets, HandleDisconnect(s) PROVE NoMissedEvent'
  BY <1>3 DEF HandleDisconnect
<1>4. ASSUME NEW s \in Sockets, Request(s) PROVE NoMissedEvent'
  BY <1>4 DEF Request
<1>5. ASSUME NEW s \in Sockets, RequestPublish(s) PROVE NoMissedEvent'
  BY <1>5 DEF RequestPublish
<1>6. ASSUME NEW s \in Sockets, NEW w \in Workspaces, AuthSubmit(s, w) PROVE NoMissedEvent'
  BY <1>6 DEF AuthSubmit
<1>7. ASSUME NEW s \in Sockets, NEW w \in Workspaces, AuthSucceed(s, w) PROVE NoMissedEvent'
  BY <1>7 DEF AuthSucceed
<1>8. ASSUME NEW s \in Sockets, NEW w \in Workspaces, AuthFail(s, w) PROVE NoMissedEvent'
  BY <1>8 DEF AuthFail
<1>9. ASSUME NEW e \in Events, Publish(e) PROVE NoMissedEvent'
  BY <1>9 DEF Publish
<1>10. ASSUME NEW e \in Events, Consume(e) PROVE NoMissedEvent'
  BY <1>10, EventsAssumption DEF Consume, SendToWorkspace
<1>11. CASE Crash
  BY <1>11 DEF Crash
<1>12. CASE Restart
  BY <1>12 DEF Restart
<1>13. CASE UNCHANGED vars
  BY <1>13 DEF vars
<1>14. QED
  BY <1>1, <1>2, <1>3, <1>4, <1>5, <1>6, <1>7, <1>8, <1>9, <1>10, <1>11, <1>12, <1>13
     DEF Next

\* handleDisconnect finds a socket that proved one workspace in time.
LEMMA LeaksOnlyByRaceKept ==
  ASSUME TypeOK, OneWorkspace, LeaksOnlyByRace, [Next]_vars
  PROVE  (OneWorkspace /\ LeaksOnlyByRace)'
<1> USE DEF TypeOK, OneWorkspace, LeaksOnlyByRace, clients, stream, views, process
<1>1. ASSUME NEW s \in Sockets, HandleConnection(s) PROVE (OneWorkspace /\ LeaksOnlyByRace)'
  BY <1>1 DEF HandleConnection
<1>2. ASSUME NEW s \in Sockets, Close(s) PROVE (OneWorkspace /\ LeaksOnlyByRace)'
  BY <1>2 DEF Close
<1>3. ASSUME NEW s \in Sockets, HandleDisconnect(s) PROVE (OneWorkspace /\ LeaksOnlyByRace)'
  BY <1>3, NoWorkspaceAssumption DEF HandleDisconnect, Unregister
<1>4. ASSUME NEW s \in Sockets, Request(s) PROVE (OneWorkspace /\ LeaksOnlyByRace)'
  BY <1>4 DEF Request
<1>5. ASSUME NEW s \in Sockets, RequestPublish(s) PROVE (OneWorkspace /\ LeaksOnlyByRace)'
  BY <1>5 DEF RequestPublish
<1>6. ASSUME NEW s \in Sockets, NEW w \in Workspaces, AuthSubmit(s, w)
      PROVE  (OneWorkspace /\ LeaksOnlyByRace)'
  BY <1>6 DEF AuthSubmit
<1>7. ASSUME NEW s \in Sockets, NEW w \in Workspaces, AuthSucceed(s, w)
      PROVE  (OneWorkspace /\ LeaksOnlyByRace)'
  BY <1>7, NoWorkspaceAssumption DEF AuthSucceed
<1>8. ASSUME NEW s \in Sockets, NEW w \in Workspaces, AuthFail(s, w)
      PROVE  (OneWorkspace /\ LeaksOnlyByRace)'
  BY <1>8 DEF AuthFail
<1>9. ASSUME NEW e \in Events, Publish(e) PROVE (OneWorkspace /\ LeaksOnlyByRace)'
  BY <1>9 DEF Publish
<1>10. ASSUME NEW e \in Events, Consume(e) PROVE (OneWorkspace /\ LeaksOnlyByRace)'
  BY <1>10 DEF Consume
<1>11. CASE Crash
  BY <1>11 DEF Crash
<1>12. CASE Restart
  BY <1>12 DEF Restart
<1>13. CASE UNCHANGED vars
  BY <1>13 DEF vars
<1>14. QED
  BY <1>1, <1>2, <1>3, <1>4, <1>5, <1>6, <1>7, <1>8, <1>9, <1>10, <1>11, <1>12, <1>13
     DEF Next

-----------------------------------------------------------------------------
(* The inductive invariant and what follows from it.                       *)

\* Proofs of keys, audiences and the registry, taken together with the types.
IndInv ==
  /\ TypeOK
  /\ Proved
  /\ RequestsKnowWorkspace
  /\ AudienceListens
  /\ OneWorkspace
  /\ OnlyItsWorkspaces
  /\ NoMissedEvent
  /\ LeaksOnlyByRace

\* The service never leaves the inductive invariant.
THEOREM IndInvCorrect == Spec => []IndInv
<1>1. Init => IndInv
  BY NoWorkspaceAssumption, EventsAssumption
     DEF Init, IndInv, TypeOK, TransportState, Proved, RequestsKnowWorkspace,
         AudienceListens, OneWorkspace, OnlyItsWorkspaces, NoMissedEvent,
         LeaksOnlyByRace
<1>2. ASSUME IndInv, [Next]_vars PROVE IndInv'
  BY <1>2, TypeOKKept, ProvedKept, RequestsKnowWorkspaceKept, OnlyItsWorkspacesKept,
     AudienceListensKept, NoMissedEventKept, LeaksOnlyByRaceKept DEF IndInv
<1>3. QED
  BY <1>1, <1>2, PTL DEF Spec

\* The maps of the service and the stream keep their types.
THEOREM TypeCorrect == Spec => []TypeOK
<1>1. IndInv => TypeOK
  BY DEF IndInv
<1>2. QED
  BY <1>1, IndInvCorrect, PTL

\* No socket is ever sent an event of a workspace whose key its client lacks.
THEOREM WorkspacesAreSeparate == Spec => []OnlyItsWorkspaces
<1>1. IndInv => OnlyItsWorkspaces
  BY DEF IndInv
<1>2. QED
  BY <1>1, IndInvCorrect, PTL

\* Every request is published for a workspace whose key its client holds.
THEOREM RequestsAuthenticated == Spec => []RequestsAreAuthenticated
<1>1. IndInv => RequestsAreAuthenticated
  BY DEF IndInv, TypeOK, Proved, RequestsKnowWorkspace, RequestsAreAuthenticated
<1>2. QED
  BY <1>1, IndInvCorrect, PTL

\* No listener misses an event that was acknowledged.
THEOREM NothingMissed == Spec => []NoMissedEvent
<1>1. IndInv => NoMissedEvent
  BY DEF IndInv
<1>2. QED
  BY <1>1, IndInvCorrect, PTL

\* The two races are the only way to a registry entry of a closed socket.
THEOREM LeaksHaveACause == Spec => []LeaksOnlyByRace
<1>1. IndInv => LeaksOnlyByRace
  BY DEF IndInv
<1>2. QED
  BY <1>1, IndInvCorrect, PTL

-----------------------------------------------------------------------------
(* SocketClient: what holds of a client nobody overlapped.                   *)

\* The handle kept is the handle of the only timer, or of none.
TimerIsKept == timers <= 1 /\ (timers = 1 => timerKept)

\* At most one socket is there, none beside a timer, and the one that is not
\* being closed is this.ws.
OneConnection ==
  /\ \A s, t \in Alive : s = t
  /\ timers > 0 => Alive = {}
  /\ \A s \in Alive : phase[s] # "closing" => s = current

\* A ping runs only with its handle kept and its socket open or being closed, and
\* never for the console. The SDK starts it once its socket is answered, and no
\* socket is answered twice.
OnePing ==
  /\ pings <= 1 /\ (pings = 1 => pingKept) /\ (client = "console" => pings = 0)
  /\ pings = 1 => \E s \in Places : phase[s] \in {"open", "closing"}
  /\ pings = 1 /\ client = "sdk" => asked = {} /\ authed # {}
  /\ asked \cap authed = {}

\* Who left is left alone.
Left ==
  ~inUse /\ client # "console" => timers = 0 /\ \A s \in Alive : phase[s] = "closing"

IInv ==
  /\ SCTypeOK
  /\ ~overlapped => TimerIsKept /\ OneConnection /\ OnePing /\ Left

\* A socket that is gone takes with it at most the chat's this.ws, which closes.
LEMMA GoneStep ==
  ASSUME SCTypeOK, NEW s \in Places, Gone(s)
  PROVE  /\ phase' \in [Places -> Phase] /\ phase'[s] = "free" /\ phase[s] # "free"
         /\ \A t \in Places \ {s} :
              \/ phase'[t] = phase[t]
              \/ phase'[t] = "closing" /\ phase[t] # "free"
         /\ \A t \in asked' \cup authed' \cup ignored' :
              t \in Places /\ phase'[t] \in {"open", "closing"}
         /\ asked' = asked \ {s} /\ authed' = authed \ {s}
         /\ promiseOf' \in Sock /\ drops' \in Nat
<1> USE DEF SCTypeOK, Phase, Sock
<1>1. PICK failed \in BOOLEAN :
        phase' = [t \in Places |->
          IF t = s THEN "free"
          ELSE IF failed /\ client = "chat" /\ t = current /\ phase[t] # "free" THEN "closing"
          ELSE phase[t]]
  BY DEF Gone
<1>2. drops' \in Nat
  BY DEF Gone
<1>3. /\ phase' \in [Places -> Phase] /\ phase'[s] = "free" /\ phase[s] # "free"
      /\ asked' = asked \ {s} /\ authed' = authed \ {s} /\ ignored' = ignored \ {s}
      /\ promiseOf' \in Sock
  BY <1>1 DEF Gone
<1>4. \A t \in Places \ {s} : \/ phase'[t] = phase[t]
                              \/ phase'[t] = "closing" /\ phase[t] # "free"
  BY <1>1
<1>5. QED
  BY <1>2, <1>3, <1>4

\* Every step keeps the types.
LEMMA TypeStep ==
  ASSUME SCTypeOK, [SCNext]_SCVars
  PROVE  SCTypeOK'
<1> USE DEF SCTypeOK, Phase, Sock, world, sockets, reconnect, ping, answer, counters
<1>1. CASE Connect
  BY <1>1 DEF Connect, DoConnect, Open, Is
<1>2. CASE Disconnect
  <2>1. phase' \in [Places -> Phase] /\ current' \in Sock
    BY <1>2 DEF Disconnect, StopPing
  <2>2. \A t \in asked' \cup authed' \cup ignored' : t \in Places /\ phase'[t] \in {"open", "closing"}
    BY <1>2, <2>1 DEF Disconnect, StopPing
  <2>3. timers' \in Nat /\ (timerKept' => timers' > 0)
    BY <1>2 DEF Disconnect, StopPing
  <2>4. pings' \in Nat /\ (pingKept' => pings' > 0)
    BY <1>2 DEF Disconnect, StopPing
  <2>7. timerKept' \in BOOLEAN /\ pingKept' \in BOOLEAN
    BY <1>2, Zenon DEF Disconnect, StopPing
  <2>5. /\ inUse' \in BOOLEAN /\ overlapped' \in BOOLEAN /\ promiseOf' \in Sock
        /\ promise' \in {"none", "pending", "resolved", "rejected"}
        /\ connects' \in Nat /\ drops' \in Nat /\ client' \in Clients /\ valid' \in BOOLEAN
    BY <1>2 DEF Disconnect, StopPing
  <2>6. QED
    BY <2>1, <2>2, <2>3, <2>4, <2>5, <2>7
<1>3. CASE TimerFires
  <2>1. phase' \in [Places -> Phase] /\ current' \in Sock
    BY <1>3 DEF TimerFires, DoConnect, Open, Is
  <2>2. \A t \in asked' \cup authed' \cup ignored' : t \in Places /\ phase'[t] \in {"open", "closing"}
    BY <1>3, <2>1 DEF TimerFires, DoConnect, Open, Is
  <2>3. timers' \in Nat /\ (timerKept' => timers' > 0)
    <3>1. timers > 0 /\ timers' = timers - 1 /\ (timerKept' => timers > 1)
      BY <1>3, Zenon DEF TimerFires
    <3>2. QED
      BY <3>1
  <2>4. pings' \in Nat /\ (pingKept' => pings' > 0)
    BY <1>3 DEF TimerFires, DoConnect, Open, Is
  <2>7. timerKept' \in BOOLEAN /\ pingKept' \in BOOLEAN
    BY <1>3, Zenon DEF TimerFires, DoConnect, Open, Is
  <2>5. /\ inUse' \in BOOLEAN /\ overlapped' \in BOOLEAN /\ promiseOf' \in Sock
        /\ promise' \in {"none", "pending", "resolved", "rejected"}
        /\ connects' \in Nat /\ drops' \in Nat /\ client' \in Clients /\ valid' \in BOOLEAN
    BY <1>3 DEF TimerFires, DoConnect, Open, Is
  <2>6. QED
    BY <2>1, <2>2, <2>3, <2>4, <2>5, <2>7
<1>4. ASSUME NEW s \in Places, Opened(s) PROVE SCTypeOK'
  <2>1. phase' \in [Places -> Phase] /\ current' \in Sock
    BY <1>4 DEF Opened, Is, StartPing
  <2>2. \A t \in asked' \cup authed' \cup ignored' : t \in Places /\ phase'[t] \in {"open", "closing"}
    BY <1>4, <2>1 DEF Opened, Is, StartPing
  <2>3. timers' \in Nat /\ (timerKept' => timers' > 0)
    BY <1>4 DEF Opened, Is, StartPing
  <2>4. pings' \in Nat /\ (pingKept' => pings' > 0)
    BY <1>4 DEF Opened, Is, StartPing
  <2>7. timerKept' \in BOOLEAN /\ pingKept' \in BOOLEAN
    BY <1>4, Zenon DEF Opened, Is, StartPing
  <2>5. /\ inUse' \in BOOLEAN /\ overlapped' \in BOOLEAN /\ promiseOf' \in Sock
        /\ promise' \in {"none", "pending", "resolved", "rejected"}
        /\ connects' \in Nat /\ drops' \in Nat /\ client' \in Clients /\ valid' \in BOOLEAN
    BY <1>4 DEF Opened, Is, StartPing
  <2>6. QED
    BY <2>1, <2>2, <2>3, <2>4, <2>5, <2>7
<1>5. ASSUME NEW s \in Places, Answered(s) PROVE SCTypeOK'
  <2>1. phase' \in [Places -> Phase] /\ current' \in Sock
    BY <1>5 DEF Answered, StartPing, Settle
  <2>2. \A t \in asked' \cup authed' \cup ignored' : t \in Places /\ phase'[t] \in {"open", "closing"}
    BY <1>5, <2>1 DEF Answered, StartPing, Settle
  <2>3. timers' \in Nat /\ (timerKept' => timers' > 0)
    BY <1>5 DEF Answered, StartPing, Settle
  <2>4. pings' \in Nat /\ (pingKept' => pings' > 0)
    BY <1>5 DEF Answered, StartPing, Settle
  <2>7. timerKept' \in BOOLEAN /\ pingKept' \in BOOLEAN
    BY <1>5, Zenon DEF Answered, StartPing, Settle
  <2>5. /\ inUse' \in BOOLEAN /\ overlapped' \in BOOLEAN /\ promiseOf' \in Sock
        /\ promise' \in {"none", "pending", "resolved", "rejected"}
        /\ connects' \in Nat /\ drops' \in Nat /\ client' \in Clients /\ valid' \in BOOLEAN
    BY <1>5 DEF Answered, StartPing, Settle
  <2>6. QED
    BY <2>1, <2>2, <2>3, <2>4, <2>5, <2>7
<1>6. ASSUME NEW s \in Places, Closed(s) PROVE SCTypeOK'
  <2>1. /\ phase' \in [Places -> Phase] /\ promiseOf' \in Sock /\ drops' \in Nat
        /\ \A t \in asked' \cup authed' \cup ignored' : t \in Places /\ phase'[t] \in {"open", "closing"}
    BY <1>6, GoneStep DEF Closed
  <2>3. timers' \in Nat /\ (timerKept' => timers' > 0)
    BY <1>6 DEF Closed, Arm
  <2>4. pings' \in Nat /\ (pingKept' => pings' > 0)
    BY <1>6 DEF Closed, StopPing
  <2>7. timerKept' \in BOOLEAN /\ pingKept' \in BOOLEAN
    BY <1>6, Zenon DEF Closed, Arm, StopPing
  <2>5. /\ inUse' \in BOOLEAN /\ overlapped' \in BOOLEAN /\ current' \in Sock
        /\ promise' \in {"none", "pending", "resolved", "rejected"}
        /\ connects' \in Nat /\ client' \in Clients /\ valid' \in BOOLEAN
    BY <1>6 DEF Closed
  <2>6. QED
    BY <2>1, <2>3, <2>4, <2>5, <2>7
<1>7. CASE UNCHANGED SCVars
  BY <1>7 DEF SCVars
<1>8. ASSUME NEW s \in Places, Unanswered(s) PROVE SCTypeOK'
  BY <1>8 DEF Unanswered
<1>9. QED
  BY <1>1, <1>2, <1>3, <1>4, <1>5, <1>6, <1>7, <1>8 DEF SCNext

\* A timer is armed only by the close of a socket beside which there was none.
LEMMA TimerStep ==
  ASSUME IInv, [SCNext]_SCVars
  PROVE  ~overlapped' => TimerIsKept'
<1> USE DEF IInv, SCTypeOK, Phase, Sock, TimerIsKept, OneConnection, OnePing, Left, Alive,
        world, sockets, reconnect, ping, answer, counters
<1>1. CASE Connect
  BY <1>1 DEF Connect, DoConnect, Open, Is
<1>2. CASE Disconnect
  BY <1>2 DEF Disconnect, StopPing
<1>3. CASE TimerFires
  BY <1>3 DEF TimerFires, DoConnect, Open, Is
<1>4. ASSUME NEW s \in Places, Opened(s) PROVE ~overlapped' => TimerIsKept'
  BY <1>4 DEF Opened, Is, StartPing
<1>5. ASSUME NEW s \in Places, Answered(s) PROVE ~overlapped' => TimerIsKept'
  BY <1>5 DEF Answered, StartPing, Settle
<1>6. ASSUME NEW s \in Places, Closed(s) PROVE ~overlapped' => TimerIsKept'
  BY <1>6, GoneStep DEF Closed, Arm, StopPing
<1>7. CASE UNCHANGED SCVars
  BY <1>7 DEF SCVars
<1>8. ASSUME NEW s \in Places, Unanswered(s) PROVE ~overlapped' => TimerIsKept'
  BY <1>8 DEF Unanswered
<1>9. QED
  BY <1>1, <1>2, <1>3, <1>4, <1>5, <1>6, <1>7, <1>8 DEF SCNext

\* A socket is opened only when there is none: the last one was closed, or its
\* timer fires.
LEMMA OneConnectionStep ==
  ASSUME IInv, [SCNext]_SCVars
  PROVE  ~overlapped' => OneConnection'
<1> USE DEF IInv, SCTypeOK, Phase, Sock, TimerIsKept, OneConnection, OnePing, Left, Alive,
        world, sockets, reconnect, ping, answer, counters
<1>1. CASE Connect
  <2>1. SUFFICES ASSUME ~overlapped' PROVE OneConnection'
    OBVIOUS
  <2>2. ~overlapped /\ ~(timers > 0) /\ \A s \in Places : ~(phase[s] # "free")
    BY <1>1, <2>1, Zenon DEF Connect
  <2>3. QED
    BY <1>1, <2>2 DEF Connect, DoConnect, Open, Is
<1>2. CASE Disconnect
  BY <1>2 DEF Disconnect, StopPing
<1>3. CASE TimerFires
  BY <1>3 DEF TimerFires, DoConnect, Open, Is
<1>4. ASSUME NEW s \in Places, Opened(s) PROVE ~overlapped' => OneConnection'
  BY <1>4 DEF Opened, Is, StartPing
<1>5. ASSUME NEW s \in Places, Answered(s) PROVE ~overlapped' => OneConnection'
  BY <1>5 DEF Answered, StartPing, Settle
<1>6. ASSUME NEW s \in Places, Closed(s) PROVE ~overlapped' => OneConnection'
  BY <1>6, GoneStep DEF Closed, Arm, StopPing
<1>7. CASE UNCHANGED SCVars
  BY <1>7 DEF SCVars
<1>8. ASSUME NEW s \in Places, Unanswered(s) PROVE ~overlapped' => OneConnection'
  BY <1>8 DEF Unanswered
<1>9. QED
  BY <1>1, <1>2, <1>3, <1>4, <1>5, <1>6, <1>7, <1>8 DEF SCNext

\* A ping is started by the answer to its socket, or by its opening, once.
LEMMA OnePingStep ==
  ASSUME IInv, [SCNext]_SCVars
  PROVE  ~overlapped' => OnePing'
<1> USE DEF IInv, SCTypeOK, Phase, Sock, TimerIsKept, OneConnection, OnePing, Left, Alive,
        world, sockets, reconnect, ping, answer, counters
<1>1. CASE Connect
  BY <1>1 DEF Connect, DoConnect, Open, Is
<1>2. CASE Disconnect
  BY <1>2 DEF Disconnect, StopPing
<1>3. CASE TimerFires
  BY <1>3 DEF TimerFires, DoConnect, Open, Is
<1>4. ASSUME NEW s \in Places, Opened(s) PROVE ~overlapped' => OnePing'
  BY <1>4 DEF Opened, Is, StartPing
<1>5. ASSUME NEW s \in Places, Answered(s) PROVE ~overlapped' => OnePing'
  BY <1>5 DEF Answered, StartPing, Settle
<1>6. ASSUME NEW s \in Places, Closed(s) PROVE ~overlapped' => OnePing'
  BY <1>6, GoneStep DEF Closed, Arm, StopPing
<1>7. CASE UNCHANGED SCVars
  BY <1>7 DEF SCVars
<1>8. ASSUME NEW s \in Places, Unanswered(s) PROVE ~overlapped' => OnePing'
  BY <1>8 DEF Unanswered
<1>9. QED
  BY <1>1, <1>2, <1>3, <1>4, <1>5, <1>6, <1>7, <1>8 DEF SCNext

\* disconnect() clears the timer and closes the socket, and no later close arms
\* the timer again.
LEMMA LeftStep ==
  ASSUME IInv, [SCNext]_SCVars
  PROVE  ~overlapped' => Left'
<1> USE DEF IInv, SCTypeOK, Phase, Sock, TimerIsKept, OneConnection, OnePing, Left, Alive,
        world, sockets, reconnect, ping, answer, counters
<1>1. CASE Connect
  BY <1>1 DEF Connect, DoConnect, Open, Is
<1>2. CASE Disconnect
  BY <1>2 DEF Disconnect, StopPing
<1>3. CASE TimerFires
  BY <1>3 DEF TimerFires, DoConnect, Open, Is
<1>4. ASSUME NEW s \in Places, Opened(s) PROVE ~overlapped' => Left'
  BY <1>4 DEF Opened, Is, StartPing
<1>5. ASSUME NEW s \in Places, Answered(s) PROVE ~overlapped' => Left'
  BY <1>5 DEF Answered, StartPing, Settle
<1>6. ASSUME NEW s \in Places, Closed(s) PROVE ~overlapped' => Left'
  BY <1>6, GoneStep DEF Closed, Arm, StopPing
<1>7. CASE UNCHANGED SCVars
  BY <1>7 DEF SCVars
<1>8. ASSUME NEW s \in Places, Unanswered(s) PROVE ~overlapped' => Left'
  BY <1>8 DEF Unanswered
<1>9. QED
  BY <1>1, <1>2, <1>3, <1>4, <1>5, <1>6, <1>7, <1>8 DEF SCNext

LEMMA InductiveInvariant == SCSpec => []IInv
<1>1. ASSUME SCInit PROVE IInv
  <2>1. ~timerKept /\ ~pingKept /\ valid \in BOOLEAN /\ ~inUse
    BY <1>1, Zenon DEF SCInit
  <2>2. timerKept \in BOOLEAN /\ pingKept \in BOOLEAN /\ inUse \in BOOLEAN /\ overlapped \in BOOLEAN
    BY <1>1, Zenon DEF SCInit
  <2>3. SCTypeOK
    BY <1>1, <2>1, <2>2 DEF SCInit, SCTypeOK, Phase, Sock
  <2>4. TimerIsKept /\ OneConnection /\ OnePing /\ Left
    BY <1>1 DEF SCInit, TimerIsKept, OneConnection, OnePing, Left, Alive
  <2>5. QED
    BY <2>3, <2>4 DEF IInv
<1>2. IInv /\ [SCNext]_SCVars => IInv'
  BY TypeStep, TimerStep, OneConnectionStep, OnePingStep, LeftStep DEF IInv
<1>3. QED
  BY <1>1, <1>2, PTL DEF SCSpec

-----------------------------------------------------------------------------
(* Theorems.                                                                 *)

\* Handles are of something that runs and answers are of sockets that are there,
\* overlaps included.
THEOREM SCTypeCorrect == SCSpec => []SCTypeOK
<1>1. IInv => SCTypeOK
  BY DEF IInv
<1>2. QED
  BY InductiveInvariant, <1>1, PTL

\* A client that was not overlapped has one connection or one timer, one ping,
\* and closes no socket but its own.
THEOREM OneConnectionAtATime == SCSpec => []OneOfEach
<1>1. IInv => OneOfEach
  <2> SUFFICES ASSUME IInv, ~overlapped PROVE OneOfEach
    BY DEF OneOfEach
  <2> USE DEF IInv, SCTypeOK, OneConnection, TimerIsKept, OnePing
  <2>1. CASE Alive = {}
    <3>1. Cardinality(Alive) = 0
      BY <2>1, FS_EmptySet, Zenon
    <3>2. QED
      BY <2>1, <3>1 DEF OneOfEach
  <2>2. CASE Alive # {}
    <3>1. PICK s \in Alive : Alive = {s}
      BY <2>2
    <3>2. Cardinality(Alive) = 1
      BY <3>1, FS_Singleton, Zenon
    <3>3. QED
      BY <2>2, <3>2 DEF OneOfEach
  <2>3. QED
    BY <2>1, <2>2
<1>2. QED
  BY InductiveInvariant, <1>1, PTL

\* Who called disconnect() without an overlap is left with no timer and with no
\* connection but the one that is being closed, and at last with no ping.
THEOREM QuietOnceLeft == SCSpec => []QuietAfterDisconnect
<1>1. IInv => QuietAfterDisconnect
  BY DEF IInv, SCTypeOK, OnePing, Left, Alive, QuietAfterDisconnect
<1>2. QED
  BY InductiveInvariant, <1>1, PTL
=============================================================================
