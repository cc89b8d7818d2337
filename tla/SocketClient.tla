---------------------------- MODULE SocketClient ----------------------------
(***************************************************************************)
(* The three clients of the websocket-service, each a class with one       *)
(* socket of its own, a timer to reconnect and, two of them, a ping:       *)
(*                                                                         *)
(*   - "sdk":     packages/sdk, whose connect() returns a promise;         *)
(*   - "console": frontend/web, connected by the hook useWebSocket;        *)
(*   - "chat":    examples/chat-app, connected by the hook useAgentChat.   *)
(*                                                                         *)
(* They are the same but for the differences named below. A step is one    *)
(* callback of the event loop. A socket that was replaced keeps its        *)
(* handlers, and these speak of this.ws, which is another socket by then.  *)
(*                                                                         *)
(* The server logs an error in handling auth, for instance of its query,   *)
(* and neither answers nor closes the socket. Left out: a constructor that *)
(* raises, and what an exception in onopen does to the application.        *)
(*                                                                         *)
(* Bounds: Places, that is how many may exist at a time, MaxTimers,        *)
(* MaxConnects, how often connect() is called, and MaxDrops, how often the *)
(* network or the server ends a connection, or a socket fails as it closes.*)
(***************************************************************************)
EXTENDS Integers, FiniteSets

CONSTANTS
  Clients,     \* the kinds of client to look at
  Places,      \* places for sockets, used again when the close was handled
  NoSocket,    \* this.ws = null
  MaxTimers,
  MaxConnects,
  MaxDrops

ASSUME ClientsAssumption == Clients \subseteq {"sdk", "console", "chat"}
ASSUME PlacesAssumption == NoSocket \notin Places
ASSUME SCBoundsAssumption == MaxTimers \in Nat /\ MaxConnects \in Nat /\ MaxDrops \in Nat

VARIABLES
  client,      \* which of the clients this is
  valid,       \* is its API key valid
  inUse,       \* connect() was called, disconnect() was not called since
  phase,       \* phase[s]: readyState of s, "free" when its close was handled
  current,     \* this.ws
  asked,       \* the sockets that sent auth and have no answer yet
  authed,      \* the sockets that had auth_success
  ignored,     \* the sockets whose last auth the server failed to handle
  timers,      \* how many reconnection timers are armed
  timerKept,   \* this.reconnectTimer is one of them
  pings,       \* how many ping intervals run
  pingKept,    \* this.pingInterval is one of them
  promise,     \* state of the last promise of connect()
  promiseOf,   \* the socket whose messages would settle it
  overlapped,  \* connect() was called with a socket or a timer still there
  connects,
  drops

world == <<client, valid>>
sockets == <<phase, current, asked, authed, ignored>>
reconnect == <<timers, timerKept>>
ping == <<pings, pingKept>>
answer == <<promise, promiseOf>>
counters == <<connects, drops>>
SCVars == <<world, inUse, sockets, reconnect, ping, answer, overlapped, counters>>

Phase == {"free", "connecting", "open", "closing"}
Sock == Places \cup {NoSocket}

\* One type invariant: a handle that was kept is of something that runs, a
\* server knows open sockets only, and a promise is of an SDK.
SCTypeOK ==
  /\ client \in Clients /\ valid \in BOOLEAN
  /\ inUse \in BOOLEAN /\ overlapped \in BOOLEAN
  /\ phase \in [Places -> Phase] /\ current \in Sock
  /\ asked \cup authed \cup ignored \subseteq {s \in Places : phase[s] \in {"open", "closing"}}
  /\ timers \in Nat /\ timerKept \in BOOLEAN /\ (timerKept => timers > 0)
  /\ pings \in Nat /\ pingKept \in BOOLEAN /\ (pingKept => pings > 0)
  /\ promise \in {"none", "pending", "resolved", "rejected"} /\ promiseOf \in Sock
  /\ connects \in Nat /\ drops \in Nat

SCInit ==
  /\ client \in Clients /\ valid \in BOOLEAN
  /\ inUse = FALSE /\ overlapped = FALSE /\ connects = 0 /\ drops = 0
  /\ phase = [s \in Places |-> "free"] /\ current = NoSocket
  /\ asked = {} /\ authed = {} /\ ignored = {}
  /\ timers = 0 /\ timerKept = FALSE
  /\ pings = 0 /\ pingKept = FALSE
  /\ promise = "none" /\ promiseOf = NoSocket

-----------------------------------------------------------------------------
Is(s, p) == s # NoSocket /\ phase[s] = p

\* new WebSocket(): the client forgets the socket it had.
Open(s) ==
  /\ phase[s] = "free"
  /\ phase' = [phase EXCEPT ![s] = "connecting"]
  /\ current' = s
  /\ UNCHANGED <<asked, authed, ignored>>

\* doConnect: the chat keeps a socket that is open, though not one that is
\* still connecting; the others always open another.
DoConnect ==
  IF client = "chat" /\ Is(current, "open")
  THEN UNCHANGED sockets
  ELSE \E s \in Places : Open(s)

\* Mutant: the handle is forgotten and the interval goes on.
StopPingOnly ==
  /\ pings' = pings
  /\ pingKept' = FALSE

StopPing ==
  IF client = "console"
  THEN UNCHANGED ping
  ELSE /\ pings' = IF pingKept THEN pings - 1 ELSE pings
       /\ pingKept' = FALSE

\* The SDK does not stop the ping it had.
StartPing(stopped) ==
  /\ pings' = IF stopped /\ pingKept THEN pings ELSE pings + 1
  /\ pingKept' = TRUE

-----------------------------------------------------------------------------
(* Calls of the application. A hook connects when its page is mounted and    *)
(* disconnects when it is unmounted; an application may call the SDK's       *)
(* connect() as often as it likes.                                           *)

Connect ==
  /\ client = "sdk" \/ ~inUse
  /\ connects < MaxConnects
  /\ connects' = connects + 1
  /\ inUse' = TRUE
  /\ overlapped' = (overlapped \/ timers > 0 \/ \E s \in Places : phase[s] # "free")
  /\ DoConnect
  /\ IF client = "sdk"
     THEN promise' = "pending" /\ promiseOf' = current'
     ELSE UNCHANGED answer
  /\ UNCHANGED <<world, reconnect, ping, drops>>

\* Mutant: the timer is left to fire.
DisconnectSocket ==
  /\ inUse
  /\ inUse' = FALSE
  /\ StopPing
  /\ phase' = [s \in Places |->
       IF s = current /\ phase[s] # "free" THEN "closing" ELSE phase[s]]
  /\ current' = NoSocket
  /\ UNCHANGED <<world, asked, authed, ignored, reconnect, answer, overlapped, counters>>

\* The timer whose handle was kept is cleared, and this.ws is closed.
Disconnect ==
  /\ inUse
  /\ inUse' = FALSE
  /\ timers' = (IF timerKept THEN timers - 1 ELSE timers)
  /\ timerKept' = FALSE
  /\ StopPing
  /\ phase' = [s \in Places |->
       IF s = current /\ phase[s] # "free" THEN "closing" ELSE phase[s]]
  /\ current' = NoSocket
  /\ UNCHANGED <<world, asked, authed, ignored, answer, overlapped, counters>>

-----------------------------------------------------------------------------
(* Events of the sockets.                                                    *)

\* onopen sends the key through this.ws, whichever socket that is by now. When it
\* is not open nothing is sent; the chat goes on to start its ping, unless this.ws
\* is connecting and its send raises.
Opened(s) ==
  /\ phase[s] = "connecting"
  /\ phase' = [phase EXCEPT ![s] = "open"]
  /\ asked' = IF current = s \/ Is(current, "open") THEN asked \cup {current} ELSE asked
  /\ IF client = "chat" /\ (current = s \/ ~Is(current, "connecting"))
     THEN StartPing(TRUE)
     ELSE UNCHANGED ping
  /\ UNCHANGED <<world, inUse, current, authed, ignored, reconnect, answer, overlapped, counters>>

Settle(s, outcome) ==
  IF promiseOf = s /\ promise = "pending"
  THEN promise' = outcome /\ promiseOf' = NoSocket
  ELSE UNCHANGED answer

\* Mutant: the promise is resolved by the handshake of a reconnection only.
AnsweredSilently(s) ==
  /\ s \in asked
  /\ asked' = asked \ {s}
  /\ ignored' = ignored \ {s}
  /\ IF valid
     THEN /\ authed' = authed \cup {s}
          /\ IF client = "sdk" THEN StartPing(FALSE) ELSE UNCHANGED ping
     ELSE UNCHANGED <<authed, ping>>
  /\ UNCHANGED <<world, inUse, phase, current, reconnect, answer, overlapped, counters>>

\* auth_success, or auth_failed: the server does not end the connection then.
Answered(s) ==
  /\ s \in asked
  /\ asked' = asked \ {s}
  /\ ignored' = ignored \ {s}
  /\ IF valid
     THEN /\ authed' = authed \cup {s}
          /\ IF client = "sdk" THEN StartPing(FALSE) ELSE UNCHANGED ping
          /\ Settle(s, "resolved")
     ELSE /\ Settle(s, "rejected")
          /\ UNCHANGED <<authed, ping>>
  /\ UNCHANGED <<world, inUse, phase, current, reconnect, overlapped, counters>>

\* handleAuth raised: the socket stays open without an answer.
Unanswered(s) ==
  /\ s \in asked
  /\ asked' = asked \ {s}
  /\ ignored' = ignored \cup {s}
  /\ UNCHANGED <<world, inUse, phase, current, authed, reconnect, ping, answer, overlapped, counters>>

\* What onclose does to come back. SDK and chat arm a timer while they are in
\* use and forget the one they had; the console arms one, in use or not, unless
\* it has one.
Arm ==
  IF (client = "console" /\ timerKept) \/ (client # "console" /\ ~inUse)
  THEN UNCHANGED reconnect
  ELSE /\ timers < MaxTimers
       /\ timers' = timers + 1
       /\ timerKept' = TRUE

\* A socket is gone: dropped, or closed as it was told, where it may still fail.
\* When it failed, the chat's onerror closes this.ws before, whichever socket that
\* is by now.
Gone(s) ==
  /\ phase[s] # "free"
  /\ \E failed \in BOOLEAN :
       /\ IF phase[s] = "closing" /\ ~failed
          THEN UNCHANGED drops
          ELSE drops < MaxDrops /\ drops' = drops + 1
       /\ phase' = [t \in Places |->
            IF t = s THEN "free"
            ELSE IF failed /\ client = "chat" /\ t = current /\ phase[t] # "free" THEN "closing"
            ELSE phase[t]]
  /\ asked' = asked \ {s}
  /\ authed' = authed \ {s}
  /\ ignored' = ignored \ {s}
  /\ promiseOf' = (IF promiseOf = s THEN NoSocket ELSE promiseOf)

\* Mutant: only a connection that had succeeded is made again.
ClosedAuthenticated(s) ==
  /\ Gone(s)
  /\ IF s \in authed THEN Arm ELSE UNCHANGED reconnect
  /\ StopPing
  /\ UNCHANGED <<world, inUse, current, promise, overlapped, connects>>

\* The close event, of this.ws or of any other socket: it stops the one ping.
Closed(s) ==
  /\ Gone(s)
  /\ Arm
  /\ StopPing
  /\ UNCHANGED <<world, inUse, current, promise, overlapped, connects>>

\* Timers fire in the order they were armed, so the one kept is the last. The
\* promise that doConnect returns here is dropped.
TimerFires ==
  /\ timers > 0
  /\ timers' = timers - 1
  /\ timerKept' = (timerKept /\ timers > 1)
  /\ DoConnect
  /\ UNCHANGED <<world, inUse, ping, answer, overlapped, counters>>

-----------------------------------------------------------------------------
SCNext ==
  \/ Connect \/ Disconnect \/ TimerFires
  \/ \E s \in Places : Opened(s) \/ Answered(s) \/ Unanswered(s) \/ Closed(s)

\* Timers fire, handshakes end, the server handles auth, though it may fail to
\* answer, and a close() that was asked for is reported. The application is
\* obliged to nothing.
SCFairness ==
  /\ WF_SCVars(TimerFires)
  /\ \A s \in Places :
       /\ WF_SCVars(Opened(s))
       /\ WF_SCVars(Answered(s) \/ Unanswered(s))
       /\ WF_SCVars(phase[s] = "closing" /\ Closed(s))

SCSpec == SCInit /\ [][SCNext]_SCVars
SCFairSpec == SCSpec /\ SCFairness

-----------------------------------------------------------------------------
(* Properties.                                                               *)

Alive == {s \in Places : phase[s] # "free"}

\* A client has one socket, or one timer, and one ping, and what it closed was
\* its own: two of anything would deliver every event twice and never go away.
\* Exempt is who called connect() before the last connection was over.
OneOfEach ==
  ~overlapped =>
    /\ Cardinality(Alive) + timers <= 1
    /\ pings <= 1
    /\ \A s \in Alive : phase[s] # "closing" => s = current

\* After disconnect() neither a timer nor a connection is left that could bring
\* events to somebody who left. Not so the console, whose close event arms the
\* timer again, and not so after an overlap, whose other timer is not cleared.
QuietAfterDisconnect ==
  ~inUse /\ ~overlapped /\ client # "console" =>
    /\ timers = 0 /\ \A s \in Alive : phase[s] = "closing"
    /\ Alive = {} => pings = 0

\* Whoever stays in use has in the end an authenticated this.ws, whatever was
\* lost before, overlaps included, or an open one whose auth the server failed to
\* handle: no client asks again.
StaysConnected ==
  <>[](inUse /\ valid) => <>[](current \in authed \cup ignored)

\* The SDK's connect() is answered, unless its own socket was lost before the
\* server answered, for a reconnection does not answer for it; the server failed
\* to handle its auth; or the key went to the socket of an overlapping connect().
ConnectSettles ==
  promise = "pending" ~>
    promise # "pending" \/ promiseOf \in ignored \cup {NoSocket} \/ overlapped
=============================================================================
