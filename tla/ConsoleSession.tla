--------------------------- MODULE ConsoleSession ---------------------------
(* The session of the web console: who is signed in (hooks/use-auth.ts),    *)
(* which workspace's key every request carries (lib/api-client.ts), and the *)
(* gateway's answers to the requests that decide it.  Firebase tells the    *)
(* console who the user is; the gateway tells it which workspaces the user  *)
(* has.  Signing in asks the gateway twice, once by the listener of         *)
(* firebase and once by the handler of the form, and nothing abandons a     *)
(* question when the user leaves: an answer is handled whenever it comes.   *)
(* A workspace stands for its id, its name and its key.                     *)
EXTENDS Integers, FiniteSets

CONSTANTS
    Users,       \* people with a firebase account, now or later
    Workspaces,  \* numbers, in the order of creation
    NoOne,       \* nobody, no workspace, no key
    Broken,      \* a key or a name that JavaScript holds as undefined
    MaxAsks      \* bound: how often something is asked of the gateway

ASSUME WorkspacesAssumption == Workspaces \subseteq Nat /\ IsFiniteSet(Workspaces)
ASSUME NobodyAssumption == NoOne \notin Users \union Workspaces /\ Broken \notin Workspaces
ASSUME AsksAssumption == MaxAsks \in Nat

VARIABLES
    accounts,       \* users firebase knows
    firebase,       \* the user firebase holds as signed in, kept by the browser
    key,            \* ApiClient.apiKey, kept by the browser
    user,           \* AuthState.user
    workspace,      \* AuthState.workspaceId
    workspaces,     \* AuthState.workspaces
    initialized,    \* AuthState.initialized
    organizations,  \* users with a row of Organization
    owner,          \* the user whose organization has the workspace
    asks,           \* requests and answers under way
    asked,          \* how often something was asked
    stored          \* history: for whom the answers were that key and state hold

gatewayVars == <<organizations, owner>>
sessionVars == <<accounts, firebase, key, user, workspace, workspaces,
                 initialized, organizations, owner, asks, asked, stored>>

Own(u) == {w \in Workspaces : owner[w] = u}
Oldest(W) == CHOOSE w \in W : \A v \in W : w <= v

(* Mutant: an answer without a workspace leaves none.                      *)
DefaultOrNone(W) == IF W = {} THEN NoOne ELSE Oldest(W)

(* The first of an answer's workspaces; of none, what JavaScript reads.    *)
DefaultOf(W) == IF W = {} THEN Broken ELSE Oldest(W)
Unused == Own(NoOne)

(* A request: for whom, with which key; "half" is between the statements   *)
(* of the gateway's signup; gone when the page that asked was reloaded.    *)
Ask(op) ==
    [id |-> CHOOSE i \in 1..MaxAsks : \A c \in asks : c.id # i,
     op |-> op, as |-> key, at |-> "sent", got |-> {}, gone |-> FALSE,
     for |-> IF op = "create" /\ key \in Workspaces THEN owner[key] ELSE firebase']
Send(ops) ==
    /\ asked < MaxAsks /\ asked' = asked + 1
    /\ asks' = asks \union {Ask(op) : op \in ops}

(* Nobody is signed in, or somebody has been for a while.                  *)
SessionInit(world) ==
    /\ accounts = world.accounts /\ owner = world.owner
    /\ organizations = {u \in Users : Own(u) # {}}
    /\ firebase \in organizations \union {NoOne} /\ user = firebase
    /\ workspaces = (IF user = NoOne THEN {} ELSE Own(user))
    /\ IF user = NoOne THEN key = NoOne ELSE key = Oldest(workspaces)
    /\ workspace = key /\ initialized = TRUE
    /\ asks = {} /\ asked = 0 /\ stored = {user} \ {NoOne}

(* ------------------------------ the user ------------------------------- *)

(* The form is shown to whom the console does not know; firebase lets the  *)
(* user in, its listener and the form's handler each ask for the workspaces.*)
SignIn(u) ==
    /\ initialized /\ user = NoOne /\ u \in accounts
    /\ firebase' = u
    /\ Send(IF firebase = u THEN {"login"} ELSE {"listen", "login"})
    /\ UNCHANGED <<accounts, key, user, workspace, workspaces, initialized, gatewayVars, stored>>

SignUp(u) ==
    /\ initialized /\ user = NoOne /\ u \notin accounts
    /\ accounts' = accounts \union {u} /\ firebase' = u
    /\ Send({"listen", "signup"})
    /\ UNCHANGED <<key, user, workspace, workspaces, initialized, gatewayVars, stored>>

(* Mutant: clearAuth leaves the key where it is.                           *)
ForgetButKey ==
    /\ key' = key /\ user' = NoOne /\ workspace' = NoOne /\ workspaces' = {}
    /\ initialized' = TRUE /\ stored' = {}

(* clearAuth and the empty state: nothing of the session is left.          *)
Forget ==
    /\ key' = NoOne /\ user' = NoOne /\ workspace' = NoOne /\ workspaces' = {}
    /\ initialized' = TRUE /\ stored' = {}

SignOut ==
    /\ user # NoOne
    /\ firebase' = NoOne
    /\ Forget
    /\ UNCHANGED <<accounts, gatewayVars, asks, asked>>

(* The browser keeps the key and firebase's user, the page nothing: what   *)
(* was asked is answered to nobody.                                        *)
Reload ==
    /\ user # NoOne \/ asks # {}
    /\ LET left == {[c EXCEPT !.gone = TRUE] :
                      c \in {a \in asks : a.op \in {"signup", "create"} /\ a.at \in {"sent", "half"}}} IN
       IF firebase = NoOne
       THEN /\ Forget
            /\ asks' = left
            /\ UNCHANGED <<accounts, firebase, gatewayVars, asked>>
       ELSE /\ user' = NoOne /\ workspace' = NoOne /\ workspaces' = {}
            /\ initialized' = FALSE
            /\ asked < MaxAsks
            /\ asked' = asked + 1
            /\ firebase' = firebase
            /\ asks' = left \union {Ask("listen")}
            /\ UNCHANGED <<accounts, key, gatewayVars, stored>>

(* The menu cannot be drawn once it holds a workspace without a name.      *)
SwitchWorkspace(w) ==
    /\ user # NoOne /\ Broken \notin workspaces
    /\ w \in workspaces
    /\ key' = w /\ workspace' = w
    /\ UNCHANGED <<accounts, firebase, user, workspaces, initialized, gatewayVars, asks, asked, stored>>

CreateWorkspace ==
    /\ user # NoOne /\ Broken \notin workspaces
    /\ firebase' = firebase
    /\ Send({"create"})
    /\ UNCHANGED <<accounts, key, user, workspace, workspaces, initialized, gatewayVars, stored>>

(* ----------------------------- the gateway ----------------------------- *)

Answer(c, at, got) == asks' = (asks \ {c}) \union {[c EXCEPT !.at = at, !.got = got]}
Recorded(w, u) == w \in Unused /\ w = Oldest(Unused) /\ owner' = [owner EXCEPT ![w] = u]
GatewayOnly == UNCHANGED <<accounts, firebase, key, user, workspace, workspaces, initialized,
                           asked, stored>>

ServeLogin(c) ==
    /\ c.op \in {"listen", "login"} /\ c.at = "sent"
    /\ IF c.for \in organizations THEN Answer(c, "done", Own(c.for)) ELSE Answer(c, "refused", {})
    /\ UNCHANGED gatewayVars /\ GatewayOnly

(* The organization is a row of its own, and seen before its workspace is. *)
ServeSignUp(c) ==
    /\ c.op = "signup" /\ GatewayOnly
    /\ \/ /\ c.at = "sent" /\ c.for \notin organizations
          /\ organizations' = organizations \union {c.for}
          /\ Answer(c, "half", {}) /\ UNCHANGED owner
       \/ /\ c.at = "half" /\ UNCHANGED organizations
          /\ \E w \in Workspaces : Recorded(w, c.for) /\ Answer(c, "done", {w})

(* The key tells the organization; a key nobody has is refused. A workspace *)
(* whose configuration cannot be stored is there, and refused.             *)
ServeCreate(c) ==
    /\ c.op = "create" /\ c.at = "sent" /\ UNCHANGED organizations /\ GatewayOnly
    /\ IF c.as \in {NoOne, Broken}
       THEN Answer(c, "refused", {}) /\ UNCHANGED owner
       ELSE \E w \in Workspaces :
               /\ Recorded(w, owner[c.as])
               /\ Answer(c, "done", {w}) \/ Answer(c, "refused", {})

(* An error of the gateway, or no answer at all, at any point.             *)
Fail(c) ==
    /\ \/ c.at \in {"sent", "half"} /\ (Answer(c, "refused", {}) \/ Answer(c, "lost", {}))
       \/ c.at = "done" /\ Answer(c, "lost", {})
    /\ UNCHANGED gatewayVars /\ GatewayOnly

(* ----------------------------- the answers ----------------------------- *)

Heard(c) ==
    /\ c.at \in {"done", "refused", "lost"} /\ ~c.gone
    /\ asks' = asks \ {c}
    /\ UNCHANGED <<accounts, firebase, gatewayVars, asked>>

(* storeWorkspaceData and setState: the workspaces of the one who asked.   *)
Entered(c) ==
    /\ c.op \in {"listen", "login", "signup"} /\ c.at = "done" /\ Heard(c)
    /\ user' = c.for /\ workspaces' = c.got
    /\ key' = DefaultOf(c.got) /\ workspace' = DefaultOf(c.got)
    /\ initialized' = (c.op = "listen" \/ initialized)
    /\ stored' = {c.for}

(* The listener shows the user without a workspace, and leaves the key.    *)
Unknown(c) ==
    /\ c.op = "listen" /\ c.at \in {"refused", "lost"} /\ Heard(c)
    /\ user' = c.for /\ workspace' = NoOne /\ workspaces' = {}
    /\ initialized' = TRUE
    /\ stored' = stored \union {c.for}
    /\ UNCHANGED key

(* createWorkspace does not look at the status: a refusal is a workspace   *)
(* whose id, name and key are undefined.                                   *)
Created(c) ==
    /\ c.op = "create" /\ c.at \in {"done", "refused"} /\ Heard(c)
    /\ LET w == DefaultOf(c.got) IN
          workspaces' = workspaces \union {w} /\ key' = w /\ workspace' = w
    /\ stored' = stored \union {c.for}
    /\ UNCHANGED <<user, initialized>>

Ignored(c) ==
    /\ \/ c.op \in {"login", "signup"} /\ c.at \in {"refused", "lost"}
       \/ c.op = "create" /\ c.at = "lost"
    /\ Heard(c)
    /\ UNCHANGED <<key, user, workspace, workspaces, initialized, stored>>

Unheard(c) ==
    /\ c.gone /\ c.at \in {"done", "refused", "lost"}
    /\ asks' = asks \ {c}
    /\ UNCHANGED gatewayVars /\ GatewayOnly

Answers == \E c \in asks :
    ServeLogin(c) \/ ServeSignUp(c) \/ ServeCreate(c) \/ Fail(c)
    \/ Entered(c) \/ Unknown(c) \/ Created(c) \/ Ignored(c) \/ Unheard(c)

(* ----------------------------- correctness ----------------------------- *)

SessionTypeOK ==
    /\ accounts \subseteq Users /\ firebase \in Users \union {NoOne}
    /\ organizations \subseteq accounts /\ user \in Users \union {NoOne}
    /\ key \in Workspaces \union {NoOne, Broken} /\ workspace \in Workspaces \union {NoOne, Broken}
    /\ workspaces \subseteq Workspaces \union {Broken}
    /\ owner \in [Workspaces -> Users \union {NoOne}]
    /\ initialized \in BOOLEAN /\ stored \subseteq Users \union {NoOne} /\ asked \in 0..MaxAsks
    /\ \A c \in asks : c.for \in Users \union {NoOne} /\ c.id \in 1..MaxAsks /\ c.got \subseteq Workspaces

(* Whatever the order of the answers, the key that requests carry is that  *)
(* of the workspace that is shown; and unless an answer was stored for     *)
(* somebody who had signed out or been replaced meanwhile, user, key and   *)
(* menu are those of the user firebase holds.                              *)
SessionIsOfUser ==
    /\ workspace # NoOne => key = workspace
    /\ stored \subseteq {firebase} =>
                /\ user \in {NoOne, firebase}
                /\ key \in {NoOne, Broken} \union Own(firebase)
                /\ workspaces \subseteq {Broken} \union Own(firebase)
=============================================================================
