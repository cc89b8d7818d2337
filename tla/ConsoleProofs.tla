--------------------------- MODULE ConsoleProofs ---------------------------
(***************************************************************************)
(* What ConsoleSession and Console guarantee for any users, workspaces and *)
(* actions, any number of requests, and every order of their answers.      *)
(***************************************************************************)
EXTENDS Console, FiniteSetTheorems, TLAPS

-----------------------------------------------------------------------------
(* Two facts about finite sets.                                              *)

LEMMA LeastExists ==
  ASSUME NEW S \in SUBSET Nat, IsFiniteSet(S), S # {}
  PROVE  \E m \in S : \A n \in S : m <= n
<1> DEFINE Below(m) == {n \in S : n < m}
           T == {Below(m) : m \in S}
<1>1. T \subseteq FiniteSubsetsOf(S)
  BY FS_FiniteSubsetsOfFinite
<1>2. PICK x \in T : \A y \in T : ~ (<<y, x>> \in StrictSubsetOrdering(S))
  <2>1. T # {}
    OBVIOUS
  <2> HIDE DEF T
  <2> QED BY <1>1, <2>1, FS_StrictSubsetOrderingWellFounded, WFMin
<1>3. PICK m \in S : x = Below(m)
  BY <1>2
<1>4. ASSUME NEW n \in S, n < m
      PROVE  FALSE
  <2>1. n \in Nat /\ m \in Nat
    OBVIOUS
  <2>2. n \in Below(m) /\ n \notin Below(n)
    BY <1>4, <2>1
  <2>3. \A k \in S : k < n => k < m
    BY <1>4, <2>1
  <2>4. Below(n) \subseteq Below(m)
    BY <2>3
  <2>5. <<Below(n), Below(m)>> \in StrictSubsetOrdering(S)
    BY <2>2, <2>4 DEF StrictSubsetOrdering
  <2> QED BY <1>2, <1>3, <2>5
<1> QED BY <1>4

\* There is an id for one more request as long as they are fewer than MaxAsks.
LEMMA FreeIdExists ==
  ASSUME NEW S \in SUBSET (1..MaxAsks), NEW n \in Nat, Cardinality(S) <= n, n < MaxAsks
  PROVE  \E i \in 1..MaxAsks : i \notin S
<1>1. IsFiniteSet(1..MaxAsks) /\ Cardinality(1..MaxAsks) = MaxAsks
  BY FS_Interval, AsksAssumption
<1>2. IsFiniteSet(S) /\ Cardinality(S) \in Nat
  BY <1>1, FS_Subset, FS_CardinalityType
<1>3. S # 1..MaxAsks
  BY <1>1, <1>2, AsksAssumption
<1> QED BY <1>3

-----------------------------------------------------------------------------
(* The session.                                                              *)

Keys == Workspaces \union {NoOne, Broken}
AskType ==
  [id : 1..MaxAsks, op : {"listen", "login", "signup", "create"}, as : Keys,
   at : {"sent", "half", "done", "refused", "lost"}, got : SUBSET Workspaces,
   gone : BOOLEAN, for : Users \union {NoOne}]

IdsOf(S) == {c.id : c \in S}

\* Requests under way have ids of their own, but for the two of a sign-in, and
\* are no more than were sent.
AskTable ==
  /\ asks \subseteq AskType
  /\ Cardinality(IdsOf(asks)) <= asked
  /\ \A c, d \in asks : c.id = d.id /\ c.op = d.op => c = d

SessionType ==
  /\ accounts \subseteq Users /\ firebase \in Users \union {NoOne}
  /\ organizations \subseteq accounts /\ user \in Users \union {NoOne}
  /\ key \in Keys /\ workspace \in Keys
  /\ workspaces \subseteq Workspaces \union {Broken}
  /\ owner \in [Workspaces -> accounts \union {NoOne}]
  /\ initialized \in BOOLEAN /\ stored \subseteq Users \union {NoOne} /\ asked \in 0..MaxAsks

\* What the gateway answers is of the user the request was for. A workspace that
\* has an owner keeps it, so that the answer may come late.
AnswersAreOwn ==
  \A c \in asks :
    /\ \A w \in c.got : owner[w] = c.for /\ c.for # NoOne
    /\ c.op = "signup" => c.for \in accounts
    /\ c.op = "create" /\ c.as \in Workspaces => owner[c.as] = c.for /\ c.for # NoOne

\* The session holds what answers for the users in stored have brought.
SessionOfStored ==
  /\ workspace # NoOne => key = workspace
  /\ user \in {NoOne} \union stored
  /\ \A w \in workspaces \union {key} : w \in Workspaces => owner[w] \in stored \ {NoOne}

SessionInv == SessionType /\ AskTable /\ AnswersAreOwn /\ SessionOfStored

-----------------------------------------------------------------------------
(* Requests and their ids.                                                   *)

LEMMA IdsKept ==
  ASSUME NEW S, NEW T, NEW n \in Nat, IdsOf(S) \subseteq 1..MaxAsks,
         Cardinality(IdsOf(S)) <= n, IdsOf(T) \subseteq IdsOf(S)
  PROVE  Cardinality(IdsOf(T)) <= n
<1>1. IsFiniteSet(IdsOf(S))
  <2>1. IsFiniteSet(1..MaxAsks)
    BY FS_Interval, AsksAssumption
  <2> QED BY <2>1, FS_Subset
<1>2. /\ Cardinality(IdsOf(T)) <= Cardinality(IdsOf(S))
      /\ Cardinality(IdsOf(T)) \in Nat /\ Cardinality(IdsOf(S)) \in Nat
  BY <1>1, FS_Subset, FS_CardinalityType
<1> QED BY <1>2

LEMMA IdAdded ==
  ASSUME NEW S, NEW T, NEW n \in Nat, NEW i, IdsOf(S) \subseteq 1..MaxAsks,
         Cardinality(IdsOf(S)) <= n, IdsOf(T) \subseteq IdsOf(S) \union {i}
  PROVE  Cardinality(IdsOf(T)) <= n + 1
<1>1. IsFiniteSet(IdsOf(S)) /\ Cardinality(IdsOf(S)) \in Nat
  <2>1. IsFiniteSet(1..MaxAsks)
    BY FS_Interval, AsksAssumption
  <2> QED BY <2>1, FS_Subset, FS_CardinalityType
<1>2. /\ IsFiniteSet(IdsOf(S) \union {i})
      /\ Cardinality(IdsOf(S) \union {i}) <= Cardinality(IdsOf(S)) + 1
      /\ Cardinality(IdsOf(S) \union {i}) \in Nat
  <2>1. /\ IsFiniteSet(IdsOf(S) \cup {i})
        /\ Cardinality(IdsOf(S) \cup {i}) =
             IF i \in IdsOf(S) THEN Cardinality(IdsOf(S)) ELSE Cardinality(IdsOf(S)) + 1
    BY <1>1, FS_AddElement
  <2> QED BY <1>1, <2>1
<1>3. /\ Cardinality(IdsOf(T)) <= Cardinality(IdsOf(S) \union {i})
      /\ Cardinality(IdsOf(T)) \in Nat
  BY <1>2, FS_Subset, FS_CardinalityType
<1> QED BY <1>1, <1>2, <1>3

LEMMA IdsInRange ==
  ASSUME NEW S \in SUBSET AskType
  PROVE  IdsOf(S) \subseteq 1..MaxAsks
BY DEF IdsOf, AskType

\* A new request has an id that no other one has.
LEMMA AskIsNew ==
  ASSUME SessionType, AskTable, asked < MaxAsks, firebase' \in Users \union {NoOne},
         NEW op \in {"listen", "login", "signup", "create"}
  PROVE  /\ Ask(op) \in AskType
         /\ Ask(op).id \notin IdsOf(asks)
         /\ Ask(op).op = op /\ Ask(op).as = key /\ Ask(op).got = {}
         /\ Ask(op).for = IF op = "create" /\ key \in Workspaces THEN owner[key] ELSE firebase'
<1> DEFINE id == CHOOSE i \in 1..MaxAsks : \A c \in asks : c.id # i
<1>1. \E i \in 1..MaxAsks : i \notin IdsOf(asks)
  <2>1. asked \in Nat
    BY AsksAssumption DEF SessionType
  <2> QED BY <2>1, FreeIdExists, IdsInRange DEF AskTable
<1>2. id \in 1..MaxAsks /\ \A c \in asks : c.id # id
  <2>1. \E i \in 1..MaxAsks : \A c \in asks : c.id # i
    BY <1>1 DEF IdsOf
  <2> QED BY <2>1
<1>3. id \notin IdsOf(asks)
  BY <1>2 DEF IdsOf
<1>4. key \in Workspaces => owner[key] \in Users \union {NoOne}
  BY DEF SessionType
<1> HIDE DEF id
<1>5. Ask(op) = [id |-> id, op |-> op, as |-> key, at |-> "sent", got |-> {}, gone |-> FALSE,
                 for |-> IF op = "create" /\ key \in Workspaces THEN owner[key] ELSE firebase']
  BY DEF Ask, id
<1> QED BY <1>2, <1>3, <1>4, <1>5 DEF AskType, SessionType, Keys

LEMMA AsksSent ==
  ASSUME SessionType, AskTable, asked < MaxAsks, firebase' \in Users \union {NoOne},
         NEW ops \in SUBSET {"listen", "login", "signup", "create"},
         NEW S \in SUBSET AskType, IdsOf(S) \subseteq IdsOf(asks),
         \A c, d \in S : c.id = d.id /\ c.op = d.op => c = d,
         asks' = S \union {Ask(op) : op \in ops}, asked' = asked + 1
  PROVE  AskTable'
<1> DEFINE id == CHOOSE i \in 1..MaxAsks : \A c \in asks : c.id # i
           New == {Ask(op) : op \in ops}
<1>1. \A op \in ops : Ask(op).id = id
  BY DEF Ask
<1>2. \A op \in ops : Ask(op) \in AskType /\ Ask(op).id \notin IdsOf(asks) /\ Ask(op).op = op
  BY AskIsNew
<1> HIDE DEF id
<1>3. asks' \subseteq AskType
  BY <1>2
<1>4. IdsOf(asks)' \subseteq IdsOf(asks) \union {id}
  BY <1>1 DEF IdsOf
<1>5. Cardinality(IdsOf(asks))' <= asked'
  <2>1. asked \in Nat /\ IdsOf(asks) \subseteq 1..MaxAsks /\ Cardinality(IdsOf(asks)) <= asked
    BY AsksAssumption, IdsInRange DEF SessionType, AskTable
  <2> QED BY <2>1, <1>4, IdAdded DEF IdsOf
<1>6. ASSUME NEW c \in asks', NEW d \in asks', c.id = d.id, c.op = d.op
      PROVE  c = d
  <2>1. \A x \in S : x.id \in IdsOf(asks)
    BY DEF IdsOf
  <2>2. CASE c \in S
    BY <2>1, <2>2, <1>2, <1>6
  <2>3. CASE c \in New
    BY <2>1, <2>3, <1>2, <1>6
  <2> QED BY <2>2, <2>3
<1> QED BY <1>3, <1>5, <1>6 DEF AskTable

LEMMA AskAnswered ==
  ASSUME SessionType, AskTable, NEW c \in asks, NEW d \in AskType, d.id = c.id, d.op = c.op,
         asks' = (asks \ {c}) \union {d}, asked' = asked
  PROVE  AskTable'
<1>1. asks' \subseteq AskType
  BY DEF AskTable
<1>2. Cardinality(IdsOf(asks))' <= asked'
  <2>1. asked \in Nat /\ IdsOf(asks) \subseteq 1..MaxAsks
    BY AsksAssumption, IdsInRange DEF SessionType, AskTable
  <2>2. IdsOf(asks') \subseteq IdsOf(asks)
    BY DEF IdsOf
  <2>3. Cardinality(IdsOf(asks')) <= asked
    BY <2>1, <2>2, IdsKept DEF AskTable
  <2> QED BY <2>3 DEF IdsOf
<1> QED BY <1>1, <1>2 DEF AskTable

LEMMA AsksLeft ==
  ASSUME SessionType, AskTable, asks' \subseteq asks, asked' = asked
  PROVE  AskTable'
<1>1. Cardinality(IdsOf(asks))' <= asked'
  <2>1. asked \in Nat /\ IdsOf(asks) \subseteq 1..MaxAsks
    BY AsksAssumption, IdsInRange DEF SessionType, AskTable
  <2>2. IdsOf(asks') \subseteq IdsOf(asks)
    BY DEF IdsOf
  <2>3. Cardinality(IdsOf(asks')) <= asked
    BY <2>1, <2>2, IdsKept DEF AskTable
  <2> QED BY <2>3 DEF IdsOf
<1> QED BY <1>1 DEF AskTable

-----------------------------------------------------------------------------
(* The steps of the session, one lemma for each.                             *)

LEMMA DefaultIsOfAnswer ==
  ASSUME NEW W \in SUBSET Workspaces
  PROVE  DefaultOf(W) \in W \union {Broken}
<1>1. CASE W = {}
  BY <1>1 DEF DefaultOf
<1>2. CASE W # {}
  <2>1. IsFiniteSet(W) /\ W \in SUBSET Nat
    BY WorkspacesAssumption, FS_Subset
  <2>2. \E w \in W : \A v \in W : w <= v
    BY <2>1, <1>2, LeastExists
  <2>3. Oldest(W) \in W
    BY <2>2 DEF Oldest
  <2> QED BY <2>3, <1>2 DEF DefaultOf
<1> QED BY <1>1, <1>2

\* Requests that are new have no answer, and those of a user who owns a key are
\* for that user.
LEMMA NewAsksAreOwn ==
  ASSUME SessionInv, asked < MaxAsks, firebase' \in Users \union {NoOne},
         NEW op \in {"listen", "login", "signup", "create"}, op = "signup" => firebase' \in accounts'
  PROVE  /\ Ask(op).got = {}
         /\ Ask(op).op = "signup" => Ask(op).for \in accounts'
         /\ Ask(op).op = "create" /\ Ask(op).as \in Workspaces =>
              owner[Ask(op).as] = Ask(op).for /\ Ask(op).for # NoOne
<1>1. /\ Ask(op).op = op /\ Ask(op).as = key /\ Ask(op).got = {}
      /\ Ask(op).for = IF op = "create" /\ key \in Workspaces THEN owner[key] ELSE firebase'
  BY AskIsNew DEF SessionInv
<1>2. key \in Workspaces => owner[key] # NoOne
  BY DEF SessionInv, SessionOfStored
<1> QED BY <1>1, <1>2

LEMMA SignInStep ==
  ASSUME SessionInv, NEW u \in Users, SignIn(u)
  PROVE  SessionInv'
<1> DEFINE ops == IF firebase = u THEN {"login"} ELSE {"listen", "login"}
<1>1. /\ asked < MaxAsks /\ asked' = asked + 1 /\ firebase' \in Users \union {NoOne}
      /\ asks' = asks \union {Ask(op) : op \in ops}
      /\ ops \in SUBSET {"listen", "login", "signup", "create"} /\ "signup" \notin ops
      /\ UNCHANGED <<accounts, key, user, workspace, workspaces, initialized, gatewayVars, stored>>
  BY DEF SignIn, Send
<1> HIDE DEF ops
<1>2. SessionType'
  BY <1>1, AsksAssumption DEF SessionInv, SessionType, gatewayVars
<1>3. AskTable'
  BY <1>1, AsksSent DEF SessionInv, AskTable
<1>4. AnswersAreOwn'
  BY <1>1, NewAsksAreOwn DEF SessionInv, AnswersAreOwn, gatewayVars
<1>5. SessionOfStored'
  BY <1>1 DEF SessionInv, SessionOfStored, gatewayVars
<1> QED BY <1>2, <1>3, <1>4, <1>5 DEF SessionInv

LEMMA SignUpStep ==
  ASSUME SessionInv, NEW u \in Users, SignUp(u)
  PROVE  SessionInv'
<1> DEFINE ops == {"listen", "signup"}
<1>1. /\ asked < MaxAsks /\ asked' = asked + 1 /\ firebase' \in Users \union {NoOne}
      /\ asks' = asks \union {Ask(op) : op \in ops}
      /\ ops \in SUBSET {"listen", "login", "signup", "create"}
      /\ firebase' \in accounts' /\ accounts' = accounts \union {u}
      /\ UNCHANGED <<key, user, workspace, workspaces, initialized, gatewayVars, stored>>
  BY DEF SignUp, Send
<1> HIDE DEF ops
<1>2. SessionType'
  BY <1>1, AsksAssumption DEF SessionInv, SessionType, gatewayVars
<1>3. AskTable'
  BY <1>1, AsksSent DEF SessionInv, AskTable
<1>4. AnswersAreOwn'
  BY <1>1, NewAsksAreOwn DEF SessionInv, AnswersAreOwn, gatewayVars
<1>5. SessionOfStored'
  BY <1>1 DEF SessionInv, SessionOfStored, gatewayVars
<1> QED BY <1>2, <1>3, <1>4, <1>5 DEF SessionInv

LEMMA CreateWorkspaceStep ==
  ASSUME SessionInv, CreateWorkspace
  PROVE  SessionInv'
<1> DEFINE ops == {"create"}
<1>1. /\ asked < MaxAsks /\ asked' = asked + 1 /\ firebase' \in Users \union {NoOne}
      /\ asks' = asks \union {Ask(op) : op \in ops}
      /\ ops \in SUBSET {"listen", "login", "signup", "create"} /\ "signup" \notin ops
      /\ UNCHANGED <<accounts, key, user, workspace, workspaces, initialized, gatewayVars, stored>>
  BY DEF CreateWorkspace, Send, SessionInv, SessionType
<1> HIDE DEF ops
<1>2. SessionType'
  BY <1>1, AsksAssumption DEF SessionInv, SessionType, gatewayVars
<1>3. AskTable'
  BY <1>1, AsksSent DEF SessionInv, AskTable
<1>4. AnswersAreOwn'
  BY <1>1, NewAsksAreOwn DEF SessionInv, AnswersAreOwn, gatewayVars
<1>5. SessionOfStored'
  BY <1>1 DEF SessionInv, SessionOfStored, gatewayVars
<1> QED BY <1>2, <1>3, <1>4, <1>5 DEF SessionInv

LEMMA SignOutStep ==
  ASSUME SessionInv, SignOut
  PROVE  SessionInv'
<1> USE DEF SignOut, Forget, gatewayVars
<1>1. SessionType'
  BY DEF SessionInv, SessionType, Keys
<1>2. AskTable'
  BY AsksLeft DEF SessionInv
<1>3. AnswersAreOwn'
  BY DEF SessionInv, AnswersAreOwn
<1>4. SessionOfStored'
  BY NobodyAssumption DEF SessionInv, SessionOfStored
<1> QED BY <1>1, <1>2, <1>3, <1>4 DEF SessionInv

\* The requests that go on when the page is reloaded keep what they are.
LEMMA LeftAsks ==
  ASSUME SessionInv, NEW T \in SUBSET asks
  PROVE  LET S == {[c EXCEPT !.gone = TRUE] : c \in T} IN
           /\ S \in SUBSET AskType /\ IdsOf(S) \subseteq IdsOf(asks)
           /\ \A c, d \in S : c.id = d.id /\ c.op = d.op => c = d
           /\ \A d \in S : \E c \in asks :
                d.got = c.got /\ d.op = c.op /\ d.as = c.as /\ d.for = c.for
<1> DEFINE S == {[c EXCEPT !.gone = TRUE] : c \in T}
<1>1. \A c \in T : LET d == [c EXCEPT !.gone = TRUE] IN
        /\ d \in AskType /\ d.id = c.id /\ d.op = c.op /\ d.got = c.got
        /\ d.as = c.as /\ d.for = c.for
  BY DEF SessionInv, AskTable, AskType
<1>2. S \in SUBSET AskType /\ IdsOf(S) \subseteq IdsOf(asks)
  BY <1>1 DEF IdsOf
<1>3. ASSUME NEW c \in S, NEW d \in S, c.id = d.id, c.op = d.op
      PROVE  c = d
  <2>1. PICK x \in T : c = [x EXCEPT !.gone = TRUE]
    OBVIOUS
  <2>2. PICK y \in T : d = [y EXCEPT !.gone = TRUE]
    OBVIOUS
  <2>3. x.id = y.id /\ x.op = y.op
    BY <2>1, <2>2, <1>1, <1>3
  <2>4. x = y
    BY <2>3 DEF SessionInv, AskTable
  <2> QED BY <2>1, <2>2, <2>4
<1>4. \A d \in S : \E c \in asks :
        d.got = c.got /\ d.op = c.op /\ d.as = c.as /\ d.for = c.for
  <2>1. TAKE d \in S
  <2>2. PICK c \in T : d = [c EXCEPT !.gone = TRUE]
    OBVIOUS
  <2>3. c \in asks
    OBVIOUS
  <2> QED BY <1>1, <2>2, <2>3
<1> HIDE DEF S
<1>5. /\ S \in SUBSET AskType /\ IdsOf(S) \subseteq IdsOf(asks)
      /\ \A c, d \in S : c.id = d.id /\ c.op = d.op => c = d
      /\ \A d \in S : \E c \in asks :
           d.got = c.got /\ d.op = c.op /\ d.as = c.as /\ d.for = c.for
  BY <1>2, <1>3, <1>4
<1> QED BY <1>5 DEF S

LEMMA ReloadStep ==
  ASSUME SessionInv, Reload
  PROVE  SessionInv'
<1> DEFINE T == {a \in asks : a.op \in {"signup", "create"} /\ a.at \in {"sent", "half"}}
           S == {[c EXCEPT !.gone = TRUE] : c \in T}
<1>1. /\ S \in SUBSET AskType /\ IdsOf(S) \subseteq IdsOf(asks)
      /\ \A c, d \in S : c.id = d.id /\ c.op = d.op => c = d
      /\ \A d \in S : \E c \in asks :
           d.got = c.got /\ d.op = c.op /\ d.as = c.as /\ d.for = c.for
  BY LeftAsks
<1> HIDE DEF T
<1>2. CASE firebase = NoOne
  <2>1. Forget /\ asks' = S /\ UNCHANGED <<accounts, firebase, gatewayVars, asked>>
    BY <1>2 DEF Reload, T
  <2> HIDE DEF S
  <2>2. SessionType'
    BY <2>1 DEF SessionInv, SessionType, Keys, Forget, gatewayVars
  <2>3. AskTable'
    <3>1. asked \in Nat /\ IdsOf(asks) \subseteq 1..MaxAsks
      BY AsksAssumption, IdsInRange DEF SessionInv, SessionType, AskTable
    <3>2. Cardinality(IdsOf(S)) <= asked
      BY <3>1, <1>1, IdsKept DEF SessionInv, AskTable
    <3>3. Cardinality(IdsOf(asks))' <= asked'
      BY <2>1, <3>2 DEF IdsOf
    <3> QED BY <2>1, <1>1, <3>3 DEF AskTable
  <2>4. AnswersAreOwn'
    <3>1. accounts' = accounts /\ owner' = owner
      BY <2>1 DEF gatewayVars
    <3> QED BY <2>1, <3>1, <1>1 DEF SessionInv, AnswersAreOwn
  <2>5. SessionOfStored'
    BY <2>1, NobodyAssumption DEF SessionInv, SessionOfStored, Forget, gatewayVars
  <2> QED BY <2>2, <2>3, <2>4, <2>5 DEF SessionInv
<1>3. CASE firebase # NoOne
  <2> DEFINE ops == {"listen"}
  <2>1. /\ asked < MaxAsks /\ asked' = asked + 1 /\ firebase' = firebase
        /\ asks' = S \union {Ask(op) : op \in ops}
        /\ ops \in SUBSET {"listen", "login", "signup", "create"} /\ "signup" \notin ops
        /\ user' = NoOne /\ workspace' = NoOne /\ workspaces' = {} /\ initialized' = FALSE
        /\ UNCHANGED <<accounts, key, organizations, owner, stored>>
    BY <1>3 DEF Reload, T, gatewayVars
  <2> HIDE DEF ops, S
  <2>2. SessionType'
    <3>1. asked' \in 0..MaxAsks
      BY <2>1, AsksAssumption DEF SessionInv, SessionType
    <3> QED BY <2>1, <3>1 DEF SessionInv, SessionType, Keys
  <2>3. firebase' \in Users \union {NoOne}
    BY <2>1 DEF SessionInv, SessionType
  <2>4. AskTable'
    BY <2>1, <2>3, <1>1, AsksSent DEF SessionInv
  <2>5. AnswersAreOwn'
    BY <2>1, <2>3, <1>1, NewAsksAreOwn DEF SessionInv, AnswersAreOwn
  <2>6. SessionOfStored'
    BY <2>1 DEF SessionInv, SessionOfStored
  <2> QED BY <2>2, <2>4, <2>5, <2>6 DEF SessionInv
<1> QED BY <1>2, <1>3

LEMMA SwitchWorkspaceStep ==
  ASSUME SessionInv, NEW w \in Workspaces, SwitchWorkspace(w)
  PROVE  SessionInv'
<1> USE DEF SwitchWorkspace, gatewayVars
<1>1. SessionType'
  BY DEF SessionInv, SessionType, Keys
<1>2. AskTable'
  BY AsksLeft DEF SessionInv
<1>3. AnswersAreOwn'
  BY DEF SessionInv, AnswersAreOwn
<1>4. SessionOfStored'
  BY DEF SessionInv, SessionOfStored
<1> QED BY <1>1, <1>2, <1>3, <1>4 DEF SessionInv

-----------------------------------------------------------------------------
(* The gateway's steps.                                                      *)

\* The record of a request that the gateway answers.
LEMMA AnswerIsRecord ==
  ASSUME NEW c \in AskType, NEW at \in {"sent", "half", "done", "refused", "lost"},
         NEW got \in SUBSET Workspaces
  PROVE  LET d == [c EXCEPT !.at = at, !.got = got] IN
           /\ d \in AskType /\ d.id = c.id /\ d.op = c.op /\ d.as = c.as /\ d.for = c.for
           /\ d.at = at /\ d.got = got
BY DEF AskType

\* Whatever the gateway did for it: the answer is of the user of the request,
\* and owners stay.
LEMMA AnswerStep ==
  ASSUME SessionInv, NEW c \in asks, NEW at \in {"sent", "half", "done", "refused", "lost"},
         NEW got \in SUBSET Workspaces, Answer(c, at, got), GatewayOnly,
         owner' \in [Workspaces -> accounts \union {NoOne}],
         \A w \in Workspaces : owner[w] # NoOne => owner'[w] = owner[w],
         \A w \in got : owner'[w] = c.for /\ c.for # NoOne,
         organizations' \subseteq accounts
  PROVE  SessionInv'
<1> DEFINE d == [c EXCEPT !.at = at, !.got = got]
<1> USE DEF GatewayOnly
<1>1. /\ d \in AskType /\ d.id = c.id /\ d.op = c.op /\ d.as = c.as /\ d.for = c.for
      /\ d.got = got
  <2>1. c \in AskType
    BY DEF SessionInv, AskTable
  <2> QED BY <2>1 DEF AskType
<1>2. asks' = (asks \ {c}) \union {d}
  BY DEF Answer
<1> HIDE DEF d
<1>3. SessionType'
  BY DEF SessionInv, SessionType
<1>4. AskTable'
  BY <1>1, <1>2, AskAnswered DEF SessionInv
<1>5. AnswersAreOwn'
  <2>1. ASSUME NEW e \in asks'
        PROVE  /\ \A w \in e.got : owner'[w] = e.for /\ e.for # NoOne
               /\ e.op = "signup" => e.for \in accounts
               /\ e.op = "create" /\ e.as \in Workspaces => owner'[e.as] = e.for /\ e.for # NoOne
    <3>1. CASE e = d
      BY <3>1, <1>1 DEF SessionInv, AnswersAreOwn
    <3>2. CASE e \in asks
      <4>1. e.got \subseteq Workspaces
        BY <3>2 DEF SessionInv, AskTable, AskType
      <4> QED BY <3>2, <4>1 DEF SessionInv, AnswersAreOwn
    <3> QED BY <1>2, <2>1, <3>1, <3>2
  <2> QED BY <2>1 DEF AnswersAreOwn
<1>6. SessionOfStored'
  BY DEF SessionInv, SessionOfStored
<1> QED BY <1>3, <1>4, <1>5, <1>6 DEF SessionInv

LEMMA ServeLoginStep ==
  ASSUME SessionInv, NEW c \in asks, ServeLogin(c)
  PROVE  SessionInv'
<1>1. /\ owner' = owner /\ organizations' = organizations /\ GatewayOnly
      /\ owner \in [Workspaces -> accounts \union {NoOne}] /\ organizations \subseteq accounts
  BY DEF ServeLogin, gatewayVars, SessionInv, SessionType
<1>2. CASE c.for \in organizations
  <2>1. /\ Own(c.for) \in SUBSET Workspaces /\ Answer(c, "done", Own(c.for))
        /\ \A w \in Own(c.for) : owner'[w] = c.for /\ c.for # NoOne
    BY <1>1, <1>2, NobodyAssumption DEF ServeLogin, Own, SessionInv, SessionType
  <2> QED BY <1>1, <2>1, AnswerStep
<1>3. CASE c.for \notin organizations
  <2>1. Answer(c, "refused", {})
    BY <1>3 DEF ServeLogin
  <2> QED BY <1>1, <2>1, AnswerStep
<1> QED BY <1>2, <1>3

\* A workspace is recorded for somebody with an account.
LEMMA RecordedIsOwned ==
  ASSUME SessionInv, NEW w \in Workspaces, NEW u \in accounts, Recorded(w, u)
  PROVE  /\ owner' \in [Workspaces -> accounts \union {NoOne}]
         /\ \A v \in Workspaces : owner[v] # NoOne => owner'[v] = owner[v]
         /\ owner'[w] = u
BY DEF Recorded, Unused, Own, SessionInv, SessionType

LEMMA ServeSignUpStep ==
  ASSUME SessionInv, NEW c \in asks, ServeSignUp(c)
  PROVE  SessionInv'
<1>1. c.for \in accounts /\ c.for # NoOne /\ GatewayOnly
  BY NobodyAssumption DEF ServeSignUp, SessionInv, AnswersAreOwn, SessionType
<1>2. CASE c.at = "sent"
  <2>1. organizations' = organizations \union {c.for} /\ owner' = owner /\ Answer(c, "half", {})
    BY <1>2 DEF ServeSignUp
  <2>2. owner \in [Workspaces -> accounts \union {NoOne}] /\ organizations' \subseteq accounts
    BY <1>1, <2>1 DEF SessionInv, SessionType
  <2> QED BY <1>1, <2>1, <2>2, AnswerStep
<1>3. CASE c.at = "half"
  <2>1. PICK w \in Workspaces : Recorded(w, c.for) /\ Answer(c, "done", {w})
    BY <1>3 DEF ServeSignUp
  <2>2. organizations' \subseteq accounts
    BY <1>3 DEF ServeSignUp, SessionInv, SessionType
  <2>3. /\ owner' \in [Workspaces -> accounts \union {NoOne}]
        /\ \A v \in Workspaces : owner[v] # NoOne => owner'[v] = owner[v]
        /\ \A v \in {w} : owner'[v] = c.for /\ c.for # NoOne
    BY <1>1, <2>1, RecordedIsOwned
  <2> QED BY <1>1, <2>1, <2>2, <2>3, AnswerStep
<1> QED BY <1>2, <1>3 DEF ServeSignUp

LEMMA ServeCreateStep ==
  ASSUME SessionInv, NEW c \in asks, ServeCreate(c)
  PROVE  SessionInv'
<1>1. organizations' \subseteq accounts /\ GatewayOnly
  BY DEF ServeCreate, SessionInv, SessionType
<1>2. CASE c.as \in {NoOne, Broken}
  <2>1. /\ Answer(c, "refused", {}) /\ owner' = owner
        /\ owner \in [Workspaces -> accounts \union {NoOne}]
    BY <1>2 DEF ServeCreate, SessionInv, SessionType
  <2> QED BY <1>1, <2>1, AnswerStep
<1>3. CASE c.as \notin {NoOne, Broken}
  <2>1. c.as \in Workspaces
    BY <1>3 DEF SessionInv, AskTable, AskType, Keys
  <2>2. owner[c.as] = c.for /\ c.for # NoOne /\ c.for \in accounts
    BY <2>1 DEF ServeCreate, SessionInv, AnswersAreOwn, SessionType
  <2>3. PICK w \in Workspaces :
          Recorded(w, c.for) /\ (Answer(c, "done", {w}) \/ Answer(c, "refused", {}))
    BY <1>3, <2>2 DEF ServeCreate
  <2>4. /\ owner' \in [Workspaces -> accounts \union {NoOne}]
        /\ \A v \in Workspaces : owner[v] # NoOne => owner'[v] = owner[v]
        /\ \A v \in {w} : owner'[v] = c.for /\ c.for # NoOne
    BY <2>2, <2>3, RecordedIsOwned
  <2>5. CASE Answer(c, "done", {w})
    BY <1>1, <2>4, <2>5, AnswerStep
  <2>6. CASE Answer(c, "refused", {})
    BY <1>1, <2>4, <2>6, AnswerStep
  <2> QED BY <2>3, <2>5, <2>6
<1> QED BY <1>2, <1>3

LEMMA FailStep ==
  ASSUME SessionInv, NEW c \in asks, Fail(c)
  PROVE  SessionInv'
<1>1. PICK at \in {"refused", "lost"} : Answer(c, at, {})
  BY DEF Fail
<1>2. /\ owner' = owner /\ organizations' = organizations /\ GatewayOnly
      /\ owner \in [Workspaces -> accounts \union {NoOne}] /\ organizations \subseteq accounts
  BY DEF Fail, gatewayVars, SessionInv, SessionType
<1> QED BY <1>1, <1>2, AnswerStep

-----------------------------------------------------------------------------
(* The answers.                                                              *)

\* A request that was heard is gone, and nothing but the session changes.
LEMMA HeardStep ==
  ASSUME SessionInv, NEW c \in asks, Heard(c),
         key' \in Keys, user' \in Users \union {NoOne}, workspace' \in Keys,
         workspaces' \subseteq Workspaces \union {Broken}, initialized' \in BOOLEAN,
         stored' \subseteq Users \union {NoOne}, SessionOfStored'
  PROVE  SessionInv'
<1> USE DEF Heard, gatewayVars
<1>1. SessionType'
  BY DEF SessionInv, SessionType
<1>2. AskTable'
  BY AsksLeft DEF SessionInv
<1>3. AnswersAreOwn'
  BY DEF SessionInv, AnswersAreOwn
<1> QED BY <1>1, <1>2, <1>3 DEF SessionInv

LEMMA EnteredStep ==
  ASSUME SessionInv, NEW c \in asks, Entered(c)
  PROVE  SessionInv'
<1> DEFINE w == DefaultOf(c.got)
<1>1. c \in AskType /\ c.got \in SUBSET Workspaces
  BY DEF SessionInv, AskTable, AskType
<1>2. w \in c.got \union {Broken}
  BY <1>1, DefaultIsOfAnswer
<1>3. \A v \in c.got : owner[v] = c.for /\ c.for # NoOne
  BY DEF SessionInv, AnswersAreOwn
<1>4. /\ user' = c.for /\ workspaces' = c.got /\ key' = w /\ workspace' = w
      /\ initialized' = (c.op = "listen" \/ initialized) /\ stored' = {c.for}
      /\ Heard(c) /\ owner' = owner
  BY DEF Entered, Heard, gatewayVars
<1> HIDE DEF w
<1>5. SessionOfStored'
  BY <1>1, <1>2, <1>3, <1>4, NobodyAssumption DEF SessionOfStored
<1>6. c.for \in Users \union {NoOne} /\ w \in Keys /\ initialized' \in BOOLEAN
  BY <1>1, <1>2, <1>4 DEF AskType, Keys, SessionInv, SessionType
<1> QED BY <1>1, <1>4, <1>5, <1>6, HeardStep

LEMMA UnknownStep ==
  ASSUME SessionInv, NEW c \in asks, Unknown(c)
  PROVE  SessionInv'
<1>1. c.for \in Users \union {NoOne}
  BY DEF SessionInv, AskTable, AskType
<1>2. /\ user' = c.for /\ workspace' = NoOne /\ workspaces' = {} /\ initialized' = TRUE
      /\ stored' = stored \union {c.for} /\ key' = key /\ Heard(c) /\ owner' = owner
  BY DEF Unknown, Heard, gatewayVars
<1>3. SessionOfStored'
  BY <1>2 DEF SessionInv, SessionOfStored
<1> QED BY <1>1, <1>2, <1>3, HeardStep DEF SessionInv, SessionType, Keys

LEMMA CreatedStep ==
  ASSUME SessionInv, NEW c \in asks, Created(c)
  PROVE  SessionInv'
<1> DEFINE w == DefaultOf(c.got)
<1>1. c \in AskType /\ c.got \in SUBSET Workspaces
  BY DEF SessionInv, AskTable, AskType
<1>2. w \in c.got \union {Broken}
  BY <1>1, DefaultIsOfAnswer
<1>3. \A v \in c.got : owner[v] = c.for /\ c.for # NoOne
  BY DEF SessionInv, AnswersAreOwn
<1>4. /\ workspaces' = workspaces \union {w} /\ key' = w /\ workspace' = w
      /\ stored' = stored \union {c.for} /\ user' = user /\ initialized' = initialized
      /\ Heard(c) /\ owner' = owner
  BY DEF Created, Heard, gatewayVars
<1> HIDE DEF w
<1>5. SessionOfStored'
  BY <1>1, <1>2, <1>3, <1>4, NobodyAssumption DEF SessionInv, SessionOfStored
<1>6. c.for \in Users \union {NoOne} /\ w \in Keys
  BY <1>1, <1>2 DEF AskType, Keys
<1>7. /\ stored' \subseteq Users \union {NoOne} /\ workspaces' \subseteq Workspaces \union {Broken}
      /\ user' \in Users \union {NoOne} /\ initialized' \in BOOLEAN
  BY <1>1, <1>2, <1>4, <1>6 DEF SessionInv, SessionType
<1> QED BY <1>4, <1>5, <1>6, <1>7, HeardStep

LEMMA IgnoredStep ==
  ASSUME SessionInv, NEW c \in asks, Ignored(c)
  PROVE  SessionInv'
<1>1. /\ UNCHANGED <<key, user, workspace, workspaces, initialized, stored>>
      /\ Heard(c) /\ owner' = owner
  BY DEF Ignored, Heard, gatewayVars
<1>2. SessionOfStored'
  BY <1>1 DEF SessionInv, SessionOfStored
<1> QED BY <1>1, <1>2, HeardStep DEF SessionInv, SessionType

LEMMA UnheardStep ==
  ASSUME SessionInv, NEW c \in asks, Unheard(c)
  PROVE  SessionInv'
<1> USE DEF Unheard, GatewayOnly, gatewayVars
<1>1. SessionType'
  BY DEF SessionInv, SessionType
<1>2. AskTable'
  BY AsksLeft DEF SessionInv
<1>3. AnswersAreOwn'
  BY DEF SessionInv, AnswersAreOwn
<1>4. SessionOfStored'
  BY DEF SessionInv, SessionOfStored
<1> QED BY <1>1, <1>2, <1>3, <1>4 DEF SessionInv

\* The other steps of the console only count their requests.
LEMMA OtherStep ==
  ASSUME SessionInv, UNCHANGED SessionButAsked,
         asked' = asked \/ (asked < MaxAsks /\ asked' = asked + 1)
  PROVE  SessionInv'
<1> USE DEF SessionButAsked
<1>1. asked \in Nat /\ asked' \in 0..MaxAsks /\ asked <= asked'
  BY AsksAssumption DEF SessionInv, SessionType
<1>2. SessionType'
  BY <1>1 DEF SessionInv, SessionType
<1>3. AskTable'
  <2>1. IdsOf(asks) \subseteq 1..MaxAsks
    BY IdsInRange DEF SessionInv, AskTable
  <2>2. Cardinality(IdsOf(asks)) \in Nat
    <3>1. IsFiniteSet(1..MaxAsks)
      BY FS_Interval, AsksAssumption
    <3> QED BY <2>1, <3>1, FS_Subset, FS_CardinalityType
  <2>3. Cardinality(IdsOf(asks))' <= asked'
    BY <1>1, <2>2 DEF SessionInv, AskTable, IdsOf
  <2> QED BY <2>3 DEF SessionInv, AskTable
<1>4. AnswersAreOwn'
  BY DEF SessionInv, AnswersAreOwn
<1>5. SessionOfStored'
  BY DEF SessionInv, SessionOfStored
<1> QED BY <1>2, <1>3, <1>4, <1>5 DEF SessionInv

-----------------------------------------------------------------------------
(* The session, whatever happens in the console.                             *)

LEMMA SessionInitially ==
  ASSUME NEW world \in Worlds, SessionInit(world)
  PROVE  SessionInv
<1> USE DEF SessionInit
<1>1. /\ accounts \subseteq Users /\ owner \in [Workspaces -> accounts \union {NoOne}]
      /\ NoOne \notin Users
  BY WorldsAssumption, NobodyAssumption
<1>2. organizations \subseteq accounts
  BY <1>1 DEF Own
<1> AskTable /\ AnswersAreOwn
  <2>1. asks = {} /\ asked = 0 /\ IdsOf(asks) = {}
    BY DEF IdsOf
  <2> QED BY <2>1, FS_EmptySet DEF AskTable, AnswersAreOwn
<1>3. CASE user = NoOne
  <2>1. workspaces = {} /\ key = NoOne /\ workspace = NoOne /\ firebase = NoOne /\ stored = {}
    BY <1>3
  <2>2. SessionType
    BY <1>1, <1>2, <2>1, AsksAssumption DEF SessionType, Keys
  <2>3. SessionOfStored
    BY <1>3, <2>1, NobodyAssumption DEF SessionOfStored
  <2> QED BY <2>2, <2>3 DEF SessionInv
<1>4. CASE user # NoOne
  <2>1. user \in Users /\ Own(user) # {} /\ workspaces = Own(user) /\ stored = {user}
    BY <1>1, <1>2, <1>4
  <2>2. \E m \in Own(user) : \A n \in Own(user) : m <= n
    <3>1. Own(user) \subseteq Workspaces
      BY DEF Own
    <3>2. Own(user) \in SUBSET Nat /\ IsFiniteSet(Own(user))
      BY <3>1, WorkspacesAssumption, FS_Subset
    <3> QED BY <2>1, <3>2, LeastExists
  <2>3. Oldest(Own(user)) \in Own(user)
    BY <2>2 DEF Oldest
  <2>4. key \in Own(user) /\ workspace = key
    BY <1>4, <2>1, <2>3
  <2>5. SessionType
    BY <1>1, <1>2, <2>1, <2>4, AsksAssumption DEF SessionType, Keys, Own
  <2>6. SessionOfStored
    BY <1>1, <2>1, <2>4 DEF SessionOfStored, Own
  <2> QED BY <2>5, <2>6 DEF SessionInv
<1> QED BY <1>3, <1>4

\* What the pages and the gateway's answers to them do leaves the session.
LEMMA PagesLeaveSession ==
  ASSUME Next, ~Session, ~Leave
  PROVE  /\ UNCHANGED SessionButAsked
         /\ asked' = asked \/ (asked < MaxAsks /\ asked' = asked + 1)
<1> USE DEF Request
<1>1. CASE \E p \in {"tools", "actions"} : OpenPage(p)
  BY <1>1 DEF OpenPage, SessionButAsked
<1>2. CASE Refresh \/ Toggle \/ Save \/ Delete \/ Import \/ Sync
  BY <1>2 DEF Refresh, Toggle, Save, Delete, Import, Sync, SessionButAsked
<1>3. CASE OpenEditor \/ CloseEditor \/ Serve
  <2>1. UNCHANGED sessionVars
    BY <1>3 DEF OpenEditor, CloseEditor, Serve
  <2> QED BY <2>1 DEF sessionVars, SessionButAsked
<1>4. CASE Handle
  <2>1. PICK c \in calls :
          \/ HandleLoad(c) \/ HandleTools(c) \/ HandleChange(c) \/ HandleFailure(c)
          \/ HandleImport(c) \/ HandleSync(c) \/ Dropped(c)
    BY <1>4 DEF Handle
  <2>2. CASE HandleLoad(c) \/ HandleTools(c) \/ HandleFailure(c) \/ Dropped(c)
    BY <2>2 DEF HandleLoad, HandleTools, HandleFailure, Dropped, SessionButAsked
  <2>3. CASE HandleChange(c) \/ HandleImport(c) \/ HandleSync(c)
    BY <2>3 DEF HandleChange, HandleImport, HandleSync, SessionButAsked
  <2> QED BY <2>1, <2>2, <2>3
<1> QED BY <1>1, <1>2, <1>3, <1>4 DEF Next

LEMMA AnswersStep ==
  ASSUME SessionInv, Answers
  PROVE  SessionInv'
<1>1. PICK c \in asks :
        ServeLogin(c) \/ ServeSignUp(c) \/ ServeCreate(c) \/ Fail(c)
        \/ Entered(c) \/ Unknown(c) \/ Created(c) \/ Ignored(c) \/ Unheard(c)
  BY DEF Answers
<1> QED BY <1>1, ServeLoginStep, ServeSignUpStep, ServeCreateStep, FailStep, EnteredStep,
           UnknownStep, CreatedStep, IgnoredStep, UnheardStep

LEMMA SessionStep ==
  ASSUME SessionInv, [Next]_vars
  PROVE  SessionInv'
<1>1. CASE Session
  BY <1>1, SignInStep, SignUpStep, SwitchWorkspaceStep, CreateWorkspaceStep, AnswersStep
     DEF Session
<1>2. CASE Leave
  BY <1>2, SignOutStep, ReloadStep DEF Leave
<1>3. CASE Next /\ ~Session /\ ~Leave
  BY <1>3, PagesLeaveSession, OtherStep
<1>4. CASE UNCHANGED vars
  <2>1. UNCHANGED SessionButAsked /\ asked' = asked
    BY <1>4 DEF vars, sessionVars, SessionButAsked
  <2> QED BY <2>1, OtherStep
<1> QED BY <1>1, <1>2, <1>3, <1>4

LEMMA SessionHolds == Spec => []SessionInv
<1>1. Init => SessionInv
  BY SessionInitially DEF Init
<1> QED BY <1>1, SessionStep, PTL DEF Spec

\* The session keeps the type that ConsoleSession states.
LEMMA SessionTypeFollows == SessionInv => SessionTypeOK
BY DEF SessionInv, SessionType, SessionTypeOK, AskTable, AskType, Keys

\* SessionIsOfUser (hooks/use-auth.ts, lib/api-client.ts): whatever the order of the
\* answers, requests carry the key of the workspace that is shown; and unless an
\* answer was stored for somebody who had signed out or been replaced meanwhile,
\* user, key and menu are those of the user firebase holds.
THEOREM TheSessionIsOfTheUser == Spec => []SessionIsOfUser
<1>1. SessionInv => SessionIsOfUser
  <2> SUFFICES ASSUME SessionInv PROVE SessionIsOfUser
    OBVIOUS
  <2>1. ASSUME stored \subseteq {firebase}
        PROVE  /\ user \in {NoOne, firebase}
               /\ key \in {NoOne, Broken} \union Own(firebase)
               /\ workspaces \subseteq {Broken} \union Own(firebase)
    BY <2>1 DEF SessionInv, SessionType, SessionOfStored, Keys, Own
  <2> QED BY <2>1 DEF SessionInv, SessionOfStored, SessionIsOfUser
<1> QED BY <1>1, SessionHolds, PTL

-----------------------------------------------------------------------------
(* The requests of the pages.                                                *)

Changing == {"toggle", "save", "delete", "import"}
Edits == {"toggle", "save", "delete"}
Texts == 0..1
EditType == [target : Actions \union {NoOne}, clicked : Actions \union {NoOne}]

\* What a request may be sent about with the key k, and that it is about it.
Sendable(op, e, k) ==
  /\ op \in Changing =>
       e.target \in Actions /\ e.clicked \in Actions /\ NameOf[e.target] = NameOf[e.clicked]
  /\ op = "import" => HomeOf[e.target] = k \/ k \notin Workspaces
CallType ==
  [id : 1..MaxAsks, op : Touching \union {"tools", "sync"}, as : Keys, by : Users \union {NoOne},
   target : Actions \union {NoOne}, clicked : Actions \union {NoOne}, text : Texts,
   at : {"sent", "read", "done", "refused", "lost"}, seen : Row \union {NoOne},
   list : [Actions -> Row \union {NoOne}] \union {NoOne}, tools : (SUBSET Actions) \union {NoOne},
   gone : BOOLEAN, alone : BOOLEAN]

PagesType ==
  /\ rows \in [Actions -> Row \union {NoOne}] /\ registry \subseteq Actions
  /\ page \in {"none", "tools", "actions"} /\ loading \in BOOLEAN
  /\ list \in [Actions -> Row \union {NoOne}] /\ tools \subseteq Actions
  /\ editing \in [target : Actions, clicked : Actions] \union {Closed}
  /\ listed \in Keys /\ unsure \subseteq Actions

\* What a request is about, and how far it can have come.
Meant(c) ==
  /\ c.op \in Changing =>
       c.target \in Actions /\ c.clicked \in Actions /\ NameOf[c.target] = NameOf[c.clicked]
  /\ c.at = "read" => c.op \in Edits /\ c.seen \in Row /\ HomeOf[c.target] = c.as
  /\ c.op = "import" => HomeOf[c.target] = c.as \/ c.as \notin Workspaces
  /\ c.gone => c.op \in Changing
  /\ c.list # NoOne => \A a \in Actions : c.list[a] # NoOne => HomeOf[a] = c.as
CallTable(S, n) ==
  /\ S \subseteq CallType /\ Cardinality(IdsOf(S)) <= n
  /\ \A c \in S : Meant(c)
PageMeant ==
  /\ editing # Closed => NameOf[editing.target] = NameOf[editing.clicked]
  /\ \A a \in Actions : list[a] # NoOne => HomeOf[a] = listed

\* Who asked owns the workspace of the key that was sent.
AskedByOwner(S, own) == \A c \in S : c.by # NoOne /\ c.as \in Workspaces => own[c.as] = c.by

\* A request that nothing has overlapped is the only one that reads or changes rows.
AloneIsAlone(S) == \A c, d \in S : c.op \in Touching /\ d.op \in Touching /\ c.alone => c = d

\* So its answer is what is stored in the rows R; and if the list L, of the
\* workspace w and unsure only of U, has not the row it changes, w has no such row.
AnswerIsStored(c, R, L, w, U) ==
  c.alone =>
    /\ c.op = "load" /\ c.list # NoOne => c.list = Of(c.as, R)
    /\ c.op \in Edits /\ c.at = "done" => R[c.target] = c.seen
    /\ c.op \in Edits /\ w # NoOne /\ c.target \notin U /\ L[c.target] = NoOne =>
         HomeOf[c.target] # w \/ R[c.target] = NoOne
AnswersAreStored(S, R, L, w, U) == \A c \in S : AnswerIsStored(c, R, L, w, U)

\* A page that was left and still changes something makes every row unsure.
GoneIsUnsure(S, U) == \A c \in S : c.gone => U = Actions

\* A row of the page is the stored one, or the answer that says so is under way.
Answering(S, a) == \E c \in S : c.op \in Changing /\ c.target = a /\ c.at \in {"done", "lost"}
RowsOrAnswers(S, R, L, w, U) ==
  w # NoOne => \A a \in Actions \ U : L[a] = Of(w, R)[a] \/ Answering(S, a)

\* What is under way, and what is known of it on a page.
Pending(S, R, L, w, U) ==
  /\ AloneIsAlone(S) /\ AnswersAreStored(S, R, L, w, U)
  /\ GoneIsUnsure(S, U) /\ RowsOrAnswers(S, R, L, w, U)

ConsoleInv ==
  /\ SessionInv /\ PagesType /\ PageMeant
  /\ CallTable(calls, asked) /\ AskedByOwner(calls, owner)
  /\ Pending(calls, rows, list, listed, unsure)

-----------------------------------------------------------------------------
(* A request more.                                                           *)

\* Requests are no longer alone, and are otherwise what they were.
Like(d, c) ==
  /\ d.id = c.id /\ d.op = c.op /\ d.as = c.as /\ d.by = c.by /\ d.target = c.target
  /\ d.clicked = c.clicked /\ d.at = c.at /\ d.seen = c.seen /\ d.list = c.list

LEMMA AloneKeeps ==
  ASSUME NEW S \in SUBSET CallType, NEW op
  PROVE  /\ Alone(S, op) \subseteq CallType /\ IdsOf(Alone(S, op)) \subseteq IdsOf(S)
         /\ \A d \in Alone(S, op) : \E c \in S :
              Like(d, c) /\ d.gone = c.gone /\ (op \in Touching => ~d.alone) /\ (op \notin Touching => d = c)
         /\ \A c \in S : \E d \in Alone(S, op) : Like(d, c)
<1>1. CASE op \notin Touching
  BY <1>1 DEF Alone, Like
<1>2. CASE op \in Touching
  <2>1. \A c \in S : LET d == [c EXCEPT !.alone = FALSE] IN
          d \in CallType /\ Like(d, c) /\ d.gone = c.gone /\ d.alone = FALSE
    BY DEF CallType, Like
  <2>2. Alone(S, op) = {[c EXCEPT !.alone = FALSE] : c \in S}
    BY <1>2 DEF Alone
  <2>3. \A d \in Alone(S, op) : \E c \in S :
          d \in CallType /\ Like(d, c) /\ d.gone = c.gone /\ d.alone = FALSE
    BY <2>1, <2>2
  <2>4. \A c \in S : \E d \in Alone(S, op) : Like(d, c)
    BY <2>1, <2>2
  <2>5. IdsOf(Alone(S, op)) \subseteq IdsOf(S)
    BY <2>3 DEF IdsOf, Like
  <2> QED BY <1>2, <2>3, <2>4, <2>5
<1> QED BY <1>1, <1>2

LEMMA CallIdsInRange ==
  ASSUME NEW S \in SUBSET CallType
  PROVE  IdsOf(S) \subseteq 1..MaxAsks
BY DEF IdsOf, CallType

\* What is sent beside S: by the user whose key it carries, and without an answer so far.
Sent(c, S, op, e) ==
  /\ c.op = op /\ c.as = key /\ c.at = "sent" /\ c.list = NoOne
  /\ c.target = e.target /\ c.clicked = e.clicked /\ c.gone = FALSE
  /\ c.alone = (op \notin Touching \/ ~Busy(S))
  /\ c.by # NoOne /\ c.as \in Workspaces => owner[c.as] = c.by

LEMMA CallIsNew ==
  ASSUME SessionInv, NEW S, CallTable(S, asked), asked < MaxAsks,
         NEW op \in Touching \union {"tools", "sync"}, NEW text \in Texts,
         NEW e \in EditType
  PROVE  Call(S, op, e, text) \in CallType /\ Sent(Call(S, op, e, text), S, op, e)
<1> DEFINE id == CHOOSE i \in 1..MaxAsks : \A c \in S : c.id # i
           by == IF stored \subseteq {firebase} THEN firebase ELSE NoOne
           c == Call(S, op, e, text)
<1>1. \E i \in 1..MaxAsks : i \notin IdsOf(S)
  <2>1. IdsOf(S) \in SUBSET (1..MaxAsks) /\ asked \in Nat
    BY CallIdsInRange, AsksAssumption DEF CallTable, SessionInv, SessionType
  <2> QED BY <2>1, FreeIdExists DEF CallTable
<1>2. id \in 1..MaxAsks
  BY <1>1 DEF IdsOf
<1>3. by \in Users \union {NoOne} /\ key \in Keys
  BY DEF SessionInv, SessionType
<1>4. c = [id |-> id, op |-> op, as |-> key, by |-> by,
           target |-> e.target, clicked |-> e.clicked, text |-> text, at |-> "sent",
           seen |-> NoOne, list |-> NoOne, tools |-> NoOne, gone |-> FALSE,
           alone |-> op \notin Touching \/ ~Busy(S)]
  BY DEF Call
<1>5. key \in Workspaces /\ by # NoOne => owner[key] = by
  BY DEF SessionInv, SessionOfStored
<1> HIDE DEF id, by
<1>6. (op \notin Touching \/ ~Busy(S)) \in BOOLEAN
  OBVIOUS
<1>7. c \in CallType
  BY <1>2, <1>3, <1>4, <1>6 DEF CallType, EditType
<1> QED BY <1>4, <1>5, <1>7 DEF Sent

LEMMA RequestTable ==
  ASSUME SessionInv, NEW S, CallTable(S, asked), AskedByOwner(S, owner),
         NEW op \in Touching \union {"tools", "sync"}, NEW text \in Texts,
         NEW e \in EditType,
         Sendable(op, e, key), Request(S, op, e, text)
  PROVE  CallTable(calls', asked') /\ AskedByOwner(calls', owner)
<1>1. /\ asked < MaxAsks /\ asked' = asked + 1 /\ asked \in Nat
      /\ calls' = Alone(S, op) \union {Call(S, op, e, text)}
  BY AsksAssumption DEF Request, SessionInv, SessionType
<1>2. PICK new \in CallType : new = Call(S, op, e, text) /\ Sent(new, S, op, e)
  BY <1>1, CallIsNew
<1>3. /\ Alone(S, op) \subseteq CallType /\ IdsOf(Alone(S, op)) \subseteq IdsOf(S)
      /\ \A d \in Alone(S, op) : \E c \in S : Like(d, c) /\ d.gone = c.gone
  BY AloneKeeps DEF CallTable
<1>4. Cardinality(IdsOf(calls')) <= asked'
  <2>1. IdsOf(calls') \subseteq IdsOf(S) \union {new.id}
    BY <1>1, <1>2, <1>3 DEF IdsOf
  <2>2. IdsOf(S) \subseteq 1..MaxAsks /\ Cardinality(IdsOf(S)) <= asked
    BY CallIdsInRange DEF CallTable
  <2> QED BY <1>1, <2>1, <2>2, IdAdded
<1>5. \A d \in Alone(S, op) : Meant(d)
  BY <1>3 DEF CallTable, Meant, Like
<1>6. Meant(new)
  BY <1>2 DEF Meant, Sent, Sendable
<1>7. \A d \in Alone(S, op) : d.by # NoOne /\ d.as \in Workspaces => owner[d.as] = d.by
  BY <1>3 DEF AskedByOwner, Like
<1> QED BY <1>1, <1>2, <1>3, <1>4, <1>5, <1>6, <1>7 DEF CallTable, AskedByOwner, Sent

\* What overlaps is not alone; what is alone, nothing was under way for.
LEMMA RequestPending ==
  ASSUME SessionInv, NEW S, CallTable(S, asked), NEW R, NEW L, NEW w, NEW U,
         Pending(S, R, L, w, U),
         NEW op \in Touching \union {"tools", "sync"}, NEW text \in Texts,
         NEW e \in EditType,
         Sendable(op, e, key), Request(S, op, e, text)
  PROVE  Pending(calls', R, L, w, U)
<1>1. asked < MaxAsks /\ calls' = Alone(S, op) \union {Call(S, op, e, text)}
  BY DEF Request
<1>2. PICK new \in CallType : new = Call(S, op, e, text) /\ Sent(new, S, op, e)
  BY <1>1, CallIsNew
<1>3. /\ \A d \in Alone(S, op) : \E c \in S :
           Like(d, c) /\ d.gone = c.gone /\ (op \in Touching => ~d.alone) /\ (op \notin Touching => d = c)
      /\ \A c \in S : \E d \in Alone(S, op) : Like(d, c)
  BY AloneKeeps DEF CallTable
<1>4. AloneIsAlone(calls')
  <2>1. CASE op \in Touching
    <3>1. \A d \in Alone(S, op) : ~d.alone
      BY <1>3, <2>1
    <3>2. new.alone => \A d \in Alone(S, op) : d.op \notin Touching
      BY <1>2, <1>3, <2>1 DEF Sent, Busy, Like
    <3> QED BY <1>1, <1>2, <3>1, <3>2 DEF AloneIsAlone
  <2>2. CASE op \notin Touching
    BY <1>1, <1>2, <1>3, <2>2 DEF AloneIsAlone, Pending, Sent
  <2> QED BY <2>1, <2>2
<1>5. AnswersAreStored(calls', R, L, w, U)
  <2>1. ASSUME NEW d \in Alone(S, op)
        PROVE  AnswerIsStored(d, R, L, w, U)
    BY <1>3 DEF Pending, AnswersAreStored, AnswerIsStored
  <2>2. AnswerIsStored(new, R, L, w, U)
    <3> SUFFICES ASSUME op \in Edits, ~Busy(S), w # NoOne, e.target \in Actions \ U,
                        L[e.target] = NoOne
                 PROVE  HomeOf[e.target] # w \/ R[e.target] = NoOne
      BY <1>2 DEF AnswerIsStored, Edits, Touching, Sent, Sendable, Changing
    <3>1. ~Answering(S, e.target)
      BY DEF Busy, Answering, Changing, Touching
    <3>2. L[e.target] = Of(w, R)[e.target]
      BY <3>1 DEF Pending, RowsOrAnswers
    <3> QED BY <3>2 DEF Of
  <2> QED BY <1>1, <1>2, <2>1, <2>2 DEF AnswersAreStored
<1>6. GoneIsUnsure(calls', U)
  BY <1>1, <1>2, <1>3 DEF Pending, GoneIsUnsure, Sent
<1>7. RowsOrAnswers(calls', R, L, w, U)
  <2>1. \A a \in Actions : Answering(S, a) => Answering(calls', a)
    BY <1>1, <1>3 DEF Answering, Like
  <2> QED BY <2>1 DEF Pending, RowsOrAnswers
<1> QED BY <1>4, <1>5, <1>6, <1>7 DEF Pending

\* A request less.
LEMMA FewerCalls ==
  ASSUME NEW S, NEW T \in SUBSET S, CallTable(S, asked), asked \in Nat, AskedByOwner(S, owner)
  PROVE  CallTable(T, asked) /\ AskedByOwner(T, owner)
<1>1. Cardinality(IdsOf(T)) <= asked
  <2>1. IdsOf(S) \subseteq 1..MaxAsks /\ IdsOf(T) \subseteq IdsOf(S)
    BY CallIdsInRange DEF CallTable, IdsOf
  <2> QED BY <2>1, IdsKept DEF CallTable
<1> QED BY <1>1 DEF CallTable, AskedByOwner

-----------------------------------------------------------------------------
(* A page is opened or left.                                                 *)

LEMMA LeftKeeps ==
  ASSUME ConsoleInv
  PROVE  /\ CallTable(Left, asked) /\ AskedByOwner(Left, owner)
         /\ AloneIsAlone(Left)
         /\ \A d \in Left : d.op \in Changing /\ d.at \in {"sent", "read"}
<1> DEFINE D == {d \in calls : d.op \in Touching \ {"load"} /\ d.at \in {"sent", "read"}}
           G(c) == [c EXCEPT !.gone = TRUE]
<1>1. calls \subseteq CallType /\ asked \in Nat /\ IdsOf(calls) \subseteq 1..MaxAsks
  BY CallIdsInRange, AsksAssumption DEF ConsoleInv, CallTable, SessionInv, SessionType
<1>2. \A c \in D : /\ G(c) \in CallType /\ Like(G(c), c) /\ G(c).alone = c.alone
                   /\ G(c).op \in Changing /\ G(c).at \in {"sent", "read"}
  BY <1>1 DEF CallType, Like, Changing, Touching
<1>3. Left = {G(c) : c \in D}
  BY DEF Left
<1> HIDE DEF D, G
<1>4. \A d \in Left : \E c \in calls :
        /\ d \in CallType /\ Like(d, c) /\ d.alone = c.alone /\ d = G(c)
        /\ d.op \in Changing /\ d.at \in {"sent", "read"}
  <2>1. D \subseteq calls
    BY DEF D
  <2> QED BY <1>2, <1>3, <2>1
<1>5. CallTable(Left, asked)
  <2>1. IdsOf(Left) \subseteq IdsOf(calls)
    BY <1>4 DEF IdsOf, Like
  <2>2. Cardinality(IdsOf(Left)) <= asked
    BY <1>1, <2>1, IdsKept DEF ConsoleInv, CallTable
  <2>3. \A d \in Left : Meant(d)
    BY <1>4 DEF ConsoleInv, CallTable, Meant, Like
  <2> QED BY <1>4, <2>2, <2>3 DEF CallTable
<1>6. AskedByOwner(Left, owner)
  BY <1>4 DEF ConsoleInv, AskedByOwner, Like
<1>7. AloneIsAlone(Left)
  BY <1>4 DEF ConsoleInv, Pending, AloneIsAlone, Like
<1> QED BY <1>4, <1>5, <1>6, <1>7

\* An empty list, of no workspace, all of which is unsure.
LEMMA ClosedIsPending ==
  ASSUME ConsoleInv
  PROVE  Pending(Left, rows, Blank, NoOne, Actions)
<1>1. AnswersAreStored(Left, rows, Blank, NoOne, Actions)
  BY LeftKeeps DEF AnswersAreStored, AnswerIsStored, Changing
<1> QED BY <1>1, LeftKeeps DEF Pending, GoneIsUnsure, RowsOrAnswers

\* Whatever else is asked and answered, owners keep what they own.
LEMMA OwnersStay ==
  ASSUME SessionInv, Session \/ Leave
  PROVE  \A w \in Workspaces : owner[w] # NoOne => owner'[w] = owner[w]
<1>1. CASE owner' = owner
  BY <1>1
<1>2. CASE \E c \in asks : ServeSignUp(c) \/ ServeCreate(c)
  <2>1. \A w, u : Recorded(w, u) => \A v \in Workspaces : owner[v] # NoOne => owner'[v] = owner[v]
    BY DEF Recorded, Unused, Own, SessionInv, SessionType
  <2> QED BY <1>2, <2>1 DEF ServeSignUp, ServeCreate
<1>3. CASE Leave
  BY <1>3 DEF Leave, SignOut, Reload, gatewayVars
<1>4. CASE Session /\ ~Answers
  BY <1>4 DEF Session, SignIn, SignUp, SwitchWorkspace, CreateWorkspace, gatewayVars
<1>5. CASE Answers
  <2>1. PICK c \in asks :
          ServeLogin(c) \/ ServeSignUp(c) \/ ServeCreate(c) \/ Fail(c)
          \/ Entered(c) \/ Unknown(c) \/ Created(c) \/ Ignored(c) \/ Unheard(c)
    BY <1>5 DEF Answers
  <2>2. ServeSignUp(c) \/ ServeCreate(c) \/ owner' = owner
    BY <2>1 DEF ServeLogin, Fail, Entered, Unknown, Created, Ignored, Unheard, Heard, gatewayVars
  <2> QED BY <1>1, <1>2, <2>2
<1> QED BY <1>3, <1>4, <1>5

LEMMA AskedGrows ==
  ASSUME SessionInv, Session \/ Leave
  PROVE  asked' = asked \/ asked' = asked + 1
<1>1. CASE Leave
  BY <1>1 DEF Leave, SignOut, Reload
<1>2. CASE Session /\ ~Answers
  BY <1>2 DEF Session, SignIn, SignUp, SwitchWorkspace, CreateWorkspace, Send
<1>3. CASE Answers
  BY <1>3 DEF Answers, ServeLogin, ServeSignUp, ServeCreate, Fail, Entered, Unknown, Created,
              Ignored, Unheard, Heard, GatewayOnly
<1> QED BY <1>1, <1>2, <1>3

LEMMA TableLasts ==
  ASSUME SessionInv, NEW S, CallTable(S, asked), AskedByOwner(S, owner), Session \/ Leave
  PROVE  CallTable(S, asked') /\ AskedByOwner(S, owner')
<1>1. S \subseteq CallType
  BY DEF CallTable
<1>2. Cardinality(IdsOf(S)) <= asked'
  <2>1. IsFiniteSet(1..MaxAsks) /\ IdsOf(S) \subseteq 1..MaxAsks
    BY <1>1, CallIdsInRange, FS_Interval, AsksAssumption
  <2>2. Cardinality(IdsOf(S)) \in Nat /\ asked \in Nat
    BY <2>1, FS_Subset, FS_CardinalityType, AsksAssumption DEF SessionInv, SessionType
  <2> QED BY <2>2, AskedGrows DEF CallTable
<1>3. AskedByOwner(S, owner')
  BY OwnersStay DEF AskedByOwner
<1> QED BY <1>2, <1>3 DEF CallTable

LEMMA SessionKeeps ==
  ASSUME ConsoleInv, Session
  PROVE  ConsoleInv'
<1>1. SessionInv'
  BY SessionStep DEF ConsoleInv, Next
<1>2. UNCHANGED <<rows, registry, page, list, tools, loading, editing, calls, listed, unsure>>
  BY DEF Session, consoleVars
<1>3. CallTable(calls, asked') /\ AskedByOwner(calls, owner')
  BY TableLasts DEF ConsoleInv
<1> QED BY <1>1, <1>2, <1>3 DEF ConsoleInv, PagesType, PageMeant

LEMMA BlankPage ==
  ASSUME ConsoleInv, CloseAnd(page'), page' \in {"none", "tools", "actions"},
         loading' \in BOOLEAN, UNCHANGED storeVars
  PROVE  PagesType' /\ PageMeant'
<1> USE DEF CloseAnd
<1>1. PagesType'
  BY DEF ConsoleInv, PagesType, Blank, Keys, storeVars
<1>2. PageMeant'
  BY DEF PageMeant, Blank
<1> QED BY <1>1, <1>2

LEMMA LeaveKeeps ==
  ASSUME ConsoleInv, Leave
  PROVE  ConsoleInv'
<1>1. SessionInv'
  BY SessionStep DEF ConsoleInv, Next
<1>2. /\ CloseAnd("none") /\ loading' = FALSE /\ calls' = Left /\ UNCHANGED storeVars
      /\ page' = "none"
  BY DEF Leave, CloseAnd
<1>3. PagesType' /\ PageMeant'
  BY <1>2, BlankPage
<1>4. CallTable(calls', asked') /\ AskedByOwner(calls', owner')
  BY <1>2, LeftKeeps, TableLasts DEF ConsoleInv
<1>5. Pending(calls', rows', list', listed', unsure')
  BY <1>2, ClosedIsPending DEF CloseAnd, storeVars
<1> QED BY <1>1, <1>3, <1>4, <1>5 DEF ConsoleInv

LEMMA NothingIsSendable ==
  ASSUME NEW op, NEW k, op \notin Changing
  PROVE  Closed \in EditType /\ Sendable(op, Closed, k)
BY DEF Closed, EditType, Sendable, Changing

LEMMA OpenPageKeeps ==
  ASSUME ConsoleInv, NEW p \in {"tools", "actions"}, OpenPage(p)
  PROVE  ConsoleInv'
<1>1. SessionInv'
  BY SessionStep DEF ConsoleInv, Next
<1>2. /\ CloseAnd(p) /\ page' = p /\ loading' = TRUE /\ Request(Left, "load", Closed, 0)
      /\ UNCHANGED storeVars /\ owner' = owner
  BY DEF OpenPage, CloseAnd, SessionButAsked
<1>3. PagesType' /\ PageMeant'
  BY <1>2, BlankPage
<1>4. Closed \in EditType /\ Sendable("load", Closed, key) /\ 0 \in Texts
      /\ "load" \in Touching \union {"tools", "sync"}
  BY NothingIsSendable DEF Changing, Touching, Texts
<1>5. CallTable(calls', asked') /\ AskedByOwner(calls', owner')
  BY <1>2, <1>4, LeftKeeps, RequestTable DEF ConsoleInv
<1>6. Pending(calls', rows, Blank, NoOne, Actions)
  BY <1>2, <1>4, LeftKeeps, ClosedIsPending, RequestPending DEF ConsoleInv
<1>7. Pending(calls', rows', list', listed', unsure')
  BY <1>2, <1>6 DEF CloseAnd, storeVars
<1> QED BY <1>1, <1>3, <1>5, <1>7 DEF ConsoleInv

-----------------------------------------------------------------------------
(* A request from the page that is shown.                                    *)

LEMMA PageRequest ==
  ASSUME ConsoleInv, NEW op \in Touching \union {"tools", "sync"}, NEW text \in Texts,
         NEW e \in EditType, Sendable(op, e, key), Request(calls, op, e, text),
         UNCHANGED <<SessionButAsked, rows, registry, list, listed, unsure>>
  PROVE  /\ SessionInv'
         /\ CallTable(calls', asked') /\ AskedByOwner(calls', owner')
         /\ Pending(calls', rows', list', listed', unsure')
<1>1. SessionInv'
  BY OtherStep DEF ConsoleInv, Request
<1>2. CallTable(calls', asked') /\ AskedByOwner(calls', owner')
  <2>1. CallTable(calls', asked') /\ AskedByOwner(calls', owner)
    BY RequestTable DEF ConsoleInv
  <2> QED BY <2>1 DEF SessionButAsked
<1>3. Pending(calls', rows', list', listed', unsure')
  <2>1. Pending(calls', rows, list, listed, unsure)
    BY RequestPending DEF ConsoleInv
  <2> QED BY <2>1
<1> QED BY <1>1, <1>2, <1>3

LEMMA RefreshKeeps ==
  ASSUME ConsoleInv, Refresh
  PROVE  ConsoleInv'
<1>1. Closed \in EditType /\ Sendable("load", Closed, key) /\ 0 \in Texts
      /\ "load" \in Touching \union {"tools", "sync"}
  BY NothingIsSendable DEF Changing, Touching, Texts
<1>2. /\ Request(calls, "load", Closed, 0) /\ loading' = TRUE
      /\ UNCHANGED <<SessionButAsked, rows, registry, page, list, tools, editing, listed, unsure>>
  BY DEF Refresh, storeVars
<1>3. PagesType' /\ PageMeant'
  BY <1>2 DEF ConsoleInv, PagesType, PageMeant
<1> QED BY <1>1, <1>2, <1>3, PageRequest DEF ConsoleInv

LEMMA ClicksAreMeant ==
  ASSUME ConsoleInv, NEW e \in Clicks
  PROVE  /\ e \in [target : Actions, clicked : Actions] /\ e \in EditType
         /\ NameOf[e.target] = NameOf[e.clicked]
         /\ \A op \in Edits, k \in Keys : Sendable(op, e, k)
<1>1. e \in [target : Actions, clicked : Actions] /\ NameOf[e.target] = NameOf[e.clicked]
  <2>1. CASE page = "actions"
    BY <2>1 DEF Clicks, Shown
  <2>2. CASE page # "actions"
    BY <2>2 DEF Clicks, Shown, ConsoleInv, PagesType
  <2> QED BY <2>1, <2>2
<1> QED BY <1>1 DEF EditType, Sendable, Edits

LEMMA EditingIsMeant ==
  ASSUME ConsoleInv, editing # Closed
  PROVE  editing \in EditType /\ \A op \in Edits, k \in Keys : Sendable(op, editing, k)
BY DEF ConsoleInv, PagesType, PageMeant, EditType, Sendable, Edits

\* A button of the page, which stays as it is.
LEMMA ButtonKeeps ==
  ASSUME ConsoleInv, Toggle \/ Save \/ Delete \/ Import \/ Sync
  PROVE  ConsoleInv'
<1>1. PICK op \in Touching \union {"tools", "sync"}, e \in EditType, text \in Texts :
        Sendable(op, e, key) /\ Request(calls, op, e, text)
  <2>1. key \in Keys
    BY DEF ConsoleInv, SessionInv, SessionType
  <2>2. CASE Toggle
    <3>1. PICK e \in Clicks : Request(calls, "toggle", e, 0)
      BY <2>2 DEF Toggle
    <3> QED BY <2>1, <3>1, ClicksAreMeant DEF Edits, Touching, Texts
  <2>3. CASE Save
    BY <2>1, <2>3, EditingIsMeant DEF Save, Edits, Touching, Texts
  <2>4. CASE Delete
    BY <2>1, <2>4, EditingIsMeant DEF Delete, Edits, Touching, Texts
  <2>5. CASE Import
    <3>1. PICK a \in Actions :
            /\ HomeOf[a] = key \/ key \notin Workspaces
            /\ Request(calls, "import", [target |-> a, clicked |-> a], 0)
      BY <2>5 DEF Import, Known
    <3> DEFINE e == [target |-> a, clicked |-> a]
    <3>2. e \in EditType /\ Sendable("import", e, key)
      BY <3>1 DEF EditType, Sendable
    <3> QED BY <3>1, <3>2 DEF Touching, Texts
  <2>6. CASE Sync
    <3>1. Closed \in EditType /\ Sendable("sync", Closed, key)
      BY NothingIsSendable DEF Changing
    <3> QED BY <2>6, <3>1 DEF Sync, Texts
  <2> QED BY <2>2, <2>3, <2>4, <2>5, <2>6
<1>2. UNCHANGED <<SessionButAsked, rows, registry, page, list, tools, loading, editing, listed, unsure>>
  BY DEF Toggle, Save, Delete, Import, Sync, storeVars, pageVars
<1>3. PagesType' /\ PageMeant'
  BY <1>2 DEF ConsoleInv, PagesType, PageMeant
<1> QED BY <1>1, <1>2, <1>3, PageRequest DEF ConsoleInv

\* The dialog is opened or closed.
LEMMA EditorKeeps ==
  ASSUME ConsoleInv, OpenEditor \/ CloseEditor
  PROVE  ConsoleInv'
<1>1. SessionInv' /\ asked' = asked /\ owner' = owner
  <2>1. UNCHANGED sessionVars
    BY DEF OpenEditor, CloseEditor
  <2> QED BY <2>1, OtherStep DEF ConsoleInv, sessionVars, SessionButAsked
<1>2. UNCHANGED <<rows, registry, page, list, tools, loading, calls, listed, unsure>>
  BY DEF OpenEditor, CloseEditor, storeVars
<1>3. editing' = Closed \/ editing' \in Clicks
  BY DEF OpenEditor, CloseEditor
<1>4. /\ editing' \in [target : Actions, clicked : Actions] \union {Closed}
      /\ editing' # Closed => NameOf[editing'.target] = NameOf[editing'.clicked]
  BY <1>3, ClicksAreMeant
<1>5. PagesType' /\ PageMeant'
  BY <1>2, <1>4 DEF ConsoleInv, PagesType, PageMeant
<1> QED BY <1>1, <1>2, <1>5 DEF ConsoleInv

-----------------------------------------------------------------------------
(* The gateway's statements.                                                 *)

\* The same request, further on.
Same(d, c) ==
  /\ d.id = c.id /\ d.op = c.op /\ d.as = c.as /\ d.by = c.by /\ d.target = c.target
  /\ d.clicked = c.clicked /\ d.gone = c.gone /\ d.alone = c.alone

LEMMA StepKeeps ==
  ASSUME ConsoleInv, NEW c \in calls, NEW d \in CallType, Same(d, c), Meant(d), Step(c, d),
         UNCHANGED <<asked, owner>>
  PROVE  /\ CallTable(calls', asked') /\ AskedByOwner(calls', owner')
         /\ AloneIsAlone(calls') /\ GoneIsUnsure(calls', unsure)
<1>1. calls' = (calls \ {c}) \union {d}
  BY DEF Step
<1>2. CallTable(calls', asked)
  <2>1. calls \subseteq CallType /\ asked \in Nat /\ IdsOf(calls) \subseteq 1..MaxAsks
    BY CallIdsInRange, AsksAssumption DEF ConsoleInv, CallTable, SessionInv, SessionType
  <2>2. IdsOf(calls') \subseteq IdsOf(calls)
    BY <1>1 DEF IdsOf, Same
  <2>3. Cardinality(IdsOf(calls')) <= asked
    BY <2>1, <2>2, IdsKept DEF ConsoleInv, CallTable
  <2> QED BY <1>1, <2>1, <2>3 DEF ConsoleInv, CallTable
<1>3. AskedByOwner(calls', owner)
  BY <1>1 DEF ConsoleInv, AskedByOwner, Same
<1>4. AloneIsAlone(calls')
  BY <1>1 DEF ConsoleInv, Pending, AloneIsAlone, Same
<1>5. GoneIsUnsure(calls', unsure)
  BY <1>1 DEF ConsoleInv, Pending, GoneIsUnsure, Same
<1> QED BY <1>2, <1>3, <1>4, <1>5

\* A statement that changes no row.
LEMMA ReadingKeeps ==
  ASSUME ConsoleInv, NEW c \in calls, NEW d \in CallType, Same(d, c), Meant(d), Step(c, d),
         AnswerIsStored(d, rows, list, listed, unsure),
         c.at \in {"done", "lost"} => d.at \in {"done", "lost"},
         UNCHANGED <<asked, owner>>
  PROVE  /\ CallTable(calls', asked') /\ AskedByOwner(calls', owner')
         /\ Pending(calls', rows, list, listed, unsure)
<1>1. calls' = (calls \ {c}) \union {d}
  BY DEF Step
<1>2. AnswersAreStored(calls', rows, list, listed, unsure)
  BY <1>1 DEF ConsoleInv, Pending, AnswersAreStored
<1>3. \A a \in Actions : Answering(calls, a) => Answering(calls', a)
  BY <1>1 DEF Answering, Same
<1>4. RowsOrAnswers(calls', rows, list, listed, unsure)
  BY <1>3 DEF ConsoleInv, Pending, RowsOrAnswers
<1> QED BY <1>2, <1>4, StepKeeps DEF Pending

\* A statement that changes the row it is about: it answers for that row, and no
\* other request is alone.
LEMMA WritingKeeps ==
  ASSUME ConsoleInv, NEW c \in calls, NEW d \in CallType, Same(d, c), Meant(d), Step(c, d),
         NEW R, \A a \in Actions : a # c.target => R[a] = rows[a],
         c.op \in Changing, d.at = "done", AnswerIsStored(d, R, list, listed, unsure),
         UNCHANGED <<asked, owner>>
  PROVE  /\ CallTable(calls', asked') /\ AskedByOwner(calls', owner')
         /\ Pending(calls', R, list, listed, unsure)
<1>1. calls' = (calls \ {c}) \union {d}
  BY DEF Step
<1>2. AnswersAreStored(calls', R, list, listed, unsure)
  <2>1. ASSUME NEW e \in calls, e # c
        PROVE  AnswerIsStored(e, R, list, listed, unsure)
    <3>1. e.alone => e.op \notin Touching
      BY <2>1 DEF ConsoleInv, Pending, AloneIsAlone, Changing, Touching
    <3> QED BY <3>1 DEF AnswerIsStored, Touching, Edits
  <2> QED BY <1>1, <2>1 DEF AnswersAreStored
<1>3. RowsOrAnswers(calls', R, list, listed, unsure)
  <2> SUFFICES ASSUME listed # NoOne, NEW a \in Actions \ unsure
               PROVE  list[a] = Of(listed, R)[a] \/ Answering(calls', a)
    BY DEF RowsOrAnswers
  <2>1. CASE a = c.target
    BY <1>1, <2>1 DEF Answering, Same
  <2>2. CASE a # c.target
    <3>1. list[a] = Of(listed, rows)[a] \/ Answering(calls, a)
      BY DEF ConsoleInv, Pending, RowsOrAnswers
    <3>2. Of(listed, R)[a] = Of(listed, rows)[a]
      BY <2>2 DEF Of
    <3>3. Answering(calls, a) => Answering(calls', a)
      BY <1>1, <2>2 DEF Answering
    <3> QED BY <3>1, <3>2, <3>3
  <2> QED BY <2>1, <2>2
<1> QED BY <1>2, <1>3, StepKeeps DEF Pending

\* Refused or lost, a request has no answer that would have to be what is stored.
LEMMA EndedIsStored ==
  ASSUME ConsoleInv, NEW c \in calls, NEW at \in {"done", "refused", "lost"},
         at = "done" => c.op \notin Edits
  PROVE  LET d == [c EXCEPT !.at = at] IN
         /\ d \in CallType /\ Same(d, c) /\ Meant(d) /\ d.at = at
         /\ AnswerIsStored(d, rows, list, listed, unsure)
<1> DEFINE d == [c EXCEPT !.at = at]
<1>1. /\ d \in CallType /\ Same(d, c) /\ d.at = at /\ d.list = c.list
  BY DEF ConsoleInv, CallTable, CallType, Same
<1> HIDE DEF d
<1>2. Meant(d)
  BY <1>1 DEF ConsoleInv, CallTable, Meant, Same
<1>3. AnswerIsStored(d, rows, list, listed, unsure)
  BY <1>1 DEF ConsoleInv, Pending, AnswersAreStored, AnswerIsStored, Same
<1> QED BY <1>1, <1>2, <1>3 DEF d

\* What is left to show of the rows is what they are.
LEMMA EndedKeeps ==
  ASSUME ConsoleInv, NEW c \in calls, NEW at \in {"done", "refused", "lost"},
         at = "done" => c.op \notin Edits,
         c.at \in {"done", "lost"} => at \in {"done", "lost"},
         Step(c, [c EXCEPT !.at = at]), UNCHANGED <<asked, owner>>
  PROVE  /\ CallTable(calls', asked') /\ AskedByOwner(calls', owner')
         /\ Pending(calls', rows, list, listed, unsure)
<1>1. PICK d : d = [c EXCEPT !.at = at]
  OBVIOUS
<1>2. /\ d \in CallType /\ Same(d, c) /\ Meant(d) /\ d.at = at
      /\ AnswerIsStored(d, rows, list, listed, unsure)
  BY <1>1, EndedIsStored
<1>3. Step(c, d)
  BY <1>1
<1> QED BY <1>2, <1>3, ReadingKeeps

LEMMA ReadRowsKeeps ==
  ASSUME ConsoleInv, NEW c \in calls, ReadRows(c), UNCHANGED <<asked, owner>>
  PROVE  /\ CallTable(calls', asked') /\ AskedByOwner(calls', owner')
         /\ Pending(calls', rows, list, listed, unsure)
<1>1. CASE Known(c.as)
  <2> DEFINE L == Of(c.as, rows)
  <2>1. c \in CallType /\ L \in [Actions -> Row \union {NoOne}]
    BY DEF ConsoleInv, CallTable, PagesType, Of
  <2> HIDE DEF L
  <2>2. PICK d : d = [c EXCEPT !.list = L]
    OBVIOUS
  <2>3. [c EXCEPT !.list = L] \in CallType
    BY <2>1 DEF CallType
  <2>4. d \in CallType /\ Same(d, c) /\ d.list = L /\ d.at = c.at /\ d.seen = c.seen
    BY <2>1, <2>2, <2>3 DEF CallType, Same
  <2>5. Step(c, d) /\ d.at = "sent" /\ d.op = "load"
    BY <1>1, <2>2, <2>4 DEF ReadRows, Same, L
  <2>6. Meant(d)
    BY <2>4, <2>5 DEF ConsoleInv, CallTable, Meant, Same, Of, Changing, L
  <2>7. AnswerIsStored(d, rows, list, listed, unsure)
    BY <2>4, <2>5 DEF AnswerIsStored, Same, Edits, L
  <2> QED BY <2>4, <2>5, <2>6, <2>7, ReadingKeeps DEF ReadRows
<1>2. CASE ~Known(c.as)
  <2>1. Step(c, [c EXCEPT !.at = "refused"]) /\ c.at = "sent"
    BY <1>2 DEF ReadRows
  <2> QED BY <2>1, EndedKeeps
<1> QED BY <1>1, <1>2

LEMMA ReadToolsKeeps ==
  ASSUME ConsoleInv, NEW c \in calls, ReadTools(c), UNCHANGED <<asked, owner>>
  PROVE  /\ CallTable(calls', asked') /\ AskedByOwner(calls', owner')
         /\ Pending(calls', rows, list, listed, unsure)
<1>1. CASE Known(c.as)
  <2> DEFINE T == ToolsOf(c.as)
  <2>1. c \in CallType /\ T \in SUBSET Actions
    BY DEF ConsoleInv, CallTable, PagesType, ToolsOf
  <2>2. PICK d : d = [c EXCEPT !.tools = T]
    OBVIOUS
  <2>3. [c EXCEPT !.tools = T] \in CallType
    BY <2>1 DEF CallType
  <2>4. /\ d \in CallType /\ Same(d, c) /\ d.list = c.list /\ d.at = c.at /\ d.seen = c.seen
    BY <2>1, <2>2, <2>3 DEF CallType, Same
  <2>5. Step(c, d)
    BY <1>1, <2>2 DEF ReadTools
  <2>6. Meant(d)
    BY <2>4 DEF ConsoleInv, CallTable, Meant, Same
  <2>7. AnswerIsStored(d, rows, list, listed, unsure)
    BY <2>4 DEF ConsoleInv, Pending, AnswersAreStored, AnswerIsStored, Same
  <2> QED BY <2>4, <2>5, <2>6, <2>7, ReadingKeeps
<1>2. CASE ~Known(c.as)
  <2>1. Step(c, [c EXCEPT !.at = "refused"]) /\ c.at = "sent"
    BY <1>2 DEF ReadTools
  <2> QED BY <2>1, EndedKeeps
<1> QED BY <1>1, <1>2

LEMMA GetByIdKeeps ==
  ASSUME ConsoleInv, NEW c \in calls, GetById(c), UNCHANGED <<asked, owner>>
  PROVE  /\ CallTable(calls', asked') /\ AskedByOwner(calls', owner')
         /\ Pending(calls', rows, list, listed, unsure)
<1>1. CASE Found(c) /\ ~(c.op = "delete" /\ rows[c.target].default)
  <2> DEFINE r == rows[c.target]
  <2>1. c \in CallType /\ c.op \in Edits /\ c.target \in Actions /\ c.at = "sent"
    BY DEF GetById, ConsoleInv, CallTable, Meant, Edits, Changing
  <2>2. r \in Row /\ HomeOf[c.target] = c.as
    BY <1>1, <2>1 DEF Found, ConsoleInv, PagesType
  <2>3. PICK d : d = [c EXCEPT !.at = "read", !.seen = r]
    OBVIOUS
  <2>4. [c EXCEPT !.at = "read", !.seen = r] \in CallType
    BY <2>1, <2>2 DEF CallType
  <2>5. /\ d \in CallType /\ Same(d, c) /\ d.list = c.list /\ d.at = "read" /\ d.seen = r
    BY <2>1, <2>3, <2>4 DEF CallType, Same
  <2>6. Step(c, d)
    BY <1>1, <2>3 DEF GetById
  <2> HIDE DEF r
  <2>7. Meant(d)
    BY <2>1, <2>2, <2>5 DEF ConsoleInv, CallTable, Meant, Same
  <2>8. AnswerIsStored(d, rows, list, listed, unsure)
    BY <2>5 DEF ConsoleInv, Pending, AnswersAreStored, AnswerIsStored, Same
  <2> QED BY <2>1, <2>5, <2>6, <2>7, <2>8, ReadingKeeps
<1>2. CASE ~(Found(c) /\ ~(c.op = "delete" /\ rows[c.target].default))
  <2>1. Step(c, [c EXCEPT !.at = "refused"]) /\ c.at = "sent"
    BY <1>2 DEF GetById
  <2> QED BY <2>1, EndedKeeps
<1> QED BY <1>1, <1>2

LEMMA ResultIsRow ==
  ASSUME ConsoleInv, NEW c \in calls, c.at = "read", rows[c.target] # NoOne
  PROVE  Result(c) \in Row \union {NoOne}
<1>1. rows[c.target] \in Row /\ c.seen \in Row /\ c.text \in 0..1
  BY DEF ConsoleInv, PagesType, CallTable, CallType, Texts, Meant, Edits, Changing
<1>2. [rows[c.target] EXCEPT !.on = ~c.seen.on] \in Row
  BY <1>1 DEF Row
<1>3. [rows[c.target] EXCEPT !.text = c.text] \in Row
  BY <1>1 DEF Row
<1> QED BY <1>2, <1>3 DEF Result

LEMMA ChangeKeeps ==
  ASSUME ConsoleInv, NEW c \in calls, Change(c), UNCHANGED <<asked, owner>>
  PROVE  /\ CallTable(calls', asked') /\ AskedByOwner(calls', owner')
         /\ Pending(calls', rows', list, listed, unsure)
         /\ rows' \in [Actions -> Row \union {NoOne}] /\ registry' = registry
<1>1. CASE rows[c.target] = NoOne
  <2>1. Step(c, [c EXCEPT !.at = "refused"]) /\ c.at = "read" /\ rows' = rows /\ registry' = registry
    BY <1>1 DEF Change
  <2> QED BY <2>1, EndedKeeps DEF ConsoleInv, PagesType
<1>2. CASE rows[c.target] # NoOne
  <2>1. c \in CallType /\ c.at = "read" /\ c.op \in Edits /\ c.op \in Changing /\ c.target \in Actions
    BY DEF Change, ConsoleInv, CallTable, Meant, Edits, Changing
  <2>2. PICK r \in Row \union {NoOne} : r = Result(c)
    BY <1>2, <2>1, ResultIsRow
  <2>3. PICK d : d = [c EXCEPT !.at = "done", !.seen = r]
    OBVIOUS
  <2>4. [c EXCEPT !.at = "done", !.seen = r] \in CallType
    BY <2>1 DEF CallType
  <2>5. d \in CallType /\ Same(d, c) /\ d.list = c.list /\ d.at = "done" /\ d.seen = r
    BY <2>1, <2>3, <2>4 DEF CallType, Same
  <2>6. Step(c, d) /\ rows' = [rows EXCEPT ![c.target] = r] /\ registry' = registry
    BY <1>2, <2>2, <2>3 DEF Change
  <2>7. /\ rows' \in [Actions -> Row \union {NoOne}] /\ rows'[c.target] = r
        /\ \A a \in Actions : a # c.target => rows'[a] = rows[a]
    BY <2>1, <2>6 DEF ConsoleInv, PagesType
  <2>8. Meant(d)
    BY <2>5 DEF ConsoleInv, CallTable, Meant, Same
  <2>9. AnswerIsStored(d, rows', list, listed, unsure)
    <3>1. AnswerIsStored(c, rows, list, listed, unsure)
      BY DEF ConsoleInv, Pending, AnswersAreStored
    <3> QED BY <1>2, <2>1, <2>5, <2>7, <3>1 DEF AnswerIsStored, Same, Edits
  <2> QED BY <2>1, <2>5, <2>6, <2>7, <2>8, <2>9, WritingKeeps
<1> QED BY <1>1, <1>2

LEMMA DoImportKeeps ==
  ASSUME ConsoleInv, NEW c \in calls, DoImport(c), UNCHANGED <<asked, owner>>
  PROVE  /\ CallTable(calls', asked') /\ AskedByOwner(calls', owner')
         /\ Pending(calls', rows', list, listed, unsure)
         /\ rows' \in [Actions -> Row \union {NoOne}] /\ registry' \subseteq Actions
<1>1. CASE ~Known(c.as)
  <2>1. Step(c, [c EXCEPT !.at = "refused"]) /\ c.at = "sent" /\ rows' = rows /\ registry' = registry
    BY <1>1 DEF DoImport, storeVars
  <2> QED BY <2>1, EndedKeeps DEF ConsoleInv, PagesType
<1>2. CASE Known(c.as)
  <2>1. c \in CallType /\ c.op = "import" /\ c.op \in Changing /\ c.target \in Actions
    BY DEF DoImport, ConsoleInv, CallTable, Meant, Changing
  <2>2. PICK default \in BOOLEAN :
          rows' = IF rows[c.target] # NoOne THEN rows
                  ELSE [rows EXCEPT ![c.target] = [on |-> TRUE, text |-> 0, default |-> default]]
    BY <1>2 DEF DoImport
  <2>3. /\ rows' \in [Actions -> Row \union {NoOne}]
        /\ \A a \in Actions : a # c.target => rows'[a] = rows[a]
    <3>1. [on |-> TRUE, text |-> 0, default |-> default] \in Row
      BY DEF Row
    <3> QED BY <2>1, <2>2, <3>1 DEF ConsoleInv, PagesType
  <2>4. registry' \subseteq Actions
    <3>1. \A R \in Synced(c.as, rows') : R \subseteq Actions
      BY DEF Synced, ConsoleInv, PagesType
    <3>2. registry' \in Synced(c.as, rows') \/ registry' = registry
      BY <1>2 DEF DoImport
    <3> QED BY <3>1, <3>2 DEF ConsoleInv, PagesType
  <2>5. PICK d : d = [c EXCEPT !.at = "done"]
    OBVIOUS
  <2>6. d \in CallType /\ Same(d, c) /\ Meant(d) /\ d.at = "done"
    BY <2>1, <2>5, EndedIsStored DEF Edits
  <2>7. Step(c, d)
    BY <1>2, <2>5 DEF DoImport
  <2>8. AnswerIsStored(d, rows', list, listed, unsure)
    BY <2>1, <2>6 DEF AnswerIsStored, Same, Edits
  <2> QED BY <2>1, <2>3, <2>4, <2>6, <2>7, <2>8, WritingKeeps
<1> QED BY <1>1, <1>2

LEMMA ServeKeeps ==
  ASSUME ConsoleInv, Serve
  PROVE  ConsoleInv'
<1>1. PICK c \in calls :
        ReadRows(c) \/ ReadTools(c) \/ GetById(c) \/ Change(c) \/ DoImport(c) \/ DoSync(c) \/ CallFails(c)
  BY DEF Serve
<1>2. /\ UNCHANGED sessionVars /\ UNCHANGED <<asked, owner>>
      /\ UNCHANGED <<page, list, tools, loading, editing, listed, unsure>>
  <2>1. UNCHANGED sessionVars /\ UNCHANGED pageVars /\ UNCHANGED unsure
    BY DEF Serve
  <2> QED BY <2>1 DEF sessionVars, pageVars
<1>3. SessionInv'
  BY <1>2, OtherStep DEF ConsoleInv, sessionVars, SessionButAsked
<1>4. /\ CallTable(calls', asked') /\ AskedByOwner(calls', owner')
      /\ Pending(calls', rows', list, listed, unsure)
      /\ rows' \in [Actions -> Row \union {NoOne}] /\ registry' \subseteq Actions
  <2>1. CASE ReadRows(c) \/ ReadTools(c) \/ GetById(c)
    <3>1. rows' = rows /\ registry' = registry
      BY <2>1 DEF ReadRows, ReadTools, GetById, storeVars
    <3> QED BY <1>2, <2>1, <3>1, ReadRowsKeeps, ReadToolsKeeps, GetByIdKeeps DEF ConsoleInv, PagesType
  <2>2. CASE Change(c) \/ DoImport(c)
    BY <1>2, <2>2, ChangeKeeps, DoImportKeeps DEF ConsoleInv, PagesType
  <2>3. CASE DoSync(c)
    <3>1. PICK at \in {"done", "refused"} : Step(c, [c EXCEPT !.at = at])
      BY <2>3 DEF DoSync
    <3>2. rows' = rows /\ registry' = registry /\ c.op \notin Edits /\ c.at = "sent"
      BY <2>3 DEF DoSync, storeVars, Edits
    <3> QED BY <1>2, <3>1, <3>2, EndedKeeps DEF ConsoleInv, PagesType
  <2>4. CASE CallFails(c)
    <3>1. rows' = rows /\ registry' = registry /\ Step(c, [c EXCEPT !.at = "lost"])
      BY <2>4 DEF CallFails, storeVars
    <3> QED BY <1>2, <3>1, EndedKeeps DEF ConsoleInv, PagesType
  <2> QED BY <1>1, <2>1, <2>2, <2>3, <2>4
<1>5. PagesType' /\ PageMeant'
  BY <1>2, <1>4 DEF ConsoleInv, PagesType, PageMeant
<1> QED BY <1>2, <1>3, <1>4, <1>5 DEF ConsoleInv

-----------------------------------------------------------------------------
(* What a page does with an answer.                                          *)

\* The others of a request that is alone are of another kind.
LEMMA OthersOfAlone ==
  ASSUME ConsoleInv, NEW c \in calls, NEW e \in Rest(c), c.op \in Touching, c.alone \/ e.alone
  PROVE  e.op \notin Touching
BY DEF Rest, ConsoleInv, Pending, AloneIsAlone

LEMMA RestKeeps ==
  ASSUME ConsoleInv, NEW c \in calls
  PROVE  /\ CallTable(Rest(c), asked) /\ AskedByOwner(Rest(c), owner) /\ AloneIsAlone(Rest(c))
         /\ \A a \in Actions : Answering(calls, a) =>
              Answering(Rest(c), a) \/ (a = c.target /\ c.op \in Changing /\ c.at \in {"done", "lost"})
<1>1. Rest(c) \in SUBSET calls /\ asked \in Nat
  BY AsksAssumption DEF Rest, ConsoleInv, SessionInv, SessionType
<1>2. CallTable(Rest(c), asked) /\ AskedByOwner(Rest(c), owner)
  BY <1>1, FewerCalls DEF ConsoleInv
<1> QED BY <1>1, <1>2 DEF ConsoleInv, Pending, AloneIsAlone, Answering, Rest

\* Without the answer less is known of its row, if it changed one.
LEMMA UnsureKeeps ==
  ASSUME ConsoleInv, NEW c \in calls, NEW U \in SUBSET Actions, unsure \subseteq U,
         c.op \in Changing /\ c.at \in {"done", "lost"} => c.target \in U
  PROVE  Pending(Rest(c), rows, list, listed, U)
<1>1. AnswersAreStored(Rest(c), rows, list, listed, U)
  <2>1. \A e \in Rest(c) : AnswerIsStored(e, rows, list, listed, unsure)
    BY DEF ConsoleInv, Pending, AnswersAreStored, Rest
  <2> QED BY <2>1 DEF AnswersAreStored, AnswerIsStored
<1>2. GoneIsUnsure(Rest(c), U)
  BY DEF ConsoleInv, Pending, GoneIsUnsure, Rest
<1>3. RowsOrAnswers(Rest(c), rows, list, listed, U)
  BY RestKeeps DEF ConsoleInv, Pending, RowsOrAnswers
<1> QED BY <1>1, <1>2, <1>3, RestKeeps DEF Pending

\* A list that was read undisturbed is what is stored; of another all is unsure.
LEMMA LoadedIsPending ==
  ASSUME ConsoleInv, NEW c \in calls, c.op = "load", c.list # NoOne
  PROVE  Pending(Rest(c), rows, c.list, c.as, IF c.alone THEN {} ELSE Actions)
<1> DEFINE U == IF c.alone THEN {} ELSE Actions
<1>1. c.op \in Touching /\ c.op \notin Changing
  BY DEF Touching, Changing
<1>2. AnswersAreStored(Rest(c), rows, c.list, c.as, U)
  <2> SUFFICES ASSUME NEW e \in Rest(c), e.alone
               PROVE  AnswerIsStored(e, rows, c.list, c.as, U)
    BY DEF AnswersAreStored, AnswerIsStored
  <2>1. e.op \notin Touching
    BY <1>1, OthersOfAlone
  <2> QED BY <2>1 DEF AnswerIsStored, Touching, Edits
<1>3. GoneIsUnsure(Rest(c), U)
  <2> SUFFICES ASSUME NEW e \in Rest(c), e.gone, c.alone
               PROVE  FALSE
    BY DEF GoneIsUnsure
  <2>1. e.op \in Touching
    BY DEF Rest, ConsoleInv, CallTable, Meant, Changing, Touching
  <2> QED BY <1>1, <2>1, OthersOfAlone
<1>4. RowsOrAnswers(Rest(c), rows, c.list, c.as, U)
  <2> SUFFICES ASSUME c.alone
               PROVE  c.list = Of(c.as, rows)
    BY DEF RowsOrAnswers
  <2> QED BY DEF ConsoleInv, Pending, AnswersAreStored, AnswerIsStored
<1> QED BY <1>2, <1>3, <1>4, RestKeeps DEF Pending

\* The answered row is put where it was: it is what is stored, or the row is unsure.
LEMMA PutIsPending ==
  ASSUME ConsoleInv, NEW c \in calls, c.op \in Edits, c.at = "done"
  PROVE  Pending(Rest(c), rows, Put(c), listed,
                 IF c.alone THEN unsure ELSE unsure \union {c.target})
<1> DEFINE U == IF c.alone THEN unsure ELSE unsure \union {c.target}
<1>1. c.op \in Touching /\ c.op \in Changing /\ c.target \in Actions
  BY DEF Touching, Changing, Edits, ConsoleInv, CallTable, Meant
<1>2. AnswersAreStored(Rest(c), rows, Put(c), listed, U)
  <2> SUFFICES ASSUME NEW e \in Rest(c), e.alone
               PROVE  AnswerIsStored(e, rows, Put(c), listed, U)
    BY DEF AnswersAreStored, AnswerIsStored
  <2>1. e.op \notin Touching
    BY <1>1, OthersOfAlone
  <2> QED BY <2>1 DEF AnswerIsStored, Touching, Edits
<1>3. GoneIsUnsure(Rest(c), U)
  BY <1>1 DEF ConsoleInv, Pending, GoneIsUnsure, Rest
<1>4. RowsOrAnswers(Rest(c), rows, Put(c), listed, U)
  <2> SUFFICES ASSUME listed # NoOne, NEW a \in Actions \ U
               PROVE  Put(c)[a] = Of(listed, rows)[a] \/ Answering(Rest(c), a)
    BY DEF RowsOrAnswers
  <2>0. list \in [Actions -> Row \union {NoOne}] /\ a \notin unsure
    BY DEF ConsoleInv, PagesType
  <2>1. CASE a # c.target
    <3>1. list[a] = Of(listed, rows)[a] \/ Answering(calls, a)
      BY <2>0 DEF ConsoleInv, Pending, RowsOrAnswers
    <3>2. Put(c)[a] = list[a]
      BY <2>0, <2>1 DEF Put
    <3> QED BY <2>1, <3>1, <3>2, RestKeeps
  <2>2. CASE a = c.target
    <3>1. c.alone /\ AnswerIsStored(c, rows, list, listed, unsure)
      BY <2>2 DEF ConsoleInv, Pending, AnswersAreStored
    <3>2. Put(c)[a] = IF list[a] = NoOne THEN NoOne ELSE rows[a]
      BY <2>0, <2>2, <3>1 DEF Put, AnswerIsStored
    <3>3. CASE list[a] = NoOne
      <4>1. HomeOf[a] # listed \/ rows[a] = NoOne
        BY <2>0, <2>2, <3>1, <3>3 DEF AnswerIsStored
      <4> QED BY <3>2, <3>3, <4>1 DEF Of
    <3>4. CASE list[a] # NoOne
      <4>1. HomeOf[a] = listed
        BY <3>4 DEF ConsoleInv, PageMeant
      <4> QED BY <3>2, <3>4, <4>1 DEF Of
    <3> QED BY <3>3, <3>4
  <2> QED BY <2>1, <2>2
<1> QED BY <1>2, <1>3, <1>4, RestKeeps DEF Pending

\* The page asks again when it has the answer.
LEMMA AskAgain ==
  ASSUME ConsoleInv, NEW c \in calls, NEW L, NEW U, NEW w,
         Pending(Rest(c), rows, L, w, U),
         NEW op \in {"load", "tools"}, Request(Rest(c), op, Closed, 0), UNCHANGED SessionButAsked
  PROVE  /\ SessionInv' /\ CallTable(calls', asked') /\ AskedByOwner(calls', owner')
         /\ Pending(calls', rows, L, w, U)
<1>1. Closed \in EditType /\ Sendable(op, Closed, key) /\ 0 \in Texts
      /\ op \in Touching \union {"tools", "sync"}
  BY NothingIsSendable DEF Changing, Touching, Texts
<1>2. SessionInv'
  BY OtherStep DEF ConsoleInv, Request
<1>3. CallTable(calls', asked') /\ AskedByOwner(calls', owner')
  <2>1. CallTable(calls', asked') /\ AskedByOwner(calls', owner)
    BY <1>1, RestKeeps, RequestTable DEF ConsoleInv
  <2> QED BY <2>1 DEF SessionButAsked
<1>4. Pending(calls', rows, L, w, U)
  BY <1>1, RestKeeps, RequestPending DEF ConsoleInv
<1> QED BY <1>2, <1>3, <1>4

\* Or it does not.
LEMMA AskNoMore ==
  ASSUME ConsoleInv, NEW c \in calls, calls' = Rest(c), UNCHANGED <<SessionButAsked, asked>>
  PROVE  SessionInv' /\ CallTable(calls', asked') /\ AskedByOwner(calls', owner')
<1>1. SessionInv'
  BY OtherStep DEF ConsoleInv
<1> QED BY <1>1, RestKeeps DEF SessionButAsked

LEMMA HandleLoadKeeps ==
  ASSUME ConsoleInv, NEW c \in calls, HandleLoad(c), UNCHANGED storeVars
  PROVE  ConsoleInv'
<1>1. /\ c.op = "load" /\ calls' = Rest(c) /\ loading' = FALSE
      /\ UNCHANGED <<SessionButAsked, asked, page, editing, rows, registry>>
  BY DEF HandleLoad, storeVars
<1>2. SessionInv' /\ CallTable(calls', asked') /\ AskedByOwner(calls', owner')
  BY <1>1, AskNoMore
<1>3. CASE UNCHANGED <<list, tools, listed, unsure>>
  <2>1. UNCHANGED <<list, tools, listed, unsure>>
    BY <1>3
  <2>2. Pending(Rest(c), rows, list, listed, unsure)
    BY <1>1, UnsureKeeps DEF Changing, ConsoleInv, PagesType
  <2>3. PagesType' /\ PageMeant'
    BY <1>1, <2>1 DEF ConsoleInv, PagesType, PageMeant
  <2> QED BY <1>1, <1>2, <2>1, <2>2, <2>3 DEF ConsoleInv
<1>4. CASE ~UNCHANGED <<list, tools, listed, unsure>>
  <2>1. /\ c.list # NoOne /\ list' = c.list /\ listed' = c.as
        /\ \/ Loaded(c) /\ tools' = (IF page = "tools" THEN c.tools ELSE tools)
           \/ tools' = tools
        /\ unsure' = IF c.alone THEN {} ELSE Actions
    BY <1>4 DEF HandleLoad, Loaded, ToolsRefused
  <2>2. /\ c \in CallType /\ c.list \in [Actions -> Row \union {NoOne}] /\ c.as \in Keys
        /\ tools' \subseteq Actions
        /\ \A a \in Actions : c.list[a] # NoOne => HomeOf[a] = c.as
    <3>1. c \in CallType /\ Meant(c)
      BY DEF ConsoleInv, CallTable
    <3>2. c.as \in Keys /\ c.list \in [Actions -> Row \union {NoOne}]
      BY <2>1, <3>1 DEF CallType
    <3>3. Loaded(c) /\ page = "tools" => c.tools \subseteq Actions
      BY <3>1 DEF Loaded, CallType
    <3>4. tools' \subseteq Actions
      BY <2>1, <3>3 DEF ConsoleInv, PagesType
    <3> QED BY <2>1, <3>1, <3>2, <3>4 DEF Meant
  <2>3. Pending(Rest(c), rows, list', listed', unsure')
    BY <1>1, <2>1, LoadedIsPending
  <2>4. PagesType' /\ PageMeant'
    BY <1>1, <2>1, <2>2 DEF ConsoleInv, PagesType, PageMeant
  <2> QED BY <1>1, <1>2, <2>3, <2>4 DEF ConsoleInv
<1> QED BY <1>3, <1>4

LEMMA HandleToolsKeeps ==
  ASSUME ConsoleInv, NEW c \in calls, HandleTools(c), UNCHANGED storeVars
  PROVE  ConsoleInv'
<1>1. /\ c.op = "tools" /\ calls' = Rest(c)
      /\ UNCHANGED <<SessionButAsked, asked, page, list, loading, editing, listed, unsure, rows, registry>>
  BY DEF HandleTools, storeVars
<1>2. tools' \subseteq Actions
  <2>1. c \in CallType
    BY DEF ConsoleInv, CallTable
  <2> QED BY <2>1 DEF HandleTools, CallType, ConsoleInv, PagesType
<1>3. Pending(Rest(c), rows, list, listed, unsure)
  BY <1>1, UnsureKeeps DEF Changing, ConsoleInv, PagesType
<1>4. PagesType' /\ PageMeant'
  BY <1>1, <1>2 DEF ConsoleInv, PagesType, PageMeant
<1> QED BY <1>1, <1>3, <1>4, AskNoMore DEF ConsoleInv

LEMMA HandleChangeKeeps ==
  ASSUME ConsoleInv, NEW c \in calls, HandleChange(c), UNCHANGED storeVars
  PROVE  ConsoleInv'
<1>1. /\ c.op \in Edits /\ c.at = "done" /\ list' = Put(c)
      /\ unsure' = IF c.alone THEN unsure ELSE unsure \union {c.target}
      /\ editing' \in {editing, Closed}
      /\ UNCHANGED <<SessionButAsked, page, tools, loading, listed, rows, registry>>
  BY DEF HandleChange, storeVars, Edits
<1>2. c \in CallType /\ c.target \in Actions
  BY <1>1 DEF ConsoleInv, CallTable, Meant, Edits, Changing
<1>3. /\ Put(c) \in [Actions -> Row \union {NoOne}]
      /\ \A a \in Actions : Put(c)[a] # NoOne => list[a] # NoOne
  <2>1. c.seen \in Row \union {NoOne}
    BY <1>2 DEF CallType
  <2> QED BY <1>2, <2>1 DEF Put, ConsoleInv, PagesType
<1>4. PagesType' /\ PageMeant'
  BY <1>1, <1>2, <1>3 DEF ConsoleInv, PagesType, PageMeant
<1>5. Pending(Rest(c), rows, list', listed', unsure')
  BY <1>1, PutIsPending
<1>6. CASE calls' = Rest(c) /\ asked' = asked
  BY <1>1, <1>4, <1>5, <1>6, AskNoMore DEF ConsoleInv
<1>7. CASE Request(Rest(c), "tools", Closed, 0)
  BY <1>1, <1>4, <1>5, <1>7, AskAgain DEF ConsoleInv
<1> QED BY <1>6, <1>7 DEF HandleChange

LEMMA HandleFailureKeeps ==
  ASSUME ConsoleInv, NEW c \in calls, HandleFailure(c) \/ Dropped(c), UNCHANGED storeVars
  PROVE  ConsoleInv'
<1>1. /\ calls' = Rest(c)
      /\ UNCHANGED <<SessionButAsked, asked, page, list, tools, loading, editing, listed, rows, registry>>
  BY DEF HandleFailure, Dropped, storeVars, pageVars
<1>2. c.op \in Changing => c.target \in Actions
  BY DEF ConsoleInv, CallTable, Meant
<1>3. /\ unsure' \in SUBSET Actions /\ unsure \subseteq unsure'
      /\ c.op \in Changing /\ c.at \in {"done", "lost"} => c.target \in unsure'
  <2>1. CASE HandleFailure(c)
    BY <1>2, <2>1 DEF HandleFailure, Failed, ConsoleInv, PagesType, Changing
  <2>2. CASE Dropped(c)
    <3>1. unsure' = unsure /\ unsure = Actions
      BY <2>2 DEF Dropped, ConsoleInv, Pending, GoneIsUnsure
    <3> QED BY <1>2, <3>1
  <2> QED BY <2>1, <2>2
<1>4. Pending(Rest(c), rows, list, listed, unsure')
  BY <1>3, UnsureKeeps
<1>5. PagesType' /\ PageMeant'
  BY <1>1, <1>3 DEF ConsoleInv, PagesType, PageMeant
<1> QED BY <1>1, <1>4, <1>5, AskNoMore DEF ConsoleInv

LEMMA HandleImportKeeps ==
  ASSUME ConsoleInv, NEW c \in calls, HandleImport(c) \/ HandleSync(c), UNCHANGED storeVars
  PROVE  ConsoleInv'
<1>1. /\ UNCHANGED <<SessionButAsked, page, list, tools, editing, listed, rows, registry>>
      /\ loading' \in BOOLEAN
      /\ Request(Rest(c), "load", Closed, 0) \/ Request(Rest(c), "tools", Closed, 0)
  BY DEF HandleImport, HandleSync, storeVars, pageVars, ConsoleInv, PagesType
<1>2. c.op \in Changing => c.target \in Actions
  BY DEF ConsoleInv, CallTable, Meant
<1>3. /\ unsure' \in SUBSET Actions /\ unsure \subseteq unsure'
      /\ c.op \in Changing /\ c.at \in {"done", "lost"} => c.target \in unsure'
  BY <1>2 DEF HandleImport, HandleSync, ConsoleInv, PagesType, Changing
<1>4. Pending(Rest(c), rows, list, listed, unsure')
  BY <1>3, UnsureKeeps
<1>5. PagesType' /\ PageMeant'
  BY <1>1, <1>3 DEF ConsoleInv, PagesType, PageMeant
<1> QED BY <1>1, <1>4, <1>5, AskAgain DEF ConsoleInv

LEMMA HandleKeeps ==
  ASSUME ConsoleInv, Handle
  PROVE  ConsoleInv'
<1>1. PICK c \in calls :
        \/ HandleLoad(c) \/ HandleTools(c) \/ HandleChange(c) \/ HandleFailure(c)
        \/ HandleImport(c) \/ HandleSync(c) \/ Dropped(c)
  BY DEF Handle
<1>2. UNCHANGED storeVars
  BY DEF Handle
<1> QED BY <1>1, <1>2, HandleLoadKeeps, HandleToolsKeeps, HandleChangeKeeps, HandleFailureKeeps,
           HandleImportKeeps

-----------------------------------------------------------------------------
(* The console, whatever happens.                                            *)

LEMMA ConsoleInitially == Init => ConsoleInv
<1> SUFFICES ASSUME Init PROVE ConsoleInv
  OBVIOUS
<1>1. PICK world \in Worlds :
        /\ SessionInit(world) /\ rows = world.rows /\ registry = world.registry
        /\ page = "none" /\ list = Blank /\ tools = {} /\ loading = FALSE /\ editing = Closed
        /\ calls = {} /\ listed = NoOne /\ unsure = Actions
  BY DEF Init
<1>2. SessionInv
  BY <1>1, SessionInitially
<1>3. PagesType /\ PageMeant
  BY <1>1, WorldsAssumption DEF PagesType, PageMeant, Blank, Keys
<1>4. CallTable(calls, asked)
  <2>1. IdsOf(calls) = {} /\ asked = 0
    BY <1>1 DEF IdsOf, SessionInit
  <2> QED BY <1>1, <2>1, FS_EmptySet DEF CallTable
<1>5. AskedByOwner(calls, owner) /\ Pending(calls, rows, list, listed, unsure)
  BY <1>1 DEF AskedByOwner, Pending, AloneIsAlone, AnswersAreStored, GoneIsUnsure, RowsOrAnswers
<1> QED BY <1>2, <1>3, <1>4, <1>5 DEF ConsoleInv

LEMMA ConsoleStep ==
  ASSUME ConsoleInv, [Next]_vars
  PROVE  ConsoleInv'
<1>1. CASE Next
  <2>1. CASE Session \/ Leave
    BY <2>1, SessionKeeps, LeaveKeeps
  <2>2. CASE (\E p \in {"tools", "actions"} : OpenPage(p)) \/ Refresh
    BY <2>2, OpenPageKeeps, RefreshKeeps
  <2>3. CASE Toggle \/ OpenEditor \/ CloseEditor \/ Save \/ Delete \/ Import \/ Sync
    BY <2>3, ButtonKeeps, EditorKeeps
  <2>4. CASE Serve \/ Handle
    BY <2>4, ServeKeeps, HandleKeeps
  <2> QED BY <1>1, <2>1, <2>2, <2>3, <2>4 DEF Next
<1>2. CASE UNCHANGED vars
  <2>1. SessionInv'
    BY SessionStep DEF ConsoleInv
  <2>2. UNCHANGED sessionVars /\ UNCHANGED consoleVars
    BY <1>2 DEF vars
  <2>3. /\ UNCHANGED <<asked, owner>>
        /\ UNCHANGED <<rows, registry, page, list, tools, loading, editing, calls, listed, unsure>>
    BY <2>2 DEF sessionVars, consoleVars
  <2> QED BY <2>1, <2>3 DEF ConsoleInv, PagesType, PageMeant
<1> QED BY <1>1, <1>2

LEMMA ConsoleHolds == Spec => []ConsoleInv
BY ConsoleInitially, ConsoleStep, PTL DEF Spec

\* TypeOK of Console: sessions, pages and what the gateway stores stay well formed.
THEOREM TypeCorrect == Spec => []TypeOK
<1>1. ConsoleInv => TypeOK
  BY SessionTypeFollows DEF ConsoleInv, PagesType, TypeOK
<1> QED BY <1>1, ConsoleHolds, PTL

\* RowsAreStored (tools/page.tsx, proxy-actions/page.tsx, proxy-action.service.ts):
\* while nothing is under way the page shows what is stored in the workspace it was
\* read from, but for the rows of which two requests overlapped, or one was lost.
THEOREM ShownRowsAreStored == Spec => []RowsAreStored
<1>1. ConsoleInv => RowsAreStored
  <2> SUFFICES ASSUME ConsoleInv, listed # NoOne, ~Busy(calls), NEW a \in Actions \ unsure
               PROVE  list[a] = Of(listed, rows)[a]
    BY DEF RowsAreStored
  <2>1. ~Answering(calls, a)
    BY DEF Busy, Answering, Changing, Touching
  <2> QED BY <2>1 DEF ConsoleInv, Pending, RowsOrAnswers
<1> QED BY <1>1, ConsoleHolds, PTL

\* Rows change by a change or an import, and by no other step.
LEMMA WhoChanges ==
  ASSUME ConsoleInv, [Next]_vars, rows' # rows
  PROVE  \E c \in calls \ calls' :
           /\ owner' = owner /\ c.as \in Workspaces /\ c.target \in Actions /\ c.op \in Changing
           /\ HomeOf[c.target] = c.as
           /\ \A a \in Actions : a # c.target => rows'[a] = rows[a]
<1>0. Serve
  <2>1. Session \/ Leave \/ Handle => rows' = rows
    BY DEF Session, Leave, Handle, consoleVars, storeVars
  <2>2. (\E p \in {"tools", "actions"} : OpenPage(p)) \/ Refresh \/ OpenEditor \/ CloseEditor => rows' = rows
    BY DEF OpenPage, Refresh, OpenEditor, CloseEditor, storeVars
  <2>3. Toggle \/ Save \/ Delete \/ Import \/ Sync => rows' = rows
    BY DEF Toggle, Save, Delete, Import, Sync, storeVars
  <2>4. UNCHANGED vars => rows' = rows
    BY DEF vars, consoleVars
  <2> QED BY <2>1, <2>2, <2>3, <2>4 DEF Next
<1>1. PICK c \in calls : Change(c) \/ DoImport(c)
  <2>1. \A c : ReadRows(c) \/ ReadTools(c) \/ GetById(c) \/ DoSync(c) \/ CallFails(c) => rows' = rows
    BY DEF ReadRows, ReadTools, GetById, DoSync, CallFails, storeVars
  <2> QED BY <1>0, <2>1 DEF Serve
<1>2. /\ c \in CallType /\ Meant(c) /\ rows \in [Actions -> Row \union {NoOne}]
      /\ HomeOf \in [Actions -> Workspaces] /\ owner' = owner
  <2>1. UNCHANGED sessionVars
    BY <1>0 DEF Serve
  <2>2. c \in CallType /\ Meant(c) /\ rows \in [Actions -> Row \union {NoOne}]
    BY DEF ConsoleInv, CallTable, PagesType
  <2> QED BY <2>1, <2>2, ActionsAssumption DEF sessionVars
<1>3. PICK d : /\ d.at \in {"done", "refused"} /\ c.at \notin {"done", "refused"}
              /\ calls' = (calls \ {c}) \union {d}
  <2>1. \A at, seen :
          /\ [c EXCEPT !.at = at].at = at /\ [c EXCEPT !.at = at, !.seen = seen].at = at
    BY <1>2 DEF CallType
  <2> QED BY <1>1, <2>1 DEF Change, DoImport, Step
<1>4. c \notin calls'
  BY <1>3
<1>5. CASE Change(c)
  <2>1. c.op \in Edits /\ c.op \in Changing /\ c.target \in Actions /\ HomeOf[c.target] = c.as
    BY <1>2, <1>5 DEF Change, Meant, Edits, Changing
  <2>2. \A a \in Actions : a # c.target => rows'[a] = rows[a]
    BY <1>2, <1>5 DEF Change
  <2> QED BY <1>2, <1>4, <2>1, <2>2
<1>6. CASE DoImport(c)
  <2>1. c.op \in Changing /\ c.target \in Actions /\ Known(c.as)
    BY <1>2, <1>6 DEF DoImport, Meant, Changing, storeVars
  <2>2. HomeOf[c.target] = c.as /\ c.as \in Workspaces
    BY <1>2, <1>6, <2>1 DEF DoImport, Meant, Known
  <2>3. \A a \in Actions : a # c.target => rows'[a] = rows[a]
    BY <1>2, <1>6, <2>1 DEF DoImport
  <2> QED BY <1>2, <1>4, <2>1, <2>2, <2>3
<1> QED BY <1>1, <1>5, <1>6

\* ChangesHitTheRow (tools/page.tsx, ProxyActionService.getById): a change that is made
\* is made in the workspace of the key it was sent with, to the action that was clicked,
\* or on the tools page perhaps to another one of the same name.
THEOREM EveryChangeHitsTheRow == Spec => ChangesHitTheRow
<1>1. ASSUME ConsoleInv, [Next]_vars
      PROVE  [\A a \in Actions : rows'[a] # rows[a] =>
                \E c \in calls \ calls' :
                  c.target = a /\ HomeOf[a] = c.as /\ NameOf[a] = NameOf[c.clicked]]_vars
  <2> SUFFICES ASSUME NEW a \in Actions, rows'[a] # rows[a]
               PROVE  \E c \in calls \ calls' :
                        c.target = a /\ HomeOf[a] = c.as /\ NameOf[a] = NameOf[c.clicked]
    OBVIOUS
  <2>1. PICK c \in calls \ calls' :
          /\ c.op \in Changing /\ HomeOf[c.target] = c.as
          /\ \A b \in Actions : b # c.target => rows'[b] = rows[b]
    BY <1>1, WhoChanges
  <2>2. c.target = a /\ NameOf[c.target] = NameOf[c.clicked]
    BY <1>1, <2>1 DEF ConsoleInv, CallTable, Meant
  <2> QED BY <2>1, <2>2
<1> QED BY <1>1, ConsoleHolds, PTL DEF Spec, ChangesHitTheRow

\* ChangesAreOfTheUser (hooks/use-auth.ts, lib/api-client.ts): a change is made in a
\* workspace of the user who was signed in when the button was pressed, but for a key
\* that an answer for somebody else had just brought.
THEOREM EveryChangeIsOfTheUser == Spec => ChangesAreOfTheUser
<1>1. ASSUME ConsoleInv, [Next]_vars
      PROVE  [rows' # rows => \E c \in calls \ calls' : c.by \in {NoOne, owner[c.as]}]_vars
  BY <1>1, WhoChanges DEF ConsoleInv, AskedByOwner
<1> QED BY <1>1, ConsoleHolds, PTL DEF Spec, ChangesAreOfTheUser
=============================================================================
