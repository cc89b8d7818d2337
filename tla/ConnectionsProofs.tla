-------------------------- MODULE ConnectionsProofs --------------------------
(***************************************************************************)
(* What Connections guarantees for any accounts, connections, shared rows, *)
(* answers of the provider and requests, and any number of changes at the  *)
(* provider and of faults.                                                 *)
(***************************************************************************)
EXTENDS Connections, FiniteSetTheorems, TLAPS

-----------------------------------------------------------------------------
(* What a request knows.                                                     *)

\* What a request holds suits the statement it executes next.
HoldsItsWork ==
  /\ todo = [q \in Requests |-> todo[q]] /\ found = [q \in Requests |-> found[q]]
  /\ \A q \in Requests :
       /\ pc[q] = "announce" => todo[q] \subseteq Keys
       /\ pc[q] = "upsert" => todo[q] \subseteq Conns \X {"ok", "error"}
       /\ pc[q] = "fetch" => found[q] \subseteq Accounts
       /\ pc[q] \in {"clear", "insert"} => todo[q] \in Answers

\* What was reported, and is still counted on, is sound.
ReportedIsSound == \A c \in completed : Sound(c)

\* No synchronisation under way will make FAILED or delete a row that was
\* reported before it began.
Spares(q, w) ==
  /\ pc[q] \in {"upsert", "find"} => w \in found[q]
  /\ pc[q] = "upsert" => \A t \in todo[q] : RowOf(t[1]) = w => t[2] = "ok"
  /\ pc[q] = "delete" => ref[w].id \notin found[q]

SyncSparesReported ==
  \A c \in completed \ raced, q \in Requests : Spares(q, RowOf(c))

\* As long as no two answers without a common element wait to be inserted, the
\* next insertion fills an empty list or is refused.
ListInv ==
  /\ ListIsWhole
  /\ ~blended => /\ \A p, q \in Inserting : todo[p] \cap todo[q] # {}
                 /\ available # {} => \A q \in Inserting : available \cap todo[q] # {}

\* The row w is that of one of the connections that share it.
Right(w) == \E c \in Shared(w) : ref[w].conn = {c} /\ ref[w].status = Mirror(provider[c])
LiveRows == {RowOf(c) : c \in Live}

\* The synchronisation of q, if calm, is right as far as it got.
OnItsWay(q) ==
  /\ pc[q] = "upsert" =>
       /\ found[q] = LiveRows
       /\ \A t \in todo[q] : t[1] \in Live /\ t[2] = provider[t[1]]
       /\ \A c \in Live : <<c, provider[c]>> \in todo[q] \/ Right(RowOf(c))
  /\ pc[q] = "find" => found[q] = LiveRows /\ \A c \in Live : Right(RowOf(c))
  /\ pc[q] = "delete" => /\ found[q] = {ref[w].id : w \in Rows \ LiveRows} \ {0}
                         /\ \A c \in Live : Right(RowOf(c))

SyncIsOnItsWay == \A q \in Requests : calm[q] => OnItsWay(q)

IndInv ==
  /\ TypeOK /\ HoldsItsWork
  /\ ListInv
  /\ ReportedIsSound /\ CompletedStaysReady /\ SyncSparesReported
  /\ SyncIsOnItsWay

-----------------------------------------------------------------------------
(* Steps.                                                                    *)

\* The steps that touch neither rows, lists nor the work of a request.
Quiet == UNCHANGED <<provider, endpoint, refs, procs, list>>

\* The steps of a request of the gateway that do.
RequestAction(q) ==
  \/ CompletePublish(q) \/ RequestFails(q)
  \/ SyncList(q) \/ SyncUpsert(q) \/ SyncFind(q) \/ SyncDelete(q)
  \/ SyncIntegrations(q) \/ ListFetch(q) \/ ListClear(q) \/ ListInsert(q)
  \/ \E a \in Accounts : ConfigureEndpoint(q, a)
  \/ \E c \in Conns : CompleteUpsert(q, c)
  \/ \E w \in Rows : CreateConnectionRef(q, w) \/ MarkReady(q, w)

\* The provider, a request, or a quiet step of the sockets and the runtime.
LEMMA StepKinds ==
  ASSUME [Next]_vars
  PROVE  \/ \E c \in Conns : Authorize(c) \/ ProviderChanges(c)
         \/ \E q \in Requests : RequestAction(q)
         \/ Quiet
<1>1. ASSUME NEW c \in Conns, SocketCompletes(c) PROVE Quiet
  BY <1>1 DEF SocketCompletes, Quiet
<1>2. ASSUME NEW q \in Requests, NEW r \in Runs, UserResumes(q, r) PROVE Quiet
  BY <1>2 DEF UserResumes, Quiet, world
<1>3. CASE ConnectionCompleted
  BY <1>3 DEF ConnectionCompleted, Wake, WakePublish, Gateway, Quiet, world
<1>4. CASE ResumeRequested \/ \E r \in Runs : ResumeFails(r)
  BY <1>4 DEF ResumeRequested, ResumeTake, ResumeSettles, ResumeFails, Gateway, Quiet, world
<1>5. CASE UNCHANGED vars
  BY <1>5 DEF vars, Quiet, world
<1>6. QED
  BY <1>1, <1>2, <1>3, <1>4, <1>5 DEF Next, RequestAction

\* Every connection has its two rows, which are one unless it is untagged.
LEMMA ConnHasRows ==
  ASSUME NEW c \in Conns
  PROVE  /\ RowOf(c) \in Rows /\ ReportedAs(c) \in Rows
         /\ c \notin Untagged => RowOf(c) = ReportedAs(c)
BY DEF Rows, RowOf, ReportedAs

\* A request does not touch the work of another.
LEMMA OthersStand ==
  ASSUME TypeOK, HoldsItsWork, NEW q \in Requests, RequestAction(q), NEW p \in Requests \ {q}
  PROVE  pc'[p] = pc[p] /\ todo'[p] = todo[p] /\ found'[p] = found[p]
<1> USE DEF TypeOK, HoldsItsWork
<1>1. CASE CompletePublish(q)
  BY <1>1 DEF CompletePublish
<1>2. CASE RequestFails(q)
  BY <1>2 DEF RequestFails
<1>3. CASE SyncList(q)
  BY <1>3 DEF SyncList
<1>4. CASE SyncUpsert(q)
  BY <1>4 DEF SyncUpsert
<1>5. CASE SyncFind(q)
  BY <1>5 DEF SyncFind
<1>6. CASE SyncDelete(q)
  BY <1>6 DEF SyncDelete
<1>7. CASE SyncIntegrations(q) \/ \E a \in Accounts : ConfigureEndpoint(q, a)
  BY <1>7 DEF SyncIntegrations, ConfigureEndpoint, FetchesFrom
<1>8. CASE ListFetch(q)
  BY <1>8 DEF ListFetch
<1>9. CASE ListClear(q)
  BY <1>9 DEF ListClear
<1>10. CASE ListInsert(q)
  BY <1>10 DEF ListInsert
<1>11. CASE \E c \in Conns : CompleteUpsert(q, c)
  BY <1>11 DEF CompleteUpsert
<1>12. CASE \E w \in Rows : CreateConnectionRef(q, w) \/ MarkReady(q, w)
  BY <1>12 DEF CreateConnectionRef, MarkReady
<1>13. QED
  BY <1>1, <1>2, <1>3, <1>4, <1>5, <1>6, <1>7, <1>8, <1>9, <1>10, <1>11, <1>12 DEF RequestAction

\* The rows' part of the type invariant.
RowsOK ==
  /\ ref \in [Rows -> [id : Nat, status : Status, conn : SUBSET Conns]]
  /\ nextId \in Nat \ {0}
  /\ \A w \in Rows : ref[w] = NoRow \/ (ref[w].id \in 1 .. (nextId - 1) /\ ref[w].status # "none")
  /\ \A v, w \in Rows : v # w /\ ref[v].id = ref[w].id => ref[v].id = 0

\* An upsert gives a new row a new id, keeps that of an old one, and touches no other.
LEMMA Upserts ==
  ASSUME RowsOK, NEW w \in Rows, NEW conn \in SUBSET Conns, NEW s \in Status \ {"none"},
         Upsert(w, conn, s)
  PROVE  /\ RowsOK'
         /\ ref'[w].status = s /\ ref'[w].conn = conn
         /\ ref[w].id # 0 => ref'[w].id = ref[w].id
         /\ \A v \in Rows \ {w} : ref'[v] = ref[v]
<1> USE DEF RowsOK, NoRow
<1>1. PICK id \in Nat : /\ id = (IF ref[w].id = 0 THEN nextId ELSE ref[w].id)
                        /\ ref' = [ref EXCEPT ![w] = [id |-> id, status |-> s, conn |-> conn]]
  BY DEF Upsert
<1>2. nextId' = (IF ref[w].id = 0 THEN nextId + 1 ELSE nextId)
  BY DEF Upsert
<1>3. ref'[w] = [id |-> id, status |-> s, conn |-> conn] /\ \A v \in Rows \ {w} : ref'[v] = ref[v]
  BY <1>1
<1>4. ref' \in [Rows -> [id : Nat, status : Status, conn : SUBSET Conns]]
  BY <1>1
<1>5. \A v \in Rows :
        ref'[v] = NoRow \/ (ref'[v].id \in 1 .. (nextId' - 1) /\ ref'[v].status # "none")
  <2> SUFFICES ASSUME NEW v \in Rows
               PROVE  ref'[v] = NoRow \/ (ref'[v].id \in 1 .. (nextId' - 1) /\ ref'[v].status # "none")
    OBVIOUS
  <2>1. id \in 1 .. (nextId' - 1)
    BY <1>1, <1>2
  <2>2. CASE v = w
    BY <1>3, <2>1, <2>2
  <2>3. CASE v # w
    <3>1. ref'[v] = ref[v] /\ nextId' >= nextId
      BY <1>2, <1>3, <2>3
    <3>2. ref[v] = NoRow \/ (ref[v].id \in 1 .. (nextId - 1) /\ ref[v].status # "none")
      OBVIOUS
    <3>3. QED
      BY <1>2, <3>1, <3>2
  <2>4. QED
    BY <2>2, <2>3
<1>6. \A v \in Rows \ {w} : ref[v].id = id => ref[v].id = 0
  BY <1>1
<1>7. \A u, v \in Rows : u # v /\ ref'[u].id = ref'[v].id => ref'[u].id = 0
  BY <1>1, <1>3, <1>6
<1>8. QED
  BY <1>1, <1>2, <1>3, <1>4, <1>5, <1>7

\* The request that the type invariant speaks of: its statement, list and calm.
WorkOK ==
  /\ calm \in [Requests -> BOOLEAN]
  /\ pc \in [Requests -> {"idle", "announce"} \cup SyncPc \cup ListPc]
  /\ \A q \in Requests : pc[q] \in {"fetch", "find", "delete", "idle"} => todo[q] = {}
  /\ \A q \in Requests : pc[q] = "insert" => todo[q] # {}

\* The runtime's part of the type invariant.
RuntimeOK ==
  /\ announced \subseteq Keys /\ waking \subseteq Runs /\ asked \in Seq(Runs)
  /\ row \in [Runs -> {"PAUSED", "RUNNING", "SETTLED"}]
  /\ resuming \subseteq Runs /\ Cardinality(resuming) <= 1
  /\ \A r \in resuming : row[r] = "RUNNING"
  /\ requests \in Nat /\ changes \in Nat /\ faults \in Nat

LEMMA TypeOKParts ==
  /\ TypeOK => RowsOK /\ WorkOK /\ RuntimeOK
  /\ TypeOK' <=> /\ RowsOK' /\ WorkOK' /\ RuntimeOK'
                 /\ provider' \in [Conns -> {"unborn", "ok", "error", "gone"}]
                 /\ endpoint' \in Accounts /\ authorized' \cup completed' \cup raced' \subseteq Conns
                 /\ bare' \in BOOLEAN /\ blended' \in BOOLEAN
BY DEF TypeOK, RowsOK, WorkOK, RuntimeOK

\* A synchronisation's entries become rows, others keep theirs.
LEMMA RowsKept ==
  ASSUME TypeOK, HoldsItsWork, NEW q \in Requests, RequestAction(q)
  PROVE  RowsOK'
<1>1. RowsOK
  BY TypeOKParts
<1>2. CASE UNCHANGED <<ref, nextId>>
  BY <1>1, <1>2 DEF RowsOK
<1>3. CASE SyncUpsert(q)
  <2>1. PICK t \in todo[q] : Upsert(RowOf(t[1]), {t[1]}, Mirror(t[2]))
    BY <1>3 DEF SyncUpsert
  <2>2. t[1] \in Conns /\ Mirror(t[2]) \in Status \ {"none"}
    BY <1>3 DEF SyncUpsert, HoldsItsWork, Mirror, Status
  <2>3. QED
    BY <1>1, <2>1, <2>2, Upserts, ConnHasRows
<1>4. CASE SyncDelete(q)
  <2>1. \A w \in Rows : ref'[w] = NoRow \/ ref'[w] = ref[w]
    BY <1>4 DEF SyncDelete
  <2>2. NoRow.id = 0 /\ NoRow.status = "none" /\ NoRow \in [id : Nat, status : Status, conn : SUBSET Conns]
    BY DEF NoRow, Status
  <2>3. ref' \in [Rows -> [id : Nat, status : Status, conn : SUBSET Conns]] /\ nextId' = nextId
    BY <1>1, <1>4, <2>2 DEF SyncDelete, RowsOK
  <2>4. \A w \in Rows :
          ref'[w] = NoRow \/ (ref'[w].id \in 1 .. (nextId' - 1) /\ ref'[w].status # "none")
    BY <1>1, <2>1, <2>2, <2>3 DEF RowsOK
  <2>5. \A v, w \in Rows : v # w /\ ref'[v].id = ref'[w].id => ref'[v].id = 0
    BY <1>1, <2>1, <2>2 DEF RowsOK
  <2>6. QED
    BY <1>1, <2>3, <2>4, <2>5 DEF RowsOK
<1>5. ASSUME NEW c \in Conns, CompleteUpsert(q, c) PROVE RowsOK'
  <2>1. Upsert(ReportedAs(c), {c}, "READY")
    BY <1>5 DEF CompleteUpsert
  <2>2. QED
    BY <1>1, <2>1, Upserts, ConnHasRows DEF Status
<1>6. ASSUME NEW w \in Rows, CreateConnectionRef(q, w) PROVE RowsOK'
  <2>1. Upsert(w, {}, "PENDING")
    BY <1>6 DEF CreateConnectionRef
  <2>2. QED
    BY <1>1, <2>1, Upserts DEF Status
<1>7. ASSUME NEW w \in Rows, MarkReady(q, w) PROVE RowsOK'
  <2>1. Upsert(w, ref[w].conn, "READY") /\ ref[w].conn \in SUBSET Conns
    BY <1>1, <1>7 DEF MarkReady, RowsOK
  <2>2. QED
    BY <1>1, <2>1, Upserts DEF Status
<1>8. QED
  BY <1>2, <1>3, <1>4, <1>5, <1>6, <1>7
     DEF RequestAction, CompletePublish, RequestFails, SyncList, SyncFind, SyncIntegrations,
         ListFetch, ListClear, ListInsert, ConfigureEndpoint, FetchesFrom, refs

\* What a request must hold at a statement, in one formula.
Holds(st, td, fd) ==
  /\ st \in {"idle", "announce"} \cup SyncPc \cup ListPc
  /\ st \in {"fetch", "find", "delete", "idle"} => td = {}
  /\ st = "insert" => td # {}
  /\ st = "announce" => td \subseteq Keys
  /\ st = "upsert" => td \subseteq Conns \X {"ok", "error"}
  /\ st = "fetch" => fd \subseteq Accounts
  /\ st \in {"clear", "insert"} => td \in Answers

LEMMA HoldsParts ==
  /\ WorkOK /\ HoldsItsWork => \A q \in Requests : Holds(pc[q], todo[q], found[q])
  /\ /\ calm' \in [Requests -> BOOLEAN]
     /\ pc' = [p \in Requests |-> pc'[p]]
     /\ todo' = [p \in Requests |-> todo'[p]] /\ found' = [p \in Requests |-> found'[p]]
     /\ \A p \in Requests : Holds(pc'[p], todo'[p], found'[p])
     => WorkOK' /\ HoldsItsWork'
<1>1. WorkOK /\ HoldsItsWork => \A q \in Requests : Holds(pc[q], todo[q], found[q])
  BY DEF WorkOK, HoldsItsWork, Holds, SyncPc, ListPc
<1>2. ASSUME calm' \in [Requests -> BOOLEAN], pc' = [p \in Requests |-> pc'[p]],
             todo' = [p \in Requests |-> todo'[p]], found' = [p \in Requests |-> found'[p]],
             \A p \in Requests : Holds(pc'[p], todo'[p], found'[p])
      PROVE  WorkOK' /\ HoldsItsWork'
  <2>1. pc' \in [Requests -> {"idle", "announce"} \cup SyncPc \cup ListPc]
    BY <1>2 DEF Holds
  <2>2. QED
    BY <1>2, <2>1 DEF WorkOK, HoldsItsWork, Holds
<1>3. QED
  BY <1>1, <1>2

\* Every statement hands the next one what it works on.
LEMMA WorkKept ==
  ASSUME TypeOK, HoldsItsWork, NEW q \in Requests, RequestAction(q)
  PROVE  WorkOK' /\ HoldsItsWork'
<1> DEFINE Shapes == /\ calm' \in [Requests -> BOOLEAN]
                     /\ pc' = [p \in Requests |-> pc'[p]]
                     /\ todo' = [p \in Requests |-> todo'[p]]
                     /\ found' = [p \in Requests |-> found'[p]]
           Done == Shapes /\ Holds(pc'[q], todo'[q], found'[q])
<1>0. /\ calm \in [Requests -> BOOLEAN] /\ pc = [p \in Requests |-> pc[p]]
      /\ todo = [p \in Requests |-> todo[p]] /\ found = [p \in Requests |-> found[p]]
      /\ Holds(pc[q], todo[q], found[q]) /\ \A p \in Requests : Holds(pc[p], todo[p], found[p])
  BY HoldsParts, TypeOKParts DEF TypeOK, HoldsItsWork
<1> USE DEF Holds, SyncPc, ListPc
<1>1. ASSUME CompletePublish(q) PROVE Done
  BY <1>0, <1>1 DEF CompletePublish
<1>2. ASSUME RequestFails(q) PROVE Done
  BY <1>0, <1>2 DEF RequestFails
<1>3. ASSUME SyncList(q) PROVE Done
  <2>1. {<<c, provider[c]>> : c \in Live} \subseteq Conns \X {"ok", "error"}
    BY DEF Live
  <2>2. Live = {} => {<<c, provider[c]>> : c \in Live} = {}
    OBVIOUS
  <2>3. QED
    BY <1>0, <1>3, <2>1, <2>2 DEF SyncList
<1>4. ASSUME SyncUpsert(q) PROVE Done
  <2>1. PICK t \in todo[q] : /\ todo' = [todo EXCEPT ![q] = @ \ {t}]
                             /\ pc' = [pc EXCEPT ![q] = IF todo[q] = {t} THEN "find" ELSE @]
    BY <1>4 DEF SyncUpsert
  <2>2. pc[q] = "upsert" /\ found' = found /\ calm' \in [Requests -> BOOLEAN]
    BY <1>0, <1>4 DEF SyncUpsert, Disturbed
  <2>3. QED
    BY <1>0, <2>1, <2>2
<1>5. ASSUME SyncFind(q) PROVE Done
  BY <1>0, <1>5 DEF SyncFind
<1>6. ASSUME SyncDelete(q) PROVE Done
  BY <1>0, <1>6 DEF SyncDelete, Disturbed
<1>7. ASSUME SyncIntegrations(q) PROVE Done
  BY <1>0, <1>7 DEF SyncIntegrations, FetchesFrom, Begin, TypeOK
<1>8. ASSUME NEW a \in Accounts, ConfigureEndpoint(q, a) PROVE Done
  BY <1>0, <1>8 DEF ConfigureEndpoint, FetchesFrom, Begin, Disturbed
<1>9. ASSUME ListFetch(q) PROVE Done
  <2>0. PICK a \in found[q] : \E answer \in Offers[a] : todo' = [todo EXCEPT ![q] = answer]
    BY <1>9 DEF ListFetch
  <2>1. PICK answer \in Offers[a] : todo' = [todo EXCEPT ![q] = answer]
    BY <2>0
  <2>2. answer \in Answers
    BY <1>0, <1>9 DEF ListFetch, Answers
  <2>3. QED
    BY <1>0, <1>9, <2>1, <2>2 DEF ListFetch
<1>10. ASSUME ListClear(q) PROVE Done
  BY <1>0, <1>10 DEF ListClear
<1>11. ASSUME ListInsert(q) PROVE Done
  BY <1>0, <1>11 DEF ListInsert
<1>12. ASSUME NEW c \in Conns, CompleteUpsert(q, c) PROVE Done
  <2>1. KeyOf[c] \in Keys
    BY ConnsAssumption
  <2>2. QED
    BY <1>0, <1>12, <2>1 DEF CompleteUpsert, Disturbed
<1>13. ASSUME NEW w \in Rows, CreateConnectionRef(q, w) \/ MarkReady(q, w) PROVE Done
  BY <1>0, <1>13 DEF CreateConnectionRef, MarkReady, Disturbed
<1>14. Done
  BY <1>1, <1>2, <1>3, <1>4, <1>5, <1>6, <1>7, <1>8, <1>9, <1>10, <1>11, <1>12, <1>13
     DEF RequestAction
<1> HIDE DEF Holds, SyncPc, ListPc
<1>15. \A p \in Requests : Holds(pc'[p], todo'[p], found'[p])
  <2> SUFFICES ASSUME NEW p \in Requests PROVE Holds(pc'[p], todo'[p], found'[p])
    OBVIOUS
  <2>1. CASE p = q
    BY <1>14, <2>1
  <2>2. CASE p # q
    BY <1>0, <2>2, OthersStand
  <2>3. QED
    BY <2>1, <2>2
<1>16. QED
  BY <1>14, <1>15, HoldsParts

\* The runtime takes one message of a subscription at a time.
LEMMA RuntimeOKKept ==
  ASSUME TypeOK, HoldsItsWork, [Next]_vars
  PROVE  RuntimeOK'
<1> USE DEF TypeOK, RuntimeOK
<1>1. ASSUME NEW k \in Keys, Wake(k) PROVE RuntimeOK'
  BY <1>1 DEF Wake, Gateway
<1>2. ASSUME NEW r \in Runs, WakePublish(r) PROVE RuntimeOK'
  <2>1. waking' \subseteq Runs /\ faults' \in Nat /\ (asked' = asked \/ asked' = Append(asked, r))
    BY <1>2 DEF WakePublish
  <2>2. UNCHANGED <<announced, row, resuming, requests, changes>>
    BY <1>2 DEF WakePublish, Gateway
  <2>3. Append(asked, r) \in Seq(Runs)
    OBVIOUS
  <2>4. QED
    BY <2>1, <2>2, <2>3
<1>3. CASE ResumeTake
  <2>0. asked # <<>> /\ Head(asked) \in Runs /\ asked' \in Seq(Runs)
    BY <1>3 DEF ResumeTake
  <2>1. row' \in [Runs -> {"PAUSED", "RUNNING", "SETTLED"}]
    BY <1>3, <2>0 DEF ResumeTake
  <2>2. resuming' \subseteq Runs /\ \A r \in resuming' : row'[r] = "RUNNING"
    BY <1>3, <2>0 DEF ResumeTake
  <2>3. Cardinality(resuming') <= 1
    <3>1. Cardinality({Head(asked)}) = 1
      BY FS_Singleton, Zenon
    <3>2. resuming' = {Head(asked)} \/ resuming' = resuming
      BY <1>3 DEF ResumeTake
    <3>3. CASE resuming' = {Head(asked)}
      <4>1. Cardinality(resuming') = 1
        BY <3>1, <3>3, Zenon
      <4>2. QED
        BY <4>1
    <3>4. CASE resuming' = resuming
      BY <3>4
    <3>5. QED
      BY <3>2, <3>3, <3>4
  <2>4. UNCHANGED <<announced, waking, faults, requests, changes>>
    BY <1>3 DEF ResumeTake, Gateway
  <2>5. QED
    BY <2>0, <2>1, <2>2, <2>3, <2>4
<1>4. ASSUME NEW r \in Runs, ResumeSettles(r) \/ ResumeFails(r) PROVE RuntimeOK'
  <2>1. Cardinality({}) = 0
    BY FS_EmptySet
  <2>2. resuming' = {} /\ row' \in [Runs -> {"PAUSED", "RUNNING", "SETTLED"}] /\ faults' \in Nat
    BY <1>4 DEF ResumeSettles, ResumeFails
  <2>3. UNCHANGED <<announced, waking, asked, requests, changes>>
    BY <1>4 DEF ResumeSettles, ResumeFails, Gateway
  <2>4. QED
    BY <2>1, <2>2, <2>3
<1>5. ASSUME NEW c \in Conns, Authorize(c) \/ ProviderChanges(c) \/ SocketCompletes(c) PROVE RuntimeOK'
  BY <1>5, ConnsAssumption DEF Authorize, ProviderChanges, SocketCompletes, Change, resume
<1>6. ASSUME NEW q \in Requests, NEW r \in Runs, UserResumes(q, r) PROVE RuntimeOK'
  BY <1>6 DEF UserResumes, Begin
<1>7. ASSUME NEW q \in Requests, RequestAction(q) PROVE RuntimeOK'
  <2>1. CASE CompletePublish(q)
    BY <2>1 DEF CompletePublish, HoldsItsWork, bounds
  <2>2. CASE ~CompletePublish(q)
    <3>1. UNCHANGED <<announced, waking, asked, row, resuming>>
      BY <1>7, <2>2
         DEF RequestAction, RequestFails, SyncList, SyncUpsert, SyncFind, SyncDelete,
             SyncIntegrations, ListFetch, ListClear, ListInsert, ConfigureEndpoint, FetchesFrom,
             CompleteUpsert, CreateConnectionRef, MarkReady, resume
    <3>2. requests' \in {requests, requests + 1} /\ changes' = changes /\ faults' \in {faults, faults + 1}
      BY <1>7, <2>2
         DEF RequestAction, RequestFails, SyncList, SyncUpsert, SyncFind, SyncDelete,
             SyncIntegrations, ListFetch, ListClear, ListInsert, ConfigureEndpoint, FetchesFrom,
             CompleteUpsert, CreateConnectionRef, MarkReady, Begin, bounds
    <3>3. QED
      BY <3>1, <3>2
  <2>3. QED
    BY <2>1, <2>2
<1>8. CASE UNCHANGED vars
  BY <1>8 DEF vars, resume, bounds
<1>9. QED
  BY <1>1, <1>2, <1>3, <1>4, <1>5, <1>6, <1>7, <1>8
     DEF Next, RequestAction, ConnectionCompleted, ResumeRequested

\* Every step keeps the types and what requests hold.
LEMMA TypeOKKept ==
  ASSUME TypeOK, HoldsItsWork, [Next]_vars
  PROVE  TypeOK' /\ HoldsItsWork'
<1>1. RuntimeOK'
  BY RuntimeOKKept
<1>2. ASSUME NEW c \in Conns, Authorize(c) \/ ProviderChanges(c) PROVE TypeOK' /\ HoldsItsWork'
  <2>1. provider' \in [Conns -> {"unborn", "ok", "error", "gone"}] /\ authorized' \subseteq Conns
    BY <1>2 DEF Authorize, ProviderChanges, TypeOK
  <2>2. completed' \subseteq Conns
    BY <1>2 DEF Authorize, ProviderChanges, TypeOK, refs
  <2>3. calm' \in [Requests -> BOOLEAN]
    BY <1>2 DEF Authorize, ProviderChanges, TypeOK, Disturbed
  <2>4. UNCHANGED <<endpoint, ref, nextId, raced, pc, todo, found, list>>
    BY <1>2 DEF Authorize, ProviderChanges, refs
  <2>5. RowsOK' /\ WorkOK' /\ HoldsItsWork'
    BY <2>3, <2>4, TypeOKParts DEF RowsOK, WorkOK, HoldsItsWork
  <2>6. QED
    BY <1>1, <2>1, <2>2, <2>4, <2>5, TypeOKParts DEF TypeOK, list
<1>3. ASSUME NEW q \in Requests, RequestAction(q) PROVE TypeOK' /\ HoldsItsWork'
  <2>1. RowsOK' /\ WorkOK' /\ HoldsItsWork'
    BY <1>3, RowsKept, WorkKept
  <2>2. provider' = provider /\ endpoint' \in Accounts /\ authorized' \subseteq Conns
    BY <1>3 DEF RequestAction, CompletePublish, RequestFails, SyncList, SyncUpsert, SyncFind,
             SyncDelete, SyncIntegrations, ListFetch, ListClear, ListInsert, ConfigureEndpoint,
             FetchesFrom, CompleteUpsert, CreateConnectionRef, MarkReady, world, TypeOK
  <2>3. completed' \subseteq Conns /\ raced' \subseteq Conns
    BY <1>3 DEF RequestAction, CompletePublish, RequestFails, SyncList, SyncUpsert, SyncFind,
             SyncDelete, SyncIntegrations, ListFetch, ListClear, ListInsert, ConfigureEndpoint,
             FetchesFrom, CompleteUpsert, CreateConnectionRef, MarkReady, refs, TypeOK
  <2>4. bare' \in BOOLEAN /\ blended' \in BOOLEAN
    BY <1>3 DEF RequestAction, CompletePublish, RequestFails, SyncList, SyncUpsert, SyncFind,
             SyncDelete, SyncIntegrations, ListFetch, ListClear, ListInsert, ConfigureEndpoint,
             FetchesFrom, CompleteUpsert, CreateConnectionRef, MarkReady, list, TypeOK
  <2>5. QED
    BY <1>1, <2>1, <2>2, <2>3, <2>4, TypeOKParts DEF TypeOK
<1>4. CASE Quiet
  <2>1. UNCHANGED <<provider, endpoint, ref, nextId, completed, raced, pc, todo, found, calm, bare, blended>>
    BY <1>4 DEF Quiet, refs, procs, list
  <2>2. authorized' \subseteq Conns
    BY DEF TypeOK, Next, vars, world, Authorize, ProviderChanges, SocketCompletes, CompletePublish, RequestFails, SyncList, SyncUpsert, SyncFind,
             SyncDelete, SyncIntegrations, ListFetch, ListClear, ListInsert, ConfigureEndpoint,
             FetchesFrom, CompleteUpsert, CreateConnectionRef, MarkReady, UserResumes,
             ConnectionCompleted, ResumeRequested, ResumeFails, Wake, WakePublish, ResumeTake, ResumeSettles, Gateway
  <2>3. RowsOK' /\ WorkOK' /\ HoldsItsWork'
    BY <2>1, TypeOKParts DEF RowsOK, WorkOK, HoldsItsWork
  <2>4. QED
    BY <1>1, <2>1, <2>2, <2>3, TypeOKParts DEF TypeOK
<1>5. QED
  BY <1>2, <1>3, <1>4, StepKinds

-----------------------------------------------------------------------------
(* The list of integrations.                                                 *)

\* A deletion notices two answers that have nothing in common; as long as there
\* are none, an insertion fills an empty list or is refused.
LEMMA ListInvKept ==
  ASSUME TypeOK, HoldsItsWork, ListInv, [Next]_vars
  PROVE  ListInv'
<1>0. \A q \in Inserting : todo[q] \in Answers /\ todo[q] # {}
  BY DEF Inserting, TypeOK, HoldsItsWork
<1>1. ASSUME UNCHANGED <<available, bare, blended>>, Inserting' = Inserting,
             \A q \in Inserting : todo'[q] = todo[q]
      PROVE  ListInv'
  BY <1>1 DEF ListInv, ListIsWhole
<1>2. CASE Quiet \/ \E c \in Conns : Authorize(c) \/ ProviderChanges(c)
  <2>1. UNCHANGED <<list, pc, todo>>
    BY <1>2 DEF Quiet, Authorize, ProviderChanges, procs
  <2>2. Inserting' = Inserting
    BY <2>1 DEF Inserting
  <2>3. QED
    BY <1>1, <2>1, <2>2 DEF list
<1>3. ASSUME NEW q \in Requests, RequestAction(q) PROVE ListInv'
  <2>1. \A p \in Requests \ {q} : pc'[p] = pc[p] /\ todo'[p] = todo[p]
    BY <1>3, OthersStand
  <2>2. Inserting' \ {q} = Inserting \ {q}
    BY <2>1 DEF Inserting
  <2>3. CASE ListClear(q)
    <3>1. /\ available' = {} /\ bare' = (bare \/ todo[q] = {}) /\ todo' = todo
          /\ blended' = \E p, r \in Inserting' : todo[p] \cap todo[r] = {}
          /\ todo[q] # {} => pc'[q] = "insert"
      BY <2>3 DEF ListClear, TypeOK
    <3>2. bare' \/ Inserting' # {}
      BY <3>1 DEF Inserting
    <3>3. QED
      BY <3>1, <3>2 DEF ListInv, ListIsWhole
  <2>4. CASE ListInsert(q)
    <3>1. /\ q \in Inserting /\ blended' = blended
          /\ available' = IF available \cap todo[q] = {} THEN available \cup todo[q] ELSE available
          /\ Inserting' = Inserting \ {q} /\ \A p \in Inserting' : todo'[p] = todo[p]
      BY <2>1, <2>2, <2>4 DEF ListInsert, Inserting, TypeOK
    <3>2. available' # {}
      BY <1>0, <3>1
    <3>3. CASE blended
      BY <3>1, <3>2, <3>3 DEF ListInv, ListIsWhole
    <3>4. CASE ~blended
      <4>1. available' = todo[q] \/ (available' = available /\ available # {})
        BY <1>0, <3>1, <3>4 DEF ListInv
      <4>2. available' \in Answers
        BY <1>0, <3>1, <3>4, <4>1 DEF ListInv, ListIsWhole
      <4>3. \A p \in Inserting' : available' \cap todo'[p] # {}
        BY <3>1, <3>4, <4>1 DEF ListInv
      <4>4. \A p, r \in Inserting' : todo'[p] \cap todo'[r] # {}
        BY <3>1, <3>4 DEF ListInv
      <4>5. QED
        BY <3>1, <3>2, <4>2, <4>3, <4>4 DEF ListInv, ListIsWhole
    <3>5. QED
      BY <3>3, <3>4
  <2>5. CASE RequestFails(q)
    <3>1. /\ UNCHANGED <<available, blended>> /\ bare' = (bare \/ pc[q] = "insert")
          /\ Inserting' = Inserting \ {q} /\ \A p \in Inserting' : todo'[p] = todo[p]
      BY <2>1, <2>2, <2>5 DEF RequestFails, Inserting, TypeOK
    <3>2. available' = {} => bare' \/ Inserting' # {}
      BY <3>1 DEF ListInv, ListIsWhole, Inserting
    <3>3. QED
      BY <3>1, <3>2 DEF ListInv, ListIsWhole
  <2>6. CASE ~(ListClear(q) \/ ListInsert(q) \/ RequestFails(q))
    <3>1. UNCHANGED <<available, bare, blended>>
      BY <1>3, <2>6
         DEF RequestAction, CompletePublish, SyncList, SyncUpsert, SyncFind, SyncDelete,
             SyncIntegrations, ListFetch, ConfigureEndpoint, FetchesFrom, CompleteUpsert,
             CreateConnectionRef, MarkReady, list
    <3>2. pc[q] # "insert" /\ pc'[q] # "insert"
      BY <1>3, <2>6
         DEF RequestAction, CompletePublish, SyncList, SyncUpsert, SyncFind, SyncDelete,
             SyncIntegrations, ListFetch, ConfigureEndpoint, FetchesFrom, CompleteUpsert,
             CreateConnectionRef, MarkReady, Begin, TypeOK
    <3>3. Inserting' = Inserting /\ q \notin Inserting
      BY <2>2, <3>2 DEF Inserting
    <3>4. QED
      BY <1>1, <2>1, <3>1, <3>3 DEF Inserting
  <2>7. QED
    BY <2>3, <2>4, <2>5, <2>6
<1>4. QED
  BY <1>2, <1>3, StepKinds

-----------------------------------------------------------------------------
(* Reported connections.                                                     *)

\* A connection stays reported as long as it is sound.
LEMMA ReportedIsSoundKept ==
  ASSUME TypeOK, ReportedIsSound, [Next]_vars
  PROVE  ReportedIsSound'
<1> USE DEF ReportedIsSound
<1>1. ASSUME UNCHANGED <<provider, endpoint>>, \A c \in completed' : Sound(c) PROVE ReportedIsSound'
  BY <1>1 DEF Sound, Shared, Live
<1>2. ASSUME NEW c \in Conns, Authorize(c) PROVE ReportedIsSound'
  <2>1. completed' = completed /\ endpoint' = endpoint /\ provider' = [provider EXCEPT ![c] = "ok"]
    BY <1>2 DEF Authorize, refs
  <2>2. QED
    BY <2>1 DEF Sound, Shared, Live, TypeOK
<1>3. ASSUME NEW c \in Conns, ProviderChanges(c) PROVE ReportedIsSound'
  BY <1>3 DEF ProviderChanges
<1>4. ASSUME NEW q \in Requests, RequestAction(q) PROVE ReportedIsSound'
  <2>1. ASSUME NEW a \in Accounts, ConfigureEndpoint(q, a) PROVE ReportedIsSound'
    <3>1. CASE a = endpoint
      BY <1>1, <2>1, <3>1 DEF ConfigureEndpoint, FetchesFrom
    <3>2. CASE a # endpoint
      BY <2>1, <3>2 DEF ConfigureEndpoint
    <3>3. QED
      BY <3>1, <3>2
  <2>2. ASSUME NEW c \in Conns, CompleteUpsert(q, c) PROVE ReportedIsSound'
    BY <1>1, <2>2 DEF CompleteUpsert
  <2>3. CASE ~(\E a \in Accounts : ConfigureEndpoint(q, a)) /\ ~(\E c \in Conns : CompleteUpsert(q, c))
    <3>1. UNCHANGED <<provider, endpoint, completed>>
      BY <1>4, <2>3
         DEF RequestAction, CompletePublish, RequestFails, SyncList, SyncUpsert, SyncFind,
             SyncDelete, SyncIntegrations, ListFetch, ListClear, ListInsert, FetchesFrom,
             CreateConnectionRef, MarkReady, world, refs
    <3>2. QED
      BY <1>1, <3>1
  <2>4. QED
    BY <2>1, <2>2, <2>3
<1>5. CASE Quiet
  BY <1>1, <1>5 DEF Quiet, refs
<1>6. QED
  BY <1>2, <1>3, <1>4, <1>5, StepKinds

\* What a synchronisation does to a row depends on its work and the row's id alone.
LEMMA SparesFrame ==
  ASSUME NEW p \in Requests, NEW w \in Rows, Spares(p, w),
         pc'[p] = pc[p], todo'[p] = todo[p], found'[p] = found[p], ref'[w].id = ref[w].id
  PROVE  Spares(p, w)'
BY DEF Spares

\* A row is written READY when it is reported, a list that is asked for later has
\* the connection and nothing broken for its row, and only a synchronisation that
\* began before could do anything else to it.
LEMMA ReportedKept ==
  ASSUME TypeOK, HoldsItsWork, ReportedIsSound, CompletedStaysReady, SyncSparesReported,
         [Next]_vars
  PROVE  CompletedStaysReady' /\ SyncSparesReported'
<1> DEFINE Kept(c) == /\ ref'[RowOf(c)].status = "READY"
                      /\ \A p \in Requests : Spares(p, RowOf(c))'
<1> SUFFICES ASSUME NEW c \in completed' \ raced' PROVE Kept(c)
  BY DEF CompletedStaysReady, SyncSparesReported
<1>0. RowsOK /\ TypeOK' /\ c \in Conns /\ RowOf(c) \in Rows
  BY TypeOKKept, TypeOKParts, ConnHasRows DEF TypeOK
<1>1. c \in completed \ raced =>
        /\ ref[RowOf(c)].status = "READY" /\ ref[RowOf(c)].id # 0 /\ Sound(c)
        /\ \A p \in Requests : Spares(p, RowOf(c))
  BY <1>0 DEF CompletedStaysReady, SyncSparesReported, ReportedIsSound, RowsOK, NoRow
<1>2. ASSUME c \in completed \ raced, ref'[RowOf(c)] = ref[RowOf(c)], NEW q \in Requests,
             \A p \in Requests \ {q} : pc'[p] = pc[p] /\ todo'[p] = todo[p] /\ found'[p] = found[p],
             Spares(q, RowOf(c))'
      PROVE  Kept(c)
  BY <1>0, <1>1, <1>2, SparesFrame
<1>3. CASE Quiet \/ \E d \in Conns : Authorize(d) \/ ProviderChanges(d)
  <2>1. c \in completed \ raced /\ UNCHANGED <<ref, pc, todo, found>>
    BY <1>3 DEF Quiet, Authorize, ProviderChanges, refs, procs
  <2>2. QED
    BY <1>0, <1>1, <2>1, SparesFrame
<1>4. ASSUME NEW q \in Requests, RequestAction(q) PROVE Kept(c)
  <2>0. \A p \in Requests \ {q} : pc'[p] = pc[p] /\ todo'[p] = todo[p] /\ found'[p] = found[p]
    BY <1>4, OthersStand
  <2>1. CASE \/ CompletePublish(q) \/ RequestFails(q) \/ SyncIntegrations(q) \/ ListFetch(q)
             \/ ListClear(q) \/ ListInsert(q) \/ \E a \in Accounts : ConfigureEndpoint(q, a)
    <3>1. c \in completed \ raced /\ ref' = ref
      BY <2>1 DEF CompletePublish, RequestFails, SyncIntegrations, ListFetch, ListClear,
             ListInsert, ConfigureEndpoint, FetchesFrom, refs
    <3>2. pc'[q] \in {"idle", "fetch", "clear", "insert"}
      BY <2>1 DEF CompletePublish, RequestFails, SyncIntegrations, ListFetch, ListClear,
             ListInsert, ConfigureEndpoint, FetchesFrom, TypeOK
    <3>3. QED
      BY <1>2, <2>0, <3>1, <3>2 DEF Spares
  <2>2. CASE SyncList(q)
    <3>1. /\ c \in completed \ raced /\ ref' = ref
          /\ pc'[q] \in {"upsert", "find"}
          /\ todo'[q] = {<<d, provider[d]>> : d \in Live} /\ found'[q] = {RowOf(d) : d \in Live}
      BY <2>2 DEF SyncList, refs, TypeOK, HoldsItsWork
    <3>2. c \in Live /\ \A d \in Live : RowOf(d) = RowOf(c) => provider[d] = "ok"
      BY <1>1, <3>1 DEF Sound, Shared
    <3>3. QED
      BY <1>2, <2>0, <3>1, <3>2 DEF Spares
  <2>3. CASE SyncUpsert(q)
    <3>1. PICK t \in todo[q] : /\ Upsert(RowOf(t[1]), {t[1]}, Mirror(t[2]))
                               /\ todo' = [todo EXCEPT ![q] = @ \ {t}]
                               /\ pc' = [pc EXCEPT ![q] = IF todo[q] = {t} THEN "find" ELSE @]
      BY <2>3 DEF SyncUpsert
    <3>2. c \in completed \ raced /\ found' = found /\ pc[q] = "upsert"
      BY <2>3 DEF SyncUpsert
    <3>3. t[1] \in Conns /\ RowOf(t[1]) \in Rows /\ Mirror(t[2]) \in Status \ {"none"}
      BY <3>2, ConnHasRows DEF HoldsItsWork, Mirror, Status
    <3>4. /\ ref'[RowOf(t[1])].status = Mirror(t[2])
          /\ ref[RowOf(t[1])].id # 0 => ref'[RowOf(t[1])].id = ref[RowOf(t[1])].id
          /\ \A v \in Rows \ {RowOf(t[1])} : ref'[v] = ref[v]
      BY <1>0, <3>1, <3>3, Upserts
    <3>5. RowOf(t[1]) = RowOf(c) => Mirror(t[2]) = "READY"
      BY <1>1, <3>2 DEF Spares, Mirror
    <3>6. ref'[RowOf(c)].status = "READY" /\ ref'[RowOf(c)].id = ref[RowOf(c)].id
      BY <1>0, <1>1, <3>2, <3>4, <3>5
    <3>7. pc'[q] \in {"upsert", "find"} /\ todo'[q] \subseteq todo[q]
      BY <3>1, <3>2 DEF TypeOK, HoldsItsWork
    <3>8. Spares(q, RowOf(c))'
      BY <1>1, <3>2, <3>7 DEF Spares
    <3>9. QED
      BY <1>0, <1>1, <2>0, <3>2, <3>6, <3>8, SparesFrame
  <2>4. CASE SyncFind(q)
    <3>1. /\ c \in completed \ raced /\ ref' = ref /\ pc[q] = "find" /\ pc'[q] = "delete"
          /\ found'[q] = {ref[w].id : w \in Rows \ found[q]} \ {0}
      BY <2>4 DEF SyncFind, refs, TypeOK, HoldsItsWork
    <3>2. RowOf(c) \in found[q]
      BY <1>1, <3>1 DEF Spares
    <3>3. ref[RowOf(c)].id \notin found'[q]
      BY <1>0, <1>1, <3>1, <3>2 DEF RowsOK
    <3>4. QED
      BY <1>2, <2>0, <3>1, <3>3 DEF Spares
  <2>5. CASE SyncDelete(q)
    <3>1. /\ c \in completed \ raced /\ pc[q] = "delete" /\ pc'[q] = "idle"
          /\ \A w \in Rows : ref[w].id \notin found[q] => ref'[w] = ref[w]
      BY <2>5 DEF SyncDelete, TypeOK
    <3>2. ref'[RowOf(c)] = ref[RowOf(c)]
      BY <1>0, <1>1, <3>1 DEF Spares
    <3>3. QED
      BY <1>2, <2>0, <3>1, <3>2 DEF Spares
  <2>6. ASSUME NEW d \in Conns, CompleteUpsert(q, d) PROVE Kept(c)
    <3>1. /\ Upsert(ReportedAs(d), {d}, "READY")
          /\ completed' = (IF Sound(d) THEN completed \cup {d} ELSE completed)
          /\ raced' = (IF Syncing = {} THEN raced \ {d} ELSE raced \cup {d})
          /\ pc'[q] = "announce"
      BY <2>6 DEF CompleteUpsert, TypeOK
    <3>2. ReportedAs(d) \in Rows /\ "READY" \in Status \ {"none"}
      BY ConnHasRows DEF Status
    <3>3. /\ ref'[ReportedAs(d)].status = "READY"
          /\ ref[ReportedAs(d)].id # 0 => ref'[ReportedAs(d)].id = ref[ReportedAs(d)].id
          /\ \A v \in Rows \ {ReportedAs(d)} : ref'[v] = ref[v]
      BY <1>0, <3>1, <3>2, Upserts
    <3>4. Spares(q, RowOf(c))'
      BY <3>1 DEF Spares
    <3>5. CASE c = d
      <4>1. Syncing = {} /\ Sound(c)
        BY <3>1, <3>5 DEF ReportedIsSound
      <4>2. RowOf(c) = ReportedAs(d)
        BY <3>5, <4>1, ConnHasRows DEF Sound
      <4>3. \A p \in Requests \ {q} : Spares(p, RowOf(c))'
        BY <2>0, <4>1 DEF Spares, Syncing, SyncPc
      <4>4. QED
        BY <3>3, <3>4, <4>2, <4>3
    <3>6. CASE c # d
      <4>1. c \in completed \ raced
        BY <3>1, <3>6
      <4>2. ref'[RowOf(c)].status = "READY" /\ ref'[RowOf(c)].id = ref[RowOf(c)].id
        BY <1>0, <1>1, <3>3, <4>1
      <4>3. QED
        BY <1>0, <1>1, <2>0, <3>4, <4>1, <4>2, SparesFrame
    <3>7. QED
      BY <3>5, <3>6
  <2>7. ASSUME NEW w \in Rows, CreateConnectionRef(q, w) \/ MarkReady(q, w) PROVE Kept(c)
    <3>1. c \in completed \ raced /\ pc' = pc /\ todo' = todo /\ found' = found
      BY <2>7 DEF CreateConnectionRef, MarkReady
    <3>2. ref'[RowOf(c)].status = "READY" /\ ref'[RowOf(c)].id = ref[RowOf(c)].id
      <4>1. CASE CreateConnectionRef(q, w)
        <5>1. Upsert(w, {}, "PENDING") /\ ref[w].id = 0
          BY <4>1 DEF CreateConnectionRef
        <5>2. \A v \in Rows \ {w} : ref'[v] = ref[v]
          BY <1>0, <5>1, Upserts DEF Status
        <5>3. QED
          BY <1>0, <1>1, <3>1, <5>1, <5>2
      <4>2. CASE MarkReady(q, w)
        <5>1. Upsert(w, ref[w].conn, "READY") /\ ref[w].id # 0 /\ ref[w].conn \in SUBSET Conns
          BY <1>0, <4>2 DEF MarkReady, RowsOK
        <5>2. /\ ref'[w].status = "READY" /\ ref'[w].id = ref[w].id
              /\ \A v \in Rows \ {w} : ref'[v] = ref[v]
          BY <1>0, <5>1, Upserts DEF Status
        <5>3. QED
          BY <1>0, <1>1, <3>1, <5>2
      <4>3. QED
        BY <2>7, <4>1, <4>2
    <3>3. QED
      BY <1>0, <1>1, <3>1, <3>2, SparesFrame
  <2>8. QED
    BY <1>4, <2>1, <2>2, <2>3, <2>4, <2>5, <2>6, <2>7 DEF RequestAction
<1>5. QED
  BY <1>3, <1>4, StepKinds

-----------------------------------------------------------------------------
(* Calm synchronisations.                                                    *)

\* Whoever else writes, or changes the provider or the endpoint, ends the calm.
LEMMA CalmIsCalm ==
  ASSUME TypeOK, HoldsItsWork, NEW p \in Requests, calm'[p],
         NEW q \in Requests, RequestAction(q), p # q
  PROVE  calm[p] /\ UNCHANGED <<provider, endpoint, ref>>
<1> USE DEF TypeOK
<1>1. CASE SyncUpsert(q) \/ SyncDelete(q)
  <2>1. calm' = [r \in Requests |-> calm[r] /\ r \notin Requests \ {q}]
    BY <1>1 DEF SyncUpsert, SyncDelete, Disturbed
  <2>2. calm'[p] = (calm[p] /\ p \notin Requests \ {q})
    BY <2>1, Zenon
  <2>3. QED
    BY <2>2
<1>2. CASE \/ \E c \in Conns : CompleteUpsert(q, c)
           \/ \E w \in Rows : CreateConnectionRef(q, w) \/ MarkReady(q, w)
  <2>1. calm' = [r \in Requests |-> calm[r] /\ r \notin Requests]
    BY <1>2 DEF CompleteUpsert, CreateConnectionRef, MarkReady, Disturbed
  <2>2. calm'[p] = (calm[p] /\ p \notin Requests)
    BY <2>1, Zenon
  <2>3. QED
    BY <2>2
<1>3. ASSUME NEW a \in Accounts, ConfigureEndpoint(q, a)
      PROVE  calm[p] /\ UNCHANGED <<provider, endpoint, ref>>
  <2> DEFINE Others == IF a = endpoint THEN {} ELSE Requests
  <2>1. calm' = [r \in Requests |-> calm[r] /\ r \notin Others]
    BY <1>3 DEF ConfigureEndpoint, Disturbed
  <2>2. calm'[p] = (calm[p] /\ p \notin Others)
    BY <2>1, Zenon
  <2>3. calm[p] /\ a = endpoint
    BY <2>2
  <2>4. QED
    BY <1>3, <2>3 DEF ConfigureEndpoint, FetchesFrom
<1>4. CASE \/ CompletePublish(q) \/ SyncIntegrations(q) \/ ListFetch(q) \/ ListClear(q)
           \/ ListInsert(q) \/ SyncFind(q)
  BY <1>4 DEF CompletePublish, SyncIntegrations, FetchesFrom, ListFetch, ListClear, ListInsert,
         SyncFind, world, refs
<1>5. CASE SyncList(q) \/ RequestFails(q)
  BY <1>5 DEF SyncList, RequestFails, world, refs
<1>6. QED
  BY <1>1, <1>2, <1>3, <1>4, <1>5 DEF RequestAction

\* How far a synchronisation got depends on its work, the rows and the provider.
LEMMA OnItsWayFrame ==
  ASSUME NEW p \in Requests, OnItsWay(p), UNCHANGED <<provider, endpoint, ref>>,
         pc'[p] = pc[p], todo'[p] = todo[p], found'[p] = found[p]
  PROVE  OnItsWay(p)'
BY DEF OnItsWay, LiveRows, Right, Shared, Live

\* A calm synchronisation keeps to the provider's list.
LEMMA SyncIsOnItsWayKept ==
  ASSUME TypeOK, HoldsItsWork, SyncIsOnItsWay, [Next]_vars
  PROVE  SyncIsOnItsWay'
<1> SUFFICES ASSUME NEW p \in Requests, calm'[p] PROVE OnItsWay(p)'
  BY DEF SyncIsOnItsWay
<1>0. RowsOK
  BY TypeOKParts
<1>1. ASSUME NEW c \in Conns, Authorize(c) \/ ProviderChanges(c) PROVE FALSE
  <2>1. calm' = [r \in Requests |-> calm[r] /\ r \notin Requests]
    BY <1>1 DEF Authorize, ProviderChanges, Disturbed
  <2>2. calm'[p] = (calm[p] /\ p \notin Requests)
    BY <2>1, Zenon
  <2>3. QED
    BY <2>2
<1>2. CASE Quiet
  <2>1. calm[p] /\ UNCHANGED <<provider, endpoint, ref, pc, todo, found>>
    BY <1>2 DEF Quiet, refs, procs
  <2>2. QED
    BY <2>1, OnItsWayFrame DEF SyncIsOnItsWay
<1>3. ASSUME NEW q \in Requests, RequestAction(q), p # q PROVE OnItsWay(p)'
  <2>1. calm[p] /\ UNCHANGED <<provider, endpoint, ref>>
    BY <1>3, CalmIsCalm
  <2>2. pc'[p] = pc[p] /\ todo'[p] = todo[p] /\ found'[p] = found[p]
    BY <1>3, OthersStand
  <2>3. QED
    BY <2>1, <2>2, OnItsWayFrame DEF SyncIsOnItsWay
<1>4. ASSUME RequestAction(p) PROVE OnItsWay(p)'
  <2>1. CASE SyncList(p)
    <3>1. /\ pc'[p] = (IF Live = {} THEN "find" ELSE "upsert")
          /\ todo'[p] = {<<c, provider[c]>> : c \in Live} /\ found'[p] = LiveRows
          /\ UNCHANGED <<provider, endpoint, ref>>
      BY <2>1 DEF SyncList, LiveRows, world, refs, TypeOK, HoldsItsWork
    <3>2. Live' = Live /\ LiveRows' = LiveRows
      BY <3>1 DEF Live, LiveRows
    <3>3. CASE Live = {}
      BY <3>1, <3>2, <3>3 DEF OnItsWay
    <3>4. CASE Live # {}
      <4>1. pc'[p] = "upsert"
        BY <3>1, <3>4
      <4>2. \A t \in todo'[p] : t[1] \in Live /\ t[2] = provider[t[1]]
        BY <3>1
      <4>3. QED
        BY <3>1, <3>2, <4>1, <4>2 DEF OnItsWay
    <3>5. QED
      BY <3>3, <3>4
  <2>2. CASE SyncUpsert(p)
    <3>0. calm[p]
      <4>1. calm' = [r \in Requests |-> calm[r] /\ r \notin Requests \ {p}]
        BY <2>2 DEF SyncUpsert, Disturbed
      <4>2. calm'[p] = (calm[p] /\ p \notin Requests \ {p})
        BY <4>1, Zenon
      <4>3. QED
        BY <4>2
    <3>1. PICK t \in todo[p] : /\ Upsert(RowOf(t[1]), {t[1]}, Mirror(t[2]))
                               /\ todo' = [todo EXCEPT ![p] = @ \ {t}]
                               /\ pc' = [pc EXCEPT ![p] = IF todo[p] = {t} THEN "find" ELSE @]
      BY <2>2 DEF SyncUpsert
    <3>2. pc[p] = "upsert" /\ UNCHANGED <<found, provider, endpoint>>
      BY <2>2 DEF SyncUpsert, world
    <3>3. /\ found[p] = LiveRows
          /\ \A u \in todo[p] : u[1] \in Live /\ u[2] = provider[u[1]]
          /\ \A c \in Live : <<c, provider[c]>> \in todo[p] \/ Right(RowOf(c))
      BY <3>0, <3>2 DEF SyncIsOnItsWay, OnItsWay
    <3>4. t[1] \in Conns /\ RowOf(t[1]) \in Rows /\ Mirror(t[2]) \in Status \ {"none"}
      BY <3>2, ConnHasRows DEF HoldsItsWork, Mirror, Status
    <3>5. /\ ref'[RowOf(t[1])].status = Mirror(t[2]) /\ ref'[RowOf(t[1])].conn = {t[1]}
          /\ \A v \in Rows \ {RowOf(t[1])} : ref'[v] = ref[v]
      BY <1>0, <3>1, <3>4, Upserts
    <3>6. Live' = Live /\ LiveRows' = LiveRows /\ \A w : Shared(w)' = Shared(w)
      BY <3>2 DEF Live, LiveRows, Shared
    <3>7. Right(RowOf(t[1]))'
      BY <3>2, <3>3, <3>5, <3>6 DEF Right, Shared
    <3>8. \A c \in Live : Right(RowOf(c)) => Right(RowOf(c))'
      <4> SUFFICES ASSUME NEW c \in Live, Right(RowOf(c)) PROVE Right(RowOf(c))'
        OBVIOUS
      <4>1. CASE RowOf(c) = RowOf(t[1])
        BY <3>7, <4>1
      <4>2. CASE RowOf(c) # RowOf(t[1])
        <5>1. ref'[RowOf(c)] = ref[RowOf(c)]
          BY <3>5, <4>2, ConnHasRows DEF Live
        <5>2. QED
          BY <3>2, <3>6, <5>1 DEF Right
      <4>3. QED
        BY <4>1, <4>2
    <3>9. t = <<t[1], t[2]>> /\ t[2] = provider[t[1]]
      BY <3>2, <3>3 DEF HoldsItsWork
    <3>10. \A c \in Live : <<c, provider[c]>> \in todo'[p] \/ Right(RowOf(c))'
      <4> SUFFICES ASSUME NEW c \in Live PROVE <<c, provider[c]>> \in todo'[p] \/ Right(RowOf(c))'
        OBVIOUS
      <4>1. CASE <<c, provider[c]>> = t
        BY <3>7, <3>9, <4>1
      <4>2. CASE <<c, provider[c]>> # t
        BY <3>1, <3>3, <3>8, <4>2 DEF HoldsItsWork
      <4>3. QED
        BY <4>1, <4>2
    <3>11. /\ todo'[p] = todo[p] \ {t} /\ found'[p] = found[p]
           /\ pc'[p] = IF todo[p] = {t} THEN "find" ELSE "upsert"
      BY <3>1, <3>2 DEF HoldsItsWork, TypeOK
    <3>12. CASE pc'[p] = "upsert"
      BY <3>2, <3>3, <3>6, <3>10, <3>11, <3>12 DEF OnItsWay
    <3>13. CASE pc'[p] = "find"
      <4>1. todo'[p] = {}
        BY <3>11, <3>13
      <4>2. QED
        BY <3>3, <3>6, <3>10, <3>11, <3>13, <4>1 DEF OnItsWay
    <3>14. QED
      BY <3>11, <3>12, <3>13
  <2>3. CASE SyncFind(p)
    <3>1. /\ calm[p] /\ pc[p] = "find" /\ pc'[p] = "delete"
          /\ found'[p] = {ref[w].id : w \in Rows \ found[p]} \ {0}
          /\ UNCHANGED <<provider, endpoint, ref>>
      BY <2>3 DEF SyncFind, world, refs, TypeOK, HoldsItsWork
    <3>2. found[p] = LiveRows /\ \A c \in Live : Right(RowOf(c))
      BY <3>1 DEF SyncIsOnItsWay, OnItsWay
    <3>3. /\ Live' = Live /\ LiveRows' = LiveRows
          /\ \A w : Right(w)' = Right(w)
      BY <3>1 DEF Live, LiveRows, Right, Shared
    <3>4. QED
      BY <3>1, <3>2, <3>3 DEF OnItsWay
  <2>4. CASE ~(SyncList(p) \/ SyncUpsert(p) \/ SyncFind(p))
    <3>1. CASE CompletePublish(p) \/ ListFetch(p) \/ ListClear(p) \/ ListInsert(p) \/ SyncDelete(p)
      BY <3>1 DEF CompletePublish, ListFetch, ListClear, ListInsert, SyncDelete, TypeOK, OnItsWay
    <3>2. CASE SyncIntegrations(p) \/ \E a \in Accounts : ConfigureEndpoint(p, a)
      BY <3>2 DEF SyncIntegrations, ConfigureEndpoint, FetchesFrom, TypeOK, OnItsWay
    <3>3. CASE RequestFails(p)
      BY <3>3 DEF RequestFails, TypeOK
    <3>4. CASE \E c \in Conns : CompleteUpsert(p, c)
      BY <3>4 DEF CompleteUpsert, TypeOK, OnItsWay
    <3>5. CASE \E w \in Rows : CreateConnectionRef(p, w) \/ MarkReady(p, w)
      BY <3>5 DEF CreateConnectionRef, MarkReady, Begin, TypeOK, OnItsWay
    <3>6. QED
      BY <1>4, <2>4, <3>1, <3>2, <3>3, <3>4, <3>5 DEF RequestAction
  <2>5. QED
    BY <2>1, <2>2, <2>3, <2>4
<1>5. QED
  BY <1>1, <1>2, <1>3, <1>4, StepKinds

\* What SyncIsFaithful asks of one step.
FaithfulStep ==
  \A q \in Requests :
    pc[q] = "delete" /\ pc'[q] = "idle" /\ calm'[q] =>
      \A w \in Rows :
        IF Shared(w) = {} THEN ref'[w] = NoRow
        ELSE \E c \in Shared(w) : ref'[w].conn = {c} /\ ref'[w].status = Mirror(provider[c])

\* The deletion ends a synchronisation; a failure ends its calm as well.
LEMMA OnlyFaithfulSteps ==
  ASSUME TypeOK, HoldsItsWork, SyncIsOnItsWay, [Next]_vars
  PROVE  FaithfulStep
<1> SUFFICES ASSUME NEW p \in Requests, pc[p] = "delete", pc'[p] = "idle", calm'[p],
                    NEW w \in Rows
             PROVE  IF Shared(w) = {} THEN ref'[w] = NoRow
                    ELSE \E c \in Shared(w) : ref'[w].conn = {c} /\ ref'[w].status = Mirror(provider[c])
  BY DEF FaithfulStep
<1>0. RowsOK
  BY TypeOKParts
<1>1. PICK q \in Requests : RequestAction(q)
  BY StepKinds DEF Quiet, procs, Authorize, ProviderChanges
<1>2. q = p
  BY <1>1, OthersStand
<1>3. SyncDelete(p)
  BY <1>1, <1>2 DEF RequestAction, CompletePublish, RequestFails, SyncList, SyncUpsert, SyncFind,
       SyncIntegrations, ListFetch, ListClear, ListInsert, ConfigureEndpoint, CompleteUpsert,
       CreateConnectionRef, MarkReady, Begin, TypeOK
<1>4. calm[p]
  <2>1. calm' = [r \in Requests |-> calm[r] /\ r \notin Requests \ {p}]
    BY <1>3 DEF SyncDelete, Disturbed
  <2>2. calm'[p] = (calm[p] /\ p \notin Requests \ {p})
    BY <2>1, Zenon
  <2>3. QED
    BY <2>2
<1>5. found[p] = {ref[v].id : v \in Rows \ LiveRows} \ {0} /\ \A c \in Live : Right(RowOf(c))
  BY <1>4 DEF SyncIsOnItsWay, OnItsWay
<1>6. ref'[w] = IF ref[w].id \in found[p] THEN NoRow ELSE ref[w]
  BY <1>3 DEF SyncDelete
<1>7. CASE Shared(w) = {}
  <2>1. w \notin LiveRows
    BY <1>7 DEF Shared, LiveRows
  <2>2. CASE ref[w].id = 0
    <3>1. ref[w] = NoRow \/ ref[w].id \in 1 .. (nextId - 1)
      BY <1>0 DEF RowsOK
    <3>2. ref[w] = NoRow
      BY <1>0, <2>2, <3>1 DEF RowsOK
    <3>3. QED
      BY <1>6, <1>7, <3>2
  <2>3. CASE ref[w].id # 0
    BY <1>5, <1>6, <1>7, <2>1, <2>3
  <2>4. QED
    BY <2>2, <2>3
<1>8. CASE Shared(w) # {}
  <2>1. Right(w) /\ w \in LiveRows
    BY <1>5, <1>8 DEF Shared, LiveRows
  <2>2. ref[w].id # 0
    BY <1>0, <2>1 DEF Right, Mirror, RowsOK, NoRow
  <2>3. ref[w].id \notin found[p]
    BY <1>0, <1>5, <2>1, <2>2 DEF RowsOK
  <2>4. QED
    BY <1>6, <1>8, <2>1, <2>3 DEF Right
<1>9. QED
  BY <1>7, <1>8

-----------------------------------------------------------------------------
(* Theorems.                                                                 *)

\* The strengthening with which the invariants are inductive: reported rows stay
\* READY because every list that is still to be applied has them and nothing broken
\* beside them, and a calm synchronisation is right because it knows what it has done.
THEOREM IndInvCorrect == Spec => []IndInv
<1>1. Init => IndInv
  <2> SUFFICES ASSUME Init PROVE IndInv
    OBVIOUS
  <2> USE DEF Init
  <2>1. TypeOK
    <3>1. Cardinality(resuming) <= 1
      BY FS_EmptySet
    <3>2. RowsOK
      BY DEF RowsOK, NoRow, Status
    <3>3. asked \in Seq(Runs) /\ row \in [Runs -> {"PAUSED", "RUNNING", "SETTLED"}]
      OBVIOUS
    <3>4. provider \in [Conns -> {"unborn", "ok", "error", "gone"}] /\ endpoint \in Accounts
      BY ConnsAssumption
    <3>5. authorized \subseteq Conns
      BY ConnsAssumption
    <3>6. QED
      BY <3>1, <3>2, <3>3, <3>4, <3>5 DEF TypeOK, RowsOK
  <2>2. HoldsItsWork
    BY DEF HoldsItsWork
  <2>3. ReportedIsSound /\ CompletedStaysReady /\ SyncSparesReported
    BY DEF ReportedIsSound, CompletedStaysReady, SyncSparesReported
  <2>4. ListInv
    BY DEF ListInv, ListIsWhole, Inserting
  <2>5. SyncIsOnItsWay
    BY DEF SyncIsOnItsWay
  <2>6. QED
    BY <2>1, <2>2, <2>3, <2>4, <2>5 DEF IndInv
<1>2. IndInv /\ [Next]_vars => IndInv'
  BY TypeOKKept, ListInvKept, ReportedIsSoundKept, ReportedKept, SyncIsOnItsWayKept DEF IndInv
<1>3. QED
  BY <1>1, <1>2, PTL DEF Spec

\* Ids of rows are never shared, and the runtime executes one resumed run at a time.
THEOREM TypeCorrect == Spec => []TypeOK
<1>1. IndInv => TypeOK
  BY DEF IndInv
<1>2. QED
  BY <1>1, IndInvCorrect, PTL

\* syncConnections and its failures never take back what connectionComplete stored,
\* unless they began before or another connection of the row is broken.
THEOREM CompletedReady == Spec => []CompletedStaysReady
<1>1. IndInv => CompletedStaysReady
  BY DEF IndInv
<1>2. QED
  BY <1>1, IndInvCorrect, PTL

\* Any number of concurrent configureEndpoint and syncIntegrations leave one answer
\* of the provider, unless two with nothing in common were to be inserted at once.
THEOREM ListWhole == Spec => []ListIsWhole
<1>1. IndInv => ListIsWhole
  BY DEF IndInv, ListInv
<1>2. QED
  BY <1>1, IndInvCorrect, PTL

\* syncConnections makes of any rows those of the endpoint, if nobody interferes.
THEOREM SyncFaithful == Spec => SyncIsFaithful
<1>1. IndInv /\ [Next]_vars => [FaithfulStep]_vars
  BY OnlyFaithfulSteps DEF IndInv
<1>2. Spec => [][FaithfulStep]_vars
  BY <1>1, IndInvCorrect, PTL DEF Spec
<1>3. QED
  BY <1>2 DEF SyncIsFaithful, FaithfulStep
=============================================================================
