---------------------------- MODULE ToolCatalog ----------------------------
(***************************************************************************)
(* The tool catalogue of one workspace, whose integration provider is      *)
(* configured: the proxy actions the workspace defined or imported, the    *)
(* registry of tools offered to planners and clients, and the cache of     *)
(* enabled proxy actions that every api-gateway process keeps for itself.  *)
(*                                                                         *)
(*   - create, toggle and remove change one definition, then invalidate    *)
(*     the cache of the process that served the request;                   *)
(*   - importTemplate and uploadTemplate create the missing definitions of *)
(*     one integration one by one, invalidate the cache, load it again and *)
(*     upsert every cached action into the registry;                       *)
(*   - syncTools replaces the provider's own tools in the registry by what *)
(*     the provider lists: one DELETE, one INSERT, no transaction.         *)
(*                                                                         *)
(* A step is what happens between two awaits. Any request may die between  *)
(* two steps, because a statement raised or because its process died.      *)
(*                                                                         *)
(* Bound: MaxConcurrent requests at a time.                                *)
(*                                                                         *)
(* Abstraction: a definition is its integration, its name and whether it   *)
(* is enabled. An update that renames one is not modelled; any other       *)
(* update changes nothing that is told apart here.                         *)
(***************************************************************************)
EXTENDS Integers, FiniteSets

CONSTANTS
  Pods,       \* the api-gateway processes
  Requests,   \* the requests that are served at a time
  PodOf,      \* PodOf[q]: the process that serves q
  Actions,    \* the pairs of an integration and an action name
  KeyOf,      \* KeyOf[a]: the providerConfigKey of a
  NameOf,     \* NameOf[a]: the actionName of a
  Uploaded,   \* the integrations whose template a user uploads (isDefault = false)
  Listings,   \* what the provider may list: sets of actions
  MaxConcurrent  \* how many of the requests are served at the same time

ASSUME RequestsAssumption == PodOf \in [Requests -> Pods]
ASSUME ActionsAssumption == DOMAIN KeyOf = Actions /\ DOMAIN NameOf = Actions
ASSUME ListingsAssumption == Listings \subseteq SUBSET Actions
ASSUME BoundsAssumption == MaxConcurrent \in Nat

VARIABLES
  defs,       \* defs[a]: the row of ProxyActionDefinition: "none", "on" or "off"
  defaults,   \* the rows with isDefault
  registry,   \* the rows of ToolRegistryEntry: pairs of an action and a type
  cached,     \* the processes whose ProxyActionRegistry has an entry
  cache,      \* cache[p]: the actions in it
  stage,      \* stage[q]: where request q is
  todo,       \* todo[q]: the actions it has still to create, upsert or insert
  want,       \* want[q]: what a toggle or remove is about to write
  own,        \* own[q]: the actions an import is about, unless changed since
  listing,    \* what the last acknowledged sync listed, nothing when one failed since
  behind,     \* the processes whose cache missed a change it will not hear of
  late        \* the requests that loaded before such a change

database == <<defs, defaults, registry>>
caches == <<cached, cache>>
request == <<stage, todo, want>>
promises == <<own, listing>>
staleness == <<behind, late>>
vars == <<database, caches, request, promises, staleness>>

Stage == {"idle", "import", "write", "invalidate", "config", "set",
          "upsert", "delete", "insert"}

\* One type invariant, with what the unique index on workspace, provider and
\* action name gives: a name is listed once (migration.sql:211).
TypeOK ==
  /\ defs \in [Actions -> {"none", "on", "off"}]
  /\ defaults \subseteq {a \in Actions : defs[a] # "none"}
  /\ registry \subseteq Actions \X {"proxy", "provider"}
  /\ \A e, f \in registry : NameOf[e[1]] = NameOf[f[1]] => e = f
  /\ cached \subseteq Pods
  /\ cache \in [Pods -> SUBSET Actions]
  /\ stage \in [Requests -> Stage]
  /\ todo \in [Requests -> SUBSET Actions]
  /\ want \in [Requests -> {"none", "on", "off"}]
  /\ own \in [Requests -> SUBSET Actions]
  /\ listing \subseteq Actions
  /\ behind \subseteq cached
  /\ late \subseteq {q \in Requests : stage[q] = "set"}

Init ==
  /\ defs = [a \in Actions |-> "none"]
  /\ defaults = {}
  /\ registry = {}
  /\ cached = {}
  /\ cache = [p \in Pods |-> {}]
  /\ stage = [q \in Requests |-> "idle"]
  /\ todo = [q \in Requests |-> {}]
  /\ want = [q \in Requests |-> "none"]
  /\ own = [q \in Requests |-> {}]
  /\ listing = {}
  /\ behind = {}
  /\ late = {}

-----------------------------------------------------------------------------
Enabled == {a \in Actions : defs[a] = "on"}
Named(name) == {e \in registry : NameOf[e[1]] = name}
Loading(p) == {q \in Requests : stage[q] = "set" /\ PodOf[q] = p}

Goto(q, to) == stage' = [stage EXCEPT ![q] = to]

Begin(q, to) ==
  /\ stage[q] = "idle"
  /\ Cardinality({r \in Requests : stage[r] # "idle"}) < MaxConcurrent
  /\ Goto(q, to)

\* The request ends; what it kept is forgotten.
End(q) ==
  /\ Goto(q, "idle")
  /\ todo' = [todo EXCEPT ![q] = {}]
  /\ want' = [want EXCEPT ![q] = "none"]

\* A change that process p made reaches no other process's cache or load.
MissedBy(p) ==
  /\ behind' = behind \cup (cached \ {p})
  /\ late' = late \cup UNION {Loading(o) : o \in Pods \ {p}}

DropEntry(p) ==
  /\ cached' = cached \ {p}
  /\ cache' = [cache EXCEPT ![p] = {}]
  /\ behind' = behind \ {p}

-----------------------------------------------------------------------------
(* create, toggle, remove.                                                 *)

\* create: the unique index refuses a second row, and such a request changes
\* nothing.
Add(q, a) ==
  /\ Begin(q, "invalidate")
  /\ defs[a] = "none"
  /\ defs' = [defs EXCEPT ![a] = "on"]
  /\ MissedBy(PodOf[q])
  /\ UNCHANGED <<defaults, registry, caches, todo, want, promises>>

\* getById found the row: toggle negates what it read, remove refuses a default.
WriteBegin(q, a) ==
  /\ Begin(q, "write")
  /\ defs[a] # "none"
  /\ todo' = [todo EXCEPT ![q] = {a}]
  /\ \/ want' = [want EXCEPT ![q] = IF defs[a] = "on" THEN "off" ELSE "on"]
     \/ a \notin defaults /\ want' = [want EXCEPT ![q] = "none"]
  /\ UNCHANGED <<database, caches, promises, staleness>>

\* update or delete of the row that was read; a row that is gone raises (Die).
Write(q) ==
  /\ stage[q] = "write"
  /\ \A a \in todo[q] : defs[a] # "none"
  /\ defs' = [a \in Actions |-> IF a \in todo[q] THEN want[q] ELSE defs[a]]
  /\ defaults' = IF want[q] = "none" THEN defaults \ todo[q] ELSE defaults
  /\ own' = [r \in Requests |-> own[r] \ todo[q]]
  /\ Goto(q, "invalidate")
  /\ todo' = [todo EXCEPT ![q] = {}]
  /\ want' = [want EXCEPT ![q] = "none"]
  /\ MissedBy(PodOf[q])
  /\ UNCHANGED <<registry, caches, listing>>

\* Mutant: the cache entry stays.
InvalidateNothing(q) ==
  /\ stage[q] = "invalidate"
  /\ End(q)
  /\ UNCHANGED <<database, caches, promises, staleness>>

\* invalidateCache, and the answer. A load that is under way puts its older rows
\* into the cache afterwards.
Invalidate(q) ==
  /\ stage[q] = "invalidate"
  /\ End(q)
  /\ DropEntry(PodOf[q])
  /\ late' = late \cup Loading(PodOf[q])
  /\ UNCHANGED <<database, promises>>

-----------------------------------------------------------------------------
(* importTemplate and uploadTemplate.                                      *)

\* The definitions the integration has already are skipped.
ImportBegin(q, k) ==
  /\ Begin(q, "import")
  /\ todo' = [todo EXCEPT ![q] = {a \in Actions : KeyOf[a] = k /\ defs[a] = "none"}]
  /\ own' = [own EXCEPT ![q] = {a \in Actions : KeyOf[a] = k}]
  /\ UNCHANGED <<database, caches, want, listing, staleness>>

\* One create of the loop. A row another request created meanwhile raises (Die).
ImportCreate(q, a) ==
  /\ stage[q] = "import"
  /\ a \in todo[q]
  /\ defs[a] = "none"
  /\ defs' = [defs EXCEPT ![a] = "on"]
  /\ defaults' = IF KeyOf[a] \in Uploaded THEN defaults ELSE defaults \cup {a}
  /\ todo' = [todo EXCEPT ![q] = @ \ {a}]
  /\ MissedBy(PodOf[q])
  /\ UNCHANGED <<registry, caches, stage, want, promises>>

\* The loop is over: invalidateCache, then syncProxyTools awaits the config.
ImportInvalidate(q) ==
  /\ stage[q] = "import"
  /\ todo[q] = {}
  /\ Goto(q, "config")
  /\ own' = [own EXCEPT ![q] = @ \cap Enabled]
  /\ DropEntry(PodOf[q])
  /\ late' = late \cup Loading(PodOf[q])
  /\ UNCHANGED <<database, todo, want, listing>>

\* ensureLoaded: an entry that is not older than five minutes is taken as it is.
UseCache(q) ==
  /\ stage[q] = "config"
  /\ PodOf[q] \in cached
  /\ todo' = [todo EXCEPT ![q] = cache[PodOf[q]]]
  /\ Goto(q, "upsert")
  /\ UNCHANGED <<database, caches, want, promises, staleness>>

\* Without an entry, or with an old one, loadForWorkspace: the query ...
Load(q) ==
  /\ stage[q] = "config"
  /\ todo' = [todo EXCEPT ![q] = Enabled]
  /\ Goto(q, "set")
  /\ UNCHANGED <<database, caches, want, promises, staleness>>

\* ... and the cache entry, when its answer arrives.
Set(q) ==
  /\ stage[q] = "set"
  /\ cached' = cached \cup {PodOf[q]}
  /\ cache' = [cache EXCEPT ![PodOf[q]] = todo[q]]
  /\ behind' = IF q \in late THEN behind \cup {PodOf[q]} ELSE behind \ {PodOf[q]}
  /\ late' = late \ {q}
  /\ Goto(q, "upsert")
  /\ UNCHANGED <<database, todo, want, promises>>

Upsert(q, a) ==
  /\ stage[q] = "upsert"
  /\ a \in todo[q]
  /\ registry' = (registry \ Named(NameOf[a])) \cup {<<a, "proxy">>}
  /\ todo' = [todo EXCEPT ![q] = @ \ {a}]
  /\ UNCHANGED <<defs, defaults, caches, stage, want, promises, staleness>>

\* The import is acknowledged.
ImportEnd(q) ==
  /\ stage[q] = "upsert"
  /\ todo[q] = {}
  /\ End(q)
  /\ own' = [own EXCEPT ![q] = {}]
  /\ UNCHANGED <<database, caches, listing, staleness>>

-----------------------------------------------------------------------------
(* syncTools.                                                              *)

\* The provider answered its list, whatever it is by now.
SyncBegin(q, listed) ==
  /\ Begin(q, "delete")
  /\ todo' = [todo EXCEPT ![q] = listed]
  /\ UNCHANGED <<database, caches, want, promises, staleness>>

\* Mutant: the entries of imports are deleted too.
SyncDeleteAll(q) ==
  /\ stage[q] = "delete"
  /\ registry' = {}
  /\ Goto(q, "insert")
  /\ UNCHANGED <<defs, defaults, caches, todo, want, promises, staleness>>

SyncDelete(q) ==
  /\ stage[q] = "delete"
  /\ registry' = {e \in registry : e[2] = "proxy"}
  /\ Goto(q, "insert")
  /\ UNCHANGED <<defs, defaults, caches, todo, want, promises, staleness>>

\* createMany is one INSERT: a name that is taken, or listed twice, refuses all of
\* it.
Insertable(listed) ==
  /\ \A a \in listed : Named(NameOf[a]) = {}
  /\ \A a, b \in listed : NameOf[a] = NameOf[b] => a = b

\* Mutant: a refusal is swallowed and the synchronisation acknowledged.
SyncInsertSwallowed(q) ==
  /\ stage[q] = "insert"
  /\ registry' = IF Insertable(todo[q]) THEN registry \cup (todo[q] \X {"provider"}) ELSE registry
  /\ listing' = todo[q]
  /\ End(q)
  /\ UNCHANGED <<defs, defaults, caches, own, staleness>>

SyncInsert(q) ==
  /\ stage[q] = "insert"
  /\ Insertable(todo[q])
  /\ registry' = registry \cup (todo[q] \X {"provider"})
  /\ listing' = todo[q]
  /\ End(q)
  /\ UNCHANGED <<defs, defaults, caches, own, staleness>>

-----------------------------------------------------------------------------
\* A statement raised, or the process died with nothing in its cache: in both
\* cases the rest of the request is not performed.
Die(q) ==
  /\ stage[q] # "idle"
  /\ End(q)
  /\ own' = [own EXCEPT ![q] = {}]
  /\ listing' = IF stage[q] = "insert" THEN {} ELSE listing
  /\ IF stage[q] \in {"import", "invalidate"}
     THEN /\ behind' = behind \cup (cached \cap {PodOf[q]})
          /\ late' = (late \cup Loading(PodOf[q])) \ {q}
     ELSE behind' = behind /\ late' = late \ {q}
  /\ UNCHANGED <<database, caches>>

\* The process of q restarts, or its entry is older than five minutes.
Forget(p) ==
  /\ p \in cached
  /\ DropEntry(p)
  /\ UNCHANGED <<database, request, promises, late>>

-----------------------------------------------------------------------------
Next ==
  \/ \E q \in Requests :
        \/ Write(q) \/ Invalidate(q)
        \/ ImportInvalidate(q) \/ UseCache(q) \/ Load(q) \/ Set(q) \/ ImportEnd(q)
        \/ SyncDelete(q) \/ SyncInsert(q) \/ Die(q)
        \/ \E a \in Actions :
              Add(q, a) \/ WriteBegin(q, a) \/ ImportCreate(q, a) \/ Upsert(q, a)
        \/ \E k \in {KeyOf[a] : a \in Actions} : ImportBegin(q, k)
        \/ \E listed \in Listings : SyncBegin(q, listed)
  \/ \E p \in Pods : Forget(p)

Spec == Init /\ [][Next]_vars
-----------------------------------------------------------------------------
(* Properties.                                                             *)

\* A request of p changed a definition and has still to invalidate p's cache.
Invalidating(p) ==
  \E q \in Requests : PodOf[q] = p /\ stage[q] \in {"import", "invalidate"}

\* There are three ways to a stale cache and no other: a load answered after the
\* invalidation that should have dropped it, a change made through another
\* process, and a request that died before it invalidated.
CacheIsCurrent ==
  \A p \in cached \ behind : cache[p] = Enabled \/ Invalidating(p)

\* The same of a load that is under way, which makes CacheIsCurrent inductive.
LoadIsCurrent ==
  \A q \in Requests :
    stage[q] = "set" /\ q \notin late => todo[q] = Enabled \/ Invalidating(PodOf[q])

\* What an acknowledged sync listed can be found by name from then on, although
\* imports overwrite entries and other syncs delete them: except between the two
\* statements of a sync, and after a sync that did not get to the second.
SyncedToolsAreFound ==
  \/ \E q \in Requests : stage[q] = "insert"
  \/ \A a \in listing : Named(NameOf[a]) # {}

\* "Proxy tools are managed separately": no sync takes away a name that an import
\* had put into the registry, whatever the two do to each other.
ProxyNamesStay ==
  [][\A e \in registry :
       e[2] = "proxy" => \E f \in registry' : f[2] = "proxy" /\ NameOf[f[1]] = NameOf[e[1]]
    ]_registry

\* When an import is about to be acknowledged, its actions are in the registry
\* under their integration: what the comment on syncProxyTools promises.
ImportedActionsAreDiscoverable ==
  \A q \in Requests : stage[q] = "upsert" /\ todo[q] = {} =>
    \A a \in own[q] : <<a, "proxy">> \in registry
=============================================================================
