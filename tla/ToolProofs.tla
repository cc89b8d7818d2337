----------------------------- MODULE ToolProofs -----------------------------
(***************************************************************************)
(* What ToolCatalog guarantees for every set of processes, requests,       *)
(* actions and listings; and what ActionInterpreter guarantees for every   *)
(* definition, input and response.                                         *)
(***************************************************************************)
EXTENDS ToolCatalog, ActionInterpreter, FiniteSetTheorems, SequenceTheorems, TLAPS


-----------------------------------------------------------------------------
(* ToolCatalog: types, and the unique index of the registry.               *)

\* Every step keeps the types, and no name comes to be listed twice.
LEMMA TypeOKKept ==
  ASSUME TypeOK, [Next]_vars
  PROVE  TypeOK'
<1> USE DEF TypeOK, database, caches, request, promises, staleness
<1>1. ASSUME NEW q \in Requests, NEW a \in Actions, Add(q, a) PROVE TypeOK'
  <2>1. defs' \in [Actions -> {"none", "on", "off"}]
    BY <1>1 DEF Add
  <2>2. cached' \subseteq Pods /\ behind' \subseteq cached'
    BY <1>1, RequestsAssumption DEF Add, MissedBy
  <2>3. stage' \in [Requests -> Stage]
    BY <1>1 DEF Add, Begin, Goto, Stage
  <2>4. late' \subseteq {r \in Requests : stage'[r] = "set"}
    BY <1>1 DEF Add, Begin, Goto, MissedBy, Loading
  <2>5. QED
    BY <1>1, <2>1, <2>2, <2>3, <2>4 DEF Add, Begin, Goto
<1>2. ASSUME NEW q \in Requests, NEW a \in Actions, WriteBegin(q, a) PROVE TypeOK'
  <2>1. stage' \in [Requests -> Stage]
    BY <1>2 DEF WriteBegin, Begin, Goto, Stage
  <2>2. todo' \in [Requests -> SUBSET Actions]
    BY <1>2 DEF WriteBegin
  <2>3. want' \in [Requests -> {"none", "on", "off"}]
    BY <1>2 DEF WriteBegin
  <2>4. QED
    BY <1>2, <2>1, <2>2, <2>3 DEF WriteBegin, Begin, Goto
<1>3. ASSUME NEW q \in Requests, Write(q) PROVE TypeOK'
  <2>1. defs' \in [Actions -> {"none", "on", "off"}]
    BY <1>3 DEF Write
  <2>2. defaults' \subseteq {b \in Actions : defs'[b] # "none"}
    BY <1>3 DEF Write
  <2>3. stage' \in [Requests -> Stage]
    BY <1>3 DEF Write, Goto, Stage
  <2>4. todo' \in [Requests -> SUBSET Actions]
    BY <1>3 DEF Write
  <2>5. want' \in [Requests -> {"none", "on", "off"}]
    BY <1>3 DEF Write
  <2>6. own' \in [Requests -> SUBSET Actions]
    BY <1>3 DEF Write
  <2>7. cached' \subseteq Pods /\ behind' \subseteq cached'
    BY <1>3, RequestsAssumption DEF Write, MissedBy
  <2>8. late' \subseteq {r \in Requests : stage'[r] = "set"}
    BY <1>3 DEF Write, Goto, MissedBy, Loading
  <2>9. QED
    BY <1>3, <2>1, <2>2, <2>3, <2>4, <2>5, <2>6, <2>7, <2>8 DEF Write, Goto
<1>4. ASSUME NEW q \in Requests, Invalidate(q) PROVE TypeOK'
  <2>1. cached' \subseteq Pods /\ behind' \subseteq cached'
    BY <1>4, RequestsAssumption DEF Invalidate, DropEntry
  <2>2. cache' \in [Pods -> SUBSET Actions]
    BY <1>4, RequestsAssumption DEF Invalidate, DropEntry
  <2>3. stage' \in [Requests -> Stage]
    BY <1>4 DEF Invalidate, End, Goto, Stage
  <2>4. todo' \in [Requests -> SUBSET Actions]
    BY <1>4 DEF Invalidate, End
  <2>5. want' \in [Requests -> {"none", "on", "off"}]
    BY <1>4 DEF Invalidate, End
  <2>6. late' \subseteq {r \in Requests : stage'[r] = "set"}
    BY <1>4 DEF Invalidate, End, Goto, Loading
  <2>7. QED
    BY <1>4, <2>1, <2>2, <2>3, <2>4, <2>5, <2>6 DEF Invalidate, End, Goto
<1>5. ASSUME NEW q \in Requests, NEW k, ImportBegin(q, k) PROVE TypeOK'
  <2>1. stage' \in [Requests -> Stage]
    BY <1>5 DEF ImportBegin, Begin, Goto, Stage
  <2>2. todo' \in [Requests -> SUBSET Actions]
    BY <1>5 DEF ImportBegin
  <2>3. own' \in [Requests -> SUBSET Actions]
    BY <1>5 DEF ImportBegin
  <2>4. QED
    BY <1>5, <2>1, <2>2, <2>3 DEF ImportBegin, Begin, Goto
<1>6. ASSUME NEW q \in Requests, NEW a \in Actions, ImportCreate(q, a) PROVE TypeOK'
  <2>1. defs' \in [Actions -> {"none", "on", "off"}]
    BY <1>6 DEF ImportCreate
  <2>2. defaults' \subseteq {b \in Actions : defs'[b] # "none"}
    BY <1>6 DEF ImportCreate
  <2>3. todo' \in [Requests -> SUBSET Actions]
    BY <1>6 DEF ImportCreate
  <2>4. cached' \subseteq Pods /\ behind' \subseteq cached'
    BY <1>6, RequestsAssumption DEF ImportCreate, MissedBy
  <2>5. late' \subseteq {r \in Requests : stage'[r] = "set"}
    BY <1>6 DEF ImportCreate, MissedBy, Loading
  <2>6. QED
    BY <1>6, <2>1, <2>2, <2>3, <2>4, <2>5 DEF ImportCreate
<1>7. ASSUME NEW q \in Requests, ImportInvalidate(q) PROVE TypeOK'
  <2>1. stage' \in [Requests -> Stage]
    BY <1>7 DEF ImportInvalidate, Goto, Stage
  <2>2. own' \in [Requests -> SUBSET Actions]
    BY <1>7 DEF ImportInvalidate
  <2>3. cached' \subseteq Pods /\ behind' \subseteq cached'
    BY <1>7, RequestsAssumption DEF ImportInvalidate, DropEntry
  <2>4. cache' \in [Pods -> SUBSET Actions]
    BY <1>7, RequestsAssumption DEF ImportInvalidate, DropEntry
  <2>5. late' \subseteq {r \in Requests : stage'[r] = "set"}
    BY <1>7 DEF ImportInvalidate, Goto, Loading
  <2>6. QED
    BY <1>7, <2>1, <2>2, <2>3, <2>4, <2>5 DEF ImportInvalidate, Goto
<1>8. ASSUME NEW q \in Requests, UseCache(q) PROVE TypeOK'
  <2>1. stage' \in [Requests -> Stage]
    BY <1>8 DEF UseCache, Goto, Stage
  <2>2. todo' \in [Requests -> SUBSET Actions]
    BY <1>8 DEF UseCache
  <2>3. QED
    BY <1>8, <2>1, <2>2 DEF UseCache, Goto
<1>9. ASSUME NEW q \in Requests, Load(q) PROVE TypeOK'
  <2>1. stage' \in [Requests -> Stage]
    BY <1>9 DEF Load, Goto, Stage
  <2>2. todo' \in [Requests -> SUBSET Actions]
    BY <1>9 DEF Load, Enabled
  <2>3. QED
    BY <1>9, <2>1, <2>2 DEF Load, Goto
<1>10. ASSUME NEW q \in Requests, Set(q) PROVE TypeOK'
  <2>1. cached' \subseteq Pods /\ behind' \subseteq cached'
    BY <1>10, RequestsAssumption DEF Set
  <2>2. cache' \in [Pods -> SUBSET Actions]
    BY <1>10, RequestsAssumption DEF Set
  <2>3. stage' \in [Requests -> Stage]
    BY <1>10 DEF Set, Goto, Stage
  <2>4. late' \subseteq {r \in Requests : stage'[r] = "set"}
    BY <1>10 DEF Set, Goto
  <2>5. QED
    BY <1>10, <2>1, <2>2, <2>3, <2>4 DEF Set, Goto
<1>11. ASSUME NEW q \in Requests, NEW a \in Actions, Upsert(q, a) PROVE TypeOK'
  <2>1. registry' \subseteq Actions \X {"proxy", "provider"}
    BY <1>11 DEF Upsert, Named
  <2>2. \A e, f \in registry' : NameOf[e[1]] = NameOf[f[1]] => e = f
    BY <1>11 DEF Upsert, Named
  <2>3. todo' \in [Requests -> SUBSET Actions]
    BY <1>11 DEF Upsert
  <2>4. QED
    BY <1>11, <2>1, <2>2, <2>3 DEF Upsert
<1>12. ASSUME NEW q \in Requests, ImportEnd(q) PROVE TypeOK'
  <2>1. stage' \in [Requests -> Stage]
    BY <1>12 DEF ImportEnd, End, Goto, Stage
  <2>2. todo' \in [Requests -> SUBSET Actions]
    BY <1>12 DEF ImportEnd, End
  <2>3. want' \in [Requests -> {"none", "on", "off"}]
    BY <1>12 DEF ImportEnd, End
  <2>4. own' \in [Requests -> SUBSET Actions]
    BY <1>12 DEF ImportEnd
  <2>5. QED
    BY <1>12, <2>1, <2>2, <2>3, <2>4 DEF ImportEnd, End, Goto
<1>13. ASSUME NEW q \in Requests, NEW listed \in Listings, SyncBegin(q, listed) PROVE TypeOK'
  <2>1. stage' \in [Requests -> Stage]
    BY <1>13 DEF SyncBegin, Begin, Goto, Stage
  <2>2. todo' \in [Requests -> SUBSET Actions]
    BY <1>13, ListingsAssumption DEF SyncBegin
  <2>3. QED
    BY <1>13, <2>1, <2>2 DEF SyncBegin, Begin, Goto
<1>14. ASSUME NEW q \in Requests, SyncDelete(q) PROVE TypeOK'
  <2>1. stage' \in [Requests -> Stage]
    BY <1>14 DEF SyncDelete, Goto, Stage
  <2>2. QED
    BY <1>14, <2>1 DEF SyncDelete, Goto
<1>15. ASSUME NEW q \in Requests, SyncInsert(q) PROVE TypeOK'
  <2>1. registry' \subseteq Actions \X {"proxy", "provider"}
    BY <1>15 DEF SyncInsert, Insertable, Named
  <2>2. \A e, f \in registry' : NameOf[e[1]] = NameOf[f[1]] => e = f
    BY <1>15 DEF SyncInsert, Insertable, Named
  <2>3. stage' \in [Requests -> Stage]
    BY <1>15 DEF SyncInsert, End, Goto, Stage
  <2>4. todo' \in [Requests -> SUBSET Actions]
    BY <1>15 DEF SyncInsert, End
  <2>5. want' \in [Requests -> {"none", "on", "off"}]
    BY <1>15 DEF SyncInsert, End
  <2>6. QED
    BY <1>15, <2>1, <2>2, <2>3, <2>4, <2>5 DEF SyncInsert, End, Goto
<1>16. ASSUME NEW q \in Requests, Die(q) PROVE TypeOK'
  <2>1. stage' \in [Requests -> Stage]
    BY <1>16 DEF Die, End, Goto, Stage
  <2>2. todo' \in [Requests -> SUBSET Actions]
    BY <1>16 DEF Die, End
  <2>3. want' \in [Requests -> {"none", "on", "off"}]
    BY <1>16 DEF Die, End
  <2>4. own' \in [Requests -> SUBSET Actions]
    BY <1>16 DEF Die
  <2>5. cached' \subseteq Pods /\ behind' \subseteq cached'
    BY <1>16, RequestsAssumption DEF Die
  <2>6. late' \subseteq {r \in Requests : stage'[r] = "set"}
    BY <1>16 DEF Die, End, Goto, Loading
  <2>7. QED
    BY <1>16, <2>1, <2>2, <2>3, <2>4, <2>5, <2>6 DEF Die, End, Goto
<1>17. ASSUME NEW p \in Pods, Forget(p) PROVE TypeOK'
  <2>1. cached' \subseteq Pods /\ behind' \subseteq cached'
    BY <1>17 DEF Forget, DropEntry
  <2>2. cache' \in [Pods -> SUBSET Actions]
    BY <1>17 DEF Forget, DropEntry
  <2>3. QED
    BY <1>17, <2>1, <2>2 DEF Forget
<1>18. CASE UNCHANGED vars
  BY <1>18 DEF vars
<1>19. QED
  BY <1>1, <1>2, <1>3, <1>4, <1>5, <1>6, <1>7, <1>8, <1>9, <1>10, <1>11, <1>12, <1>13,
     <1>14, <1>15, <1>16, <1>17, <1>18 DEF Next

-----------------------------------------------------------------------------
(* ToolCatalog: caches.                                                    *)

\* A change marks the loads of all other processes.
LEMMA MissedByOthers ==
  ASSUME NEW q \in Requests, NEW r \in Requests, MissedBy(PodOf[q]),
         stage[r] = "set", PodOf[r] # PodOf[q]
  PROVE  r \in late'
<1>1. r \in Loading(PodOf[r]) /\ PodOf[r] \in Pods \ {PodOf[q]}
  BY RequestsAssumption DEF Loading
<1>2. QED
  BY <1>1 DEF MissedBy

\* A change is heard of by the cache and the loads of its own process when the
\* request invalidates; every other cache and load is marked by the change itself.
LEMMA CacheIsCurrentKept ==
  ASSUME TypeOK, CacheIsCurrent, LoadIsCurrent, [Next]_vars
  PROVE  CacheIsCurrent' /\ LoadIsCurrent'
<1> USE DEF TypeOK, CacheIsCurrent, LoadIsCurrent, database, caches, request,
      promises, staleness
<1>1. ASSUME NEW q \in Requests, NEW a \in Actions, Add(q, a)
      PROVE  CacheIsCurrent' /\ LoadIsCurrent'
  <2>1. Invalidating(PodOf[q])'
    BY <1>1 DEF Add, Invalidating, Begin, Goto
  <2>2. \A p \in Pods : Invalidating(p) => Invalidating(p)'
    BY <1>1 DEF Add, Invalidating, Begin, Goto
  <2>3. CacheIsCurrent'
    BY <1>1, <2>1, <2>2, RequestsAssumption DEF Add, Enabled, MissedBy
  <2>4. \A r \in Requests : stage'[r] = "set" => stage[r] = "set" /\ todo'[r] = todo[r]
    BY <1>1 DEF Add, Begin, Goto
  <2>5. LoadIsCurrent'
    <3>1. ASSUME NEW r \in Requests, stage[r] = "set", PodOf[r] # PodOf[q] PROVE r \in late'
      BY <1>1, <3>1, MissedByOthers DEF Add
    <3>2. late \subseteq late'
      BY <1>1 DEF Add, MissedBy
    <3>3. QED
      BY <2>1, <2>4, <3>1, <3>2
  <2>6. QED
    BY <2>3, <2>5
<1>2. ASSUME NEW q \in Requests, NEW a \in Actions, WriteBegin(q, a)
      PROVE  CacheIsCurrent' /\ LoadIsCurrent'
  <2>1. \A p \in Pods : Invalidating(p)' <=> Invalidating(p)
    BY <1>2 DEF WriteBegin, Invalidating, Begin, Goto
  <2>2. CacheIsCurrent'
    BY <1>2, <2>1, RequestsAssumption DEF WriteBegin, Enabled
  <2>3. LoadIsCurrent'
    BY <1>2, <2>1, RequestsAssumption DEF WriteBegin, Enabled, Begin, Goto
  <2>4. QED
    BY <2>2, <2>3
<1>3. ASSUME NEW q \in Requests, Write(q) PROVE CacheIsCurrent' /\ LoadIsCurrent'
  <2>1. Invalidating(PodOf[q])'
    BY <1>3 DEF Write, Invalidating, Goto
  <2>2. \A p \in Pods : Invalidating(p) => Invalidating(p)'
    BY <1>3 DEF Write, Invalidating, Goto
  <2>3. CacheIsCurrent'
    BY <1>3, <2>1, <2>2, RequestsAssumption DEF Write, Enabled, MissedBy
  <2>4. \A r \in Requests : stage'[r] = "set" => stage[r] = "set" /\ todo'[r] = todo[r]
    BY <1>3 DEF Write, Goto
  <2>5. LoadIsCurrent'
    <3>1. ASSUME NEW r \in Requests, stage[r] = "set", PodOf[r] # PodOf[q] PROVE r \in late'
      BY <1>3, <3>1, MissedByOthers DEF Write
    <3>2. late \subseteq late'
      BY <1>3 DEF Write, MissedBy
    <3>3. QED
      BY <2>1, <2>4, <3>1, <3>2
  <2>6. QED
    BY <2>3, <2>5
<1>4. ASSUME NEW q \in Requests, Invalidate(q) PROVE CacheIsCurrent' /\ LoadIsCurrent'
  <2>1. \A p \in Pods \ {PodOf[q]} : Invalidating(p)' <=> Invalidating(p)
    BY <1>4 DEF Invalidate, Invalidating, End, Goto
  <2>2. CacheIsCurrent'
    BY <1>4, <2>1, RequestsAssumption DEF Invalidate, Enabled, DropEntry
  <2>3. LoadIsCurrent'
    BY <1>4, <2>1, RequestsAssumption DEF Invalidate, Enabled, Loading, End, Goto
  <2>4. QED
    BY <2>2, <2>3
<1>5. ASSUME NEW q \in Requests, NEW k, ImportBegin(q, k)
      PROVE  CacheIsCurrent' /\ LoadIsCurrent'
  <2>1. Invalidating(PodOf[q])'
    BY <1>5 DEF ImportBegin, Invalidating, Begin, Goto
  <2>2. \A p \in Pods : Invalidating(p) => Invalidating(p)'
    BY <1>5 DEF ImportBegin, Invalidating, Begin, Goto
  <2>3. CacheIsCurrent'
    BY <1>5, <2>1, <2>2, RequestsAssumption DEF ImportBegin, Enabled
  <2>4. \A r \in Requests : stage'[r] = "set" => stage[r] = "set" /\ todo'[r] = todo[r]
    BY <1>5 DEF ImportBegin, Begin, Goto
  <2>5. LoadIsCurrent'
    BY <1>5, <2>1, <2>2, <2>4, RequestsAssumption DEF ImportBegin, Enabled
  <2>6. QED
    BY <2>3, <2>5
<1>6. ASSUME NEW q \in Requests, NEW a \in Actions, ImportCreate(q, a)
      PROVE  CacheIsCurrent' /\ LoadIsCurrent'
  <2>1. Invalidating(PodOf[q])'
    BY <1>6 DEF ImportCreate, Invalidating
  <2>2. \A p \in Pods : Invalidating(p) => Invalidating(p)'
    BY <1>6 DEF ImportCreate, Invalidating
  <2>3. CacheIsCurrent'
    BY <1>6, <2>1, <2>2, RequestsAssumption DEF ImportCreate, Enabled, MissedBy
  <2>4. \A r \in Requests : stage'[r] = "set" => stage[r] = "set" /\ todo'[r] = todo[r]
    BY <1>6 DEF ImportCreate
  <2>5. LoadIsCurrent'
    <3>1. ASSUME NEW r \in Requests, stage[r] = "set", PodOf[r] # PodOf[q] PROVE r \in late'
      BY <1>6, <3>1, MissedByOthers DEF ImportCreate
    <3>2. late \subseteq late'
      BY <1>6 DEF ImportCreate, MissedBy
    <3>3. QED
      BY <2>1, <2>4, <3>1, <3>2
  <2>6. QED
    BY <2>3, <2>5
<1>7. ASSUME NEW q \in Requests, ImportInvalidate(q) PROVE CacheIsCurrent' /\ LoadIsCurrent'
  <2>1. \A p \in Pods \ {PodOf[q]} : Invalidating(p)' <=> Invalidating(p)
    BY <1>7 DEF ImportInvalidate, Invalidating, Goto
  <2>2. CacheIsCurrent'
    BY <1>7, <2>1, RequestsAssumption DEF ImportInvalidate, Enabled, DropEntry
  <2>3. LoadIsCurrent'
    BY <1>7, <2>1, RequestsAssumption DEF ImportInvalidate, Enabled, Loading, Goto
  <2>4. QED
    BY <2>2, <2>3
<1>8. ASSUME NEW q \in Requests, UseCache(q) PROVE CacheIsCurrent' /\ LoadIsCurrent'
  <2>1. \A p \in Pods : Invalidating(p)' <=> Invalidating(p)
    BY <1>8 DEF UseCache, Invalidating, Goto
  <2>2. CacheIsCurrent'
    BY <1>8, <2>1, RequestsAssumption DEF UseCache, Enabled
  <2>3. LoadIsCurrent'
    BY <1>8, <2>1, RequestsAssumption DEF UseCache, Enabled, Goto
  <2>4. QED
    BY <2>2, <2>3
<1>9. ASSUME NEW q \in Requests, Load(q) PROVE CacheIsCurrent' /\ LoadIsCurrent'
  <2>1. \A p \in Pods : Invalidating(p)' <=> Invalidating(p)
    BY <1>9 DEF Load, Invalidating, Goto
  <2>2. CacheIsCurrent'
    BY <1>9, <2>1, RequestsAssumption DEF Load, Enabled
  <2>3. LoadIsCurrent'
    BY <1>9, <2>1, RequestsAssumption DEF Load, Enabled, Goto
  <2>4. QED
    BY <2>2, <2>3
<1>10. ASSUME NEW q \in Requests, Set(q) PROVE CacheIsCurrent' /\ LoadIsCurrent'
  <2>1. \A p \in Pods : Invalidating(p)' <=> Invalidating(p)
    BY <1>10 DEF Set, Invalidating, Goto
  <2>2. CacheIsCurrent'
    BY <1>10, <2>1, RequestsAssumption DEF Set, Enabled
  <2>3. LoadIsCurrent'
    BY <1>10, <2>1, RequestsAssumption DEF Set, Enabled, Goto
  <2>4. QED
    BY <2>2, <2>3
<1>11. ASSUME NEW q \in Requests, NEW a \in Actions, Upsert(q, a)
      PROVE  CacheIsCurrent' /\ LoadIsCurrent'
  <2>1. \A p \in Pods : Invalidating(p)' <=> Invalidating(p)
    BY <1>11 DEF Upsert, Invalidating
  <2>2. CacheIsCurrent'
    BY <1>11, <2>1, RequestsAssumption DEF Upsert, Enabled
  <2>3. LoadIsCurrent'
    BY <1>11, <2>1, RequestsAssumption DEF Upsert, Enabled
  <2>4. QED
    BY <2>2, <2>3
<1>12. ASSUME NEW q \in Requests, ImportEnd(q) PROVE CacheIsCurrent' /\ LoadIsCurrent'
  <2>1. \A p \in Pods : Invalidating(p)' <=> Invalidating(p)
    BY <1>12 DEF ImportEnd, Invalidating, End, Goto
  <2>2. CacheIsCurrent'
    BY <1>12, <2>1, RequestsAssumption DEF ImportEnd, Enabled
  <2>3. LoadIsCurrent'
    BY <1>12, <2>1, RequestsAssumption DEF ImportEnd, Enabled, End, Goto
  <2>4. QED
    BY <2>2, <2>3
<1>13. ASSUME NEW q \in Requests, NEW listed \in Listings, SyncBegin(q, listed)
      PROVE  CacheIsCurrent' /\ LoadIsCurrent'
  <2>1. \A p \in Pods : Invalidating(p)' <=> Invalidating(p)
    BY <1>13 DEF SyncBegin, Invalidating, Begin, Goto
  <2>2. CacheIsCurrent'
    BY <1>13, <2>1, RequestsAssumption DEF SyncBegin, Enabled
  <2>3. LoadIsCurrent'
    BY <1>13, <2>1, RequestsAssumption DEF SyncBegin, Enabled, Begin, Goto
  <2>4. QED
    BY <2>2, <2>3
<1>14. ASSUME NEW q \in Requests, SyncDelete(q) PROVE CacheIsCurrent' /\ LoadIsCurrent'
  <2>1. \A p \in Pods : Invalidating(p)' <=> Invalidating(p)
    BY <1>14 DEF SyncDelete, Invalidating, Goto
  <2>2. CacheIsCurrent'
    BY <1>14, <2>1, RequestsAssumption DEF SyncDelete, Enabled
  <2>3. LoadIsCurrent'
    BY <1>14, <2>1, RequestsAssumption DEF SyncDelete, Enabled, Goto
  <2>4. QED
    BY <2>2, <2>3
<1>15. ASSUME NEW q \in Requests, SyncInsert(q) PROVE CacheIsCurrent' /\ LoadIsCurrent'
  <2>1. \A p \in Pods : Invalidating(p)' <=> Invalidating(p)
    BY <1>15 DEF SyncInsert, Invalidating, End, Goto
  <2>2. CacheIsCurrent'
    BY <1>15, <2>1, RequestsAssumption DEF SyncInsert, Enabled
  <2>3. LoadIsCurrent'
    BY <1>15, <2>1, RequestsAssumption DEF SyncInsert, Enabled, End, Goto
  <2>4. QED
    BY <2>2, <2>3
<1>16. ASSUME NEW q \in Requests, Die(q) PROVE CacheIsCurrent' /\ LoadIsCurrent'
  <2>1. CASE stage[q] \in {"import", "invalidate"}
    <3>1. \A p \in Pods \ {PodOf[q]} : Invalidating(p)' <=> Invalidating(p)
      BY <1>16 DEF Die, End, Goto, Invalidating
    <3>2. CacheIsCurrent'
      BY <1>16, <2>1, <3>1, RequestsAssumption DEF Die, Enabled
    <3>3. LoadIsCurrent'
      BY <1>16, <2>1, <3>1, RequestsAssumption DEF Die, End, Goto, Enabled, Loading
    <3>4. QED
      BY <3>2, <3>3
  <2>2. CASE stage[q] \notin {"import", "invalidate"}
    <3>1. \A p \in Pods : Invalidating(p)' <=> Invalidating(p)
      BY <1>16, <2>2 DEF Die, End, Goto, Invalidating
    <3>2. CacheIsCurrent'
      BY <1>16, <2>2, <3>1, RequestsAssumption DEF Die, Enabled
    <3>3. LoadIsCurrent'
      BY <1>16, <2>2, <3>1, RequestsAssumption DEF Die, End, Goto, Enabled
    <3>4. QED
      BY <3>2, <3>3
  <2>3. QED
    BY <2>1, <2>2
<1>17. ASSUME NEW p \in Pods, Forget(p) PROVE CacheIsCurrent' /\ LoadIsCurrent'
  <2>1. \A o \in Pods : Invalidating(o)' <=> Invalidating(o)
    BY <1>17 DEF Forget, Invalidating
  <2>2. CacheIsCurrent'
    BY <1>17, <2>1, RequestsAssumption DEF Forget, Enabled, DropEntry
  <2>3. LoadIsCurrent'
    BY <1>17, <2>1, RequestsAssumption DEF Forget, Enabled, DropEntry
  <2>4. QED
    BY <2>2, <2>3
<1>18. CASE UNCHANGED vars
  BY <1>18 DEF vars, Enabled, Invalidating
<1>19. QED
  BY <1>1, <1>2, <1>3, <1>4, <1>5, <1>6, <1>7, <1>8, <1>9, <1>10, <1>11, <1>12, <1>13,
     <1>14, <1>15, <1>16, <1>17, <1>18 DEF Next

-----------------------------------------------------------------------------
(* ToolCatalog: the registry.                                              *)

\* A name leaves the registry in a DELETE only; it takes an INSERT to end that.
LEMMA SyncedToolsAreFoundKept ==
  ASSUME TypeOK, SyncedToolsAreFound, [Next]_vars
  PROVE  SyncedToolsAreFound'
<1> USE DEF TypeOK, SyncedToolsAreFound, Named, database, caches, request, promises,
      staleness
<1>1. ASSUME NEW q \in Requests, NEW a \in Actions, Add(q, a) PROVE SyncedToolsAreFound'
  BY <1>1 DEF Add, Begin, Goto
<1>2. ASSUME NEW q \in Requests, NEW a \in Actions, WriteBegin(q, a) PROVE SyncedToolsAreFound'
  BY <1>2 DEF WriteBegin, Begin, Goto
<1>3. ASSUME NEW q \in Requests, Write(q) PROVE SyncedToolsAreFound'
  BY <1>3 DEF Write, Goto
<1>4. ASSUME NEW q \in Requests, Invalidate(q) PROVE SyncedToolsAreFound'
  BY <1>4 DEF Invalidate, End, Goto
<1>5. ASSUME NEW q \in Requests, NEW k, ImportBegin(q, k) PROVE SyncedToolsAreFound'
  BY <1>5 DEF ImportBegin, Begin, Goto
<1>6. ASSUME NEW q \in Requests, NEW a \in Actions, ImportCreate(q, a)
      PROVE  SyncedToolsAreFound'
  BY <1>6 DEF ImportCreate
<1>7. ASSUME NEW q \in Requests, ImportInvalidate(q) PROVE SyncedToolsAreFound'
  BY <1>7 DEF ImportInvalidate, Goto
<1>8. ASSUME NEW q \in Requests, UseCache(q) PROVE SyncedToolsAreFound'
  BY <1>8 DEF UseCache, Goto
<1>9. ASSUME NEW q \in Requests, Load(q) PROVE SyncedToolsAreFound'
  BY <1>9 DEF Load, Goto
<1>10. ASSUME NEW q \in Requests, Set(q) PROVE SyncedToolsAreFound'
  BY <1>10 DEF Set, Goto
<1>11. ASSUME NEW q \in Requests, NEW a \in Actions, Upsert(q, a) PROVE SyncedToolsAreFound'
  <2>1. ASSUME NEW b \in listing, \E e \in registry : NameOf[e[1]] = NameOf[b]
        PROVE  \E e \in registry' : NameOf[e[1]] = NameOf[b]
    <3>1. CASE NameOf[b] = NameOf[a]
      <4>1. <<a, "proxy">> \in registry'
        BY <1>11 DEF Upsert
      <4>2. QED
        BY <3>1, <4>1
    <3>2. CASE NameOf[b] # NameOf[a]
      BY <1>11, <2>1, <3>2 DEF Upsert
    <3>3. QED
      BY <3>1, <3>2
  <2>2. UNCHANGED <<listing, stage>>
    BY <1>11 DEF Upsert
  <2>3. QED
    BY <2>1, <2>2
<1>12. ASSUME NEW q \in Requests, ImportEnd(q) PROVE SyncedToolsAreFound'
  BY <1>12 DEF ImportEnd, End, Goto
<1>13. ASSUME NEW q \in Requests, NEW listed \in Listings, SyncBegin(q, listed)
      PROVE  SyncedToolsAreFound'
  BY <1>13 DEF SyncBegin, Begin, Goto
<1>14. ASSUME NEW q \in Requests, SyncDelete(q) PROVE SyncedToolsAreFound'
  BY <1>14 DEF SyncDelete, Goto
<1>15. ASSUME NEW q \in Requests, SyncInsert(q) PROVE SyncedToolsAreFound'
  <2>1. ASSUME NEW b \in todo[q] PROVE \E e \in registry' : NameOf[e[1]] = NameOf[b]
    <3>1. <<b, "provider">> \in registry'
      BY <1>15 DEF SyncInsert
    <3>2. QED
      BY <3>1
  <2>2. listing' = todo[q]
    BY <1>15 DEF SyncInsert
  <2>3. QED
    BY <2>1, <2>2
<1>16. ASSUME NEW q \in Requests, Die(q) PROVE SyncedToolsAreFound'
  BY <1>16 DEF Die, End, Goto
<1>17. ASSUME NEW p \in Pods, Forget(p) PROVE SyncedToolsAreFound'
  BY <1>17 DEF Forget
<1>18. CASE UNCHANGED vars
  BY <1>18 DEF vars
<1>19. QED
  BY <1>1, <1>2, <1>3, <1>4, <1>5, <1>6, <1>7, <1>8, <1>9, <1>10, <1>11, <1>12, <1>13,
     <1>14, <1>15, <1>16, <1>17, <1>18 DEF Next

\* Entries of imports are replaced by entries of imports, and a sync leaves them.
LEMMA ProxyNamesStayStep ==
  ASSUME TypeOK, [Next]_vars, NEW e \in registry, e[2] = "proxy"
  PROVE  \E f \in registry' : f[2] = "proxy" /\ NameOf[f[1]] = NameOf[e[1]]
<1> USE DEF database
<1>1. ASSUME NEW q \in Requests, NEW a \in Actions, Upsert(q, a)
      PROVE  \E f \in registry' : f[2] = "proxy" /\ NameOf[f[1]] = NameOf[e[1]]
  <2>1. CASE NameOf[e[1]] = NameOf[a]
    <3>1. <<a, "proxy">> \in registry'
      BY <1>1 DEF Upsert
    <3>2. QED
      BY <2>1, <3>1
  <2>2. CASE NameOf[e[1]] # NameOf[a]
    BY <1>1, <2>2 DEF Upsert, Named
  <2>3. QED
    BY <2>1, <2>2
<1>2. ASSUME NEW q \in Requests, SyncDelete(q) PROVE e \in registry'
  BY <1>2 DEF SyncDelete
<1>3. ASSUME NEW q \in Requests, SyncInsert(q) PROVE e \in registry'
  BY <1>3 DEF SyncInsert
<1>4. ASSUME ~ \E q \in Requests :
               SyncDelete(q) \/ SyncInsert(q) \/ \E a \in Actions : Upsert(q, a)
      PROVE  e \in registry'
  BY <1>4 DEF Next, vars, Add, WriteBegin, Write, Invalidate, ImportBegin, ImportCreate,
              ImportInvalidate, UseCache, Load, Set, ImportEnd, SyncBegin, Die, Forget
<1>5. QED
  BY <1>1, <1>2, <1>3, <1>4
-----------------------------------------------------------------------------
(* ToolCatalog: the inductive invariant and what follows from it.          *)

IndInv == TypeOK /\ CacheIsCurrent /\ LoadIsCurrent /\ SyncedToolsAreFound

\* The catalogue never leaves the inductive invariant.
THEOREM IndInvCorrect == Spec => []IndInv
<1>1. Init => IndInv
  BY DEF Init, IndInv, TypeOK, Stage, CacheIsCurrent, LoadIsCurrent, SyncedToolsAreFound
<1>2. ASSUME IndInv, [Next]_vars PROVE IndInv'
  BY <1>2, TypeOKKept, CacheIsCurrentKept, SyncedToolsAreFoundKept DEF IndInv
<1>3. QED
  BY <1>1, <1>2, PTL DEF Spec

\* Types hold, and the registry lists a name once.
THEOREM TypeCorrect == Spec => []TypeOK
<1>1. IndInv => TypeOK
  BY DEF IndInv
<1>2. QED
  BY <1>1, IndInvCorrect, PTL

\* A cache is stale for one of the three named reasons only.
THEOREM StalenessHasACause == Spec => []CacheIsCurrent
<1>1. IndInv => CacheIsCurrent
  BY DEF IndInv
<1>2. QED
  BY <1>1, IndInvCorrect, PTL

\* What a sync listed stays to be found, but for an interrupted sync.
THEOREM SyncedToolsFound == Spec => []SyncedToolsAreFound
<1>1. IndInv => SyncedToolsAreFound
  BY DEF IndInv
<1>2. QED
  BY <1>1, IndInvCorrect, PTL

\* No step takes an imported name out of the registry.
THEOREM ProxyNamesAreStable == Spec => ProxyNamesStay
<1>1. ASSUME TypeOK, [Next]_vars
      PROVE  [\A e \in registry : e[2] = "proxy" =>
                \E f \in registry' : f[2] = "proxy" /\ NameOf[f[1]] = NameOf[e[1]]
             ]_registry
  BY <1>1, ProxyNamesStayStep
<1>2. QED
  BY <1>1, TypeCorrect, PTL DEF Spec, ProxyNamesStay

-----------------------------------------------------------------------------
(* ActionInterpreter: elements of a list in their order.                   *)

Rank(S, i) == Cardinality({j \in S : j <= i})

\* Of two members of a finite set of numbers, the larger has the larger rank.
LEMMA RankGrows ==
  ASSUME NEW S \in SUBSET Nat, IsFiniteSet(S), NEW i \in S
  PROVE  /\ Rank(S, i) \in 1..Cardinality(S)
         /\ \A k \in S : i < k => Rank(S, i) < Rank(S, k)
<1>1. \A k \in S : IsFiniteSet({j \in S : j <= k}) /\ Rank(S, k) \in Nat /\ Rank(S, k) <= Cardinality(S)
  BY FS_Subset, FS_CardinalityType DEF Rank
<1>2. Rank(S, i) # 0
  <2>1. i \in {j \in S : j <= i}
    OBVIOUS
  <2> QED BY <1>1, <2>1, FS_EmptySet DEF Rank
<1>3. ASSUME NEW k \in S, i < k
      PROVE  Rank(S, i) < Rank(S, k)
  <2> DEFINE T == {j \in S : j <= k}
             R == {j \in S : j <= i}
  <2>1. R \subseteq T /\ k \in T /\ k \notin R
    <3>1. i \in Nat /\ k \in Nat /\ \A j \in S : j \in Nat
      OBVIOUS
    <3>2. k <= k /\ ~ k <= i /\ \A j \in S : j <= i => j <= k
      BY <1>3, <3>1
    <3> QED BY <3>2
  <2>2. Cardinality(R) <= Cardinality(T) /\ Cardinality(R) # Cardinality(T)
    <3>1. R # T
      BY <2>1
    <3> HIDE DEF R, T
    <3>2. IsFiniteSet(T) /\ R \in SUBSET T
      BY <1>1, <2>1 DEF T
    <3> QED BY <3>1, <3>2, FS_Subset
  <2> QED BY <1>1, <2>2 DEF Rank
<1>4. Cardinality(S) \in Nat
  BY FS_CardinalityType
<1>5. Rank(S, i) \in 1..Cardinality(S)
  <2>1. Rank(S, i) \in Nat /\ Rank(S, i) <= Cardinality(S)
    BY <1>1
  <2> QED BY <1>2, <1>4, <2>1
<1> QED BY <1>3, <1>5

\* Every rank up to the number of members is somebody's.
LEMMA RankTaken ==
  ASSUME NEW S \in SUBSET Nat, IsFiniteSet(S), NEW n \in 1..Cardinality(S)
  PROVE  \E i \in S : Rank(S, i) = n
<1> DEFINE rank == [i \in S |-> Rank(S, i)]
<1>1. Cardinality(S) \in Nat
  BY FS_CardinalityType
<1>2. rank \in [S -> 1..Cardinality(S)]
  BY RankGrows
<1>3. ASSUME NEW i \in S, NEW k \in S, rank[i] = rank[k]
      PROVE  i = k
  <2>1. i \in Nat /\ k \in Nat
    OBVIOUS
  <2>2. Rank(S, i) = Rank(S, k) /\ Rank(S, i) \in Nat
    BY <1>1, <1>3, RankGrows
  <2>3. ~ i < k /\ ~ k < i
    BY <2>2, RankGrows
  <2> QED BY <2>1, <2>3
<1>4. rank \in Injection(S, 1..Cardinality(S))
  BY <1>2, <1>3 DEF Injection, IsInjective
<1>5. IsFiniteSet(1..Cardinality(S)) /\ Cardinality(1..Cardinality(S)) = Cardinality(S)
  BY <1>1, FS_Interval
<1>6. rank \in Surjection(S, 1..Cardinality(S))
  <2> HIDE DEF rank
  <2> QED BY <1>4, <1>5, FS_Injection
<1> QED BY <1>6 DEF Surjection

Items == [item : Nat, kind : {"record", "scalar", "null"}]

\* A function on 1..n is a sequence.
LEMMA FunctionIsSeq ==
  ASSUME NEW S, NEW n \in Nat, NEW q \in [1..n -> S]
  PROVE  q \in Seq(S) /\ Len(q) = n /\ DOMAIN q = 1..n
<1>1. q \in Seq(S)
  BY SeqDef
<1>2. DOMAIN q = 1..n /\ DOMAIN q = 1..Len(q) /\ Len(q) \in Nat
  BY <1>1, LenProperties
<1> QED BY <1>1, <1>2

Increasing(q) == \A i, j \in DOMAIN q : i < j => q[i].item < q[j].item

\* The port's filter leaves a list that is still in order.
LEMMA AtKeepsOrder ==
  ASSUME NEW list \in Seq(Items), Increasing(list), NEW I \in SUBSET DOMAIN list
  PROVE  At(list, I) \in Seq(Items) /\ Increasing(At(list, I))
<1>1. I \in SUBSET Nat /\ IsFiniteSet(I)
  <2>1. DOMAIN list = 1..Len(list) /\ Len(list) \in Nat
    OBVIOUS
  <2>2. IsFiniteSet(1..Len(list)) /\ I \in SUBSET (1..Len(list))
    BY <2>1, FS_Interval
  <2>3. IsFiniteSet(I)
    BY <2>2, FS_Subset
  <2> QED BY <2>1, <2>3
<1>2. Cardinality(I) \in Nat
  BY <1>1, FS_CardinalityType
<1> DEFINE At1(n) == CHOOSE i \in I : Rank(I, i) = n
<1>3. \A n \in 1..Cardinality(I) : At1(n) \in I /\ Rank(I, At1(n)) = n
  BY <1>1, RankTaken
<1>4. At(list, I) = [n \in 1..Cardinality(I) |-> list[At1(n)]]
  BY DEF At, Rank
<1> HIDE DEF At1
<1>5. At(list, I) \in [1..Cardinality(I) -> Items]
  BY <1>3, <1>4
<1>6. ASSUME NEW m \in 1..Cardinality(I), NEW n \in 1..Cardinality(I), m < n
      PROVE  At1(m) < At1(n)
  <2>1. At1(m) \in Nat /\ At1(n) \in Nat
    BY <1>1, <1>3
  <2>2. At1(n) < At1(m) => n < m
    BY <1>1, <1>3, RankGrows
  <2> QED BY <1>2, <1>3, <1>6, <2>1, <2>2
<1> QED BY <1>2, <1>3, <1>4, <1>5, <1>6 DEF Increasing

\* What a response is mapped to is in the order of the response.
LEMMA MappedInOrder ==
  ASSUME NEW s, NEW d, NEW response \in Responses
  PROVE  Mapped(s, d, response) \in Seq(Items) /\ Increasing(Mapped(s, d, response))
<1> DEFINE list == [i \in DOMAIN response.rows |-> [item |-> i, kind |-> response.rows[i]]]
<1>1. response.root \in {"missing", "null", "list"} /\ response.rows \in Seq({"record", "scalar"})
  BY ResponsesAssumption
<1>2. list \in Seq(Items) /\ Increasing(list) /\ DOMAIN list = DOMAIN response.rows
  <2>1. DOMAIN response.rows = 1..Len(response.rows) /\ Len(response.rows) \in Nat
    BY <1>1
  <2>2. \A i \in 1..Len(response.rows) : list[i] \in Items /\ list[i].item = i
    BY <1>1, <2>1 DEF Items
  <2>3. list \in Seq(Items) /\ DOMAIN list = 1..Len(response.rows)
    <3>1. list \in [1..Len(response.rows) -> Items]
      BY <2>1, <2>2
    <3> HIDE DEF list
    <3> QED BY <2>1, <3>1, FunctionIsSeq
  <2> HIDE DEF list
  <2>4. Increasing(list)
    BY <2>2, <2>3 DEF Increasing
  <2> QED BY <2>1, <2>3, <2>4
<1>3. <<>> \in Seq(Items) /\ Increasing(<<>>) /\ Null \in Seq(Items) /\ Increasing(Null)
  BY DEF Items, Increasing, Null
<1>4. CASE response.root = "missing"
  BY <1>3, <1>4 DEF Mapped
<1>5. CASE response.root = "null"
  BY <1>3, <1>5 DEF Mapped
<1>6. CASE response.root = "list"
  <2> DEFINE I == {i \in DOMAIN list : list[i].kind = "record"}
  <2>1. Mapped(s, d, response) = IF d.pick /\ s = "py" THEN At(list, I) ELSE list
    BY <1>6 DEF Mapped
  <2> HIDE DEF list
  <2>2. At(list, I) \in Seq(Items) /\ Increasing(At(list, I))
    BY <1>2, AtKeepsOrder
  <2> QED BY <1>2, <2>1, <2>2
<1> QED BY <1>1, <1>4, <1>5, <1>6

\* The items up to the limit are in order, and no more than the limit.
LEMMA FirstInOrder ==
  ASSUME NEW list \in Seq(Items), Increasing(list), NEW n \in Nat
  PROVE  First(list, n) \in Seq(Items) /\ Increasing(First(list, n)) /\ Len(First(list, n)) <= n
<1> DEFINE m == IF n < Len(list) THEN n ELSE Len(list)
<1>1. m \in Nat /\ m <= n /\ m <= Len(list)
  OBVIOUS
<1>2. First(list, n) = SubSeq(list, 1, m)
  BY DEF First
<1> HIDE DEF m
<1>3. \A i \in 1..m : list[i] \in Items
  BY <1>1
<1>4. /\ SubSeq(list, 1, m) \in Seq(Items)
      /\ Len(SubSeq(list, 1, m)) = m
      /\ \A i \in 1..m : SubSeq(list, 1, m)[i] = list[i]
  BY <1>1, <1>3, SubSeqProperties
<1>5. Increasing(SubSeq(list, 1, m))
  BY <1>1, <1>4 DEF Increasing
<1> QED BY <1>1, <1>2, <1>4, <1>5

-----------------------------------------------------------------------------
(* ActionInterpreter: what holds while a call is under way.                *)

\* What is sent, or fails, is a definition with an input made for it.
Sending ==
  /\ side \in Sides
  /\ phase \in {"sent", "failed"} =>
       /\ def \in Definitions /\ input \in Inputs(def)
       /\ (phase = "failed" <=> PathFails(side, def, input))

Answers == {""} \cup (Nat \X {"merged", "kept"})

\* The items are in order and within the limit, and each detail is either still
\* awaited or that of its item.
Answering ==
  phase \in {"enriching", "answered"} /\ def.limit # -2 =>
    /\ items \in Seq(Items) /\ Increasing(items) /\ Len(items) <= Limit(side, def)
    /\ answer \in Seq(Answers) /\ Len(answer) = Len(items)
    /\ \A i \in DOMAIN answer : (phase = "enriching" /\ i \in Awaited) \/ answer[i][1] = items[i].item

CallInv == LookupIsHarmless /\ Sending /\ Answering

LEMMA LookupKeeps ==
  ASSUME CallInv, Lookup
  PROVE  CallInv'
<1>1. LookupIsHarmless'
  <2> SUFFICES ASSUME phase' = "found"
               PROVE  LookupIsHarmless'
    BY DEF LookupIsHarmless
  <2>1. chosen' \in Find(asked) /\ asked' = asked /\ stored' = stored
    BY DEF Lookup
  <2>2. CASE Contains(stored, asked)
    BY <2>1, <2>2 DEF Find, LookupIsHarmless
  <2>3. CASE ~ Contains(stored, asked)
    <3>1. <<asked, chosen'>> \in Aliases \/ chosen' \in Searches
      BY <2>1, <2>3 DEF Find
    <3>2. ~ Contains(stored', asked')
      BY <2>1, <2>3
    <3> QED BY <2>1, <3>1, <3>2 DEF LookupIsHarmless
  <2> QED BY <2>2, <2>3
<1>2. Sending' /\ Answering'
  BY DEF Lookup, CallInv, Sending, Answering
<1> QED BY <1>1, <1>2 DEF CallInv

LEMMA SendKeeps ==
  ASSUME CallInv, Send
  PROVE  CallInv'
<1>1. phase' \in {"sent", "failed"}
  BY DEF Send
<1>2. LookupIsHarmless' /\ Answering'
  BY <1>1 DEF LookupIsHarmless, Answering
<1>3. Sending'
  BY DEF Send, CallInv, Sending
<1> QED BY <1>2, <1>3 DEF CallInv

LEMMA ReceiveKeeps ==
  ASSUME CallInv, Receive
  PROVE  CallInv'
<1>1. phase' \in {"enriching", "answered"} /\ def' = def /\ side' = side /\ side \in Sides
  BY DEF Receive, CallInv, Sending
<1>2. LookupIsHarmless' /\ Sending'
  BY <1>1 DEF LookupIsHarmless, Sending
<1>3. Answering'
  <2> SUFFICES ASSUME def.limit # -2 PROVE Answering'
    BY <1>1 DEF Answering
  <2>1. Limit(side, def) \in Nat
    <3>1. def \in Definitions
      BY DEF Receive, CallInv, Sending
    <3>2. (def.limit \in Nat \/ def.limit = -1) /\ DefaultLimit \in Nat
      BY <3>1, DefinitionsAssumption, LimitAssumption
    <3> QED BY <3>2 DEF Limit
  <2>2. Limit(side, def)' = Limit(side, def)
    BY <1>1
  <2>3. PICK response \in Responses :
          LET mapped == Mapped(side, def, response) IN
            /\ items' = IF mapped = Null THEN <<>> ELSE First(mapped, Limit(side, def))
            /\ answer' = [i \in DOMAIN items' |-> ""]
            /\ phase' = IF items' = <<>> THEN "answered" ELSE "enriching"
    BY DEF Receive
  <2> DEFINE mapped == Mapped(side, def, response)
  <2>4. items' \in Seq(Items) /\ Increasing(items') /\ Len(items') <= Limit(side, def)
    <3>1. mapped \in Seq(Items) /\ Increasing(mapped)
      BY MappedInOrder
    <3>2. items' = <<>> \/ items' = First(mapped, Limit(side, def))
      BY <2>3
    <3> HIDE DEF mapped
    <3>3. First(mapped, Limit(side, def)) \in Seq(Items)
          /\ Increasing(First(mapped, Limit(side, def))) /\ Len(First(mapped, Limit(side, def))) <= Limit(side, def)
      BY <2>1, <3>1, FirstInOrder
    <3>4. <<>> \in Seq(Items) /\ Increasing(<<>>) /\ Len(<<>>) <= Limit(side, def)
      BY <2>1 DEF Increasing
    <3> QED BY <3>2, <3>3, <3>4
  <2>5. answer' \in Seq(Answers) /\ Len(answer') = Len(items')
    <3>1. DOMAIN items' = 1..Len(items') /\ Len(items') \in Nat
      BY <2>4
    <3>2. answer' = [i \in 1..Len(items') |-> ""]
      BY <2>3, <3>1
    <3>3. \A i \in 1..Len(items') : answer'[i] \in Answers
      BY <3>2 DEF Answers
    <3>4. answer' \in [1..Len(items') -> Answers]
      BY <3>2, <3>3
    <3> QED BY <3>1, <3>4, FunctionIsSeq
  <2>6. ASSUME NEW i \in DOMAIN answer'
        PROVE  phase' = "enriching" /\ i \in Awaited'
    <3>1. i \in DOMAIN items' /\ answer'[i] = ""
      BY <2>3
    <3>2. items' # <<>>
      <4> DOMAIN items' = 1..Len(items') /\ Len(items') \in Nat
        BY <2>4
      <4>1. i \in 1..Len(items')
        BY <3>1
      <4>2. Len(items') # 0
        BY <4>1
      <4>3. Len(<<>>) = 0
        OBVIOUS
      <4> QED BY <4>2, <4>3
    <3> QED BY <2>3, <3>1, <3>2 DEF Awaited
  <2> QED BY <2>2, <2>4, <2>5, <2>6 DEF Answering, Increasing
<1> QED BY <1>2, <1>3 DEF CallInv

LEMMA DetailKeeps ==
  ASSUME CallInv, NEW k \in DOMAIN answer, NEW result \in {"merged", "kept"}, DetailArrives(k, result)
  PROVE  CallInv'
<1>1. /\ phase = "enriching" /\ k \in Awaited /\ phase' \in {"enriching", "answered"}
      /\ def' = def /\ side' = side /\ items' = items
      /\ answer' = [answer EXCEPT ![k] = <<items[k].item, result>>]
      /\ phase' = "answered" => Awaited = {k}
  BY DEF DetailArrives
<1>2. LookupIsHarmless' /\ Sending'
  BY <1>1 DEF LookupIsHarmless, Sending, CallInv
<1>3. Answering'
  <2> SUFFICES ASSUME def.limit # -2 PROVE Answering'
    BY <1>1 DEF Answering
  <2>1. /\ items \in Seq(Items) /\ Increasing(items) /\ Len(items) <= Limit(side, def)
        /\ answer \in Seq(Answers) /\ Len(answer) = Len(items)
        /\ \A i \in DOMAIN answer : answer[i][1] = items[i].item \/ i \in Awaited
    BY <1>1 DEF CallInv, Answering
  <2>2. k \in 1..Len(answer) /\ <<items[k].item, result>> \in Answers
    <3>1. k \in 1..Len(answer) /\ k \in 1..Len(items)
      BY <2>1
    <3>2. items[k] \in Items
      BY <2>1, <3>1
    <3>3. items[k].item \in Nat
      BY <3>2 DEF Items
    <3> QED BY <3>1, <3>3 DEF Answers
  <2>3. answer' \in Seq(Answers) /\ Len(answer') = Len(answer)
    BY <1>1, <2>1, <2>2, ExceptSeq
  <2>4. ASSUME NEW i \in DOMAIN answer'
        PROVE  (phase' = "enriching" /\ i \in Awaited') \/ answer'[i][1] = items[i].item
    <3>1. i \in DOMAIN answer /\ DOMAIN answer' = DOMAIN answer
      BY <1>1
    <3>2. CASE i = k
      <4>1. answer'[i] = <<items[i].item, result>>
        BY <1>1, <3>1, <3>2
      <4> QED BY <4>1
    <3>3. CASE i # k
      <4>1. answer'[i] = answer[i]
        BY <1>1, <3>1, <3>3
      <4>2. i \in Awaited => i \in Awaited'
        BY <3>1, <4>1 DEF Awaited
      <4>3. i \in Awaited => phase' = "enriching"
        BY <1>1, <3>3
      <4> QED BY <2>1, <3>1, <4>1, <4>2, <4>3
    <3> QED BY <3>2, <3>3
  <2> QED BY <1>1, <2>1, <2>3, <2>4 DEF Answering, Increasing
<1> QED BY <1>2, <1>3 DEF CallInv

\* The conjunction is an invariant: no assumption is made on how many definitions,
\* inputs or responses there are, or in which order details arrive.
LEMMA CallInvHolds == CallSpec => []CallInv
<1>1. CallInit => CallInv
  BY DEF CallInit, CallInv, LookupIsHarmless, Sending, Answering
<1>2. CallInv /\ [CallNext]_callVars => CallInv'
  <2> SUFFICES ASSUME CallInv, [CallNext]_callVars PROVE CallInv'
    OBVIOUS
  <2>1. CASE UNCHANGED callVars
    BY <2>1 DEF callVars, CallInv, LookupIsHarmless, Sending, Answering, Awaited
  <2> QED BY <2>1, LookupKeeps, SendKeeps, ReceiveKeeps, DetailKeeps DEF CallNext
<1> QED BY <1>1, <1>2, PTL DEF CallSpec

\* The details of an answer are those of the items of the response, in their order and
\* up to the limit, for any response and whichever order they arrive in.
THEOREM AnswersAreFaithful == CallSpec => []AnswerIsFaithful
<1>1. CallInv => AnswerIsFaithful
  <2> SUFFICES ASSUME CallInv, phase = "answered", def.limit # -2
               PROVE  AnswerIsFaithful
    BY DEF AnswerIsFaithful
  <2> QED BY DEF CallInv, Answering, AnswerIsFaithful, Increasing
<1> QED BY <1>1, CallInvHolds, PTL

-----------------------------------------------------------------------------
(* ActionInterpreter: the request of an input.                             *)

\* Everything a definition names is a field, and its input has fields only.
LEMMA FieldsOnly ==
  ASSUME NEW d \in Definitions, NEW in \in Inputs(d)
  PROVE  /\ Placed(d) \subseteq Fields /\ DOMAIN d.props \subseteq Fields
         /\ NoField \notin Placed(d) /\ NoField \notin DOMAIN d.props /\ NoField \notin DOMAIN in
         /\ d.hasBody \in BOOLEAN
<1>1. /\ Placed(d) \subseteq Fields /\ DOMAIN d.props \subseteq Fields /\ d.hasBody \in BOOLEAN
  BY DefinitionsAssumption DEF Placed, Filled, Unfilled
<1>2. DOMAIN in \subseteq Relevant(d)
  BY DEF Inputs
<1> QED BY <1>1, <1>2, NoFieldAssumption DEF Relevant

\* An argument made of a field has the field's value.
LEMMA ArgumentsOfField ==
  ASSUME NEW s, NEW in, NoField \notin DOMAIN in, NEW d, NEW fields, NEW f \in DOMAIN in
  PROVE  \A a \in Arguments(s, d, in, fields) : a.from = f => a.value = in[f]
<1> SUFFICES ASSUME NEW a \in Arguments(s, d, in, fields), a.from = f
             PROVE  a.value = in[f]
  OBVIOUS
<1>1. f # NoField
  OBVIOUS
<1>2. PICK g \in fields : a = Argument(s, d, in, g)
  BY DEF Arguments
<1> QED BY <1>1, <1>2 DEF Argument

\* A field that is supplied is the source of its own mapping.
LEMMA FieldIsArgument ==
  ASSUME NEW s, NEW in, NoField \notin DOMAIN in, NEW d, NEW fields, NEW f \in DOMAIN in \cap fields
  PROVE  [from |-> f, how |-> How(s, d, f), value |-> in[f]] \in Arguments(s, d, in, fields)
<1>1. f # NoField /\ Source(s, d, in, f) = f
  BY DEF Source
<1>2. Argument(s, d, in, f) = [from |-> f, how |-> How(s, d, f), value |-> in[f]]
  BY <1>1 DEF Argument
<1> QED BY <1>1, <1>2 DEF Arguments

\* What an argument is made of: a mapping that names the field itself, or as its alias,
\* or whose default is used.
LEMMA ArgumentIsOf ==
  ASSUME NEW s, NEW d, NEW in, NoField \notin DOMAIN in, NEW fields, NEW a \in Arguments(s, d, in, fields)
  PROVE  \E g \in fields :
           /\ a = Argument(s, d, in, g)
           /\ \/ a.from = g /\ g \in DOMAIN in
              \/ a.from \in DOMAIN in /\ a.from # NoField /\ How(s, d, g).alias = a.from
              \/ a.from = NoField /\ HasDefault(s, How(s, d, g)) /\ a.value = How(s, d, g).default
<1>1. PICK g \in fields :
        /\ a = Argument(s, d, in, g)
        /\ Source(s, d, in, g) # NoField \/ HasDefault(s, How(s, d, g))
  BY DEF Arguments
<1>2. a.from = Source(s, d, in, g) /\ (a.from = NoField => a.value = How(s, d, g).default)
  BY <1>1 DEF Argument
<1>3. \/ g \in DOMAIN in /\ Source(s, d, in, g) = g
      \/ How(s, d, g).alias \in DOMAIN in /\ Source(s, d, in, g) = How(s, d, g).alias
      \/ Source(s, d, in, g) = NoField
  BY DEF Source
<1> QED BY <1>1, <1>2, <1>3

\* The two implementations make the same of texts and numbers, where they make a float a
\* parameter as well.
LEMMA ConversionsAgree ==
  /\ \A v \in {"text", "blank", "whole", "fraction"} :
       /\ Text("ts", v) = Text("py", v) /\ PathText("ts", v) = PathText("py", v)
       /\ Part("ts", v) = Part("py", v) /\ (PartApplies("ts", v) <=> PartApplies("py", v))
  /\ \A v \in {"text", "blank", "whole", "fraction", "float"} : Parameter("ts", v) = Parameter("py", v)
<1>1. ASSUME NEW v \in {"text", "blank", "whole", "fraction"}
      PROVE  Text("ts", v) = v /\ Text("py", v) = v
  BY DEF Text
<1>2. Parameter("ts", "float") = Parameter("py", "float")
  BY DEF Parameter
<1> QED BY <1>1, <1>2 DEF PathText, Parameter, Part, PartApplies

\* What one implementation maps, the other maps in the same way.
Undisputed(d, g) == g \notin AutoMapped("ts", d) \ AutoMapped("py", d)

LEMMA UndisputedAgree ==
  ASSUME NEW s \in Sides, NEW t \in Sides, NEW d, NEW in, NEW g, Undisputed(d, g)
  PROVE  /\ g \in AutoMapped(s, d) <=> g \in AutoMapped(t, d)
         /\ How(s, d, g) = How(t, d, g) /\ Source(s, d, in, g) = Source(t, d, in, g)
         /\ Argument(s, d, in, g) = Argument(t, d, in, g)
<1>1. \A how : SaysHow("py", how) => SaysHow("ts", how)
  BY DEF SaysHow, HasDefault
<1>2. AutoMapped("py", d) \subseteq AutoMapped("ts", d)
  BY <1>1 DEF AutoMapped
<1>3. g \in AutoMapped(s, d) <=> g \in AutoMapped(t, d)
  BY <1>2 DEF Undisputed, Sides
<1>4. How(s, d, g) = How(t, d, g)
  BY <1>3 DEF How
<1>5. Source(s, d, in, g) = Source(t, d, in, g)
  BY <1>4 DEF Source
<1> QED BY <1>3, <1>4, <1>5 DEF Argument

\* An alias, or a default that is not null, is a reason to map on either side.
LEMMA AliasOrDefault ==
  ASSUME NEW s \in Sides, NEW d \in Definitions, NEW g,
         \/ How(s, d, g).alias # NoField
         \/ HasDefault(s, How(s, d, g)) /\ How(s, d, g).default # "null"
  PROVE  /\ Undisputed(d, g) /\ g \in AutoMapped(s, d) /\ g \in AutoMapped("ts", d)
         /\ How(s, d, g) = d.props[g]
<1>1. g \in AutoMapped(s, d) /\ How(s, d, g) = d.props[g]
  BY DEF How, Plain, HasDefault
<1>2. g \in DOMAIN d.props \ Placed(d) /\ (d.props[g].alias # NoField \/ d.props[g].default \notin {"none", "null"})
  BY <1>1 DEF AutoMapped, HasDefault
<1>3. SaysHow("ts", d.props[g]) /\ SaysHow("py", d.props[g])
  BY <1>2 DEF SaysHow, HasDefault
<1>4. g \in AutoMapped("ts", d) /\ g \in AutoMapped("py", d)
  BY <1>2, <1>3 DEF AutoMapped
<1> QED BY <1>1, <1>4 DEF Undisputed

\* The fields mapped into a place: those named for it and, of the others that may go
\* there, those mapped automatically.
Into(s, d, named, others) == named \cup (others \cap AutoMapped(s, d))

NoNullDefault(d) == \A g \in AutoMapped("ts", d) : d.props[g].default # "null"

LEMMA ArgumentCrosses ==
  ASSUME NEW s \in Sides, NEW t \in Sides, NEW d \in Definitions, NEW in, NoField \notin DOMAIN in,
         NEW named, NEW others,
         NEW a \in Arguments(s, d, in, Into(s, d, named, others)),
         \/ a.from = NoField /\ NoNullDefault(d)
         \/ a.from \in DOMAIN in /\ Undisputed(d, a.from)
  PROVE  /\ a \in Arguments(t, d, in, Into(t, d, named, others))
         /\ a.from = NoField => \E g \in AutoMapped("ts", d) \cap Into(s, d, named, others) :
                                  a.value = d.props[g].default /\ HasDefault(s, d.props[g])
<1>1. PICK g \in Into(s, d, named, others) :
        /\ a = Argument(s, d, in, g)
        /\ \/ a.from = g /\ g \in DOMAIN in
           \/ a.from \in DOMAIN in /\ a.from # NoField /\ How(s, d, g).alias = a.from
           \/ a.from = NoField /\ HasDefault(s, How(s, d, g)) /\ a.value = How(s, d, g).default
  BY ArgumentIsOf
<1>2. ASSUME Undisputed(d, g), a.from # NoField \/ HasDefault(t, How(t, d, g))
      PROVE  a \in Arguments(t, d, in, Into(t, d, named, others))
  <2>1. /\ g \in AutoMapped(s, d) <=> g \in AutoMapped(t, d)
        /\ How(s, d, g) = How(t, d, g) /\ Source(s, d, in, g) = Source(t, d, in, g)
        /\ Argument(s, d, in, g) = Argument(t, d, in, g)
    BY <1>2, UndisputedAgree
  <2>2. g \in Into(t, d, named, others)
    BY <2>1 DEF Into
  <2>3. a.from = Source(s, d, in, g)
    BY <1>1 DEF Argument
  <2> QED BY <1>1, <1>2, <2>1, <2>2, <2>3 DEF Arguments
<1>3. CASE a.from = g /\ g \in DOMAIN in
  <2>1. a.from # NoField /\ Undisputed(d, g)
    BY <1>3
  <2> QED BY <1>2, <2>1
<1>4. CASE a.from \in DOMAIN in /\ a.from # NoField /\ How(s, d, g).alias = a.from
  <2>1. Undisputed(d, g)
    BY <1>4, AliasOrDefault
  <2> QED BY <1>2, <1>4, <2>1
<1>5. CASE a.from = NoField /\ HasDefault(s, How(s, d, g)) /\ a.value = How(s, d, g).default
  <2>1. NoNullDefault(d)
    BY <1>5
  <2>2. How(s, d, g) # Plain
    BY <1>5 DEF HasDefault, Plain
  <2>3. g \in AutoMapped(s, d) /\ How(s, d, g) = d.props[g]
    BY <2>2 DEF How
  <2>4. g \in AutoMapped("ts", d)
    <3>1. \A how : SaysHow("py", how) => SaysHow("ts", how)
      BY DEF SaysHow, HasDefault
    <3> QED BY <2>3, <3>1 DEF AutoMapped, Sides
  <2>5. d.props[g].default # "null"
    BY <2>1, <2>4 DEF NoNullDefault
  <2>6. Undisputed(d, g)
    BY <1>5, <2>3, <2>5, AliasOrDefault
  <2>7. How(t, d, g) = How(s, d, g)
    BY <2>6, UndisputedAgree
  <2>8. HasDefault(t, How(t, d, g))
    BY <1>5, <2>3, <2>5, <2>7 DEF HasDefault
  <2>9. a \in Arguments(t, d, in, Into(t, d, named, others))
    BY <1>2, <2>6, <2>8
  <2> QED BY <1>5, <2>3, <2>4, <2>9
<1> QED BY <1>1, <1>3, <1>4, <1>5

Numbers == {"text", "blank", "whole", "fraction"}

\* Of the input, the implementations differ in the values they convert differently, and
\* in the fields that one of them maps, only.
LEMMA SidesAgree ==
  ASSUME NEW d \in Definitions, NEW in \in Inputs(d), NEW s \in Sides, NEW t \in Sides,
         NEW e \in Request(s, d, in),
         \/ /\ e.from = NoField /\ NoNullDefault(d)
            /\ \A g \in AutoMapped("ts", d) : d.props[g].default = "true" => d.hasBody
         \/ /\ e.from \in DOMAIN in /\ Undisputed(d, e.from)
            /\ in[e.from] \in Numbers \/ (in[e.from] = "float" /\ e.from \notin d.path \cup d.parts)
  PROVE  e \in Request(t, d, in)
<1>1. /\ d.path \subseteq Placed(d) /\ d.parts \subseteq Placed(d) /\ d.params \subseteq Placed(d)
      /\ NoField \notin d.path /\ NoField \notin d.parts /\ NoField \notin DOMAIN in
      /\ d.hasBody \in BOOLEAN
  BY FieldsOnly DEF Placed, Filled
<1>2. /\ \A v \in Numbers :
           /\ PathText(s, v) = PathText(t, v) /\ Part(s, v) = Part(t, v)
           /\ PartApplies(s, v) <=> PartApplies(t, v)
      /\ \A v \in Numbers \cup {"float"} : Parameter(s, v) = Parameter(t, v)
  BY ConversionsAgree DEF Sides, Numbers
<1>3. CASE e \in Path(s, d, in)
  <2>1. PICK f \in d.path : e = Entry("path", "path", f, PathText(s, in[f]))
    BY <1>3 DEF Path
  <2>2. e.from = f
    BY <2>1 DEF Entry
  <2>3. PathText(s, in[f]) = PathText(t, in[f])
    BY <1>1, <1>2, <2>2
  <2> QED BY <2>1, <2>3 DEF Request, Path
<1>4. CASE e \in Body(s, d, in)
  <2>1. CASE \E f \in d.template \cap DOMAIN in : e = Entry("body", "template", f, in[f])
    BY <1>4, <2>1 DEF Request, Body
  <2>2. CASE \E a \in Arguments(s, d, in, d.json \cup AutoMapped(s, d)) : e = Entry("body", Kind(a), a.from, a.value)
    <3>1. PICK a \in Arguments(s, d, in, d.json \cup AutoMapped(s, d)) : e = Entry("body", Kind(a), a.from, a.value)
      BY <2>2
    <3>2. e.from = a.from
      BY <3>1 DEF Entry
    <3>3. /\ Into(s, d, d.json, DOMAIN d.props) = d.json \cup AutoMapped(s, d)
          /\ Into(t, d, d.json, DOMAIN d.props) = d.json \cup AutoMapped(t, d)
      BY DEF Into, AutoMapped
    <3>4. a \in Arguments(s, d, in, Into(s, d, d.json, DOMAIN d.props))
      BY <3>1, <3>3
    <3>5. (a.from = NoField /\ NoNullDefault(d)) \/ (a.from \in DOMAIN in /\ Undisputed(d, a.from))
      BY <3>2
    <3>6. a \in Arguments(t, d, in, Into(t, d, d.json, DOMAIN d.props))
      BY <1>1, <3>4, <3>5, ArgumentCrosses
    <3> QED BY <1>4, <3>1, <3>3, <3>6 DEF Request, Body
  <2> QED BY <1>4, <2>1, <2>2 DEF Body
<1>5. CASE e \in Query(s, d, in)
  <2> DEFINE Params(r) == d.params \cup (IF d.hasBody THEN {} ELSE AutoMapped(r, d))
  <2>1. CASE \E a \in Arguments(s, d, in, Params(s)) : e = Entry("query", "mapping", a.from, Parameter(s, a.value))
    <3>1. PICK a \in Arguments(s, d, in, Params(s)) : e = Entry("query", "mapping", a.from, Parameter(s, a.value))
      BY <2>1
    <3>2. e.from = a.from
      BY <3>1 DEF Entry
    <3> DEFINE others == IF d.hasBody THEN {} ELSE DOMAIN d.props
    <3>3. Into(s, d, d.params, others) = Params(s) /\ Into(t, d, d.params, others) = Params(t)
      BY <1>1 DEF Into, AutoMapped
    <3> HIDE DEF Params
    <3>4. a \in Arguments(s, d, in, Into(s, d, d.params, others))
      BY <3>1, <3>3
    <3> (a.from = NoField /\ NoNullDefault(d)) \/ (a.from \in DOMAIN in /\ Undisputed(d, a.from))
      BY <3>2
    <3>5. /\ a \in Arguments(t, d, in, Into(t, d, d.params, others))
          /\ a.from = NoField => \E g \in AutoMapped("ts", d) \cap Into(s, d, d.params, others) :
                                   a.value = d.props[g].default /\ HasDefault(s, d.props[g])
      BY <1>1, <3>4, ArgumentCrosses
    <3>6. a.value \in Numbers \cup {"float"}
      <4>1. CASE a.from = NoField
        <5>1. PICK g \in AutoMapped("ts", d) \cap Into(s, d, d.params, others) :
                a.value = d.props[g].default /\ HasDefault(s, d.props[g])
          BY <3>5, <4>1
        <5>2. g \in DOMAIN d.props /\ g \notin Placed(d)
          BY <5>1 DEF AutoMapped
        <5>3. d.props[g].default \in {"none", "text", "true", "null"}
          BY <5>2, DefinitionsAssumption DEF Meta
        <5>4. ~d.hasBody
          BY <1>1, <5>1, <5>2 DEF Into
        <5>5. d.props[g].default \notin {"none", "null", "true"}
          BY <1>1, <3>2, <4>1, <5>1, <5>4 DEF HasDefault, NoNullDefault
        <5> QED BY <5>1, <5>3, <5>5 DEF Numbers
      <4>2. CASE a.from \in DOMAIN in
        <5>1. \A b \in Arguments(s, d, in, Params(s)) : b.from = a.from => b.value = in[a.from]
          BY <1>1, <4>2, ArgumentsOfField
        <5>2. a.value = in[a.from] /\ a.from # NoField
          BY <1>1, <3>1, <4>2, <5>1
        <5> QED BY <3>2, <5>2
      <4> QED BY <3>2, <4>1, <4>2
    <3>7. Parameter(s, a.value) = Parameter(t, a.value)
      BY <1>2, <3>6
    <3>8. \E b \in Arguments(t, d, in, Params(t)) : e = Entry("query", "mapping", b.from, Parameter(t, b.value))
      BY <3>1, <3>3, <3>5, <3>7
    <3> QED BY <3>8 DEF Request, Query, Params
  <2>2. CASE \E f \in d.parts \cap DOMAIN in : PartApplies(s, in[f]) /\ e = Entry("query", "part", f, Part(s, in[f]))
    <3>1. PICK f \in d.parts \cap DOMAIN in : PartApplies(s, in[f]) /\ e = Entry("query", "part", f, Part(s, in[f]))
      BY <2>2
    <3>2. e.from = f
      BY <3>1 DEF Entry
    <3>3. in[f] \in Numbers
      BY <1>1, <3>1, <3>2
    <3>4. Part(s, in[f]) = Part(t, in[f]) /\ PartApplies(t, in[f])
      BY <1>2, <3>1, <3>3
    <3> QED BY <3>1, <3>4 DEF Request, Query
  <2> QED BY <1>5, <2>1, <2>2 DEF Query
<1> QED BY <1>3, <1>4, <1>5 DEF Request

LEMMA PortAgreesAlways ==
  ASSUME def \in Definitions, input \in Inputs(def)
  PROVE  PortAgrees
<1> "ts" \in Sides /\ "py" \in Sides
  BY DEF Sides
<1>1. NoField \notin DOMAIN input
  BY FieldsOnly
<1>2. ASSUME NEW f \in DOMAIN input \ OneSided, Alike(f)
      PROVE  {e \in Request("ts", def, input) : e.from = f} = {e \in Request("py", def, input) : e.from = f}
  <2>1. Undisputed(def, f)
    BY DEF Undisputed, OneSided
  <2>2. input[f] \in Numbers \/ (input[f] = "float" /\ f \notin def.path \cup def.parts)
    BY <1>2 DEF Alike, Numbers
  <2> QED BY <2>1, <2>2, SidesAgree
<1>3. ASSUME \A g \in AutoMapped("ts", def) :
               def.props[g].default # "null" /\ (def.props[g].default = "true" => def.hasBody)
      PROVE  {e \in Request("ts", def, input) : e.from = NoField} = {e \in Request("py", def, input) : e.from = NoField}
  <2>1. NoNullDefault(def) /\ \A g \in AutoMapped("ts", def) : def.props[g].default = "true" => def.hasBody
    BY <1>3 DEF NoNullDefault
  <2> QED BY <2>1, SidesAgree
<1> QED BY <1>2, <1>3 DEF PortAgrees

\* A field that is offered and supplied, and that has a place where it can be sent,
\* reaches the provider.
LEMMA FieldIsSent ==
  ASSUME NEW s, NEW d \in Definitions, NEW in \in Inputs(d), NEW f \in DOMAIN in \cap Offered(d),
         f \in d.parts => PartApplies(s, in[f]),
         f \notin Placed(d) => SaysHow(s, d.props[f]),
         f \notin Unfilled(d),
         f \in d.template \cup d.json => d.hasBody
  PROVE  \E e \in Request(s, d, in) : e.from = f
<1>1. NoField \notin DOMAIN in
  BY FieldsOnly
<1>2. CASE f \in d.path
  <2>1. Entry("path", "path", f, PathText(s, in[f])) \in Request(s, d, in)
    BY <1>2 DEF Request, Path
  <2> QED BY <2>1 DEF Entry
<1>3. CASE f \in d.parts
  <2>1. Entry("query", "part", f, Part(s, in[f])) \in Request(s, d, in)
    BY <1>3 DEF Request, Query
  <2> QED BY <2>1 DEF Entry
<1>4. CASE f \in d.template
  <2>1. Entry("body", "template", f, in[f]) \in Request(s, d, in)
    BY <1>4 DEF Request, Body
  <2> QED BY <2>1 DEF Entry
<1> DEFINE Params == d.params \cup (IF d.hasBody THEN {} ELSE AutoMapped(s, d))
           Json == d.json \cup AutoMapped(s, d)
           arg == [from |-> f, how |-> How(s, d, f), value |-> in[f]]
<1>5. CASE f \in Params
  <2>1. arg \in Arguments(s, d, in, Params)
    BY <1>1, <1>5, FieldIsArgument
  <2>2. Entry("query", "mapping", arg.from, Parameter(s, arg.value)) \in Request(s, d, in)
    BY <2>1 DEF Request, Query
  <2> QED BY <2>2 DEF Entry
<1>6. CASE f \in Json /\ d.hasBody
  <2>1. arg \in Arguments(s, d, in, Json)
    BY <1>1, <1>6, FieldIsArgument
  <2>2. Entry("body", Kind(arg), arg.from, arg.value) \in Request(s, d, in)
    BY <1>6, <2>1 DEF Request, Body
  <2> QED BY <2>2 DEF Entry
<1>7. f \in Placed(d) \/ f \in AutoMapped(s, d)
  BY DEF Offered, AutoMapped, Placed, Filled, Unfilled
<1> QED BY <1>2, <1>3, <1>4, <1>5, <1>6, <1>7 DEF Placed, Filled

\* A set all of whose members are equal has at most one.
LEMMA AtMostOne ==
  ASSUME NEW S, \A x, y \in S : x = y
  PROVE  Cardinality(S) <= 1
<1>1. CASE S = {}
  BY <1>1, FS_EmptySet
<1>2. ASSUME NEW x \in S
      PROVE  Cardinality(S) <= 1
  <2>1. S = {x}
    OBVIOUS
  <2> QED BY <2>1, FS_Singleton
<1> QED BY <1>1, <1>2

\* A set with two members has more than one.
LEMMA MoreThanOne ==
  ASSUME NEW S \in SUBSET (1..5), NEW x \in S, NEW y \in S, x # y
  PROVE  Cardinality(S) > 1
<1>1. IsFiniteSet(S) /\ Cardinality(S) \in Nat
  <2>1. S \in SUBSET Nat /\ \A z \in S : z <= 5
    OBVIOUS
  <2>2. IsFiniteSet(S)
    BY <2>1, FS_BoundedSetOfNaturals
  <2> QED BY <2>2, FS_CardinalityType
<1>2. Cardinality(S) # 0 /\ Cardinality(S) # 1
  BY <1>1, FS_EmptySet, FS_Singleton
<1> QED BY <1>1, <1>2

Aliased(d, f) == \E g \in DOMAIN d.props : d.props[g].alias = f

\* A field that no alias names is what is mapped only as itself, and so once.
LEMMA OwnArgument ==
  ASSUME NEW s, NEW d, NEW in, NoField \notin DOMAIN in, NEW fields, NEW f \in DOMAIN in, ~ Aliased(d, f)
  PROVE  \A a \in Arguments(s, d, in, fields) : a.from = f =>
           f \in fields /\ a.how = How(s, d, f) /\ a.value = in[f]
<1> SUFFICES ASSUME NEW a \in Arguments(s, d, in, fields), a.from = f
             PROVE  f \in fields /\ a.how = How(s, d, f) /\ a.value = in[f]
  OBVIOUS
<1>1. PICK g \in fields : a = Argument(s, d, in, g)
  BY DEF Arguments
<1>2. Source(s, d, in, g) = f /\ f # NoField
  BY <1>1 DEF Argument
<1>3. How(s, d, g).alias # f
  BY <1>2 DEF Aliased, How, AutoMapped, Plain
<1>4. g = f
  BY <1>2, <1>3 DEF Source
<1> QED BY <1>1, <1>2, <1>4 DEF Argument

\* A copy of a field that no alias names, by the place it comes from.
Origin(d, in, s, f, p, e) ==
  LET mapped == IF How(s, d, f).wrap /\ in[f] \notin Lists THEN "wrapped" ELSE "mapping" IN
    \/ p = 1 /\ f \in d.path /\ e = Entry("path", "path", f, PathText(s, in[f]))
    \/ p = 2 /\ f \in d.parts /\ e = Entry("query", "part", f, Part(s, in[f]))
    \/ p = 3 /\ f \in d.params /\ e = Entry("query", "mapping", f, Parameter(s, in[f]))
    \/ p = 4 /\ f \in d.template /\ e = Entry("body", "template", f, in[f])
    \/ p = 5 /\ f \in d.json /\ e = Entry("body", mapped, f, in[f])
    \/ p = 6 /\ f \in AutoMapped(s, d) /\ ~d.hasBody /\ e = Entry("query", "mapping", f, Parameter(s, in[f]))
    \/ p = 7 /\ f \in AutoMapped(s, d) /\ d.hasBody /\ e = Entry("body", mapped, f, in[f])

LEMMA CopyHasOrigin ==
  ASSUME NEW s, NEW d \in Definitions, NEW in \in Inputs(d), NEW f \in DOMAIN in, ~ Aliased(d, f),
         NEW e \in Request(s, d, in), e.from = f
  PROVE  \E p \in 1..7 : Origin(d, in, s, f, p, e)
<1> DEFINE Params == d.params \cup (IF d.hasBody THEN {} ELSE AutoMapped(s, d))
           Json == d.json \cup AutoMapped(s, d)
<1>1. NoField \notin DOMAIN in /\ d.hasBody \in BOOLEAN
  BY FieldsOnly
<1>2. CASE e \in Path(s, d, in)
  <2>1. Origin(d, in, s, f, 1, e)
    BY <1>2 DEF Path, Entry, Origin
  <2> QED BY <2>1
<1>3. CASE \E g \in d.parts \cap DOMAIN in : e = Entry("query", "part", g, Part(s, in[g]))
  <2>1. Origin(d, in, s, f, 2, e)
    BY <1>3 DEF Entry, Origin
  <2> QED BY <2>1
<1>4. CASE \E g \in d.template \cap DOMAIN in : e = Entry("body", "template", g, in[g])
  <2>1. Origin(d, in, s, f, 4, e)
    BY <1>4 DEF Entry, Origin
  <2> QED BY <2>1
<1>5. CASE \E a \in Arguments(s, d, in, Params) : e = Entry("query", "mapping", a.from, Parameter(s, a.value))
  <2>1. PICK a \in Arguments(s, d, in, Params) : e = Entry("query", "mapping", a.from, Parameter(s, a.value))
    BY <1>5
  <2>2. a.from = f
    BY <2>1 DEF Entry
  <2>3. f \in Params /\ a.how = How(s, d, f) /\ a.value = in[f]
    <3> HIDE DEF Params
    <3>1. \A b \in Arguments(s, d, in, Params) : b.from = f =>
            f \in Params /\ b.how = How(s, d, f) /\ b.value = in[f]
      BY <1>1, OwnArgument
    <3> QED BY <2>2, <3>1
  <2>4. e = Entry("query", "mapping", f, Parameter(s, in[f]))
    BY <2>1, <2>2, <2>3
  <2>5. Origin(d, in, s, f, 3, e) \/ Origin(d, in, s, f, 6, e)
    BY <2>3, <2>4 DEF Origin
  <2> QED BY <2>5
<1>6. CASE d.hasBody /\ \E a \in Arguments(s, d, in, Json) :
             e = Entry("body", Kind(a), a.from, a.value)
  <2>1. PICK a \in Arguments(s, d, in, Json) :
          e = Entry("body", Kind(a), a.from, a.value)
    BY <1>6
  <2>2. a.from = f
    BY <2>1 DEF Entry
  <2>3. f \in Json /\ a.how = How(s, d, f) /\ a.value = in[f]
    <3> HIDE DEF Json
    <3>1. \A b \in Arguments(s, d, in, Json) : b.from = f =>
            f \in Json /\ b.how = How(s, d, f) /\ b.value = in[f]
      BY <1>1, OwnArgument
    <3> QED BY <2>2, <3>1
  <2>4. e = Entry("body", IF How(s, d, f).wrap /\ in[f] \notin Lists THEN "wrapped" ELSE "mapping", f, in[f])
    BY <1>1, <2>1, <2>2, <2>3 DEF Kind
  <2>5. Origin(d, in, s, f, 5, e) \/ Origin(d, in, s, f, 7, e)
    BY <1>6, <2>3, <2>4 DEF Origin
  <2> QED BY <2>5
<1> QED BY <1>2, <1>3, <1>4, <1>5, <1>6 DEF Request, Query, Body

\* A field in at most one place, that no alias names, is sent at most once.
LEMMA FieldIsSentOnce ==
  ASSUME def \in Definitions, input \in Inputs(def), NEW f \in DOMAIN input,
         ~ Cardinality(Places(f)) > 1, ~ Aliased(def, f)
  PROVE  Cardinality(Copies(f)) <= 1
<1>1. Places(f) \in SUBSET (1..5)
  BY DEF Places
<1>2. \A p, q \in Places(f) : p = q
  BY <1>1, MoreThanOne
<1>3. /\ f \in def.path <=> 1 \in Places(f)
      /\ f \in def.parts <=> 2 \in Places(f)
      /\ f \in def.params <=> 3 \in Places(f)
      /\ f \in def.template <=> 4 \in Places(f)
      /\ f \in def.json <=> 5 \in Places(f)
  BY DEF Places
<1>4. f \in AutoMapped(side, def) => Places(f) = {}
  BY <1>1, <1>3 DEF AutoMapped, Placed, Filled
<1>5. ASSUME NEW x \in Copies(f), NEW y \in Copies(f)
      PROVE  x = y
  <2>1. /\ \E p \in 1..7 : Origin(def, input, side, f, p, x)
        /\ \E q \in 1..7 : Origin(def, input, side, f, q, y)
    BY CopyHasOrigin DEF Copies
  <2>2. PICK p \in 1..7, q \in 1..7 : Origin(def, input, side, f, p, x) /\ Origin(def, input, side, f, q, y)
    BY <2>1
  <2>3. p = q
    <3>1. \A r \in 1..7, e \in {x, y} : Origin(def, input, side, f, r, e) =>
            \/ r \in Places(f)
            \/ f \in AutoMapped(side, def) /\ r \in {6, 7} /\ (def.hasBody <=> r = 7)
      <4> SUFFICES ASSUME NEW r \in 1..7, NEW e \in {x, y}, Origin(def, input, side, f, r, e)
                   PROVE  \/ r \in Places(f)
                          \/ f \in AutoMapped(side, def) /\ r \in {6, 7} /\ (def.hasBody <=> r = 7)
        OBVIOUS
      <4> QED BY <1>3 DEF Origin
    <3>2. /\ p \in Places(f) \/ (f \in AutoMapped(side, def) /\ p \in {6, 7} /\ (def.hasBody <=> p = 7))
          /\ q \in Places(f) \/ (f \in AutoMapped(side, def) /\ q \in {6, 7} /\ (def.hasBody <=> q = 7))
      BY <2>2, <3>1
    <3> QED BY <1>2, <1>4, <3>1, <3>2
  <2> QED BY <2>2, <2>3 DEF Origin
<1> QED BY <1>5, AtMostOne

\* A name finds its own action, or one it is an alias of, or a search; and for any
\* definitions and inputs an offered field that is supplied, and that the definition or
\* its property gives a place, is sent, once, and but for the named conversions alike by
\* the original and by its port.
THEOREM RequestsAreFaithful == CallSpec => []RequestIsFaithful
<1>1. CallInv => RequestIsFaithful
  <2> SUFFICES ASSUME CallInv PROVE RequestIsFaithful
    OBVIOUS
  <2>1. ASSUME phase = "sent"
        PROVE  PortAgrees /\ \A f \in DOMAIN input \cap Offered(def) : SentOnce(f)
    <3>1. def \in Definitions /\ input \in Inputs(def)
      BY <2>1 DEF CallInv, Sending
    <3>2. ASSUME NEW f \in DOMAIN input \cap Offered(def)
          PROVE  SentOnce(f)
      <4>1. \/ Copies(f) # {}
            \/ f \in def.parts /\ ~PartApplies(side, input[f])
            \/ f \notin Placed(def) /\ ~SaysHow(side, def.props[f])
            \/ f \in BodyPlaces /\ ~def.hasBody
            \/ f \in Unfilled(def)
        BY <3>1, FieldIsSent DEF Copies, BodyPlaces
      <4>2. \/ Cardinality(Copies(f)) <= 1
            \/ Cardinality(Places(f)) > 1
            \/ \E g \in DOMAIN def.props : def.props[g].alias = f
        BY <3>1, FieldIsSentOnce DEF Aliased
      <4> QED BY <4>1, <4>2 DEF SentOnce
    <3> QED BY <3>1, <3>2, PortAgreesAlways
  <2>2. ASSUME phase = "failed"
        PROVE  PathFails("ts", def, input) \/ \E f \in def.path : input[f] = "empty list"
    <3>1. PathFails(side, def, input)
      BY <2>2 DEF CallInv, Sending
    <3> QED BY <3>1 DEF PathFails
  <2> QED BY <2>1, <2>2 DEF CallInv, RequestIsFaithful
<1> QED BY <1>1, CallInvHolds, PTL
=============================================================================
