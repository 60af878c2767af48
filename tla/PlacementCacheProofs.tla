------------------------ MODULE PlacementCacheProofs ------------------------
(***************************************************************************)
(* What the pod informer's cache shows, for all pods, nodes, policies and  *)
(* bounds: although the plugin writes into the objects of the cache, and   *)
(* before it knows whether its update is accepted, the cache agrees with   *)
(* the API server when nothing is under way, but for the annotations that  *)
(* a lost call left in it.                                                 *)
(***************************************************************************)
EXTENDS PlacementPolicyProofs, FiniteSetTheorems

---------------------------------------------------------------------------
(* The inductive invariant *)

\* The last event on its way for a pod tells what is stored.
LastEventTells ==
    \A i \in 1..Len(watch) :
        (\A j \in 1..Len(watch) : watch[j].pod = watch[i].pod => j <= i) =>
            watch[i].obj = api[watch[i].pod]

NothingOnItsWay(p) == \A i \in 1..Len(watch) : watch[i].pod # p

\* The plugin has written into the cached object of p, and its call is out.
Scribbled(p) == cycle.pod = p /\ cycle.shared /\ cycle.at \in DOMAIN AfterAnnotate

\* The cached object of p is the stored one, but for annotations.
CachedBut(p) == cache[p] = api[p] \/ OnlyAnnotationsDiffer(cache[p], api[p])

\* A pod of which nothing is on its way is cached as it is stored, but for
\* annotations: those of a call that is out, and that will be accepted, and
\* those of calls that were lost.
CachedAsStored ==
    \A p \in Pods :
        NothingOnItsWay(p) =>
            IF Scribbled(p)
            THEN api[p] # Nil /\ cache[p] = Annotated(api[p], cycle.policy, cycle.obj.pref)
            ELSE CachedBut(p)

\* The pods whose cached annotations no call or event that is out accounts for.
Astray == {p \in Pods : NothingOnItsWay(p) /\ ~Scribbled(p) /\ cache[p] # api[p]}

\* Each of them cost a lost call.
FewAstray == Cardinality(Astray) <= spent["fault"]

\* This is so while the process runs; before that, nothing is on its way.
CInv ==
    IF cycle.at = "down" THEN watch = << >>
    ELSE LastEventTells /\ CachedAsStored /\ FewAstray

\* The disturbances are counted up.
FaultsGrow == spent' \in [Disturbances -> Nat] /\ spent'["fault"] >= spent["fault"]

\* No pod goes astray.
LEMMA FewStay ==
    ASSUME TypeOK, FewAstray, FaultsGrow, Astray' \subseteq Astray
    PROVE  FewAstray'
<1>1. IsFiniteSet(Astray)
  BY ConstantsAssumption, FS_Subset DEF Astray
<1>2. Cardinality(Astray') <= Cardinality(Astray)
  BY <1>1, FS_Subset
<1>3. Cardinality(Astray') \in Nat /\ Cardinality(Astray) \in Nat
  BY <1>1, FS_Subset, FS_CardinalityType
<1>4. spent["fault"] \in Nat /\ spent'["fault"] \in Nat
  BY DEF TypeOK, FaultsGrow, Disturbances
<1> QED
  BY <1>2, <1>3, <1>4 DEF FewAstray, FaultsGrow

\* A lost call leads one pod astray.
LEMMA OneMoreAstray ==
    ASSUME TypeOK, FewAstray, spent'["fault"] = spent["fault"] + 1,
           NEW p, Astray' \subseteq Astray \union {p}
    PROVE  FewAstray'
<1>1. IsFiniteSet(Astray)
  BY ConstantsAssumption, FS_Subset DEF Astray
<1>2. Cardinality(Astray) \in Nat /\ spent["fault"] \in Nat
  BY <1>1, FS_CardinalityType DEF TypeOK, Disturbances
<1>3. /\ IsFiniteSet(Astray \union {p})
      /\ Cardinality(Astray \union {p}) <= Cardinality(Astray) + 1
  <2>1. /\ IsFiniteSet(Astray \union {p})
        /\ Cardinality(Astray \union {p}) =
              IF p \in Astray THEN Cardinality(Astray) ELSE Cardinality(Astray) + 1
    BY <1>1, FS_AddElement
  <2> QED
    BY <1>2, <2>1
<1>4. /\ Cardinality(Astray') <= Cardinality(Astray \union {p})
      /\ Cardinality(Astray') \in Nat /\ Cardinality(Astray \union {p}) \in Nat
  BY <1>3, FS_Subset, FS_CardinalityType
<1> QED
  BY <1>2, <1>3, <1>4 DEF FewAstray

---------------------------------------------------------------------------
(* The watch *)

LEMMA EventsTyped ==
    ASSUME TypeOK
    PROVE  /\ Len(watch) \in Nat
           /\ \A i \in 1..Len(watch) : watch[i].pod \in Pods /\ watch[i].obj \in Object \union {Nil}
<1> DEFINE E == [pod : Pods, obj : Object \union {Nil}]
<1>1. watch \in Seq(E)
  BY DEF TypeOK
<1> HIDE DEF E
<1>2. Len(watch) \in Nat /\ \A i \in 1..Len(watch) : watch[i] \in E
  BY <1>1
<1> QED
  BY <1>2 DEF E

\* One more event.
LEMMA OneMoreEvent ==
    ASSUME TypeOK, NEW p \in Pods, NEW o \in Object \union {Nil},
           watch' = Append(watch, [pod |-> p, obj |-> o])
    PROVE  /\ Len(watch') = Len(watch) + 1
           /\ \A i \in 1..Len(watch) : watch'[i] = watch[i]
           /\ watch'[Len(watch) + 1].pod = p
           /\ watch'[Len(watch) + 1].obj = o
<1> DEFINE E == [pod : Pods, obj : Object \union {Nil}]
           e == [pod |-> p, obj |-> o]
<1>1. watch \in Seq(E) /\ e \in E /\ e.pod = p /\ e.obj = o
  BY DEF TypeOK
<1>2. watch' = Append(watch, e)
  OBVIOUS
<1> HIDE DEF E, e
<1> QED
  BY <1>1, <1>2

\* A change of p that the watch tells of: the last event of every pod tells what
\* is stored, and something is on its way for p.
LEMMA ToldChange ==
    ASSUME TypeOK, NEW p \in Pods, NEW o \in Object \union {Nil}, LastEventTells,
           api' = [api EXCEPT ![p] = o], watch' = Append(watch, [pod |-> p, obj |-> o])
    PROVE  /\ LastEventTells'
           /\ \A q \in Pods : NothingOnItsWay(q)' => q # p /\ NothingOnItsWay(q) /\ api'[q] = api[q]
<1> DEFINE n == Len(watch)
<1>1. n \in Nat /\ \A i \in 1..n : watch[i].pod \in Pods
  BY EventsTyped
<1>2. /\ Len(watch') = n + 1
      /\ \A i \in 1..n : watch'[i] = watch[i]
      /\ watch'[n + 1].pod = p /\ watch'[n + 1].obj = o
  BY OneMoreEvent
<1>3. api'[p] = o /\ \A q \in Pods : q # p => api'[q] = api[q]
  BY DEF TypeOK
<1> HIDE DEF n
<1>4. ASSUME NEW i \in 1..(n + 1),
             \A j \in 1..(n + 1) : watch'[j].pod = watch'[i].pod => j <= i
      PROVE  watch'[i].obj = api'[watch'[i].pod]
  <2>1. CASE i = n + 1
    BY <1>2, <1>3, <2>1
  <2>2. CASE i \in 1..n
    <3>1. watch[i].pod # p
      BY <1>1, <1>2, <1>4, <2>2
    <3>2. \A j \in 1..n : watch[j].pod = watch[i].pod => j <= i
      BY <1>1, <1>2, <1>4, <2>2
    <3>3. watch[i].obj = api[watch[i].pod]
      BY <2>2, <3>2 DEF LastEventTells, n
    <3> QED
      BY <1>1, <1>2, <1>3, <2>2, <3>1, <3>3
  <2>3. i = n + 1 \/ i \in 1..n
    BY <1>1
  <2> QED
    BY <2>1, <2>2, <2>3
<1>5. LastEventTells'
  BY <1>2, <1>4 DEF LastEventTells
<1>6. ASSUME NEW q \in Pods, NothingOnItsWay(q)'
      PROVE  q # p /\ NothingOnItsWay(q) /\ api'[q] = api[q]
  <2>1. \A i \in 1..(n + 1) : watch'[i].pod # q
    BY <1>2, <1>6 DEF NothingOnItsWay
  <2>2. q # p
    BY <1>1, <1>2, <2>1
  <2>3. \A i \in 1..n : watch[i].pod # q
    BY <1>1, <1>2, <2>1
  <2> QED
    BY <1>3, <2>2, <2>3 DEF NothingOnItsWay, n
<1> QED
  BY <1>5, <1>6

---------------------------------------------------------------------------
(* The steps *)

\* The process is up before and after the step, and a call that is out stays out.
CyclesQuietly ==
    \/ cycle' = cycle
    \/ /\ cycle.at # "down" /\ cycle'.at # "down"
       /\ \A q \in Pods : ~Scribbled(q) /\ ~Scribbled(q)'

\* A change of the store that the watch tells of keeps the invariant.
LEMMA StoreKeepsCache ==
    ASSUME TypeOK, CInv, NEW p \in Pods, NEW o \in Object \union {Nil}, Store(p, o),
           CyclesQuietly \/ (cycle.pod = p /\ cycle'.pod = p /\ cycle.at # "down" /\ cycle'.at # "down"),
           cache' = cache, FaultsGrow
    PROVE  CInv'
<1>1. api' = [api EXCEPT ![p] = o]
  BY DEF Store
<1>2. CASE cycle.at = "down"
  BY <1>2 DEF Store, CInv, CyclesQuietly
<1>3. CASE cycle.at # "down"
  <2>1. watch' = Append(watch, [pod |-> p, obj |-> o])
    BY <1>3 DEF Store
  <2>2. LastEventTells /\ CachedAsStored /\ FewAstray
    BY <1>3 DEF CInv
  <2>3. /\ LastEventTells'
        /\ \A q \in Pods : NothingOnItsWay(q)' => q # p /\ NothingOnItsWay(q) /\ api'[q] = api[q]
    BY <1>1, <2>1, <2>2, ToldChange
  <2>4. \A q \in Pods : q # p =>
            \/ ~Scribbled(q) /\ ~Scribbled(q)'
            \/ cycle' = cycle
    BY DEF CyclesQuietly, Scribbled
  <2>5. CachedAsStored'
    BY <2>2, <2>3, <2>4 DEF CachedAsStored, CachedBut, Scribbled
  <2>6. cycle'.at # "down"
    BY <1>3 DEF CyclesQuietly
  <2>7. Astray' \subseteq Astray
    BY <2>3, <2>4 DEF Astray, Scribbled
  <2>8. FewAstray'
    BY <2>2, <2>7, FewStay
  <2> QED
    BY <2>3, <2>5, <2>6, <2>8 DEF CInv
<1> QED
  BY <1>2, <1>3

\* So does a step that changes none of store, watch and cache.
LEMMA QuietKeepsCache ==
    ASSUME TypeOK, CInv, CyclesQuietly, UNCHANGED <<api, watch, cache>>, FaultsGrow
    PROVE  CInv'
<1>1. \A q \in Pods : NothingOnItsWay(q)' <=> NothingOnItsWay(q)
  BY DEF NothingOnItsWay
<1>2. LastEventTells => LastEventTells'
  BY DEF LastEventTells
<1>3. \A q \in Pods : Scribbled(q)' <=> Scribbled(q)
  BY DEF CyclesQuietly, Scribbled
<1>4. CachedAsStored => CachedAsStored'
  BY <1>1, <1>3 DEF CachedAsStored, CachedBut, CyclesQuietly
<1>5. FewAstray => FewAstray'
  <2>1. Astray' \subseteq Astray
    BY <1>1, <1>3 DEF Astray
  <2> QED
    BY <2>1, FewStay
<1>6. cycle.at = "down" <=> cycle'.at = "down"
  BY DEF CyclesQuietly
<1> QED
  BY <1>2, <1>4, <1>5, <1>6 DEF CInv

\* Faults are counted.
LEMMA FaultsCount ==
    ASSUME TypeOK, NEW d \in Disturbances, Disturb(d)
    PROVE  FaultsGrow /\ (d = "fault" => spent'["fault"] = spent["fault"] + 1)
BY DEF TypeOK, Disturb, Disturbances, FaultsGrow

LEMMA NoFault == ASSUME TypeOK, spent' = spent PROVE FaultsGrow
BY DEF TypeOK, FaultsGrow, Disturbances

LEMMA UsersKeepCache == ASSUME TypeOK, CInv, Users PROVE CInv'
<1>1. ASSUME NEW p \in Pods, CreatePod(p) PROVE CInv'
  <2> DEFINE o == [rv |-> 1, pref |-> "", by |-> "", node |-> Nil]
  <2>1. o \in Object
    BY DEF Object, Preferences
  <2>2. Store(p, o) /\ UNCHANGED <<cache, cycle, spent>>
    BY <1>1 DEF CreatePod
  <2> HIDE DEF o
  <2> QED
    BY <2>1, <2>2, NoFault, StoreKeepsCache DEF CyclesQuietly
<1>2. ASSUME NEW p \in Pods, TouchPod(p) PROVE CInv'
  <2>1. NextVersion(api[p]) \in Object
    BY <1>2, NextVersionType DEF TouchPod, TypeOK
  <2> QED
    BY <1>2, <2>1, FaultsCount, StoreKeepsCache DEF TouchPod, CyclesQuietly, Disturbances
<1>3. ASSUME NEW p \in Pods, DeletePod(p) PROVE CInv'
  BY <1>3, FaultsCount, StoreKeepsCache DEF DeletePod, CyclesQuietly, Disturbances
<1> QED
  BY <1>1, <1>2, <1>3 DEF Users

\* Patching the status of a failed pod, in a cycle that no call is out of.
LEMMA PatchKeepsCache ==
    ASSUME TypeOK, CInv, NEW p \in Pods, PatchStatus(p), CyclesQuietly, cache' = cache
    PROVE  CInv'
<1>1. CASE UNCHANGED <<api, watch, spent>>
  BY <1>1, NoFault, QuietKeepsCache
<1>2. CASE api[p] # Nil /\ Disturb("patch") /\ Store(p, NextVersion(api[p]))
  <2>1. NextVersion(api[p]) \in Object
    BY <1>2, NextVersionType DEF TypeOK
  <2> QED
    BY <1>2, <2>1, FaultsCount, StoreKeepsCache DEF Disturbances
<1> QED
  BY <1>1, <1>2 DEF PatchStatus

\* The binding is stored, or nothing happens to the store.
LEMMA BindKeepsCache ==
    ASSUME TypeOK, CInv, NEW p \in Pods, Bind(p) \/ BindLost(p)
    PROVE  CInv'
<1>1. /\ UNCHANGED <<cache, cycle>>
      /\ FaultsGrow
      /\ UNCHANGED <<api, watch>> \/ (BindAccepted(p) /\ StoreBinding(p))
  BY FaultsCount, NoFault DEF Bind, BindLost, Disturbances
<1>2. CASE UNCHANGED <<api, watch>>
  BY <1>1, <1>2, QuietKeepsCache DEF CyclesQuietly
<1>3. CASE BindAccepted(p) /\ StoreBinding(p)
  <2> DEFINE o == [api[p] EXCEPT !.node = assumed[p]]
  <2>1. api[p] \in Object /\ assumed[p] \in Nodes \union {Nil}
    BY <1>3 DEF TypeOK, BindAccepted
  <2>2. o \in Object
    BY <2>1 DEF Object
  <2>3. Store(p, NextVersion(o))
    BY <1>3 DEF StoreBinding
  <2> HIDE DEF o
  <2>4. NextVersion(o) \in Object
    BY <2>2, NextVersionType
  <2> QED
    BY <1>1, <2>3, <2>4, StoreKeepsCache DEF CyclesQuietly
<1> QED
  BY <1>1, <1>2, <1>3

\* A failed cycle or bind call goes back to the queue.
LEMMA FailureKeepsCache ==
    ASSUME TypeOK, CInv, FailCycle \/ \E p \in Pods : FailBind(p)
    PROVE  CInv'
<1>1. CASE FailCycle
  <2>1. cycle.pod \in Pods /\ PatchStatus(cycle.pod) /\ cache' = cache
    BY <1>1, CycleType DEF FailCycle
  <2>2. CyclesQuietly
    BY <1>1, NoCycleType DEF FailCycle, CyclesQuietly, Scribbled, AfterAnnotate
  <2> QED
    BY <2>1, <2>2, PatchKeepsCache
<1>2. ASSUME NEW p \in Pods, FailBind(p) PROVE CInv'
  BY <1>2, PatchKeepsCache DEF FailBind, CyclesQuietly
<1> QED
  BY <1>1, <1>2

\* The cycle moves on with no call out before or after, and the cache is left alone.
LEMMA CycleKeepsCache ==
    ASSUME TypeOK, CInv,
           \/ FilterNodes \/ ScoreNodes \/ \E p \in Pods : Pop(p)
           \/ (PreFilter \/ PreScore) /\ cache' = cache /\ cycle'.at \in {"filter", "score", "failed"}
    PROVE  CInv'
<1>1. UNCHANGED <<api, watch, cache, spent>>
  BY DEF FilterNodes, ScoreNodes, Pop, PreFilter, PreScore
<1>2. CyclesQuietly
  <2>1. CASE FilterNodes
    <3>1. cycle.at = "filter" /\ cycle'.at \in {"failed", "prescore", "idle"}
      BY <2>1, NoCycleType DEF FilterNodes, Assume, TypeOK
    <3> QED
      BY <3>1 DEF CyclesQuietly, Scribbled, AfterAnnotate
  <2>2. CASE ScoreNodes
    <3>1. cycle.at = "score" /\ cycle'.at \in {"failed", "idle"}
      BY <2>2, NoCycleType DEF ScoreNodes, Assume, TypeOK
    <3> QED
      BY <3>1 DEF CyclesQuietly, Scribbled, AfterAnnotate
  <2>3. ASSUME NEW p \in Pods, Pop(p) PROVE CyclesQuietly
    <3>1. cycle.at = "idle" /\ (cycle' = cycle \/ cycle'.at = "prefilter")
      BY <2>3 DEF Pop
    <3> QED
      BY <3>1 DEF CyclesQuietly, Scribbled, AfterAnnotate
  <2>4. CASE (PreFilter \/ PreScore) /\ cycle'.at \in {"filter", "score", "failed"}
    <3>1. cycle.at \in {"prefilter", "prescore"}
      BY <2>4 DEF PreFilter, PreScore
    <3> QED
      BY <2>4, <3>1 DEF CyclesQuietly, Scribbled, AfterAnnotate
  <2> QED
    BY <2>1, <2>2, <2>3, <2>4
<1> QED
  BY <1>1, <1>2, NoFault, QuietKeepsCache

\* Writing the annotations leaves no trace of the ones before.
LEMMA AnnotatedAnew ==
    ASSUME NEW o \in Object, NEW stored \in Object, OnlyAnnotationsDiffer(o, stored),
           NEW pp, NEW preference
    PROVE  Annotated(o, pp, preference) = Annotated(stored, pp, preference)
<1>1. ASSUME NEW P, NEW B, NEW N,
             o \in [rv : Nat, pref : P, by : B, node : N],
             stored \in [rv : Nat, pref : P, by : B, node : N]
      PROVE  Annotated(o, pp, preference) = Annotated(stored, pp, preference)
  BY <1>1 DEF Annotated, OnlyAnnotationsDiffer
<1> QED
  BY <1>1 DEF Object

\* A decision is written into the cached object while that is the cycle's own.
LEMMA DecideKeepsCache ==
    ASSUME TypeOK, CInv, PreFilter \/ PreScore
    PROVE  CInv'
<1>1. /\ cycle.at \in {"prefilter", "prescore"} /\ UNCHANGED <<api, watch, spent>>
      /\ cycle.pod \in Pods /\ cycle.obj \in Object
  BY CycleType DEF PreFilter, PreScore
<1>2. CASE cache' = cache /\ cycle'.at \in {"filter", "score", "failed"}
  BY <1>2, CycleKeepsCache
<1>3. ASSUME NEW pp \in Policies, NEW next \in DOMAIN AfterAnnotate, NEW preference \in {"true", "false"},
             cycle' = [cycle EXCEPT !.at = next, !.obj = Annotated(cycle.obj, pp, preference),
                                    !.policy = pp],
             cache' = CacheAfterWrite(Annotated(cycle.obj, pp, preference))
      PROVE  CInv'
  <2> DEFINE obj == Annotated(cycle.obj, pp, preference)
  <2>1. obj.pref = preference
    BY <1>1, AnnotatedType
  <2>2. /\ cycle'.at = next /\ cycle'.pod = cycle.pod /\ cycle'.shared = cycle.shared
        /\ cycle'.policy = pp /\ cycle'.obj = obj
    BY <1>3 DEF TypeOK
  <2>3. cycle'.at # "down" /\ cycle.at # "down"
    BY <1>1, <2>2 DEF AfterAnnotate
  <2>4. LastEventTells' /\ CachedAsStored /\ FewAstray /\ FaultsGrow
    BY <1>1, <2>3, NoFault DEF CInv, LastEventTells
  <2>5. \A q \in Pods : NothingOnItsWay(q)' <=> NothingOnItsWay(q)
    BY <1>1 DEF NothingOnItsWay
  <2>6. \A q \in Pods : ~Scribbled(q)
    BY <1>1 DEF Scribbled, AfterAnnotate
  <2>7. CASE ~cycle.shared
    <3>1. cache' = cache /\ \A q \in Pods : ~Scribbled(q)'
      BY <1>3, <2>2, <2>7 DEF CacheAfterWrite, Scribbled
    <3>2. CachedAsStored'
      BY <1>1, <2>4, <2>5, <2>6, <3>1 DEF CachedAsStored, CachedBut
    <3>3. Astray' \subseteq Astray
      BY <1>1, <2>5, <2>6, <3>1 DEF Astray
    <3> QED
      BY <2>3, <2>4, <3>2, <3>3, FewStay DEF CInv
  <2>8. CASE cycle.shared
    <3>1. PICK p \in Pods : p = cycle.pod /\ p = cycle'.pod
      BY <1>1, <2>2
    <3>2. /\ cache'[p] = obj /\ \A q \in Pods : q # p => cache'[q] = cache[q]
          /\ Scribbled(p)' /\ \A q \in Pods : q # p => ~Scribbled(q)'
          /\ cycle.obj = cache[p]
      BY <1>1, <1>3, <2>2, <2>8, <3>1 DEF CacheAfterWrite, Scribbled, TypeOK
    <3>3. cache[p] \in Object /\ cache[p] # Nil
      BY <1>1, <3>2, SentinelAssumption
    <3>4. obj = Annotated(cache[p], cycle'.policy, cycle'.obj.pref)
      BY <2>1, <2>2, <3>2
    <3> HIDE DEF obj
    <3>5. ASSUME NothingOnItsWay(p)'
          PROVE  api'[p] # Nil /\ cache'[p] = Annotated(api'[p], cycle'.policy, cycle'.obj.pref)
      <4>1. CachedBut(p)
        BY <2>4, <2>5, <2>6, <3>5 DEF CachedAsStored
      <4>2. api[p] # Nil
        BY <3>3, <4>1 DEF CachedBut, OnlyAnnotationsDiffer
      <4>3. api[p] \in Object
        BY <4>2 DEF TypeOK
      <4>4. Annotated(cache[p], cycle'.policy, cycle'.obj.pref)
                = Annotated(api[p], cycle'.policy, cycle'.obj.pref)
        BY <3>3, <4>1, <4>3, AnnotatedAnew DEF CachedBut
      <4> QED
        BY <1>1, <3>2, <3>4, <4>2, <4>4
    <3>6. ASSUME NEW q \in Pods, q # p, NothingOnItsWay(q)'
          PROVE  ~Scribbled(q)' /\ CachedBut(q)'
      BY <1>1, <2>4, <2>5, <2>6, <3>2, <3>6 DEF CachedAsStored, CachedBut
    <3>7. CachedAsStored'
      BY <3>2, <3>5, <3>6 DEF CachedAsStored
    <3>8. Astray' \subseteq Astray
      BY <1>1, <2>5, <2>6, <3>2 DEF Astray
    <3> QED
      BY <2>3, <2>4, <3>7, <3>8, FewStay DEF CInv
  <2> QED
    BY <2>7, <2>8
<1>4. \/ cache' = cache /\ cycle'.at \in {"filter", "score"}
      \/ \E pp \in Governing(cycle.pod) : \E nodeList : \E next \in DOMAIN AfterAnnotate :
            DecidePreference(pp, nodeList, next)
  BY DEF PreFilter, PreScore, SkipTo, AfterAnnotate, TypeOK
<1>5. ASSUME NEW pp \in Policies, NEW nodeList, NEW next \in DOMAIN AfterAnnotate,
             DecidePreference(pp, nodeList, next)
      PROVE  CInv'
  <2>1. \/ cache' = cache /\ cycle'.at = "failed"
        \/ \E preference \in {"true", "false"} :
              /\ cycle' = [cycle EXCEPT !.at = next, !.obj = Annotated(cycle.obj, pp, preference),
                                        !.policy = pp]
              /\ cache' = CacheAfterWrite(Annotated(cycle.obj, pp, preference))
    BY <1>5, DecisionOutcome DEF TypeOK
  <2> QED
    BY <1>2, <1>3, <2>1
<1> QED
  BY <1>2, <1>4, <1>5, GoverningInPolicies

\* The call returns.  If nothing is on its way for the pod the update is accepted.
LEMMA AnnotateKeepsCache ==
    ASSUME TypeOK, CInv, AnnotatePod \/ AnnotatePodLost
    PROVE  CInv'
<1> DEFINE p == cycle.pod
           o == Annotated(api[p], cycle.policy, cycle.obj.pref)
<1>1. /\ cycle.at \in DOMAIN AfterAnnotate /\ cycle.at # "down"
      /\ p \in Pods /\ cycle.obj \in Object /\ cache' = cache
      /\ cycle'.pod = p /\ cycle'.at \in {"failed", "filter", "score"}
      /\ FaultsGrow
  BY SMTT(60), CycleType, FaultsCount, NoFault
     DEF AnnotatePod, AnnotatePodLost, AfterAnnotate, TypeOK, Disturbances
<1>2. LastEventTells /\ CachedAsStored /\ FewAstray
  BY <1>1 DEF CInv
<1>3. \A q \in Pods : ~Scribbled(q)' /\ (q # p => ~Scribbled(q))
  BY <1>1 DEF Scribbled, AfterAnnotate
<1>4. CASE UpdateAccepted(p) /\ UpdatePod(p) /\ ~UNCHANGED <<api, watch>>
  <2>1. Store(p, NextVersion(o))
    BY <1>4 DEF UpdatePod
  <2>2. NextVersion(o) \in Object
    <3>1. api[p] \in Object /\ cycle.obj.pref \in Preferences /\ cycle.policy \in Policies
      BY <1>1, <1>4 DEF TypeOK, UpdateAccepted, Object
    <3>2. o \in Object
      BY <3>1 DEF Annotated, Object, PolicyNames, Preferences
    <3> QED
      BY <3>2, NextVersionType
  <2>3. cycle'.at # "down"
    BY <1>1
  <2> HIDE DEF o
  <2> QED
    BY <1>1, <2>1, <2>2, <2>3, StoreKeepsCache
<1>5. ASSUME UNCHANGED <<api, watch>>,
             \/ UpdateAccepted(p) /\ o = api[p]
             \/ ~UpdateAccepted(p)
             \/ spent'["fault"] = spent["fault"] + 1
      PROVE  CInv'
  <2>1. LastEventTells' /\ cycle'.at # "down"
    BY <1>1, <1>2, <1>5 DEF LastEventTells
  <2>2. ASSUME NothingOnItsWay(p), Scribbled(p)
        PROVE  /\ OnlyAnnotationsDiffer(cache[p], api[p])
               /\ cache[p] = api[p] \/ spent'["fault"] = spent["fault"] + 1
    <3>1. api[p] # Nil /\ cache[p] = o /\ cycle.obj = cache[p]
      BY <1>1, <1>2, <2>2 DEF CachedAsStored, Scribbled, TypeOK
    <3>2. api[p] \in Object /\ cache[p] # Nil
      BY <1>1, <3>1, SentinelAssumption DEF TypeOK
    <3>3. o.rv = api[p].rv /\ o.node = api[p].node
      BY <3>2 DEF Annotated, Object
    <3>4. UpdateAccepted(p)
      BY <3>1, <3>3 DEF UpdateAccepted
    <3> QED
      BY <1>5, <3>1, <3>2, <3>3, <3>4 DEF OnlyAnnotationsDiffer
  <2>3. \A q \in Pods : NothingOnItsWay(q)' <=> NothingOnItsWay(q)
    BY <1>5 DEF NothingOnItsWay
  <2> HIDE DEF o, p
  <2>4. CachedAsStored'
    BY <1>1, <1>2, <1>3, <1>5, <2>2, <2>3 DEF CachedAsStored, CachedBut
  <2>5. FewAstray'
    <3>1. \A q \in Astray' : q \in Astray \/ (q = p /\ Scribbled(p) /\ NothingOnItsWay(p) /\ cache[p] # api[p])
      BY <1>1, <1>3, <1>5, <2>3 DEF Astray
    <3>2. CASE Astray' \subseteq Astray
      BY <1>1, <1>2, <3>2, FewStay
    <3>3. CASE ~(Astray' \subseteq Astray)
      <4>1. spent'["fault"] = spent["fault"] + 1
        BY <2>2, <3>1, <3>3
      <4>2. Astray' \subseteq Astray \union {p}
        BY <3>1
      <4> QED
        BY <1>2, <4>1, <4>2, OneMoreAstray
    <3> QED
      BY <3>2, <3>3
  <2> QED
    BY <2>1, <2>4, <2>5 DEF CInv
<1>6. \/ UpdateAccepted(p) /\ UpdatePod(p)
      \/ UNCHANGED <<api, watch>> /\ (~UpdateAccepted(p) \/ spent'["fault"] = spent["fault"] + 1)
  BY FaultsCount DEF AnnotatePod, AnnotatePodLost, Disturbances
<1>7. UpdatePod(p) => o = api[p] \/ Store(p, NextVersion(o))
  BY DEF UpdatePod
<1>8. UpdatePod(p) /\ o = api[p] => UNCHANGED <<api, watch>>
  BY DEF UpdatePod
<1>9. CASE UpdateAccepted(p) /\ UpdatePod(p) /\ UNCHANGED <<api, watch>>
  <2>1. CASE o = api[p]
    BY <1>5, <1>9, <2>1
  <2>2. CASE o # api[p]
    <3>1. Store(p, NextVersion(o))
      BY <1>7, <1>9, <2>2
    <3>2. watch' = Append(watch, [pod |-> p, obj |-> NextVersion(o)])
      BY <1>1, <3>1 DEF Store
    <3>3. watch \in Seq([pod : Pods, obj : Object \union {Nil}])
      BY DEF TypeOK
    <3>4. FALSE
      BY <1>9, <3>2, <3>3
    <3> QED
      BY <3>4
  <2> QED
    BY <2>1, <2>2
<1> QED
  BY <1>4, <1>5, <1>6, <1>9

\* What is delivered last is what is stored.
LEMMA DeliverKeepsCache == ASSUME TypeOK, CInv, Deliver PROVE CInv'
<1> DEFINE E == [pod : Pods, obj : Object \union {Nil}]
           p == Head(watch).pod
           o == Head(watch).obj
<1>1. /\ watch' = Tail(watch) /\ watch # << >>
      /\ cache' = [cache EXCEPT ![p] = o]
      /\ cycle' = IF cycle.pod = p THEN [cycle EXCEPT !.shared = FALSE] ELSE cycle
      /\ UNCHANGED <<api, spent>>
  BY DEF Deliver
<1>2. /\ cycle.at # "down" /\ cycle'.at # "down"
      /\ LastEventTells /\ CachedAsStored /\ FewAstray /\ FaultsGrow
  BY <1>1, NoFault DEF CInv, TypeOK
<1>3. /\ Head(watch) = watch[1] /\ Len(watch) \in Nat /\ Len(watch) >= 1
      /\ Len(watch') = Len(watch) - 1
      /\ \A i \in 1..Len(watch') : watch'[i] = watch[i + 1] /\ i + 1 \in 1..Len(watch)
  <2>1. watch \in Seq(E)
    BY DEF TypeOK
  <2> HIDE DEF E
  <2> QED
    BY <1>1, <2>1
<1>4. p = watch[1].pod /\ o = watch[1].obj /\ p \in Pods /\ 1 \in 1..Len(watch)
  BY <1>1, <1>3, HeadOfWatch
<1>5. \A j \in 1..Len(watch) : j = 1 \/ (j - 1 \in 1..Len(watch') /\ watch'[j - 1] = watch[j])
  <2> SUFFICES ASSUME NEW j \in 1..Len(watch), j # 1
               PROVE  j - 1 \in 1..Len(watch') /\ watch'[j - 1] = watch[j]
    OBVIOUS
  <2>1. j - 1 \in 1..Len(watch') /\ (j - 1) + 1 = j
    BY <1>3
  <2> QED
    BY <1>3, <2>1
<1> HIDE DEF p, o, E
<1>6. LastEventTells'
  <2> SUFFICES ASSUME NEW i \in 1..Len(watch'),
                      \A j \in 1..Len(watch') : watch'[j].pod = watch'[i].pod => j <= i
               PROVE  watch'[i].obj = api'[watch'[i].pod]
    BY DEF LastEventTells
  <2>1. i + 1 \in 1..Len(watch) /\ watch'[i] = watch[i + 1] /\ i \in Nat
    BY <1>3
  <2>2. \A j \in 1..Len(watch) : watch[j].pod = watch[i + 1].pod => j <= i + 1
    <3> SUFFICES ASSUME NEW j \in 1..Len(watch), watch[j].pod = watch[i + 1].pod
                 PROVE  j <= i + 1
      OBVIOUS
    <3>1. CASE j = 1
      BY <2>1, <3>1
    <3>2. CASE j # 1
      <4>1. j - 1 \in 1..Len(watch') /\ watch'[j - 1].pod = watch'[i].pod
        BY <1>5, <2>1, <3>2
      <4>2. j - 1 <= i
        BY <4>1
      <4> QED
        BY <1>3, <2>1, <4>2
    <3> QED
      BY <3>1, <3>2
  <2>3. watch[i + 1].obj = api[watch[i + 1].pod]
    BY <1>2, <2>1, <2>2 DEF LastEventTells
  <2> QED
    BY <1>1, <2>1, <2>3
<1>7. ASSUME NEW q \in Pods, NothingOnItsWay(q)'
      PROVE  \/ ~Scribbled(q)' /\ cache'[q] = api'[q]
             \/ /\ NothingOnItsWay(q) /\ cache'[q] = cache[q] /\ (Scribbled(q)' <=> Scribbled(q))
                /\ cycle'.policy = cycle.policy /\ cycle'.obj = cycle.obj
  <2>1. \A j \in 1..Len(watch) : j # 1 => watch[j].pod # q
    BY <1>5, <1>7 DEF NothingOnItsWay
  <2>2. CASE q = p
    <3>1. ~Scribbled(q)'
      BY <1>1, <2>2 DEF Scribbled, TypeOK
    <3>2. \A j \in 1..Len(watch) : watch[j].pod = watch[1].pod => j <= 1
      BY <1>4, <2>1, <2>2
    <3>3. o = api[p]
      BY <1>2, <1>4, <3>2 DEF LastEventTells
    <3> QED
      BY <1>1, <1>4, <2>2, <3>1, <3>3 DEF TypeOK
  <2>3. CASE q # p
    <3>1. NothingOnItsWay(q)
      BY <1>4, <2>1, <2>3 DEF NothingOnItsWay
    <3> QED
      BY <1>1, <2>3, <3>1 DEF Scribbled, TypeOK
  <2> QED
    BY <2>2, <2>3
<1>8. CachedAsStored'
  BY <1>1, <1>2, <1>7 DEF CachedAsStored, CachedBut
<1>9. Astray' \subseteq Astray
  BY <1>1, <1>7 DEF Astray
<1> QED
  BY <1>2, <1>6, <1>8, <1>9, FewStay DEF CInv

\* A process that is started again caches what it lists.
LEMMA ProcessKeepsCache == ASSUME TypeOK, CInv, Die \/ Restart PROVE CInv'
<1>1. CASE Die
  BY <1>1, NoCycleType DEF Die, CInv
<1>2. CASE Restart
  <2>1. /\ cycle'.at = "idle" /\ cache' = api /\ api' = api /\ watch' = << >> /\ spent' = spent
    BY <1>2, NoCycleType DEF Restart, CInv
  <2>2. Len(watch') = 0
    BY <2>1
  <2>3. FewAstray'
    <3>1. Astray' = {}
      BY <2>1 DEF Astray
    <3> QED
      BY <2>1, <3>1, FS_EmptySet DEF FewAstray, TypeOK, Disturbances
  <2> QED
    BY <2>1, <2>2, <2>3 DEF CInv, LastEventTells, CachedAsStored, CachedBut, Scribbled, AfterAnnotate
<1> QED
  BY <1>1, <1>2

LEMMA CacheStep == TypeOK /\ CInv /\ [Next]_vars => CInv'
<1> SUFFICES ASSUME TypeOK, CInv, [Next]_vars PROVE CInv'
  OBVIOUS
<1>1. CASE Users
  BY <1>1, UsersKeepCache
<1>2. CASE PolicyEvent
  BY <1>2, QuietKeepsCache, FaultsCount DEF PolicyEvent, CyclesQuietly, Disturbances
<1>3. CASE Deliver
  BY <1>3, DeliverKeepsCache
<1>4. CASE \E p \in Pods : Pop(p) \/ Binding(p) \/ BindLost(p)
  BY <1>4, CycleKeepsCache, BindKeepsCache, FailureKeepsCache DEF Binding
<1>5. CASE Scheduling
  BY <1>5, DecideKeepsCache, AnnotateKeepsCache, CycleKeepsCache, FailureKeepsCache DEF Scheduling
<1>6. CASE AnnotatePodLost
  BY <1>6, AnnotateKeepsCache
<1>7. CASE Crash \/ Panic \/ Restart
  BY <1>7, ProcessKeepsCache DEF Crash, Panic
<1>8. CASE UNCHANGED vars
  BY <1>8, NoFault, QuietKeepsCache DEF vars, CyclesQuietly
<1> QED
  BY <1>1, <1>2, <1>3, <1>4, <1>5, <1>6, <1>7, <1>8 DEF Next

---------------------------------------------------------------------------
(* The theorem *)

LEMMA CacheInitially == Init => CInv
<1> SUFFICES ASSUME Init PROVE CInv
  OBVIOUS
<1>1. cycle.at = "idle" /\ cache = api /\ watch = << >> /\ spent["fault"] = 0
  BY NoCycleType DEF Init, Disturbances
<1>2. Len(watch) = 0
  BY <1>1
<1>3. FewAstray
  <2>1. Astray = {}
    BY <1>1 DEF Astray
  <2> QED
    BY <1>1, <2>1, FS_EmptySet DEF FewAstray
<1> QED
  BY <1>1, <1>2, <1>3 DEF CInv, LastEventTells, CachedAsStored, CachedBut, Scribbled, AfterAnnotate

LEMMA AgreesAtRest == TypeOK /\ CInv => CacheAgreesAtRest
<1> SUFFICES ASSUME TypeOK, CInv, watch = << >>,
                    cycle.at \notin {"down"} \union DOMAIN AfterAnnotate
             PROVE  /\ Cardinality({p \in Pods : cache[p] # api[p]}) <= spent["fault"]
                    /\ \A p \in Pods : CachedBut(p)
  BY DEF CacheAgreesAtRest, CachedBut
<1>1. \A p \in Pods : NothingOnItsWay(p) /\ ~Scribbled(p)
  <2>1. Len(watch) = 0
    OBVIOUS
  <2> QED
    BY <2>1 DEF NothingOnItsWay, Scribbled
<1>2. \A p \in Pods : CachedBut(p)
  BY <1>1 DEF CInv, CachedAsStored
<1>3. {p \in Pods : cache[p] # api[p]} = Astray
  BY <1>1 DEF Astray
<1> QED
  BY <1>2, <1>3 DEF CInv, FewAstray

\* Although AnnotatePod writes into the informer's objects before it knows whether the
\* API server accepts (core.go:80-95), the cache shows what is stored whenever no event and
\* no call is under way, through conflicts, deletions and crashes; lost calls leave their
\* annotations in the objects of at most as many pods, and nothing else.
THEOREM CacheAgrees == Spec => []CacheAgreesAtRest
<1>1. Init => TypeOK /\ CInv
  BY InitTypeOK, CacheInitially
<1>2. (TypeOK /\ CInv) /\ [Next]_vars => (TypeOK /\ CInv)'
  BY TypeStep, CacheStep
<1> QED
  BY <1>1, <1>2, AgreesAtRest, PTL DEF Spec

---------------------------------------------------------------------------
(* Two processes at work on one API server *)

\* What the process does, short of failures.
Schedules == Deliver \/ Scheduling \/ \E p \in Pods : Pop(p) \/ Binding(p)

\* The stored object of one pod at most moves, to one that follows.
StoreMoves ==
    \/ api' = api
    \/ \E p \in created : \E o \in Object \union {Nil} :
          api' = [api EXCEPT ![p] = o] /\ Follows(o, api[p])

\* Another process makes such a change and this one's watch tells of it.
ChangedElsewhere ==
    /\ \/ UNCHANGED <<api, watch>>
       \/ \E p \in created : \E o \in Object \union {Nil} : Store(p, o) /\ Follows(o, api[p])
    /\ UNCHANGED <<created, cache, policies, queue, cycle, assumed, binding>>
    /\ spent' \in [Disturbances -> Nat]
    /\ spent'["fault"] = spent["fault"]

LEMMA MovesStore == ASSUME NEW p \in Pods, Moves(p), created' = created PROVE StoreMoves
BY DEF Moves, StoreMoves, Store

LEMMA PatchCounts ==
    ASSUME TypeOK, NEW p \in Pods, PatchStatus(p)
    PROVE  spent' \in [Disturbances -> Nat] /\ spent'["fault"] = spent["fault"]
BY DEF PatchStatus, Disturb, Disturbances, TypeOK

\* What the steps of a process change besides its own state.
LEMMA SchedulesMoves ==
    ASSUME TypeOK, Knowledge, Schedules
    PROVE  /\ UNCHANGED <<created, policies>>
           /\ spent' \in [Disturbances -> Nat] /\ spent'["fault"] = spent["fault"]
           /\ StoreMoves
           /\ cycle.at # "down" => cycle'.at # "down"
<1> USE DEF Knowledge
<1>1. CASE Deliver \/ PreFilter \/ FilterNodes \/ PreScore \/ ScoreNodes \/ \E p \in Pods : Pop(p)
  <2>1. UNCHANGED <<api, created, policies, spent>>
    BY <1>1 DEF Deliver, PreFilter, FilterNodes, PreScore, ScoreNodes, Pop
  <2>2. CASE Deliver \/ \E p \in Pods : Pop(p)
    BY <2>1, <2>2 DEF Deliver, Pop, StoreMoves, TypeOK
  <2>3. CASE FilterNodes \/ ScoreNodes
    BY <2>1, <2>3, NoCycleType DEF FilterNodes, ScoreNodes, Assume, StoreMoves, TypeOK
  <2>4. CASE PreFilter \/ PreScore
    BY <2>1, <2>4 DEF PreFilter, PreScore, SkipTo, DecidePreference, StoreMoves, TypeOK
  <2> QED
    BY <1>1, <2>2, <2>3, <2>4
<1>2. CASE AnnotatePod
  <2>1. cycle.at \in DOMAIN AfterAnnotate /\ UNCHANGED <<created, policies, spent>>
        /\ cycle'.at \in {"failed", "filter", "score"}
    BY <1>2 DEF AnnotatePod, AfterAnnotate, TypeOK
  <2>2. cycle.pod \in Pods
    BY <2>1, CycleType DEF AfterAnnotate
  <2>3. api' = api \/ Moves(cycle.pod)
    BY <1>2, <2>1, UpdateEffect DEF AnnotatePod
  <2> QED
    BY <2>1, <2>2, <2>3, MovesStore DEF StoreMoves, TypeOK
<1>3. CASE FailCycle
  <2>1. cycle.pod \in Pods /\ PatchStatus(cycle.pod) /\ UNCHANGED <<created, policies>>
        /\ cycle' = NoCycle("idle")
    BY <1>3, CycleType DEF FailCycle
  <2>2. Moves(cycle.pod)
    BY <2>1, PatchQuiet, QuietMoves
  <2> QED
    BY <2>1, <2>2, PatchCounts, MovesStore, NoCycleType
<1>4. ASSUME NEW p \in Pods, Bind(p)
      PROVE  /\ UNCHANGED <<created, policies, spent, cycle>>
             /\ StoreMoves
  <2>1. UNCHANGED <<created, policies, spent, cycle>>
    BY <1>4 DEF Bind
  <2>2. api' = api \/ Moves(p)
    BY <1>4, <2>1, BindEffect DEF Bind
  <2> QED
    BY <2>1, <2>2, MovesStore DEF StoreMoves
<1>5. ASSUME NEW p \in Pods, FailBind(p)
      PROVE  /\ UNCHANGED <<created, policies, cycle>>
             /\ spent' \in [Disturbances -> Nat] /\ spent'["fault"] = spent["fault"]
             /\ StoreMoves
  <2>1. PatchStatus(p) /\ UNCHANGED <<created, policies, cycle>>
    BY <1>5 DEF FailBind
  <2>2. Moves(p)
    BY <2>1, PatchQuiet, QuietMoves
  <2> QED
    BY <2>1, <2>2, PatchCounts, MovesStore
<1> QED
  BY <1>1, <1>2, <1>3, <1>4, <1>5 DEF Schedules, Scheduling, Binding, TypeOK

\* A change made elsewhere is to this process like one by a user: what it holds is no
\* newer than the store, and its cache will show the change.
LEMMA ElsewhereKeeps ==
    ASSUME TypeOK, Knowledge, CInv, ChangedElsewhere
    PROVE  TypeOK' /\ Knowledge' /\ CInv'
<1> FaultsGrow
  BY DEF ChangedElsewhere, FaultsGrow, TypeOK, Disturbances
<1>1. CASE UNCHANGED <<api, watch>>
  <2>1. TypeOK'
    BY <1>1 DEF ChangedElsewhere, TypeOK, IsBound
  <2>2. Knowledge'
    BY <1>1, <2>1, KnowledgeKept DEF ChangedElsewhere
  <2>3. CInv'
    BY <1>1, QuietKeepsCache DEF ChangedElsewhere, CyclesQuietly
  <2> QED
    BY <2>1, <2>2, <2>3
<1>2. ASSUME NEW p \in created, NEW o \in Object \union {Nil}, Store(p, o), Follows(o, api[p])
      PROVE  TypeOK' /\ Knowledge' /\ CInv'
  <2>1. p \in Pods /\ created' = created
    BY DEF TypeOK, ChangedElsewhere
  <2>2. TypeOK'
    BY <1>2, <2>1, StoreKeepsType DEF ChangedElsewhere, TypeOK
  <2>3. Knowledge'
    <3>1. Moves(p)
      BY <1>2, <2>1 DEF Moves
    <3> QED
      BY <2>1, <2>2, <3>1, KnowledgeKept DEF ChangedElsewhere
  <2>4. CInv'
    BY <1>2, <2>1, StoreKeepsCache DEF ChangedElsewhere, CyclesQuietly
  <2> QED
    BY <2>2, <2>3, <2>4
<1> QED
  BY <1>1, <1>2 DEF ChangedElsewhere

\* It leaves alone what is known of the bind calls, if not where they should go.
LEMMA ElsewhereKeepsCalls ==
    ASSUME TypeOK, Knowledge, Placement({}), ChangedElsewhere
    PROVE  Placement({})'
<1>1. \A p \in Pods : ~Cared({}, p)
  BY DEF Cared
<1>2. ASSUME NEW p \in Pods, BindAccepted(p)'
      PROVE  BindAccepted(p)
  BY <1>2 DEF ChangedElsewhere, Store, Follows, BindAccepted, TypeOK
<1>3. BindCalls({})'
  BY <1>1, <1>2 DEF Placement, BindCalls, ChangedElsewhere
<1>4. CycleKnows({})' /\ HonouredIn({})'
  BY DEF CycleKnows, HonouredIn, Cared
<1> QED
  BY <1>3, <1>4 DEF Placement

\* A process that is yet to be started.
LEMMA NotStarted ==
    ASSUME api = [p \in Pods |-> Nil], created = {}, policies \in PolicySets,
           spent \in [Disturbances -> Nat], cycle = NoCycle("down"),
           watch = << >>, cache = [p \in Pods |-> Nil], queue = [p \in Pods |-> Nil],
           assumed = [p \in Pods |-> Nil], binding = [p \in Pods |-> "none"]
    PROVE  TypeOK /\ Knowledge /\ CInv /\ Placement({})
<1>1. TypeOK
  <2>1. /\ cycle.at = "down" /\ cycle.shared = FALSE
        /\ cycle \in [at : Phases, pod : Pods \union {Nil}, obj : Object \union {Nil},
                      shared : BOOLEAN, nodes : SUBSET Nodes, policy : Policies \union {Nil}]
    BY NoCycleType DEF Phases
  <2>2. \A p \in Pods : queue[p] # Shared
    BY SentinelAssumption
  <2> QED
    BY <2>1, <2>2 DEF TypeOK, AfterAnnotate
<1>2. Len(watch) = 0 /\ cycle.pod = Nil /\ cycle.at = "down"
  BY NoCycleType
<1>3. Knowledge
  BY <1>2, SentinelAssumption DEF Knowledge, OnlyCreated, Versions, NotNewer
<1>4. Placement({})
  BY <1>2 DEF Placement, BindCalls, CycleKnows, HonouredIn, Cared
<1> QED
  BY <1>1, <1>2, <1>3, <1>4 DEF CInv
=============================================================================
