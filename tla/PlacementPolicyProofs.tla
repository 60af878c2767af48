------------------------ MODULE PlacementPolicyProofs -----------------------
(***************************************************************************)
(* Proofs about PlacementPolicy, for all pods, nodes, policies, labels and *)
(* bounds.  IInv is inductive; its parts are about the versions of the     *)
(* objects held here and there, about the bind calls in flight, and about  *)
(* what the cycle in progress knows of the stored annotations.             *)
(***************************************************************************)
EXTENDS PlacementPolicy, TLAPS

---------------------------------------------------------------------------
(* The inductive invariant *)

\* Whatever is known of a pod is about a pod that was created.
OnlyCreated ==
    /\ \A p \in Pods : api[p] # Nil => p \in created
    /\ \A p \in Pods : cache[p] # Nil => p \in created
    /\ \A p \in Pods : queue[p] # Nil => p \in created
    /\ \A p \in Pods : binding[p] # "none" => p \in created
    /\ \A i \in 1..Len(watch) : watch[i].pod \in created
    /\ cycle.pod # Nil => cycle.pod \in created

\* An object o of a pod that someone holds is not newer than the stored one s:
\* it has the stored node if it is as new, and if it is bound at all.
NotNewer(o, s) ==
    o # Nil /\ s # Nil =>
        /\ o.rv <= s.rv
        /\ o.rv = s.rv => o.node = s.node
        /\ o.node # Nil => o.node = s.node

\* This is so of every object that is held, and none that is to be scheduled is
\* bound.
Versions ==
    /\ \A p \in Pods : NotNewer(cache[p], api[p])
    /\ \A i \in 1..Len(watch) : NotNewer(watch[i].obj, api[watch[i].pod])
    /\ \A p \in Pods :
          queue[p] \notin {Nil, Shared} => NotNewer(queue[p], api[p]) /\ queue[p].node = Nil
    /\ cycle.pod # Nil => NotNewer(cycle.obj, api[cycle.pod]) /\ cycle.obj.node = Nil

\* Some policy goes by the name in the stored annotation and puts node n in the
\* group that the stored preference asks for.
AgreesWithStored(p, n) ==
    \E pp \in Policies : pp.name = api[p].by /\ Agrees(pp, NodeLabels[n], api[p].pref)

\* A pod of the set Q that only Strict policies ever govern.  Q is the pods that no
\* other scheduler meddles with: all of them, unless there are two schedulers.
Cared(Q, p) == p \in Q /\ AlwaysStrict(p)

\* A bind call that the API server would accept is for an assumed pod that is in
\* no cycle, and binds it where its annotations say.
BindCalls(Q) ==
    \A p \in Pods :
        binding[p] = "posting" /\ BindAccepted(p) =>
            /\ assumed[p] # Nil
            /\ cycle.pod # p
            /\ Cared(Q, p) => AgreesWithStored(p, assumed[p])

\* For a pod that Strict policies govern: from Filter on the stored annotations
\* are those of the cycle, after Filter the nodes left agree with them, and
\* PreScore decides nothing.
CycleKnows(Q) ==
    cycle.pod # Nil /\ Cared(Q, cycle.pod) =>
        /\ cycle.at = "filter" =>
              /\ cycle.policy # Nil
              /\ api[cycle.pod] # Nil =>
                    /\ api[cycle.pod].by = cycle.policy.name
                    /\ api[cycle.pod].pref = cycle.obj.pref
        /\ cycle.at \in {"prescore", "score"} /\ api[cycle.pod] # Nil =>
              \E pp \in Policies :
                  /\ pp.name = api[cycle.pod].by
                  /\ \A n \in cycle.nodes : Agrees(pp, NodeLabels[n], api[cycle.pod].pref)
        /\ cycle.at # "annotateInPreScore"

\* StrictPlacementHonoured for the pods of Q.
HonouredIn(Q) ==
    \A p \in Pods : IsBound(api[p]) /\ Cared(Q, p) => AgreesWithStored(p, api[p].node)

Knowledge == OnlyCreated /\ Versions

Placement(Q) == BindCalls(Q) /\ CycleKnows(Q) /\ HonouredIn(Q)

IInv == TypeOK /\ Knowledge /\ Placement(Pods)

---------------------------------------------------------------------------
(* Types of what the actions build *)

LEMMA NextVersionType ==
    ASSUME NEW o \in Object
    PROVE  /\ NextVersion(o) \in Object
           /\ NextVersion(o).rv = o.rv + 1
           /\ NextVersion(o).node = o.node
           /\ NextVersion(o).pref = o.pref
           /\ NextVersion(o).by = o.by
<1>1. o = [rv |-> o.rv, pref |-> o.pref, by |-> o.by, node |-> o.node] /\ o.rv \in Nat
  BY DEF Object
<1>2. NextVersion(o) = [rv |-> o.rv + 1, pref |-> o.pref, by |-> o.by, node |-> o.node]
  BY <1>1 DEF NextVersion
<1>3. o.pref \in Preferences /\ o.by \in PolicyNames \union {""} /\ o.node \in Nodes \union {Nil}
  BY DEF Object
<1>4. o.rv + 1 \in Nat
  BY <1>1
<1>5. NextVersion(o) \in Object
  <2> DEFINE v == o.rv + 1
  <2>1. v \in Nat
    BY <1>4
  <2> HIDE DEF v
  <2>2. [rv |-> v, pref |-> o.pref, by |-> o.by, node |-> o.node] \in Object
    BY <2>1, <1>3 DEF Object
  <2> QED
    BY <1>2, <2>2 DEF v
<1> QED
  BY <1>2, <1>5

LEMMA AnnotatedType ==
    ASSUME NEW o \in Object, NEW pp \in Policies, NEW preference \in {"true", "false"}
    PROVE  /\ Annotated(o, pp, preference) \in Object
           /\ Annotated(o, pp, preference).rv = o.rv
           /\ Annotated(o, pp, preference).node = o.node
           /\ Annotated(o, pp, preference).pref = preference
           /\ Annotated(o, pp, preference).by = pp.name
BY DEF Annotated, Object, PolicyNames, Preferences

\* A stored object reaches the store and, while the process is up, the watch.
LEMMA StoreType ==
    ASSUME TypeOK, NEW p \in Pods, NEW o \in Object \union {Nil}, Store(p, o)
    PROVE  /\ api' \in [Pods -> Object \union {Nil}]
           /\ api' = [api EXCEPT ![p] = o]
           /\ watch' \in Seq([pod : Pods, obj : Object \union {Nil}])
           /\ watch' \in {watch, Append(watch, [pod |-> p, obj |-> o])}
<1>1. api' = [api EXCEPT ![p] = o] /\ watch' \in {watch, Append(watch, [pod |-> p, obj |-> o])}
  BY DEF Store
<1>2. api' \in [Pods -> Object \union {Nil}]
  BY <1>1 DEF TypeOK
<1> DEFINE E == [pod : Pods, obj : Object \union {Nil}]
<1>3. [pod |-> p, obj |-> o] \in E
  OBVIOUS
<1>4. watch \in Seq(E)
  BY DEF TypeOK
<1> HIDE DEF E
<1>5. watch' \in Seq(E)
  BY <1>1, <1>3, <1>4
<1> QED
  BY <1>1, <1>2, <1>5 DEF E

LEMMA DisturbType ==
    ASSUME TypeOK, NEW d \in Disturbances, Disturb(d)
    PROVE  spent' \in [Disturbances -> Nat]
BY DEF TypeOK, Disturb

LEMMA GoverningInPolicies ==
    ASSUME TypeOK, NEW p, NEW pp \in Governing(p)
    PROVE  pp \in Policies
BY DEF TypeOK, Governing, GetPlacementPolicyForPod, Lightest, filterPlacementPolicyList, Policies

\* What DecidePreference may do: fail, or write one of two preferences.
LEMMA DecisionOutcome ==
    ASSUME NEW pp, NEW nodeList, NEW next, DecidePreference(pp, nodeList, next)
    PROVE  \/ cycle' = [cycle EXCEPT !.at = "failed"] /\ UNCHANGED cache
           \/ \E preference \in {"true", "false"} :
                 LET obj == Annotated(cycle.obj, pp, preference)
                 IN  /\ cycle' = [cycle EXCEPT !.at = next, !.obj = obj, !.policy = pp]
                     /\ cache' = CacheAfterWrite(obj)
BY DEF DecidePreference, Preference

\* The cycle of a pod: its shape outside idle and down.
LEMMA CycleType ==
    ASSUME TypeOK, cycle.at \notin {"down", "idle"}
    PROVE  /\ cycle.pod \in Pods
           /\ cycle.obj \in Object
           /\ cycle.pod # Nil /\ cycle.obj # Nil
BY DEF TypeOK

LEMMA NoCycleType ==
    ASSUME NEW at \in {"down", "idle"}
    PROVE  /\ NoCycle(at) \in [at : Phases, pod : Pods \union {Nil}, obj : Object \union {Nil},
                               shared : BOOLEAN, nodes : SUBSET Nodes,
                               policy : Policies \union {Nil}]
           /\ NoCycle(at).at = at
           /\ NoCycle(at).pod = Nil
           /\ NoCycle(at).shared = FALSE
BY DEF NoCycle, Phases

---------------------------------------------------------------------------
(* Type correctness *)

\* The types of the state a step leaves alone but for the API server's part.
LEMMA StoreKeepsType ==
    ASSUME TypeOK, NEW p \in Pods, NEW o \in Object \union {Nil}, Store(p, o),
           created' \in SUBSET Pods,
           spent' \in [Disturbances -> Nat],
           UNCHANGED <<cache, policies, queue, cycle, assumed, binding>>
    PROVE  TypeOK'
BY StoreType DEF TypeOK

LEMMA InitTypeOK == Init => TypeOK
<1> SUFFICES ASSUME Init PROVE TypeOK
  OBVIOUS
<1>1. cycle = NoCycle("idle")
  BY DEF Init
<1>2. spent \in [Disturbances -> Nat]
  BY DEF Init
<1>3. watch \in Seq([pod : Pods, obj : Object \union {Nil}])
  BY DEF Init
<1> QED
  BY <1>1, <1>2, <1>3, NoCycleType, SentinelAssumption DEF Init, TypeOK, AfterAnnotate

LEMMA TypeCreatePod == ASSUME TypeOK, NEW p \in Pods, CreatePod(p) PROVE TypeOK'
<1>1. [rv |-> 1, pref |-> "", by |-> "", node |-> Nil] \in Object
  BY DEF Object, Preferences
<1>2. Store(p, [rv |-> 1, pref |-> "", by |-> "", node |-> Nil]) /\ spent' = spent
      /\ created' = created \union {p} /\ UNCHANGED <<cache, policies, queue, cycle, assumed, binding>>
  BY DEF CreatePod
<1>3. created' \in SUBSET Pods /\ spent' \in [Disturbances -> Nat]
  BY <1>2 DEF TypeOK
<1> QED
  BY <1>1, <1>2, <1>3, StoreKeepsType

LEMMA TypeTouchPod == ASSUME TypeOK, NEW p \in Pods, TouchPod(p) PROVE TypeOK'
<1>1. api[p] \in Object
  BY DEF TouchPod, TypeOK
<1>2. NextVersion(api[p]) \in Object
  BY <1>1, NextVersionType
<1>3. spent' \in [Disturbances -> Nat] /\ created' \in SUBSET Pods
  BY DisturbType DEF TouchPod, Disturbances, TypeOK
<1> QED
  BY <1>2, <1>3, StoreKeepsType DEF TouchPod

LEMMA TypeDeletePod == ASSUME TypeOK, NEW p \in Pods, DeletePod(p) PROVE TypeOK'
<1>3. spent' \in [Disturbances -> Nat] /\ created' \in SUBSET Pods
  BY DisturbType DEF DeletePod, Disturbances, TypeOK
<1> QED
  BY <1>3, StoreKeepsType DEF DeletePod

LEMMA TypePolicyEvent == ASSUME TypeOK, PolicyEvent PROVE TypeOK'
<1>3. spent' \in [Disturbances -> Nat] /\ policies' \in PolicySets
  BY DisturbType DEF PolicyEvent, Disturbances, TypeOK
<1> QED
  BY <1>3 DEF PolicyEvent, TypeOK

\* The oldest event and what is left of the watch after it.
LEMMA HeadOfWatch ==
    ASSUME TypeOK, watch # << >>
    PROVE  /\ Head(watch).pod \in Pods
           /\ Head(watch).obj \in Object \union {Nil}
           /\ Tail(watch) \in Seq([pod : Pods, obj : Object \union {Nil}])
<1> DEFINE E == [pod : Pods, obj : Object \union {Nil}]
<1>1. watch \in Seq(E)
  BY DEF TypeOK
<1> HIDE DEF E
<1>2. Head(watch) \in E /\ Tail(watch) \in Seq(E)
  BY <1>1
<1> QED
  BY <1>2 DEF E

LEMMA TypeDeliver == ASSUME TypeOK, Deliver PROVE TypeOK'
<1> DEFINE p == Head(watch).pod
           o == Head(watch).obj
<1>1. p \in Pods /\ o \in Object \union {Nil} /\ watch' \in Seq([pod : Pods, obj : Object \union {Nil}])
  BY HeadOfWatch DEF Deliver
<1>2. /\ cache' = [cache EXCEPT ![p] = o]
      /\ queue' = [queue EXCEPT ![p] = QueueAfter(p, o)]
      /\ assumed' = IF IsBound(o) THEN [assumed EXCEPT ![p] = Nil] ELSE assumed
      /\ cycle' = IF cycle.pod = p THEN [cycle EXCEPT !.shared = FALSE] ELSE cycle
      /\ UNCHANGED <<api, created, policies, binding, spent>>
  BY DEF Deliver
<1> HIDE DEF p, o
<1>3. QueueAfter(p, o) \in Object \union {Nil, Shared}
  BY <1>1 DEF QueueAfter, TypeOK
<1>4. QueueAfter(p, o) = Shared => o # Nil /\ ~IsBound(o)
  BY <1>1, SentinelAssumption DEF QueueAfter, TypeOK
<1>5. /\ cache' \in [Pods -> Object \union {Nil}]
      /\ queue' \in [Pods -> Object \union {Nil, Shared}]
      /\ assumed' \in [Pods -> Nodes \union {Nil}]
  BY <1>1, <1>2, <1>3 DEF TypeOK
<1>6. cycle' \in [at : Phases, pod : Pods \union {Nil}, obj : Object \union {Nil},
                  shared : BOOLEAN, nodes : SUBSET Nodes, policy : Policies \union {Nil}]
  BY <1>2 DEF TypeOK
<1>7. /\ cycle'.at \in {"down", "idle"} => cycle' = NoCycle(cycle'.at)
      /\ cycle'.at \notin {"down", "idle"} => cycle'.pod # Nil /\ cycle'.obj # Nil
      /\ cycle'.at \in DOMAIN AfterAnnotate => cycle'.policy # Nil
      /\ cycle'.shared => cycle'.obj = cache'[cycle'.pod]
  <2>1. CASE cycle.pod = p
    <3>1. cycle.at \notin {"down", "idle"}
      BY <2>1, <1>1, SentinelAssumption, NoCycleType DEF TypeOK
    <3> QED
      BY <2>1, <3>1, <1>2 DEF TypeOK
  <2>2. CASE cycle.pod # p
    <3>1. cycle.shared => cycle.pod \in Pods
      BY NoCycleType DEF TypeOK
    <3> QED
      BY <2>2, <3>1, <1>1, <1>2 DEF TypeOK
  <2> QED
    BY <2>1, <2>2
<1>8. \A q \in Pods : queue'[q] = Shared => cache'[q] # Nil /\ ~IsBound(cache'[q])
  BY <1>1, <1>2, <1>4 DEF TypeOK
<1> QED
  BY <1>1, <1>2, <1>5, <1>6, <1>7, <1>8 DEF TypeOK, IsBound

\* A step that touches the cycle, and of the rest only what a cycle writes.
LEMMA CycleKeepsType ==
    ASSUME TypeOK,
           cycle' \in [at : Phases, pod : Pods \union {Nil}, obj : Object \union {Nil},
                       shared : BOOLEAN, nodes : SUBSET Nodes, policy : Policies \union {Nil}],
           cycle'.at \in {"down", "idle"} => cycle' = NoCycle(cycle'.at),
           cycle'.at \notin {"down", "idle"} => cycle'.pod # Nil /\ cycle'.obj # Nil,
           cycle'.at \in DOMAIN AfterAnnotate => cycle'.policy # Nil,
           cycle'.shared => cycle'.obj = cache[cycle'.pod],
           UNCHANGED <<api, created, watch, cache, policies, queue, spent>>,
           assumed' \in [Pods -> Nodes \union {Nil}],
           binding' \in [Pods -> {"none", "posting", "failed"}]
    PROVE  TypeOK'
BY DEF TypeOK, IsBound

LEMMA TypePop == ASSUME TypeOK, NEW p \in Pods, Pop(p) PROVE TypeOK'
<1>1. /\ cycle.at = "idle" /\ cycle = NoCycle("idle")
      /\ queue[p] \in Object \union {Shared}
      /\ queue' = [queue EXCEPT ![p] = Nil]
      /\ UNCHANGED <<api, created, watch, cache, policies, assumed, binding, spent>>
  BY DEF Pop, TypeOK
<1>2. /\ queue' \in [Pods -> Object \union {Nil, Shared}]
      /\ \A q \in Pods : queue'[q] = Shared => queue[q] = Shared
  BY <1>1, SentinelAssumption DEF TypeOK
<1>3. CASE assumed[p] # Nil
  <2>1. cycle' = cycle
    BY <1>3 DEF Pop
  <2> QED
    BY <1>1, <1>2, <2>1 DEF TypeOK, IsBound
<1>4. CASE assumed[p] = Nil
  <2> DEFINE obj == IF queue[p] = Shared THEN cache[p] ELSE queue[p]
             rooms == {n \in Nodes : HasRoom(n)}
  <2>1. obj \in Object /\ (queue[p] = Shared => obj = cache[p])
    BY <1>1, SentinelAssumption DEF TypeOK
  <2>2. cycle' = [at |-> "prefilter", pod |-> p, obj |-> obj, shared |-> queue[p] = Shared,
                  nodes |-> rooms, policy |-> Nil]
    BY <1>4 DEF Pop
  <2>3. rooms \in SUBSET Nodes
    OBVIOUS
  <2> HIDE DEF obj, rooms
  <2>4. cycle' \in [at : Phases, pod : Pods \union {Nil}, obj : Object \union {Nil},
                    shared : BOOLEAN, nodes : SUBSET Nodes, policy : Policies \union {Nil}]
    BY <2>1, <2>2, <2>3 DEF Phases
  <2> QED
    BY <1>1, <1>2, <2>1, <2>2, <2>4, SentinelAssumption DEF TypeOK, AfterAnnotate, IsBound
<1> QED
  BY <1>3, <1>4

\* The common body of PreFilter and PreScore, with either continuation.
LEMMA TypeDecide ==
    ASSUME TypeOK, cycle.at \in {"prefilter", "prescore"},
           NEW pp \in Policies, NEW nodeList,
           NEW next \in {"annotateInPreFilter", "annotateInPreScore"},
           DecidePreference(pp, nodeList, next), pp # Nil,
           UNCHANGED <<api, created, watch, policies, queue, assumed, binding, spent>>
    PROVE  TypeOK'
<1>1. cycle.pod \in Pods /\ cycle.obj \in Object /\ cycle.pod # Nil
  BY CycleType
<1>2. CASE cycle' = [cycle EXCEPT !.at = "failed"] /\ UNCHANGED cache
  <2>1. cycle' \in [at : Phases, pod : Pods \union {Nil}, obj : Object \union {Nil},
                    shared : BOOLEAN, nodes : SUBSET Nodes, policy : Policies \union {Nil}]
    BY <1>2 DEF TypeOK, Phases
  <2> QED
    BY <1>2, <2>1, CycleKeepsType DEF TypeOK, AfterAnnotate
<1>3. ASSUME NEW preference \in {"true", "false"},
             cycle' = [cycle EXCEPT !.at = next, !.obj = Annotated(cycle.obj, pp, preference),
                                    !.policy = pp],
             cache' = CacheAfterWrite(Annotated(cycle.obj, pp, preference))
      PROVE  TypeOK'
  <2> DEFINE obj == Annotated(cycle.obj, pp, preference)
  <2>1. obj \in Object /\ obj.node = cycle.obj.node
    BY <1>1, AnnotatedType
  <2>2. /\ cycle' = [cycle EXCEPT !.at = next, !.obj = obj, !.policy = pp]
        /\ cache' = IF cycle.shared THEN [cache EXCEPT ![cycle.pod] = obj] ELSE cache
    BY <1>3 DEF CacheAfterWrite
  <2> HIDE DEF obj
  <2>3. cycle' \in [at : Phases, pod : Pods \union {Nil}, obj : Object \union {Nil},
                    shared : BOOLEAN, nodes : SUBSET Nodes, policy : Policies \union {Nil}]
    BY <2>1, <2>2 DEF TypeOK, Phases
  <2>4. cache' \in [Pods -> Object \union {Nil}]
    BY <2>1, <2>2 DEF TypeOK
  <2>5. /\ cycle'.at = next /\ cycle'.pod = cycle.pod /\ cycle'.obj = obj /\ cycle'.policy = pp
        /\ cycle'.shared = cycle.shared
    BY <2>2 DEF TypeOK
  <2>6. cycle'.shared => cycle'.obj = cache'[cycle'.pod]
    BY <1>1, <2>2, <2>5 DEF TypeOK
  <2>7. ASSUME NEW q \in Pods, queue'[q] = Shared PROVE cache'[q] # Nil /\ ~IsBound(cache'[q])
    <3>1. cache[q] # Nil /\ ~IsBound(cache[q])
      BY <2>7 DEF TypeOK
    <3> QED
      BY <3>1, <1>1, <2>1, <2>2, SentinelAssumption DEF TypeOK, IsBound
  <2> QED
    BY <1>1, <2>1, <2>3, <2>4, <2>5, <2>6, <2>7, SentinelAssumption DEF TypeOK, IsBound
<1> QED
  BY <1>2, <1>3, DecisionOutcome

\* Nothing to decide: the cycle goes on with what it has.
LEMMA TypeSkip ==
    ASSUME TypeOK, cycle.at \notin {"down", "idle"},
           NEW next \in {"filter", "score", "failed"},
           cycle' = [cycle EXCEPT !.at = next],
           UNCHANGED <<api, created, watch, cache, policies, queue, assumed, binding, spent>>
    PROVE  TypeOK'
<1>1. cycle' \in [at : Phases, pod : Pods \union {Nil}, obj : Object \union {Nil},
                  shared : BOOLEAN, nodes : SUBSET Nodes, policy : Policies \union {Nil}]
  BY DEF TypeOK, Phases
<1> QED
  BY <1>1, CycleKeepsType DEF TypeOK, AfterAnnotate

LEMMA TypePreFilter == ASSUME TypeOK, PreFilter PROVE TypeOK'
<1>1. ASSUME SkipTo("filter") PROVE TypeOK'
  BY <1>1, TypeSkip DEF SkipTo, PreFilter
<1>2. ASSUME NEW pp \in Governing(cycle.pod), DecidePreference(pp, Nodes, "annotateInPreFilter")
      PROVE  TypeOK'
  BY <1>2, GoverningInPolicies, TypeDecide, SentinelAssumption DEF PreFilter
<1> QED
  BY <1>1, <1>2 DEF PreFilter

LEMMA TypePreScore == ASSUME TypeOK, PreScore PROVE TypeOK'
<1>1. ASSUME SkipTo("score") PROVE TypeOK'
  BY <1>1, TypeSkip DEF SkipTo, PreScore
<1>2. ASSUME NEW pp \in Governing(cycle.pod), DecidePreference(pp, cycle.nodes, "annotateInPreScore")
      PROVE  TypeOK'
  BY <1>2, GoverningInPolicies, TypeDecide, SentinelAssumption DEF PreScore
<1> QED
  BY <1>1, <1>2 DEF PreScore

\* Every way an update of the API server's pod can end has the same type.
LEMMA TypeUpdate ==
    ASSUME TypeOK, cycle.at \in DOMAIN AfterAnnotate,
           \/ UNCHANGED <<api, watch>>
           \/ UpdateAccepted(cycle.pod) /\ UpdatePod(cycle.pod)
    PROVE  /\ api' \in [Pods -> Object \union {Nil}]
           /\ watch' \in Seq([pod : Pods, obj : Object \union {Nil}])
<1>1. CASE UNCHANGED <<api, watch>>
  BY <1>1 DEF TypeOK
<1>2. CASE UpdateAccepted(cycle.pod) /\ UpdatePod(cycle.pod)
  <2> DEFINE o == Annotated(api[cycle.pod], cycle.policy, cycle.obj.pref)
  <2>1. cycle.pod \in Pods /\ api[cycle.pod] \in Object
    BY <1>2, CycleType DEF TypeOK, UpdateAccepted, AfterAnnotate
  <2>2. cycle.obj.pref \in Preferences /\ cycle.policy \in Policies
    BY CycleType DEF TypeOK, Object, AfterAnnotate
  <2>3. o \in Object
    BY <2>1, <2>2 DEF Annotated, Object, PolicyNames, Preferences
  <2>4. NextVersion(o) \in Object
    BY <2>3, NextVersionType
  <2>5. UNCHANGED <<api, watch>> \/ Store(cycle.pod, NextVersion(o))
    BY <1>2 DEF UpdatePod
  <2> QED
    BY <2>1, <2>4, <2>5, StoreType DEF TypeOK
<1> QED
  BY <1>1, <1>2

LEMMA TypeAnnotatePod == ASSUME TypeOK, AnnotatePod PROVE TypeOK'
<1>1. cycle.at \in DOMAIN AfterAnnotate /\ cycle.at \notin {"down", "idle"}
  BY DEF AnnotatePod, AfterAnnotate
<1>2. api' \in [Pods -> Object \union {Nil}] /\ watch' \in Seq([pod : Pods, obj : Object \union {Nil}])
  BY <1>1, TypeUpdate DEF AnnotatePod
<1>3. PICK next \in {"filter", "score", "failed"} : cycle' = [cycle EXCEPT !.at = next]
  BY <1>1 DEF AnnotatePod, AfterAnnotate
<1>4. cycle' \in [at : Phases, pod : Pods \union {Nil}, obj : Object \union {Nil},
                  shared : BOOLEAN, nodes : SUBSET Nodes, policy : Policies \union {Nil}]
  BY <1>3 DEF TypeOK, Phases
<1>5. UNCHANGED <<created, cache, policies, queue, assumed, binding, spent>>
  BY DEF AnnotatePod
<1> QED
  BY <1>1, <1>2, <1>3, <1>4, <1>5 DEF TypeOK, AfterAnnotate, IsBound

LEMMA TypeAnnotatePodLost == ASSUME TypeOK, AnnotatePodLost PROVE TypeOK'
<1>1. cycle.at \in DOMAIN AfterAnnotate /\ cycle.at \notin {"down", "idle"}
  BY DEF AnnotatePodLost, AfterAnnotate
<1>2. api' \in [Pods -> Object \union {Nil}] /\ watch' \in Seq([pod : Pods, obj : Object \union {Nil}])
  BY <1>1, TypeUpdate DEF AnnotatePodLost
<1>3. cycle' = [cycle EXCEPT !.at = "failed"]
  BY DEF AnnotatePodLost
<1>4. cycle' \in [at : Phases, pod : Pods \union {Nil}, obj : Object \union {Nil},
                  shared : BOOLEAN, nodes : SUBSET Nodes, policy : Policies \union {Nil}]
  BY <1>3 DEF TypeOK, Phases
<1>5. UNCHANGED <<created, cache, policies, queue, assumed, binding>>
  BY DEF AnnotatePodLost
<1>6. spent' \in [Disturbances -> Nat]
  BY DisturbType DEF AnnotatePodLost, Disturbances
<1> QED
  BY <1>1, <1>2, <1>3, <1>4, <1>5, <1>6 DEF TypeOK, AfterAnnotate, IsBound

\* A cycle that ends by assuming a node, or fails at it.
LEMMA TypeAssume ==
    ASSUME TypeOK, cycle.at \notin {"down", "idle"}, NEW n \in Nodes, Assume(n),
           UNCHANGED <<api, created, watch, cache, policies, queue, spent>>
    PROVE  TypeOK'
<1>1. CASE IsBound(cache[cycle.pod])
  BY <1>1, TypeSkip DEF Assume
<1>2. CASE ~IsBound(cache[cycle.pod])
  <2>1. /\ assumed' = [assumed EXCEPT ![cycle.pod] = n]
        /\ binding' = [binding EXCEPT ![cycle.pod] = "posting"]
        /\ cycle' = NoCycle("idle")
    BY <1>2 DEF Assume
  <2>2. assumed' \in [Pods -> Nodes \union {Nil}] /\ binding' \in [Pods -> {"none", "posting", "failed"}]
    BY <2>1 DEF TypeOK
  <2> QED
    BY <2>1, <2>2, NoCycleType, CycleKeepsType DEF AfterAnnotate
<1> QED
  BY <1>1, <1>2

LEMMA TypeFilterNodes == ASSUME TypeOK, FilterNodes PROVE TypeOK'
<1> DEFINE feasible == {n \in cycle.nodes : Filter(n)}
<1>1. cycle.at = "filter" /\ UNCHANGED <<api, created, watch, cache, policies, queue, spent>>
  BY DEF FilterNodes
<1>2. feasible \in SUBSET Nodes
  BY DEF TypeOK
<1>3. \/ cycle' = [cycle EXCEPT !.at = "failed"] /\ UNCHANGED <<assumed, binding>>
      \/ \E n \in feasible : Assume(n)
      \/ /\ cycle' = [cycle EXCEPT !.at = "prescore", !.nodes = feasible, !.policy = Nil]
         /\ UNCHANGED <<assumed, binding>>
  BY DEF FilterNodes
<1> HIDE DEF feasible
<1>4. CASE cycle' = [cycle EXCEPT !.at = "failed"] /\ UNCHANGED <<assumed, binding>>
  BY <1>1, <1>4, TypeSkip
<1>5. CASE \E n \in feasible : Assume(n)
  BY <1>1, <1>2, <1>5, TypeAssume
<1>6. CASE /\ cycle' = [cycle EXCEPT !.at = "prescore", !.nodes = feasible, !.policy = Nil]
           /\ UNCHANGED <<assumed, binding>>
  <2>1. cycle' \in [at : Phases, pod : Pods \union {Nil}, obj : Object \union {Nil},
                    shared : BOOLEAN, nodes : SUBSET Nodes, policy : Policies \union {Nil}]
    BY <1>2, <1>6 DEF TypeOK, Phases
  <2> QED
    BY <1>1, <1>6, <2>1, CycleKeepsType DEF TypeOK, AfterAnnotate
<1> QED
  BY <1>3, <1>4, <1>5, <1>6

LEMMA TypeScoreNodes == ASSUME TypeOK, ScoreNodes PROVE TypeOK'
<1>1. cycle.at = "score" /\ UNCHANGED <<api, created, watch, cache, policies, queue, spent>>
  BY DEF ScoreNodes
<1>2. PICK host \in cycle.nodes : Assume(host)
  BY DEF ScoreNodes
<1>3. host \in Nodes
  BY DEF TypeOK
<1> QED
  BY <1>1, <1>2, <1>3, TypeAssume

\* Queueing a failed pod again, and patching its status.
LEMMA TypeQueueAfterFailure ==
    ASSUME TypeOK, NEW p \in Pods, queue' = QueueAfterFailure(p)
    PROVE  /\ queue' \in [Pods -> Object \union {Nil, Shared}]
           /\ \A q \in Pods : queue'[q] = Shared => queue[q] = Shared
BY SentinelAssumption DEF QueueAfterFailure, TypeOK

LEMMA TypePatchStatus ==
    ASSUME TypeOK, NEW p \in Pods, PatchStatus(p)
    PROVE  /\ api' \in [Pods -> Object \union {Nil}]
           /\ watch' \in Seq([pod : Pods, obj : Object \union {Nil}])
           /\ spent' \in [Disturbances -> Nat]
<1>1. CASE UNCHANGED <<api, watch, spent>>
  BY <1>1 DEF TypeOK
<1>2. CASE api[p] # Nil /\ Disturb("patch") /\ Store(p, NextVersion(api[p]))
  <2>1. NextVersion(api[p]) \in Object
    BY <1>2, NextVersionType DEF TypeOK
  <2>2. spent' \in [Disturbances -> Nat]
    BY <1>2, DisturbType DEF Disturbances
  <2> QED
    BY <1>2, <2>1, <2>2, StoreType
<1> QED
  BY <1>1, <1>2 DEF PatchStatus

LEMMA TypeFailCycle == ASSUME TypeOK, FailCycle PROVE TypeOK'
<1>1. cycle.pod \in Pods
  BY CycleType DEF FailCycle
<1>2. /\ api' \in [Pods -> Object \union {Nil}]
      /\ watch' \in Seq([pod : Pods, obj : Object \union {Nil}])
      /\ spent' \in [Disturbances -> Nat]
  BY <1>1, TypePatchStatus DEF FailCycle
<1>3. /\ queue' \in [Pods -> Object \union {Nil, Shared}]
      /\ \A q \in Pods : queue'[q] = Shared => queue[q] = Shared
  BY <1>1, TypeQueueAfterFailure DEF FailCycle
<1>4. cycle' = NoCycle("idle") /\ UNCHANGED <<created, cache, policies, assumed, binding>>
  BY DEF FailCycle
<1> QED
  BY <1>2, <1>3, <1>4, NoCycleType DEF TypeOK, AfterAnnotate, IsBound

\* What the bind call may have done to the store, whether its reply comes or not.
LEMMA TypeStoreBinding ==
    ASSUME TypeOK, NEW p \in Pods,
           UNCHANGED <<api, watch>> \/ (BindAccepted(p) /\ StoreBinding(p))
    PROVE  /\ api' \in [Pods -> Object \union {Nil}]
           /\ watch' \in Seq([pod : Pods, obj : Object \union {Nil}])
<1>1. CASE UNCHANGED <<api, watch>>
  BY <1>1 DEF TypeOK
<1>2. CASE BindAccepted(p) /\ StoreBinding(p)
  <2> DEFINE o == [api[p] EXCEPT !.node = assumed[p]]
  <2>1. api[p] \in Object /\ assumed[p] \in Nodes \union {Nil}
    BY <1>2 DEF TypeOK, BindAccepted
  <2>2. o \in Object
    BY <2>1 DEF Object
  <2> QED
    BY <1>2, <2>2, NextVersionType, StoreType DEF StoreBinding
<1> QED
  BY <1>1, <1>2

LEMMA TypeBind == ASSUME TypeOK, NEW p \in Pods, Bind(p) PROVE TypeOK'
<1>1. /\ api' \in [Pods -> Object \union {Nil}]
      /\ watch' \in Seq([pod : Pods, obj : Object \union {Nil}])
  BY TypeStoreBinding DEF Bind
<1>2. binding' \in [Pods -> {"none", "posting", "failed"}]
  BY DEF Bind, TypeOK
<1> QED
  BY <1>1, <1>2 DEF Bind, TypeOK, IsBound

LEMMA TypeBindLost == ASSUME TypeOK, NEW p \in Pods, BindLost(p) PROVE TypeOK'
<1>1. /\ api' \in [Pods -> Object \union {Nil}]
      /\ watch' \in Seq([pod : Pods, obj : Object \union {Nil}])
  BY TypeStoreBinding DEF BindLost
<1>2. binding' \in [Pods -> {"none", "posting", "failed"}] /\ spent' \in [Disturbances -> Nat]
  BY DisturbType DEF BindLost, TypeOK, Disturbances
<1> QED
  BY <1>1, <1>2 DEF BindLost, TypeOK, IsBound

LEMMA TypeFailBind == ASSUME TypeOK, NEW p \in Pods, FailBind(p) PROVE TypeOK'
<1>1. /\ api' \in [Pods -> Object \union {Nil}]
      /\ watch' \in Seq([pod : Pods, obj : Object \union {Nil}])
      /\ spent' \in [Disturbances -> Nat]
  BY TypePatchStatus DEF FailBind
<1>2. /\ queue' \in [Pods -> Object \union {Nil, Shared}]
      /\ \A q \in Pods : queue'[q] = Shared => queue[q] = Shared
  BY TypeQueueAfterFailure DEF FailBind
<1>3. /\ binding' \in [Pods -> {"none", "posting", "failed"}]
      /\ assumed' \in [Pods -> Nodes \union {Nil}]
      /\ UNCHANGED <<created, cache, policies, cycle>>
  BY DEF FailBind, TypeOK
<1> QED
  BY <1>1, <1>2, <1>3 DEF TypeOK, IsBound

LEMMA TypeDie == ASSUME TypeOK, Die, spent' \in [Disturbances -> Nat] PROVE TypeOK'
<1>1. /\ cycle' = NoCycle("down")
      /\ UNCHANGED <<api, created, policies>>
  BY DEF Die
<1>2. /\ cache' \in [Pods -> Object \union {Nil}]
      /\ queue' \in [Pods -> Object \union {Nil, Shared}]
      /\ \A q \in Pods : queue'[q] # Shared
      /\ assumed' \in [Pods -> Nodes \union {Nil}]
      /\ binding' \in [Pods -> {"none", "posting", "failed"}]
  BY SentinelAssumption DEF Die
<1>3. watch' \in Seq([pod : Pods, obj : Object \union {Nil}])
  BY DEF Die
<1> QED
  BY <1>1, <1>2, <1>3, NoCycleType DEF TypeOK, AfterAnnotate

LEMMA TypeRestart == ASSUME TypeOK, Restart PROVE TypeOK'
<1>1. /\ cycle' = NoCycle("idle")
      /\ cache' = api
      /\ UNCHANGED <<api, created, watch, policies, assumed, binding, spent>>
  BY DEF Restart
<1>2. /\ queue' \in [Pods -> Object \union {Nil, Shared}]
      /\ \A q \in Pods : queue'[q] = Shared => api[q] # Nil /\ ~IsBound(api[q])
  BY SentinelAssumption DEF Restart
<1> QED
  BY <1>1, <1>2, NoCycleType DEF TypeOK, AfterAnnotate, IsBound

LEMMA TypeStep == TypeOK /\ [Next]_vars => TypeOK'
<1> SUFFICES ASSUME TypeOK, [Next]_vars PROVE TypeOK'
  OBVIOUS
<1>1. CASE Users
  BY <1>1, TypeCreatePod, TypeTouchPod, TypeDeletePod DEF Users
<1>2. CASE PolicyEvent
  BY <1>2, TypePolicyEvent
<1>3. CASE Deliver
  BY <1>3, TypeDeliver
<1>4. CASE \E p \in Pods : Pop(p) \/ Binding(p) \/ BindLost(p)
  BY <1>4, TypePop, TypeBind, TypeFailBind, TypeBindLost DEF Binding
<1>5. CASE Scheduling
  BY <1>5, TypePreFilter, TypeAnnotatePod, TypeFilterNodes, TypePreScore, TypeScoreNodes,
     TypeFailCycle DEF Scheduling
<1>6. CASE AnnotatePodLost
  BY <1>6, TypeAnnotatePodLost
<1>7. CASE Crash
  BY <1>7, DisturbType, TypeDie DEF Crash, Disturbances
<1>8. CASE Panic
  <2>1. Die /\ spent' \in [Disturbances -> Nat]
    BY <1>8 DEF Panic, TypeOK
  <2> QED
    BY <2>1, TypeDie
<1>9. CASE Restart
  BY <1>9, TypeRestart
<1>10. CASE UNCHANGED vars
  BY <1>10 DEF vars, TypeOK, IsBound
<1> QED
  BY <1>1, <1>2, <1>3, <1>4, <1>5, <1>6, <1>7, <1>8, <1>9, <1>10 DEF Next

\* Type correctness: the variables keep their types, the object of a cycle is the
\* informer's own object as long as it is marked shared, and no bound pod is
\* queued as a shared object.  It is about the hand-over of the pod object
\* between informer, queue and plugin (core.go:80-95, placementpolicy.go:78-146).
THEOREM TypeCorrect == Spec => []TypeOK
<1>1. TypeOK /\ [Next]_vars => TypeOK'
  BY TypeStep
<1> QED
  BY InitTypeOK, <1>1, PTL DEF Spec

---------------------------------------------------------------------------
(* What a step does to the store *)

\* The stored object t may follow s: a newer version never loses its node.
Follows(t, s) ==
    \/ t \in {s, Nil}
    \/ t # Nil /\ s # Nil /\ t.rv > s.rv /\ (s.node # Nil => t.node = s.node)

\* It follows s and says of the placement what s says.
SameButVersion(t, s) ==
    \/ t \in {s, Nil}
    \/ /\ t # Nil /\ s # Nil /\ t.rv > s.rv
       /\ t.node = s.node /\ t.pref = s.pref /\ t.by = s.by

\* The store and the watch move for pod p at most, to a version that follows.
Moves(p) ==
    \/ UNCHANGED <<api, watch>>
    \/ \E o \in Object \union {Nil} :
          /\ Store(p, o)
          /\ p \in created'
          /\ p \in created => Follows(o, api[p])

\* They move, and nothing is said anew.
Quiet(p) ==
    \/ UNCHANGED <<api, watch>>
    \/ \E o \in Object \union {Nil} : Store(p, o) /\ api[p] # Nil /\ SameButVersion(o, api[p])

LEMMA HeldStaysNotNewer ==
    ASSUME NEW o \in Object \union {Nil}, NEW s \in Object \union {Nil},
           NEW t \in Object \union {Nil}, NotNewer(o, s), Follows(t, s)
    PROVE  NotNewer(o, t)
<1>1. CASE o = Nil \/ t = Nil \/ t = s
  BY <1>1 DEF NotNewer
<1>2. CASE o # Nil /\ t # Nil /\ t # s
  <2>1. /\ s # Nil /\ t.rv > s.rv /\ (s.node # Nil => t.node = s.node)
        /\ o.rv <= s.rv /\ (o.node # Nil => o.node = s.node)
    BY <1>2 DEF NotNewer, Follows
  <2>2. o.rv \in Nat /\ s.rv \in Nat /\ t.rv \in Nat
    BY <1>2, <2>1 DEF Object
  <2>3. o.rv <= t.rv /\ o.rv # t.rv
    BY <2>1, <2>2
  <2> QED
    BY <2>1, <2>3 DEF NotNewer
<1> QED
  BY <1>1, <1>2

LEMMA StoredIsNotNewer ==
    ASSUME NEW s \in Object \union {Nil}
    PROVE  NotNewer(s, s) /\ NotNewer(Nil, s) /\ NotNewer(s, Nil)
<1>1. CASE s = Nil
  BY <1>1 DEF NotNewer
<1>2. CASE s \in Object
  <2>1. s.rv \in Nat
    BY <1>2 DEF Object
  <2> QED
    BY <2>1 DEF NotNewer
<1> QED
  BY <1>1, <1>2

LEMMA QuietMoves ==
    ASSUME TypeOK, OnlyCreated, NEW p \in Pods, Quiet(p), created' = created
    PROVE  /\ Moves(p)
           /\ \A q \in Pods : SameButVersion(api'[q], api[q])
<1>1. CASE UNCHANGED <<api, watch>>
  BY <1>1 DEF Moves, SameButVersion
<1>2. ASSUME NEW o \in Object \union {Nil}, Store(p, o), api[p] # Nil, SameButVersion(o, api[p])
      PROVE  Moves(p) /\ \A q \in Pods : SameButVersion(api'[q], api[q])
  <2>1. api' = [api EXCEPT ![p] = o]
    BY <1>2 DEF Store
  <2>2. Follows(o, api[p]) /\ p \in created'
    BY <1>2 DEF SameButVersion, Follows, OnlyCreated
  <2> QED
    BY <1>2, <2>1, <2>2 DEF Moves, SameButVersion, TypeOK
<1> QED
  BY <1>1, <1>2 DEF Quiet

\* A pod's next version is the same but for the version.
LEMMA NextVersionQuiet ==
    ASSUME TypeOK, NEW p \in Pods, api[p] # Nil, Store(p, NextVersion(api[p]))
    PROVE  Quiet(p)
<1>1. api[p] \in Object
  BY DEF TypeOK
<1>2. NextVersion(api[p]) \in Object /\ NextVersion(api[p]).rv = api[p].rv + 1 /\ api[p].rv \in Nat
  BY <1>1, NextVersionType DEF Object
<1>3. SameButVersion(NextVersion(api[p]), api[p])
  BY <1>1, <1>2, NextVersionType, SentinelAssumption DEF SameButVersion
<1> QED
  BY <1>2, <1>3 DEF Quiet

LEMMA TouchQuiet == ASSUME TypeOK, NEW p \in Pods, TouchPod(p) PROVE Quiet(p)
BY NextVersionQuiet DEF TouchPod

LEMMA DeleteQuiet == ASSUME TypeOK, NEW p \in Pods, DeletePod(p) PROVE Quiet(p)
<1>1. Store(p, Nil) /\ api[p] # Nil
  BY DEF DeletePod
<1> QED
  BY <1>1 DEF Quiet, SameButVersion

LEMMA PatchQuiet == ASSUME TypeOK, NEW p \in Pods, PatchStatus(p) PROVE Quiet(p)
BY NextVersionQuiet DEF PatchStatus, Quiet

\* What every store movement keeps of what is held elsewhere, and what it makes
\* of the watch.
LEMMA MovesKeep ==
    ASSUME TypeOK, OnlyCreated, Versions, NEW p \in Pods, Moves(p),
           created \subseteq created', api' \in [Pods -> Object \union {Nil}]
    PROVE  /\ \A q \in Pods : \A o \in Object \union {Nil} :
                 NotNewer(o, api[q]) /\ (o # Nil => q \in created) => NotNewer(o, api'[q])
           /\ \A q \in Pods : api'[q] # Nil => q \in created'
           /\ \A i \in 1..Len(watch') :
                 watch'[i].pod \in created' /\ NotNewer(watch'[i].obj, api'[watch'[i].pod])
<1> DEFINE E == [pod : Pods, obj : Object \union {Nil}]
<1>0. watch \in Seq(E)
  BY DEF TypeOK
<1>1. CASE UNCHANGED <<api, watch>>
  BY <1>1 DEF OnlyCreated, Versions
<1>2. ASSUME NEW o \in Object \union {Nil}, Store(p, o), p \in created',
             p \in created => Follows(o, api[p])
      PROVE  /\ \A q \in Pods : \A h \in Object \union {Nil} :
                 NotNewer(h, api[q]) /\ (h # Nil => q \in created) => NotNewer(h, api'[q])
             /\ \A q \in Pods : api'[q] # Nil => q \in created'
             /\ \A i \in 1..Len(watch') :
                 watch'[i].pod \in created' /\ NotNewer(watch'[i].obj, api'[watch'[i].pod])
  <2>1. api' = [api EXCEPT ![p] = o] /\ watch' \in {watch, Append(watch, [pod |-> p, obj |-> o])}
    BY <1>2 DEF Store
  <2>2. api \in [Pods -> Object \union {Nil}]
    BY DEF TypeOK
  <2>3. \A q \in Pods : \A h \in Object \union {Nil} :
            NotNewer(h, api[q]) /\ (h # Nil => q \in created) => NotNewer(h, api'[q])
    BY <1>2, <2>1, <2>2, HeldStaysNotNewer, StoredIsNotNewer
  <2>4. \A q \in Pods : api'[q] # Nil => q \in created'
    BY <1>2, <2>1, <2>2 DEF OnlyCreated
  <2>5. api'[p] = o
    BY <2>1, <2>2
  <2>6. \A i \in 1..Len(watch) : watch[i] \in E
    <3> HIDE DEF E
    <3> QED
      BY <1>0
  <2>7. \A i \in 1..Len(watch) :
            watch[i].pod \in created' /\ NotNewer(watch[i].obj, api'[watch[i].pod])
    <3>1. SUFFICES ASSUME NEW i \in 1..Len(watch)
                   PROVE  watch[i].pod \in created' /\ NotNewer(watch[i].obj, api'[watch[i].pod])
      OBVIOUS
    <3>2. watch[i].pod \in Pods /\ watch[i].obj \in Object \union {Nil}
      BY <2>6
    <3>3. watch[i].pod \in created /\ NotNewer(watch[i].obj, api[watch[i].pod])
      BY DEF OnlyCreated, Versions
    <3> QED
      BY <2>3, <3>2, <3>3
  <2>8. CASE watch' = watch
    BY <2>3, <2>4, <2>7, <2>8
  <2>9. CASE watch' = Append(watch, [pod |-> p, obj |-> o])
    <3> DEFINE e == [pod |-> p, obj |-> o]
    <3>1. e \in E /\ e.pod = p /\ e.obj = o
      OBVIOUS
    <3> HIDE DEF e, E
    <3>2. /\ Len(watch') = Len(watch) + 1 /\ Len(watch) \in Nat
          /\ \A i \in 1..Len(watch) : watch'[i] = watch[i]
          /\ watch'[Len(watch) + 1] = e
      BY <1>0, <2>9, <3>1 DEF e
    <3>3. \A i \in 1..Len(watch') : i \in 1..Len(watch) \/ i = Len(watch) + 1
      BY <3>2
    <3>4. NotNewer(o, api'[p])
      BY <2>5, StoredIsNotNewer
    <3>5. \A i \in 1..Len(watch') :
             watch'[i].pod \in created' /\ NotNewer(watch'[i].obj, api'[watch'[i].pod])
      BY <1>2, <2>7, <3>1, <3>2, <3>3, <3>4
    <3> QED
      BY <2>3, <2>4, <3>5
  <2> QED
    BY <2>1, <2>8, <2>9
<1> QED
  BY <1>1, <1>2 DEF Moves

\* An accepted update annotates the unbound pod of the cycle.
LEMMA UpdateEffect ==
    ASSUME TypeOK, OnlyCreated, Versions, cycle.at \in DOMAIN AfterAnnotate,
           UpdateAccepted(cycle.pod), UpdatePod(cycle.pod), created' = created
    PROVE  /\ Moves(cycle.pod)
           /\ \A q \in Pods : q # cycle.pod => api'[q] = api[q]
           /\ api[cycle.pod] # Nil /\ api[cycle.pod].node = Nil
           /\ api'[cycle.pod] # Nil /\ api'[cycle.pod].node = Nil
           /\ api'[cycle.pod].pref = cycle.obj.pref
           /\ api'[cycle.pod].by = cycle.policy.name
<1> DEFINE p == cycle.pod
           o == Annotated(api[p], cycle.policy, cycle.obj.pref)
<1>1. p \in Pods /\ p # Nil /\ api[p] \in Object /\ api[p] # Nil /\ cycle.obj \in Object /\ cycle.obj # Nil
  BY CycleType DEF TypeOK, UpdateAccepted, AfterAnnotate
<1>2. cycle.policy \in Policies /\ cycle.obj.pref \in Preferences
  BY <1>1 DEF TypeOK, Object, AfterAnnotate
<1>3. /\ o \in Object /\ o.rv = api[p].rv /\ o.node = api[p].node
      /\ o.pref = cycle.obj.pref /\ o.by = cycle.policy.name
  BY <1>1, <1>2 DEF Annotated, Object, PolicyNames, Preferences
<1>4. api[p].node = Nil
  BY <1>1 DEF Versions, NotNewer, UpdateAccepted
<1>5. (o = api[p] /\ UNCHANGED <<api, watch>>) \/ Store(p, NextVersion(o))
  BY DEF UpdatePod
<1>6. p \in created
  BY <1>1 DEF OnlyCreated
<1> HIDE DEF o
<1>7. CASE o = api[p] /\ UNCHANGED <<api, watch>>
  BY <1>1, <1>3, <1>4, <1>7 DEF Moves
<1>8. CASE Store(p, NextVersion(o))
  <2> DEFINE n == NextVersion(o)
  <2>1. /\ n \in Object /\ n.rv = o.rv + 1 /\ n.node = o.node /\ n.pref = o.pref /\ n.by = o.by
        /\ o.rv \in Nat
    BY <1>3, NextVersionType DEF Object
  <2> HIDE DEF n
  <2>2. api' = [api EXCEPT ![p] = n]
    BY <1>8 DEF Store, n
  <2>3. n # Nil /\ n.rv > api[p].rv
    BY <1>3, <2>1, SentinelAssumption
  <2>4. Follows(n, api[p])
    BY <1>1, <1>4, <2>3 DEF Follows
  <2>5. Moves(p)
    BY <1>6, <1>8, <2>1, <2>4 DEF Moves, n
  <2> QED
    BY <1>1, <1>3, <1>4, <2>1, <2>2, <2>3, <2>5 DEF TypeOK
<1> QED
  BY <1>5, <1>7, <1>8

\* An accepted binding gives the pod its node, and leaves its annotations.
LEMMA BindEffect ==
    ASSUME TypeOK, OnlyCreated, NEW p \in Pods, BindAccepted(p), StoreBinding(p),
           created' = created
    PROVE  /\ Moves(p)
           /\ \A q \in Pods : q # p => api'[q] = api[q]
           /\ api'[p] # Nil /\ api'[p].node = assumed[p]
           /\ api'[p].pref = api[p].pref /\ api'[p].by = api[p].by
<1> DEFINE o == [api[p] EXCEPT !.node = assumed[p]]
           n == NextVersion(o)
<1>1. api[p] \in Object /\ api[p] # Nil /\ api[p].node = Nil /\ assumed[p] \in Nodes \union {Nil}
  BY DEF TypeOK, BindAccepted
<1>2. /\ o \in Object /\ o.rv = api[p].rv /\ o.node = assumed[p]
      /\ o.pref = api[p].pref /\ o.by = api[p].by /\ o.rv \in Nat
  BY <1>1 DEF Object
<1> HIDE DEF o
<1>3. n \in Object /\ n.rv = o.rv + 1 /\ n.node = o.node /\ n.pref = o.pref /\ n.by = o.by
  BY <1>2, NextVersionType
<1>4. Store(p, n)
  BY DEF StoreBinding, o
<1> HIDE DEF n
<1>5. api' = [api EXCEPT ![p] = n] /\ n # Nil /\ n.rv > api[p].rv
  BY <1>2, <1>3, <1>4, SentinelAssumption DEF Store
<1>6. Follows(n, api[p]) /\ p \in created'
  BY <1>1, <1>5 DEF Follows, OnlyCreated
<1>7. Moves(p)
  BY <1>3, <1>4, <1>6 DEF Moves
<1> QED
  BY <1>2, <1>3, <1>5, <1>7 DEF TypeOK

---------------------------------------------------------------------------
(* What is held stays about created pods, and not newer than the store *)

\* Steps that write neither the informer's cache nor the object of the cycle.
LEMMA KnowledgeKept ==
    ASSUME TypeOK, TypeOK', Knowledge, created \subseteq created',
           UNCHANGED <<api, watch>> \/ \E p \in Pods : Moves(p),
           cache' = cache,
           \A q \in Pods : \/ queue'[q] \in {queue[q], Nil}
                           \/ queue'[q] = cache[q] /\ ~IsBound(cache[q]),
           cycle'.pod # Nil => cycle'.pod = cycle.pod /\ cycle'.obj = cycle.obj,
           \A q \in Pods : binding'[q] = "none" \/ binding[q] # "none" \/ q = cycle.pod
    PROVE  Knowledge'
<1>1. /\ \A q \in Pods : \A o \in Object \union {Nil} :
            NotNewer(o, api[q]) /\ (o # Nil => q \in created) => NotNewer(o, api'[q])
      /\ \A q \in Pods : api'[q] # Nil => q \in created'
      /\ \A i \in 1..Len(watch') :
            watch'[i].pod \in created' /\ NotNewer(watch'[i].obj, api'[watch'[i].pod])
  <2>1. CASE UNCHANGED <<api, watch>>
    BY <2>1 DEF Knowledge, OnlyCreated, Versions
  <2>2. CASE \E p \in Pods : Moves(p)
    <3>1. api' \in [Pods -> Object \union {Nil}]
      BY DEF TypeOK
    <3> QED
      BY <2>2, <3>1, MovesKeep DEF Knowledge
  <2> QED
    BY <2>1, <2>2
<1>2. \A q \in Pods : cache[q] \in Object \union {Nil} /\ (cache[q] # Nil => q \in created)
                      /\ NotNewer(cache[q], api[q])
  BY DEF TypeOK, Knowledge, OnlyCreated, Versions
<1>3. \A q \in Pods : NotNewer(cache'[q], api'[q])
  BY <1>1, <1>2
<1>4. ASSUME NEW q \in Pods, queue'[q] \notin {Nil, Shared}
      PROVE  NotNewer(queue'[q], api'[q]) /\ queue'[q].node = Nil
  <2>1. CASE queue'[q] = queue[q]
    <3>1. queue[q] \in Object /\ NotNewer(queue[q], api[q]) /\ queue[q].node = Nil /\ q \in created
      BY <1>4, <2>1 DEF TypeOK, Knowledge, OnlyCreated, Versions
    <3> QED
      BY <1>1, <2>1, <3>1
  <2>2. CASE queue'[q] = cache[q] /\ ~IsBound(cache[q])
    <3>1. cache[q] # Nil /\ cache[q].node = Nil
      BY <1>4, <2>2 DEF IsBound
    <3> QED
      BY <1>1, <1>2, <2>2, <3>1
  <2> QED
    BY <1>4, <2>1, <2>2
<1>5. \A q \in Pods : queue'[q] # Nil => q \in created'
  BY <1>2 DEF Knowledge, OnlyCreated
<1>6. ASSUME cycle'.pod # Nil
      PROVE  NotNewer(cycle'.obj, api'[cycle'.pod]) /\ cycle'.obj.node = Nil /\ cycle'.pod \in created'
  <2>1. cycle'.pod = cycle.pod /\ cycle'.obj = cycle.obj
    BY <1>6
  <2>2. /\ cycle.pod \in Pods /\ cycle.obj \in Object \union {Nil} /\ cycle.pod \in created
        /\ NotNewer(cycle.obj, api[cycle.pod]) /\ cycle.obj.node = Nil
    BY <1>6, <2>1 DEF TypeOK, Knowledge, OnlyCreated, Versions
  <2> QED
    BY <1>1, <2>1, <2>2
<1>7. \A q \in Pods : binding'[q] # "none" => q \in created'
  <2> SUFFICES ASSUME NEW q \in Pods, binding'[q] # "none" PROVE q \in created
    OBVIOUS
  <2>1. CASE binding[q] # "none"
    BY <2>1 DEF Knowledge, OnlyCreated
  <2>2. CASE q = cycle.pod
    BY <2>2, SentinelAssumption DEF Knowledge, OnlyCreated
  <2> QED
    BY <2>1, <2>2
<1>8. \A q \in Pods : cache'[q] # Nil => q \in created'
  BY <1>2
<1> QED
  BY <1>1, <1>3, <1>4, <1>5, <1>6, <1>7, <1>8 DEF Knowledge, OnlyCreated, Versions

LEMMA CreateKnowledge == ASSUME TypeOK, TypeOK', Knowledge, NEW p \in Pods, CreatePod(p) PROVE Knowledge'
<1>1. [rv |-> 1, pref |-> "", by |-> "", node |-> Nil] \in Object
  BY DEF Object, Preferences
<1>2. Moves(p)
  BY <1>1 DEF CreatePod, Moves
<1> QED
  BY <1>2, KnowledgeKept DEF CreatePod

LEMMA TouchKnowledge ==
    ASSUME TypeOK, TypeOK', Knowledge, NEW p \in Pods, TouchPod(p) \/ DeletePod(p)
    PROVE  Knowledge'
<1>1. Quiet(p) /\ UNCHANGED <<created, cache, queue, cycle, binding>>
  BY TouchQuiet, DeleteQuiet DEF TouchPod, DeletePod
<1>2. Moves(p)
  BY <1>1, QuietMoves DEF Knowledge
<1> QED
  BY <1>1, <1>2, KnowledgeKept

LEMMA AnnotateKnowledge ==
    ASSUME TypeOK, TypeOK', Knowledge, AnnotatePod \/ AnnotatePodLost
    PROVE  Knowledge'
<1>1. /\ cycle.at \in DOMAIN AfterAnnotate
      /\ \/ UNCHANGED <<api, watch>>
         \/ UpdateAccepted(cycle.pod) /\ UpdatePod(cycle.pod)
      /\ UNCHANGED <<created, cache, queue, binding>>
  BY DEF AnnotatePod, AnnotatePodLost
<1>2. cycle.pod \in Pods
  BY <1>1, CycleType DEF AfterAnnotate
<1>3. UNCHANGED <<api, watch>> \/ Moves(cycle.pod)
  BY <1>1, UpdateEffect DEF Knowledge
<1>4. cycle'.pod = cycle.pod /\ cycle'.obj = cycle.obj
  BY DEF AnnotatePod, AnnotatePodLost, TypeOK
<1> QED
  BY <1>1, <1>2, <1>3, <1>4, KnowledgeKept

\* Failure handling, of a cycle or of a bind call, requeues the cache's object.
LEMMA FailureKnowledge ==
    ASSUME TypeOK, TypeOK', Knowledge, NEW p \in Pods, PatchStatus(p), queue' = QueueAfterFailure(p),
           created' = created, cache' = cache,
           cycle' \in {cycle, NoCycle("idle")},
           \A q \in Pods : binding'[q] \in {binding[q], "none"}
    PROVE  Knowledge'
<1>1. Moves(p)
  BY PatchQuiet, QuietMoves DEF Knowledge
<1>2. \A q \in Pods : \/ queue'[q] \in {queue[q], Nil}
                      \/ queue'[q] = cache[q] /\ ~IsBound(cache[q])
  BY DEF QueueAfterFailure, TypeOK
<1>3. cycle'.pod # Nil => cycle'.pod = cycle.pod /\ cycle'.obj = cycle.obj
  BY NoCycleType
<1> QED
  BY <1>1, <1>2, <1>3, KnowledgeKept

LEMMA BindKnowledge ==
    ASSUME TypeOK, TypeOK', Knowledge, NEW p \in Pods, Bind(p) \/ BindLost(p)
    PROVE  Knowledge'
<1>1. /\ binding[p] = "posting"
      /\ \/ UNCHANGED <<api, watch>>
         \/ BindAccepted(p) /\ StoreBinding(p)
      /\ UNCHANGED <<created, cache, queue, cycle>>
      /\ \A q \in Pods : q # p => binding'[q] = binding[q]
  BY DEF Bind, BindLost, TypeOK
<1>2. UNCHANGED <<api, watch>> \/ Moves(p)
  BY <1>1, BindEffect DEF Knowledge
<1> QED
  BY <1>1, <1>2, KnowledgeKept

\* The store is left alone, and the pod of the cycle may be assumed.
LEMMA CycleKnowledge ==
    ASSUME TypeOK, TypeOK', Knowledge, UNCHANGED <<api, created, watch, cache, queue>>,
           cycle'.pod # Nil => cycle'.pod = cycle.pod /\ cycle'.obj = cycle.obj,
           \A q \in Pods : q = cycle.pod \/ binding'[q] = binding[q]
    PROVE  Knowledge'
BY KnowledgeKept

LEMMA AssumeKnowledge ==
    ASSUME TypeOK, TypeOK', Knowledge, FilterNodes \/ ScoreNodes
    PROVE  Knowledge'
<1>1. /\ UNCHANGED <<api, created, watch, cache, queue>>
      /\ \/ \E n : Assume(n)
         \/ cycle' = [cycle EXCEPT !.at = "failed"] /\ UNCHANGED binding
         \/ /\ cycle' = [cycle EXCEPT !.at = "prescore",
                         !.nodes = {n \in cycle.nodes : Filter(n)}, !.policy = Nil]
            /\ UNCHANGED binding
  BY DEF FilterNodes, ScoreNodes
<1>2. cycle'.pod # Nil => cycle'.pod = cycle.pod /\ cycle'.obj = cycle.obj
  BY <1>1, NoCycleType DEF Assume, TypeOK
<1>3. \A q \in Pods : q = cycle.pod \/ binding'[q] = binding[q]
  BY <1>1 DEF Assume, TypeOK
<1> QED
  BY <1>1, <1>2, <1>3, CycleKnowledge

LEMMA DecideKnowledge ==
    ASSUME TypeOK, TypeOK', Knowledge, PreFilter \/ PreScore
    PROVE  Knowledge'
<1>1. /\ UNCHANGED <<api, created, watch, queue, binding>>
      /\ cycle.pod \in Pods /\ cycle.obj \in Object
  BY CycleType DEF PreFilter, PreScore
<1>2. ASSUME NEW at, cycle' = [cycle EXCEPT !.at = at], cache' = cache
      PROVE  Knowledge'
  <2>1. cycle'.pod = cycle.pod /\ cycle'.obj = cycle.obj
    BY <1>2 DEF TypeOK
  <2> QED
    BY <1>1, <1>2, <2>1, CycleKnowledge
<1>3. ASSUME NEW pp \in Policies, NEW next, NEW preference \in {"true", "false"},
             cycle' = [cycle EXCEPT !.at = next, !.obj = Annotated(cycle.obj, pp, preference),
                                    !.policy = pp],
             cache' = CacheAfterWrite(Annotated(cycle.obj, pp, preference))
      PROVE  Knowledge'
  <2> DEFINE obj == Annotated(cycle.obj, pp, preference)
  <2>1. obj \in Object /\ obj.rv = cycle.obj.rv /\ obj.node = cycle.obj.node
    BY <1>1, AnnotatedType
  <2>2. cycle'.pod = cycle.pod /\ cycle'.obj = obj
    BY <1>3 DEF TypeOK
  <2>3. \A q \in Pods : cache'[q] = cache[q] \/ (q = cycle.pod /\ cache'[q] = obj)
    BY <1>1, <1>3 DEF CacheAfterWrite, TypeOK
  <2> HIDE DEF obj
  <2>4. NotNewer(cycle.obj, api[cycle.pod]) /\ cycle.obj.node = Nil /\ cycle.pod \in created
        /\ cycle.pod # Nil /\ cycle.obj # Nil
    BY <1>1, SentinelAssumption DEF Knowledge, OnlyCreated, Versions
  <2>5. NotNewer(obj, api[cycle.pod]) /\ obj.node = Nil
    BY <2>1, <2>4 DEF NotNewer
  <2> QED
    BY <1>1, <2>2, <2>3, <2>4, <2>5 DEF Knowledge, OnlyCreated, Versions
<1>4. \/ \E at : cycle' = [cycle EXCEPT !.at = at] /\ cache' = cache
      \/ \E pp \in Governing(cycle.pod) : \E nodeList, next : DecidePreference(pp, nodeList, next)
  BY DEF PreFilter, PreScore, SkipTo
<1> QED
  BY <1>2, <1>3, <1>4, GoverningInPolicies, DecisionOutcome

LEMMA DeliverKnowledge == ASSUME TypeOK, TypeOK', Knowledge, Deliver PROVE Knowledge'
<1> DEFINE E == [pod : Pods, obj : Object \union {Nil}]
           p == Head(watch).pod
           o == Head(watch).obj
<1>1. /\ watch' = Tail(watch) /\ watch # << >>
      /\ cache' = [cache EXCEPT ![p] = o]
      /\ queue' = [queue EXCEPT ![p] = QueueAfter(p, o)]
      /\ cycle' = IF cycle.pod = p THEN [cycle EXCEPT !.shared = FALSE] ELSE cycle
      /\ UNCHANGED <<api, created, binding>>
  BY DEF Deliver
<1>2. watch \in Seq(E)
  BY DEF TypeOK
<1>3. /\ Head(watch) = watch[1] /\ Len(watch) \in Nat /\ Len(watch) >= 1
      /\ Len(Tail(watch)) = Len(watch) - 1
      /\ \A i \in 1..Len(Tail(watch)) : Tail(watch)[i] = watch[i + 1] /\ i + 1 \in 1..Len(watch)
  <2> HIDE DEF E
  <2> QED
    BY <1>1, <1>2
<1>4. p \in Pods /\ o \in Object \union {Nil} /\ p \in created /\ NotNewer(o, api[p])
  BY <1>1, <1>3, HeadOfWatch DEF Knowledge, OnlyCreated, Versions
<1>5. \A i \in 1..Len(watch') : watch'[i].pod \in created' /\ NotNewer(watch'[i].obj, api'[watch'[i].pod])
  BY <1>1, <1>3 DEF Knowledge, OnlyCreated, Versions
<1> HIDE DEF p, o, E
<1>6. \A q \in Pods : NotNewer(cache'[q], api'[q]) /\ (cache'[q] # Nil => q \in created')
  BY <1>1, <1>4 DEF Knowledge, OnlyCreated, Versions, TypeOK
<1>7. ASSUME NEW q \in Pods, queue'[q] # Nil
      PROVE  /\ q \in created'
             /\ queue'[q] # Shared => NotNewer(queue'[q], api'[q]) /\ queue'[q].node = Nil
  <2>1. CASE q # p
    BY <1>1, <1>7, <2>1 DEF Knowledge, OnlyCreated, Versions, TypeOK
  <2>2. CASE q = p
    <3>1. queue'[p] = QueueAfter(p, o)
      BY <1>1, <1>4 DEF TypeOK
    <3>2. CASE queue'[p] = queue[p] /\ queue[p] # Shared
      BY <1>1, <1>4, <1>7, <2>2, <3>2 DEF Knowledge, OnlyCreated, Versions
    <3>3. CASE queue'[p] = cache[p] /\ queue[p] = Shared
      BY <1>1, <1>4, <2>2, <3>3 DEF Knowledge, OnlyCreated, Versions, TypeOK, IsBound
    <3>4. CASE queue'[p] \in {Nil, Shared}
      BY <1>1, <1>4, <1>7, <2>2, <3>4
    <3> QED
      BY <3>1, <3>2, <3>3, <3>4 DEF QueueAfter
  <2> QED
    BY <2>1, <2>2
<1>8. cycle'.pod = cycle.pod /\ cycle'.obj = cycle.obj
  BY <1>1 DEF TypeOK
<1> QED
  BY <1>1, <1>5, <1>6, <1>7, <1>8 DEF Knowledge, OnlyCreated, Versions

LEMMA PopKnowledge == ASSUME TypeOK, TypeOK', Knowledge, NEW p \in Pods, Pop(p) PROVE Knowledge'
<1>1. /\ UNCHANGED <<api, created, watch, cache, binding>>
      /\ queue[p] # Nil /\ queue' = [queue EXCEPT ![p] = Nil]
  BY DEF Pop
<1>2. \A q \in Pods : queue'[q] \in {queue[q], Nil}
  BY <1>1 DEF TypeOK
<1>3. CASE assumed[p] # Nil
  <2>1. cycle' = cycle
    BY <1>3 DEF Pop
  <2> QED
    BY <1>1, <1>2, <2>1, KnowledgeKept
<1>4. CASE assumed[p] = Nil
  <2>1. /\ cycle'.pod = p
        /\ cycle'.obj = IF queue[p] = Shared THEN cache[p] ELSE queue[p]
    BY <1>4 DEF Pop
  <2>2. p \in created /\ NotNewer(cycle'.obj, api[p]) /\ cycle'.obj.node = Nil
    BY <1>1, <2>1 DEF Knowledge, OnlyCreated, Versions, TypeOK, IsBound
  <2> QED
    BY <1>1, <1>2, <2>1, <2>2 DEF Knowledge, OnlyCreated, Versions
<1> QED
  BY <1>3, <1>4

LEMMA DieKnowledge == ASSUME TypeOK, TypeOK', Knowledge, Die PROVE Knowledge'
<1>1. /\ \A q \in Pods : cache'[q] = Nil /\ queue'[q] = Nil /\ binding'[q] = "none"
      /\ cycle'.pod = Nil /\ api' = api /\ created' = created
      /\ watch' = << >>
  BY NoCycleType DEF Die
<1>2. \A q \in Pods : NotNewer(cache'[q], api'[q])
  BY <1>1, StoredIsNotNewer DEF TypeOK
<1>3. Len(watch') = 0
  BY <1>1
<1> QED
  BY <1>1, <1>2, <1>3 DEF Knowledge, OnlyCreated, Versions

LEMMA RestartKnowledge == ASSUME TypeOK, TypeOK', Knowledge, Restart PROVE Knowledge'
<1>1. /\ \A q \in Pods : queue'[q] \in {Nil, Shared} /\ (api[q] = Nil => queue'[q] = Nil)
      /\ cycle'.pod = Nil
      /\ cache' = api
      /\ UNCHANGED <<api, created, watch, binding>>
  BY NoCycleType DEF Restart
<1>2. \A q \in Pods : NotNewer(cache'[q], api'[q])
  BY <1>1, StoredIsNotNewer DEF TypeOK
<1> QED
  BY <1>1, <1>2 DEF Knowledge, OnlyCreated, Versions

LEMMA KnowledgeStep == TypeOK /\ TypeOK' /\ Knowledge /\ [Next]_vars => Knowledge'
<1> SUFFICES ASSUME TypeOK, TypeOK', Knowledge, [Next]_vars PROVE Knowledge'
  OBVIOUS
<1>1. CASE Users
  BY <1>1, CreateKnowledge, TouchKnowledge DEF Users
<1>2. CASE PolicyEvent
  BY <1>2, CycleKnowledge DEF PolicyEvent
<1>3. CASE Deliver
  BY <1>3, DeliverKnowledge
<1>4. ASSUME NEW p \in Pods, Pop(p) \/ Binding(p) \/ BindLost(p) PROVE Knowledge'
  <2>1. CASE FailBind(p)
    <3>1. \A q \in Pods : binding'[q] \in {binding[q], "none"}
      BY <2>1 DEF FailBind, TypeOK
    <3> QED
      BY <2>1, <3>1, FailureKnowledge DEF FailBind
  <2> QED
    BY <1>4, <2>1, PopKnowledge, BindKnowledge DEF Binding
<1>5. CASE Scheduling
  <2>1. CASE FailCycle
    <3>1. cycle.pod \in Pods
      BY <2>1, CycleType DEF FailCycle
    <3> QED
      BY <2>1, <3>1, FailureKnowledge DEF FailCycle
  <2> QED
    BY <1>5, <2>1, DecideKnowledge, AnnotateKnowledge, AssumeKnowledge DEF Scheduling
<1>6. CASE AnnotatePodLost
  BY <1>6, AnnotateKnowledge
<1>7. CASE Crash \/ Panic
  BY <1>7, DieKnowledge DEF Crash, Panic
<1>8. CASE Restart
  BY <1>8, RestartKnowledge
<1>9. CASE UNCHANGED vars
  BY <1>9, CycleKnowledge DEF vars
<1> QED
  BY <1>1, <1>2, <1>3, <1>4, <1>5, <1>6, <1>7, <1>8, <1>9 DEF Next

---------------------------------------------------------------------------
(* What the store says of a pod's placement is what the pod is bound by *)

\* Steps that say nothing new of a placement, hand no new pod to a cycle, and
\* start no bind call.
LEMMA PlacementKept ==
    ASSUME TypeOK, TypeOK', Knowledge, NEW Q, Placement(Q),
           \A q \in Pods : SameButVersion(api'[q], api[q]),
           \/ cycle'.pod = Nil
           \/ /\ cycle'.pod = cycle.pod /\ cycle'.obj.pref = cycle.obj.pref
              /\ cycle'.policy = cycle.policy /\ cycle'.nodes = cycle.nodes
              /\ cycle'.at \in {cycle.at, "failed"},
           \A q \in Pods : binding'[q] = "posting" =>
                              binding[q] = "posting" /\ (assumed'[q] = assumed[q] \/ IsBound(api[q]))
    PROVE  Placement(Q)'
<1>1. ASSUME NEW q \in Pods, binding'[q] = "posting", BindAccepted(q)'
      PROVE  /\ assumed'[q] # Nil
             /\ cycle'.pod # q
             /\ Cared(Q, q) => AgreesWithStored(q, assumed[q])' /\ assumed'[q] = assumed[q]
  <2>1. api'[q] # Nil /\ api[q] # Nil /\ api'[q].node = Nil /\ api[q].node = Nil
        /\ api'[q].pref = api[q].pref /\ api'[q].by = api[q].by
    BY <1>1 DEF BindAccepted, SameButVersion
  <2>2. /\ assumed[q] # Nil /\ cycle.pod # q /\ assumed'[q] = assumed[q]
        /\ Cared(Q, q) => AgreesWithStored(q, assumed[q])
    BY <1>1, <2>1 DEF Placement, BindCalls, BindAccepted, IsBound
  <2> QED
    BY <2>1, <2>2, SentinelAssumption DEF AgreesWithStored
<1>2. BindCalls(Q)'
  BY <1>1 DEF BindCalls, AgreesWithStored
<1>3. ASSUME NEW q \in Pods, IsBound(api[q])' , Cared(Q, q)
      PROVE  \E pp \in Policies : /\ pp.name = api'[q].by
                                  /\ Agrees(pp, NodeLabels[api'[q].node], api'[q].pref)
  <2>1. IsBound(api[q]) /\ api'[q].node = api[q].node
        /\ api'[q].pref = api[q].pref /\ api'[q].by = api[q].by
    BY <1>3 DEF IsBound, SameButVersion
  <2> QED
    BY <1>3, <2>1 DEF Placement, HonouredIn, AgreesWithStored
<1>4. CycleKnows(Q)'
  <2>1. CASE cycle'.pod = Nil
    BY <2>1 DEF CycleKnows
  <2>2. CASE cycle'.pod # Nil
    <3>1. /\ cycle'.pod = cycle.pod /\ cycle'.obj.pref = cycle.obj.pref
          /\ cycle'.policy = cycle.policy /\ cycle'.nodes = cycle.nodes
          /\ cycle'.at \in {cycle.at, "failed"}
      BY <2>2
    <3>2. cycle.pod \in Pods /\ SameButVersion(api'[cycle.pod], api[cycle.pod])
      BY <2>2, <3>1 DEF TypeOK
    <3>3. api'[cycle.pod] # Nil => /\ api[cycle.pod] # Nil
                                   /\ api'[cycle.pod].pref = api[cycle.pod].pref
                                   /\ api'[cycle.pod].by = api[cycle.pod].by
      BY <3>2 DEF SameButVersion
    <3> QED
      BY <2>2, <3>1, <3>3 DEF Placement, CycleKnows
  <2> QED
    BY <2>1, <2>2
<1> QED
  BY <1>2, <1>3, <1>4 DEF Placement, HonouredIn, AgreesWithStored

LEMMA StillSame == ASSUME api' = api PROVE \A q \in Pods : SameButVersion(api'[q], api[q])
BY DEF SameButVersion

LEMMA CreatePlacement ==
    ASSUME TypeOK, TypeOK', Knowledge, NEW Q, Placement(Q), NEW p \in Pods, CreatePod(p)
    PROVE  Placement(Q)'
<1>1. /\ api' = [api EXCEPT ![p] = [rv |-> 1, pref |-> "", by |-> "", node |-> Nil]]
      /\ p \notin created /\ UNCHANGED <<cycle, assumed, binding>>
  BY DEF CreatePod, Store
<1>2. binding[p] = "none" /\ cycle.pod # p
  BY <1>1, SentinelAssumption DEF Knowledge, OnlyCreated
<1>3. api'[p].node = Nil /\ \A q \in Pods : q # p => api'[q] = api[q]
  BY <1>1 DEF TypeOK
<1>4. BindCalls(Q)'
  BY <1>1, <1>2, <1>3 DEF Placement, BindCalls, BindAccepted, AgreesWithStored
<1>5. CycleKnows(Q)'
  <2>1. cycle.pod # Nil => api'[cycle.pod] = api[cycle.pod] /\ cycle.pod \in Pods
    BY <1>2, <1>3 DEF TypeOK
  <2> QED
    BY <1>1, <2>1 DEF Placement, CycleKnows
<1>6. HonouredIn(Q)'
  BY <1>3 DEF Placement, HonouredIn, AgreesWithStored, IsBound
<1> QED
  BY <1>4, <1>5, <1>6 DEF Placement

LEMMA UserPlacement ==
    ASSUME TypeOK, TypeOK', Knowledge, NEW Q, Placement(Q), Users
    PROVE  Placement(Q)'
<1>1. ASSUME NEW p \in Pods, TouchPod(p) \/ DeletePod(p) PROVE Placement(Q)'
  <2>1. Quiet(p) /\ UNCHANGED <<created, cycle, assumed, binding>>
    BY <1>1, TouchQuiet, DeleteQuiet DEF TouchPod, DeletePod
  <2>2. \A q \in Pods : SameButVersion(api'[q], api[q])
    BY <2>1, QuietMoves DEF Knowledge
  <2> QED
    BY <2>1, <2>2, PlacementKept
<1> QED
  BY <1>1, CreatePlacement DEF Users

\* A delivered object that is bound is bound in the store too.
LEMMA DeliverPlacement == ASSUME TypeOK, TypeOK', Knowledge, NEW Q, Placement(Q), Deliver PROVE Placement(Q)'
<1> DEFINE p == Head(watch).pod
           o == Head(watch).obj
           E == [pod : Pods, obj : Object \union {Nil}]
<1>1. /\ assumed' = IF IsBound(o) THEN [assumed EXCEPT ![p] = Nil] ELSE assumed
      /\ cycle' = IF cycle.pod = p THEN [cycle EXCEPT !.shared = FALSE] ELSE cycle
      /\ UNCHANGED <<api, binding>> /\ watch # << >>
  BY DEF Deliver
<1>2. Head(watch) = watch[1] /\ 1 \in 1..Len(watch)
  <2>1. watch \in Seq(E)
    BY DEF TypeOK
  <2> HIDE DEF E
  <2> QED
    BY <1>1, <2>1
<1>3. NotNewer(o, api[p]) /\ p \in Pods
  BY <1>2, <1>1, HeadOfWatch DEF Knowledge, Versions
<1> HIDE DEF p, o
<1>4. cycle'.pod = cycle.pod /\ cycle'.obj = cycle.obj /\ cycle'.policy = cycle.policy
      /\ cycle'.nodes = cycle.nodes /\ cycle'.at = cycle.at
  BY <1>1 DEF TypeOK
<1>5. CASE ~IsBound(o)
  BY <1>1, <1>4, <1>5, StillSame, PlacementKept
<1>6. CASE IsBound(o)
  <2>1. api[p] = Nil \/ IsBound(api[p])
    BY <1>3, <1>6 DEF NotNewer, IsBound
  <2>2. BindCalls(Q)'
    BY <1>1, <1>3, <1>4, <1>6, <2>1 DEF Placement, BindCalls, BindAccepted, IsBound, AgreesWithStored, TypeOK
  <2>3. CycleKnows(Q)'
    BY <1>1, <1>4 DEF Placement, CycleKnows
  <2>4. HonouredIn(Q)'
    BY <1>1 DEF Placement, HonouredIn, AgreesWithStored
  <2> QED
    BY <2>2, <2>3, <2>4 DEF Placement
<1> QED
  BY <1>5, <1>6

LEMMA PopPlacement ==
    ASSUME TypeOK, TypeOK', Knowledge, NEW Q, Placement(Q), NEW p \in Pods, Pop(p)
    PROVE  Placement(Q)'
<1>1. UNCHANGED <<api, assumed, binding>>
  BY DEF Pop
<1>2. CASE assumed[p] # Nil
  <2>1. cycle' = cycle
    BY <1>2 DEF Pop
  <2> QED
    BY <1>1, <2>1, StillSame, PlacementKept
<1>3. CASE assumed[p] = Nil
  <2>1. cycle'.pod = p /\ cycle'.at = "prefilter"
    BY <1>3 DEF Pop
  <2> QED
    BY <1>1, <1>3, <2>1 DEF Placement, BindCalls, BindAccepted, CycleKnows, AgreesWithStored,
                            HonouredIn, AgreesWithStored
<1> QED
  BY <1>2, <1>3

\* PreFilter decides for a pod that Strict policies govern.
LEMMA PreFilterPlacement == ASSUME TypeOK, TypeOK', Knowledge, NEW Q, Placement(Q), PreFilter PROVE Placement(Q)'
<1>1. /\ cycle.at = "prefilter" /\ UNCHANGED <<api, policies, assumed, binding>>
      /\ cycle.pod \in Pods
  BY CycleType DEF PreFilter
<1>2. Cared(Q, cycle.pod) =>
          /\ Governing(cycle.pod) # {}
          /\ \A pp \in Governing(cycle.pod) : pp.mode = "Strict"
  BY DEF Cared, AlwaysStrict, Governing, TypeOK
<1>3. Cared(Q, cycle.pod) => cycle'.at \in {"failed", "annotateInPreFilter"}
  <2> SUFFICES ASSUME Cared(Q, cycle.pod) PROVE cycle'.at \in {"failed", "annotateInPreFilter"}
    OBVIOUS
  <2>1. PICK pp \in Governing(cycle.pod) : DecidePreference(pp, Nodes, "annotateInPreFilter")
    BY <1>2 DEF PreFilter, LeftToTheOther
  <2> QED
    BY <2>1 DEF DecidePreference, TypeOK
<1>4. cycle'.pod = cycle.pod
  BY ZenonT(60) DEF PreFilter, SkipTo, DecidePreference, TypeOK
<1>5. BindCalls(Q)'
  BY <1>1, <1>4 DEF Placement, BindCalls, BindAccepted, AgreesWithStored
<1>6. CycleKnows(Q)'
  BY <1>3, <1>4 DEF CycleKnows
<1>7. HonouredIn(Q)'
  BY <1>1 DEF Placement, HonouredIn, AgreesWithStored
<1> QED
  BY <1>5, <1>6, <1>7 DEF Placement

\* PreScore leaves such a pod alone.
LEMMA PreScorePlacement == ASSUME TypeOK, TypeOK', Knowledge, NEW Q, Placement(Q), PreScore PROVE Placement(Q)'
<1>1. /\ cycle.at = "prescore" /\ UNCHANGED <<api, policies, assumed, binding>>
      /\ cycle.pod \in Pods /\ cycle.pod # Nil
  BY CycleType DEF PreScore
<1>2. Cared(Q, cycle.pod) =>
          /\ Governing(cycle.pod) # {}
          /\ \A pp \in Governing(cycle.pod) : pp.mode = "Strict"
  BY DEF Cared, AlwaysStrict, Governing, TypeOK
<1>3. Cared(Q, cycle.pod) => cycle' = [cycle EXCEPT !.at = "score"]
  BY <1>2 DEF PreScore, SkipTo, LeftToTheOther
<1>4. cycle'.pod = cycle.pod
  BY ZenonT(60) DEF PreScore, SkipTo, DecidePreference, TypeOK
<1>5. BindCalls(Q)'
  BY <1>1, <1>4 DEF Placement, BindCalls, BindAccepted, AgreesWithStored
<1>6. CycleKnows(Q)'
  BY <1>1, <1>3, <1>4 DEF Placement, CycleKnows, TypeOK
<1>7. HonouredIn(Q)'
  BY <1>1 DEF Placement, HonouredIn, AgreesWithStored
<1> QED
  BY <1>5, <1>6, <1>7 DEF Placement

\* An accepted update is for an unbound pod that no acceptable bind call is for.
LEMMA AnnotatePlacement ==
    ASSUME TypeOK, TypeOK', Knowledge, NEW Q, Placement(Q), AnnotatePod \/ AnnotatePodLost
    PROVE  Placement(Q)'
<1>1. /\ cycle.at \in DOMAIN AfterAnnotate
      /\ UNCHANGED <<created, assumed, binding>>
      /\ cycle.pod \in Pods /\ cycle.pod # Nil
  BY CycleType DEF AnnotatePod, AnnotatePodLost, AfterAnnotate
<1>2. \/ api' = api /\ cycle' = [cycle EXCEPT !.at = "failed"]
      \/ /\ UpdateAccepted(cycle.pod) /\ UpdatePod(cycle.pod)
         /\ cycle' \in {[cycle EXCEPT !.at = "failed"], [cycle EXCEPT !.at = AfterAnnotate[cycle.at]]}
      \/ api' = api /\ UpdateAccepted(cycle.pod) /\ UpdatePod(cycle.pod)
  BY DEF AnnotatePod, AnnotatePodLost
<1>3. /\ cycle'.pod = cycle.pod /\ cycle'.obj = cycle.obj /\ cycle'.policy = cycle.policy
      /\ cycle'.nodes = cycle.nodes
  BY DEF AnnotatePod, AnnotatePodLost, TypeOK
<1>4. CASE api' = api /\ cycle' = [cycle EXCEPT !.at = "failed"]
  <2>1. cycle'.at = "failed"
    BY <1>4 DEF TypeOK
  <2> QED
    BY <1>1, <1>3, <1>4, <2>1, StillSame, PlacementKept
<1>5. CASE /\ UpdateAccepted(cycle.pod) /\ UpdatePod(cycle.pod)
           /\ cycle' \in {[cycle EXCEPT !.at = "failed"], [cycle EXCEPT !.at = AfterAnnotate[cycle.at]]}
  <2>1. /\ \A q \in Pods : q # cycle.pod => api'[q] = api[q]
        /\ api[cycle.pod] # Nil /\ api[cycle.pod].node = Nil
        /\ api'[cycle.pod] # Nil /\ api'[cycle.pod].node = Nil
        /\ api'[cycle.pod].pref = cycle.obj.pref
        /\ api'[cycle.pod].by = cycle.policy.name
    BY <1>1, <1>5, UpdateEffect DEF Knowledge
  <2>2. binding[cycle.pod] # "posting"
    BY <1>1, <2>1 DEF Placement, BindCalls, BindAccepted
  <2>3. BindCalls(Q)'
    BY <1>1, <1>3, <2>1, <2>2 DEF Placement, BindCalls, BindAccepted, AgreesWithStored
  <2>4. Cared(Q, cycle.pod) => cycle.at = "annotateInPreFilter"
    BY <1>1 DEF Placement, CycleKnows, AfterAnnotate
  <2>5. Cared(Q, cycle.pod) => cycle'.at \in {"failed", "filter"}
    BY <1>5, <2>4 DEF TypeOK, AfterAnnotate
  <2>6. cycle.policy # Nil
    BY <1>1 DEF TypeOK
  <2>7. CycleKnows(Q)'
    BY <1>3, <2>1, <2>5, <2>6 DEF CycleKnows
  <2>8. HonouredIn(Q)'
    BY <2>1 DEF Placement, HonouredIn, AgreesWithStored, IsBound
  <2> QED
    BY <2>3, <2>7, <2>8 DEF Placement
<1> QED
  BY <1>4, <1>5 DEF AnnotatePod, AnnotatePodLost

\* A pod is assumed where the stored annotations say.
LEMMA AssumePlacement ==
    ASSUME TypeOK, TypeOK', Knowledge, NEW Q, Placement(Q), cycle.at \notin {"down", "idle"},
           NEW n \in Nodes, Assume(n), api' = api,
           Cared(Q, cycle.pod) /\ api[cycle.pod] # Nil => AgreesWithStored(cycle.pod, n)
    PROVE  Placement(Q)'
<1>1. cycle.pod \in Pods /\ cycle.pod # Nil
  BY CycleType
<1>2. CASE IsBound(cache[cycle.pod])
  <2>1. cycle' = [cycle EXCEPT !.at = "failed"] /\ UNCHANGED <<assumed, binding>>
    BY <1>2 DEF Assume
  <2>2. /\ cycle'.pod = cycle.pod /\ cycle'.obj = cycle.obj /\ cycle'.policy = cycle.policy
        /\ cycle'.nodes = cycle.nodes /\ cycle'.at = "failed"
    BY <2>1 DEF TypeOK
  <2> QED
    BY <2>1, <2>2, StillSame, PlacementKept
<1>3. CASE ~IsBound(cache[cycle.pod])
  <2>1. /\ assumed' = [assumed EXCEPT ![cycle.pod] = n]
        /\ binding' = [binding EXCEPT ![cycle.pod] = "posting"]
        /\ cycle'.pod = Nil
    BY <1>3, NoCycleType DEF Assume
  <2>2. n # Nil
    BY SentinelAssumption
  <2>3. BindCalls(Q)'
    <3> SUFFICES ASSUME NEW q \in Pods, binding'[q] = "posting", BindAccepted(q)'
                 PROVE  /\ assumed'[q] # Nil
                        /\ cycle'.pod # q
                        /\ Cared(Q, q) => AgreesWithStored(q, assumed[q])'
      BY DEF BindCalls
    <3>1. BindAccepted(q) /\ cycle'.pod # q
      BY <2>1, SentinelAssumption DEF BindAccepted
    <3>2. CASE q = cycle.pod
      <4>1. assumed'[q] = n /\ (Cared(Q, q) => AgreesWithStored(q, n))
        BY <1>1, <2>1, <3>1, <3>2 DEF TypeOK, BindAccepted
      <4> QED
        BY <2>2, <3>1, <4>1 DEF AgreesWithStored
    <3>3. CASE q # cycle.pod
      <4>1. assumed'[q] = assumed[q] /\ binding[q] = "posting"
        BY <1>1, <2>1, <3>3 DEF TypeOK
      <4>2. assumed[q] # Nil /\ (Cared(Q, q) => AgreesWithStored(q, assumed[q]))
        BY <3>1, <4>1 DEF Placement, BindCalls
      <4> QED
        BY <3>1, <4>1, <4>2 DEF AgreesWithStored
    <3> QED
      BY <3>2, <3>3
  <2>4. CycleKnows(Q)' /\ HonouredIn(Q)'
    BY <2>1 DEF CycleKnows, Placement, HonouredIn, AgreesWithStored
  <2> QED
    BY <2>3, <2>4 DEF Placement
<1> QED
  BY <1>2, <1>3

LEMMA FilterNodesPlacement ==
    ASSUME TypeOK, TypeOK', Knowledge, NEW Q, Placement(Q), FilterNodes
    PROVE  Placement(Q)'
<1> DEFINE feasible == {n \in cycle.nodes : Filter(n)}
<1>1. /\ cycle.at = "filter" /\ api' = api
      /\ cycle.pod \in Pods /\ cycle.pod # Nil
  BY CycleType DEF FilterNodes
<1>2. feasible \subseteq Nodes
  BY DEF TypeOK
<1>3. \/ cycle' = [cycle EXCEPT !.at = "failed"] /\ UNCHANGED <<assumed, binding>>
      \/ \E n \in feasible : Assume(n)
      \/ /\ cycle' = [cycle EXCEPT !.at = "prescore", !.nodes = feasible, !.policy = Nil]
         /\ UNCHANGED <<assumed, binding>>
  BY DEF FilterNodes
<1>4. Cared(Q, cycle.pod) /\ api[cycle.pod] # Nil =>
          /\ cycle.policy \in Policies
          /\ api[cycle.pod].by = cycle.policy.name
          /\ \A n \in feasible : Agrees(cycle.policy, NodeLabels[n], api[cycle.pod].pref)
  BY <1>1 DEF Placement, CycleKnows, Filter, TypeOK
<1> HIDE DEF feasible
<1>5. CASE cycle' = [cycle EXCEPT !.at = "failed"] /\ UNCHANGED <<assumed, binding>>
  <2>1. /\ cycle'.pod = cycle.pod /\ cycle'.obj = cycle.obj /\ cycle'.policy = cycle.policy
        /\ cycle'.nodes = cycle.nodes /\ cycle'.at = "failed"
    BY <1>5 DEF TypeOK
  <2> QED
    BY <1>1, <1>5, <2>1, StillSame, PlacementKept
<1>6. CASE \E n \in feasible : Assume(n)
  <2>1. PICK n \in feasible : Assume(n)
    BY <1>6
  <2>2. n \in Nodes /\ (Cared(Q, cycle.pod) /\ api[cycle.pod] # Nil => AgreesWithStored(cycle.pod, n))
    BY <1>2, <1>4 DEF AgreesWithStored
  <2> QED
    BY <1>1, <2>1, <2>2, AssumePlacement
<1>7. CASE /\ cycle' = [cycle EXCEPT !.at = "prescore", !.nodes = feasible, !.policy = Nil]
           /\ UNCHANGED <<assumed, binding>>
  <2>1. cycle'.pod = cycle.pod /\ cycle'.nodes = feasible /\ cycle'.at = "prescore"
    BY <1>7 DEF TypeOK
  <2>2. BindCalls(Q)'
    BY <1>1, <1>7, <2>1 DEF Placement, BindCalls, BindAccepted, AgreesWithStored
  <2>3. CycleKnows(Q)'
    BY <1>1, <1>4, <2>1 DEF CycleKnows
  <2>4. HonouredIn(Q)'
    BY <1>1 DEF Placement, HonouredIn, AgreesWithStored
  <2> QED
    BY <2>2, <2>3, <2>4 DEF Placement
<1> QED
  BY <1>3, <1>5, <1>6, <1>7

LEMMA ScoreNodesPlacement ==
    ASSUME TypeOK, TypeOK', Knowledge, NEW Q, Placement(Q), ScoreNodes
    PROVE  Placement(Q)'
<1>1. cycle.at = "score" /\ api' = api
  BY DEF ScoreNodes
<1>2. PICK host \in cycle.nodes : Assume(host)
  BY DEF ScoreNodes
<1>3. host \in Nodes
  BY DEF TypeOK
<1>4. Cared(Q, cycle.pod) /\ api[cycle.pod] # Nil => AgreesWithStored(cycle.pod, host)
  <2>1. cycle.pod # Nil
    BY <1>1, CycleType
  <2> QED
    BY <1>1, <2>1 DEF Placement, CycleKnows, AgreesWithStored
<1> QED
  BY <1>1, <1>2, <1>3, <1>4, AssumePlacement

LEMMA FailCyclePlacement ==
    ASSUME TypeOK, TypeOK', Knowledge, NEW Q, Placement(Q), FailCycle
    PROVE  Placement(Q)'
<1>1. cycle.pod \in Pods
  BY CycleType DEF FailCycle
<1>2. \A q \in Pods : SameButVersion(api'[q], api[q])
  BY <1>1, PatchQuiet, QuietMoves DEF FailCycle, Knowledge
<1> QED
  BY <1>2, NoCycleType, PlacementKept DEF FailCycle

\* A bind call is answered, its reply is lost, or its failure is handled.
LEMMA BindPlacement ==
    ASSUME TypeOK, TypeOK', Knowledge, NEW Q, Placement(Q), NEW p \in Pods,
           Bind(p) \/ BindLost(p) \/ FailBind(p)
    PROVE  Placement(Q)'
<1>1. /\ binding'[p] # "posting" /\ \A q \in Pods : q # p => binding'[q] = binding[q] /\ assumed'[q] = assumed[q]
      /\ UNCHANGED <<created, cycle>>
  BY DEF Bind, BindLost, FailBind, TypeOK
<1>2. CASE \A q \in Pods : SameButVersion(api'[q], api[q])
  BY <1>1, <1>2, PlacementKept
<1>3. CASE BindAccepted(p) /\ StoreBinding(p) /\ binding[p] = "posting"
  <2>1. /\ \A q \in Pods : q # p => api'[q] = api[q]
        /\ api'[p] # Nil /\ api'[p].node = assumed[p]
        /\ api'[p].pref = api[p].pref /\ api'[p].by = api[p].by
    BY <1>1, <1>3, BindEffect DEF Knowledge
  <2>2. /\ cycle.pod # p
        /\ Cared(Q, p) => AgreesWithStored(p, assumed[p])
    BY <1>3 DEF Placement, BindCalls
  <2>3. BindCalls(Q)'
    BY <1>1, <2>1 DEF Placement, BindCalls, BindAccepted, AgreesWithStored
  <2>4. CycleKnows(Q)'
    <3>1. cycle.pod # Nil => cycle.pod \in Pods /\ api'[cycle.pod] = api[cycle.pod]
      BY <2>1, <2>2 DEF TypeOK
    <3> QED
      BY <1>1, <3>1 DEF Placement, CycleKnows
  <2>5. HonouredIn(Q)'
    BY <2>1, <2>2 DEF Placement, HonouredIn, AgreesWithStored, IsBound
  <2> QED
    BY <2>3, <2>4, <2>5 DEF Placement
<1>4. CASE FailBind(p)
  BY <1>2, <1>4, PatchQuiet, QuietMoves DEF FailBind, Knowledge
<1> QED
  BY <1>2, <1>3, <1>4, StillSame DEF Bind, BindLost

\* No cycle and no bind call survives the process.
LEMMA ProcessPlacement ==
    ASSUME TypeOK, TypeOK', Knowledge, NEW Q, Placement(Q), Die \/ Restart
    PROVE  Placement(Q)'
<1>1. /\ api' = api /\ cycle'.pod = Nil
      /\ \A q \in Pods : binding'[q] = "posting" => binding[q] = "posting" /\ assumed'[q] = assumed[q]
  BY NoCycleType DEF Die, Restart
<1> QED
  BY <1>1, StillSame, PlacementKept

LEMMA PlacementStep ==
    ASSUME TypeOK, TypeOK', Knowledge, NEW Q, Placement(Q), [Next]_vars
    PROVE  Placement(Q)'
<1>1. CASE Users
  BY <1>1, UserPlacement
<1>2. CASE PolicyEvent
  BY <1>2, StillSame, PlacementKept DEF PolicyEvent
<1>3. CASE Deliver
  BY <1>3, DeliverPlacement
<1>4. CASE \E p \in Pods : Pop(p) \/ Binding(p) \/ BindLost(p)
  BY <1>4, PopPlacement, BindPlacement DEF Binding
<1>5. CASE Scheduling
  BY <1>5, PreFilterPlacement, PreScorePlacement, AnnotatePlacement, FilterNodesPlacement,
     ScoreNodesPlacement, FailCyclePlacement DEF Scheduling
<1>6. CASE AnnotatePodLost
  BY <1>6, AnnotatePlacement
<1>7. CASE Crash \/ Panic \/ Restart
  BY <1>7, ProcessPlacement DEF Crash, Panic
<1>8. CASE UNCHANGED vars
  BY <1>8, StillSame, PlacementKept DEF vars
<1> QED
  BY <1>1, <1>2, <1>3, <1>4, <1>5, <1>6, <1>7, <1>8 DEF Next

---------------------------------------------------------------------------
(* The theorems *)

LEMMA InitIInv == Init => IInv
<1> SUFFICES ASSUME Init PROVE IInv
  OBVIOUS
<1>1. /\ \A p \in Pods : api[p] = Nil /\ cache[p] = Nil /\ queue[p] = Nil /\ binding[p] = "none"
      /\ cycle.pod = Nil
      /\ watch = << >>
  BY NoCycleType DEF Init
<1>2. Knowledge
  <2>1. \A p \in Pods : NotNewer(cache[p], api[p])
    BY <1>1 DEF NotNewer
  <2>2. Len(watch) = 0
    BY <1>1
  <2> QED
    BY <1>1, <2>1, <2>2 DEF Knowledge, OnlyCreated, Versions
<1>3. Placement(Pods)
  BY <1>1 DEF Placement, BindCalls, CycleKnows, HonouredIn, IsBound
<1> QED
  BY <1>2, <1>3, InitTypeOK DEF IInv

\* The invariant is inductive.
THEOREM Invariance == Spec => []IInv
<1>1. IInv /\ [Next]_vars => IInv'
  BY TypeStep, KnowledgeStep, PlacementStep DEF IInv
<1> QED
  BY InitIInv, <1>1, PTL DEF Spec

\* Strict placements are honoured, for all pods, nodes, policies and bounds on
\* failures: a pod that only Strict policies govern is bound to a node of the
\* group its stored annotations name (placementpolicy.go:78-192, core.go:80-95).
THEOREM StrictHonoured == Spec => []StrictPlacementHonoured
<1>1. IInv => StrictPlacementHonoured
  BY DEF IInv, Placement, HonouredIn, Cared, AgreesWithStored, StrictPlacementHonoured
<1> QED
  BY Invariance, <1>1, PTL

LEMMA BoundStays ==
    ASSUME TypeOK, Knowledge, [Next]_vars, NEW p \in Pods, IsBound(api[p]), api'[p] # Nil
    PROVE  /\ api'[p].node = api[p].node
           /\ api'[p].pref = api[p].pref
           /\ api'[p].by = api[p].by
<1> USE DEF Knowledge
<1>1. SUFFICES SameButVersion(api'[p], api[p])
  BY DEF SameButVersion
<1>2. api[p] # Nil /\ api[p].node # Nil
  BY DEF IsBound
<1>3. CASE api' = api
  BY <1>3, StillSame
<1>4. ASSUME NEW q \in Pods, CreatePod(q) PROVE SameButVersion(api'[p], api[p])
  <2>1. p # q /\ api'[p] = api[p]
    BY <1>2, <1>4 DEF CreatePod, OnlyCreated, Store, TypeOK
  <2> QED
    BY <2>1 DEF SameButVersion
<1>5. ASSUME NEW q \in Pods, Quiet(q), created' = created PROVE SameButVersion(api'[p], api[p])
  BY <1>5, QuietMoves
<1>6. ASSUME AnnotatePod \/ AnnotatePodLost PROVE SameButVersion(api'[p], api[p])
  <2>1. CASE UpdateAccepted(cycle.pod) /\ UpdatePod(cycle.pod)
    <3>1. cycle.at \in DOMAIN AfterAnnotate /\ created' = created
      BY <1>6 DEF AnnotatePod, AnnotatePodLost
    <3>2. api'[p] = api[p]
      BY <1>2, <2>1, <3>1, UpdateEffect
    <3> QED
      BY <3>2 DEF SameButVersion
  <2> QED
    BY <1>3, <1>6, <2>1 DEF AnnotatePod, AnnotatePodLost
<1>7. ASSUME NEW q \in Pods, Bind(q) \/ BindLost(q) PROVE SameButVersion(api'[p], api[p])
  <2>1. CASE BindAccepted(q) /\ StoreBinding(q)
    <3>1. created' = created
      BY <1>7 DEF Bind, BindLost
    <3>2. api'[p] = api[p]
      BY <1>2, <2>1, <3>1, BindEffect DEF BindAccepted
    <3> QED
      BY <3>2 DEF SameButVersion
  <2> QED
    BY <1>3, <1>7, <2>1 DEF Bind, BindLost
<1>8. CASE Users
  <2>1. ASSUME NEW q \in Pods, TouchPod(q) \/ DeletePod(q) PROVE SameButVersion(api'[p], api[p])
    <3>1. Quiet(q) /\ created' = created
      BY <2>1, TouchQuiet, DeleteQuiet DEF TouchPod, DeletePod
    <3> QED
      BY <1>5, <3>1
  <2> QED
    BY <1>4, <1>8, <2>1 DEF Users
<1>9. ASSUME NEW q \in Pods, FailBind(q) PROVE SameButVersion(api'[p], api[p])
  BY <1>5, <1>9, PatchQuiet DEF FailBind
<1>10. CASE FailCycle
  <2>1. cycle.pod \in Pods
    BY <1>10, CycleType DEF FailCycle
  <2> QED
    BY <1>5, <1>10, <2>1, PatchQuiet DEF FailCycle
<1>11. CASE Scheduling
  BY <1>3, <1>6, <1>10, <1>11 DEF Scheduling, PreFilter, FilterNodes, PreScore, ScoreNodes
<1>12. CASE \E q \in Pods : Pop(q) \/ Binding(q) \/ BindLost(q)
  BY <1>3, <1>7, <1>9, <1>12 DEF Binding, Pop
<1>13. CASE PolicyEvent \/ Deliver \/ Crash \/ Panic \/ Restart \/ UNCHANGED vars
  BY <1>3, <1>13 DEF PolicyEvent, Deliver, Crash, Panic, Die, Restart, vars
<1> QED
  BY <1>6, <1>8, <1>11, <1>12, <1>13 DEF Next

\* Neither a decision taken with an object from before the binding nor a second
\* bind call changes the node or the annotations of a bound pod: the update of
\* AnnotatePod (core.go:91) carries a version, and that version has moved.
THEOREM BoundIsFrozen == Spec => FrozenOnceBound
<1>1. IInv /\ [Next]_vars =>
          [\A p \in Pods :
              IsBound(api[p]) /\ api'[p] # Nil =>
                  /\ api'[p].node = api[p].node
                  /\ api'[p].pref = api[p].pref
                  /\ api'[p].by = api[p].by]_vars
  BY BoundStays DEF IInv
<1> QED
  BY Invariance, <1>1, PTL DEF Spec, FrozenOnceBound
=============================================================================
