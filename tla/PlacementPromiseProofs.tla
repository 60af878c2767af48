------------------------ MODULE PlacementPromiseProofs ------------------------
(***************************************************************************)
(* PlacementPolicy implements PlacementQuota, for all pods, nodes and      *)
(* rules: in a quiet cluster the decisions that the plugin writes into the *)
(* informer's cache are those that the abstract promise lets happen.  What *)
(* is to be shown of the cache is that a decision counts exactly the pods  *)
(* that were decided before; QuotaInv says why: each of the three versions *)
(* of a pod (created, annotated, bound) has one place where it is held,    *)
(* and none reaches the cache in a wrong order.  What PlacementQuotaProofs *)
(* proves of the promise then holds of the cache, and, because a pod runs  *)
(* where its annotation says, of the nodes.                                *)
(***************************************************************************)
EXTENDS PlacementCacheProofs, FiniteSetTheorems

---------------------------------------------------------------------------
(* The quiet cluster *)

\* The policies differ in name and mode at most, each alone governs every pod,
\* and what they say can be carried out.
ThePolicy == CHOOSE pp \in Policies : TRUE

OneRule ==
    /\ \A S \in PolicySets : \E pp \in S : S = {pp}
    /\ \A pp \in Policies :
          /\ pp.mode \in {"Strict", "BestEffort"} /\ pp.weight \in Int
          /\ pp.policy = ThePolicy.policy /\ pp.nodeSelector = ThePolicy.nodeSelector
          /\ pp.podSelector # Nil /\ ~DecisionPanics(pp) /\ ~DecisionFails(pp)
          /\ \A p \in Pods : /\ Namespace[p] = pp.namespace
                             /\ HasMatchingLabels(PodLabels[p], pp.podSelector)
                             /\ SelectorMatches(pp.podSelector, PodLabels[p])

Selected == {n \in Nodes : checkHasLabels(NodeLabels[n], ThePolicy.nodeSelector)}

\* Each group has a node, every node has room for all pods, and other plugins
\* favour a node by less than the policy does.
RoomForAll ==
    /\ IsFiniteSet(Nodes)
    /\ Selected # {} /\ Nodes \ Selected # {}
    /\ \A n \in Nodes : Capacity[n] \in Nat /\ Capacity[n] >= Cardinality(Pods)
    /\ OtherScores \subseteq [Nodes -> 0..99]

\* Pods may be deleted; nothing fails, and nobody else updates pods or policies.
OnlyDeletions == \A d \in Disturbances \ {"delete"} : Bound[d] = 0

QuietCluster == OneRule /\ RoomForAll /\ OnlyDeletions

---------------------------------------------------------------------------
(* The inductive invariant *)

\* Node n is in the group that the annotation asks for.
Suits(n, pref) == n \in Selected <=> pref = "true"

\* The mode of the one policy; where its cycles are before the decision, and where
\* while the update call is out.
Mode == (CHOOSE pp \in policies : TRUE).mode

Undecided == IF Mode = "Strict" THEN {"prefilter"} ELSE {"prefilter", "filter", "prescore"}
CallOut == IF Mode = "Strict" THEN "annotateInPreFilter" ELSE "annotateInPreScore"

\* What is on its way to the cache for a pod, except its removal.
Coming(p) == {watch[i].obj : i \in {j \in 1..Len(watch) : watch[j].pod = p}} \ {Nil}

\* Nothing follows a removal, and versions come in order.
EventsInOrder ==
    \A i, j \in 1..Len(watch) :
        i < j /\ watch[i].pod = watch[j].pod =>
            /\ watch[i].obj # Nil
            /\ watch[j].obj # Nil => watch[i].obj.rv < watch[j].obj.rv

\* A removal is of a pod that was deleted, and that is counted.
RemovalsTold ==
    /\ \A i \in 1..Len(watch) :
          watch[i].obj = Nil => api[watch[i].pod] = Nil /\ spent["delete"] # 0
    /\ spent["delete"] # 0 => \E p \in created : api[p] = Nil

\* Without the plugin's annotations.
Unmarked(o) == o.pref = ""

\* A pod has three versions: created, annotated, bound.  A version in the cache
\* may be annotated already.
Versioned(o) ==
    /\ o.rv \in 1..3 /\ (o.node # Nil <=> o.rv = 3)
    /\ o.rv # 1 => ~Unmarked(o)
    /\ o.node # Nil => Suits(o.node, o.pref)

\* In the store only the plugin's update annotates.
AsStored(o) == Versioned(o) /\ (o.rv = 1 => Unmarked(o))

\* Of a pod that was never created nothing is known.
Untouched(p) ==
    p \notin created =>
        /\ api[p] = Nil /\ cache[p] = Nil /\ queue[p] = Nil /\ assumed[p] = Nil
        /\ binding[p] = "none" /\ cycle.pod # p
        /\ NothingOnItsWay(p)

\* The versions of a pod at the API server, in the cache, and between the two.
Stages(p) ==
    /\ api[p] # Nil => AsStored(api[p])
    /\ cache[p] # Nil => Versioned(cache[p])
    /\ \A o \in Coming(p) :
          /\ AsStored(o)
          /\ IF cache[p] = Nil THEN o.rv = 1 ELSE o.rv > cache[p].rv /\ o.pref = cache[p].pref

\* A pod is queued, in its cycle or assumed, and it is forgotten as assumed when its
\* binding is delivered.
Custody(p) ==
    /\ binding[p] # "none" => assumed[p] # Nil
    /\ cycle.pod = p => assumed[p] = Nil
    /\ cache[p] # Nil /\ cache[p].rv = 3 =>
          queue[p] = Nil /\ assumed[p] = Nil /\ cycle.pod # p
    /\ \A o \in Coming(p) :
          /\ o.rv = 3 => assumed[p] # Nil /\ binding[p] = "none"
          /\ queue[p] = Shared => o.rv = 3

\* A cycle that has not decided yet holds the cache's own, last object of its pod, if
\* it holds the cache's object at all.
AtHand ==
    cycle.at \in Undecided =>
        /\ cycle.nodes = Nodes /\ cycle.policy = Nil
        /\ cycle.shared => Coming(cycle.pod) = {}

\* Where the cycle of a pod is that was not yet annotated ...
Deciding ==
    /\ cycle.shared
    /\ \/ cycle.at \in Undecided
       \/ /\ cycle.at = CallOut /\ ~Unmarked(cycle.obj)
          /\ cycle.nodes = Nodes /\ cycle.policy \in policies

\* ... and of one that was.
Decided ==
    /\ cycle.obj.pref = api[cycle.pod].pref
    /\ \/ Mode = "Strict" /\ cycle.at = "filter" /\ cycle.nodes = Nodes /\ cycle.policy \in policies
       \/ Mode = "Strict" /\ cycle.at \in {"prescore", "score"}
          /\ cycle.policy = Nil /\ \A n \in cycle.nodes : Suits(n, cycle.obj.pref)
       \/ Mode = "BestEffort" /\ cycle.at = "score" /\ cycle.nodes = Nodes /\ cycle.policy \in policies

\* Who holds an existing pod: as created, the queue or the cycle that decides for it;
\* as annotated, the cycle that decided or the bind call; as bound, nobody.
Alive(p) ==
    /\ api[p] # Nil /\ api[p].rv = 1 =>
         /\ assumed[p] = Nil /\ queue[p] \in {Nil, Shared}
         /\ \/ cache[p] = Nil /\ cycle.pod # p /\ queue[p] = Nil
            \/ /\ cache[p] # Nil /\ cache[p].rv = 1 /\ Coming(p) = {}
               /\ \/ cycle.pod # p /\ queue[p] = Shared
                  \/ cycle.pod = p /\ Deciding /\ queue[p] = Nil
    /\ api[p] # Nil /\ api[p].rv = 2 =>
         /\ cache[p] # Nil /\ cache[p].pref = api[p].pref
         /\ \/ cycle.pod = p /\ Decided
            \/ binding[p] = "posting" /\ Suits(assumed[p], api[p].pref)
    /\ api[p] # Nil /\ api[p].rv = 3 =>
         /\ cache[p] # Nil /\ cache[p].pref = api[p].pref
         /\ binding[p] = "none"
         /\ assumed[p] # Nil \/ cache[p].rv = 3

PodInv(p) == Untouched(p) /\ Stages(p) /\ Custody(p) /\ Alive(p)

WatchInv == EventsInOrder /\ RemovalsTold

\* The process is up, and nothing happened but deletions.
Calm == cycle.at # "down" /\ \A d \in Disturbances \ {"delete"} : spent[d] = 0

QuotaInv == Calm /\ WatchInv /\ AtHand /\ \A p \in Pods : PodInv(p)

---------------------------------------------------------------------------

\* What there is to know of the policies.
LEMMA PolicyKnown ==
    ASSUME TypeOK, OneRule
    PROVE  \E pp \in Policies :
             /\ policies = {pp} /\ Mode = pp.mode /\ pp.mode \in {"Strict", "BestEffort"}
             /\ pp.policy = ThePolicy.policy /\ pp.nodeSelector = ThePolicy.nodeSelector
             /\ ~DecisionPanics(pp) /\ ~DecisionFails(pp)
             /\ \A p \in Pods : /\ ~PolicyLookupPanics(policies, Namespace[p])
                                /\ Governing(p) = {pp}
                                /\ SelectorMatches(pp.podSelector, PodLabels[p])
<1>1. PICK pp \in policies : policies = {pp}
  BY DEF TypeOK, OneRule
<1>2. pp \in Policies
  BY DEF TypeOK, Policies
<1>3. Mode = pp.mode
  BY <1>1 DEF Mode
<1>4. /\ pp.mode \in {"Strict", "BestEffort"} /\ pp.weight \in Int
      /\ pp.policy = ThePolicy.policy /\ pp.nodeSelector = ThePolicy.nodeSelector
      /\ pp.podSelector # Nil /\ ~DecisionPanics(pp) /\ ~DecisionFails(pp)
      /\ \A p \in Pods : /\ Namespace[p] = pp.namespace
                         /\ HasMatchingLabels(PodLabels[p], pp.podSelector)
                         /\ SelectorMatches(pp.podSelector, PodLabels[p])
  BY <1>2 DEF OneRule
<1>5. pp.weight <= pp.weight
  BY <1>4
<1>6. \A p \in Pods : Governing(p) = {pp}
  BY <1>1, <1>4, <1>5 DEF Governing, GetPlacementPolicyForPod, Lightest, filterPlacementPolicyList
<1>7. \A p \in Pods : ~PolicyLookupPanics(policies, Namespace[p])
  BY <1>1, <1>4 DEF PolicyLookupPanics
<1> QED
  BY <1>1, <1>2, <1>3, <1>4, <1>6, <1>7

\* No disturbance but a deletion happens.
LEMMA NotDisturbed ==
    ASSUME OnlyDeletions, Calm, NEW d \in Disturbances \ {"delete"}
    PROVE  ~Disturb(d)
BY DEF OnlyDeletions, Calm, Disturb

---------------------------------------------------------------------------
(* Events on their way *)

\* Membership in Coming.
LEMMA ComingIs ==
    ASSUME NEW p, NEW o
    PROVE  o \in Coming(p) <=> o # Nil /\ \E i \in 1..Len(watch) : watch[i].pod = p /\ watch[i].obj = o
BY DEF Coming

LEMMA ComingIsNext ==
    ASSUME NEW p, NEW o
    PROVE  o \in Coming(p)' <=> o # Nil /\ \E i \in 1..Len(watch') : watch'[i].pod = p /\ watch'[i].obj = o
BY DEF Coming

\* One more event.
LEMMA ComingStored ==
    ASSUME TypeOK, NEW p \in Pods, NEW o \in Object \union {Nil},
           watch' = Append(watch, [pod |-> p, obj |-> o]), NEW q \in Pods
    PROVE  /\ Coming(q)' = IF q = p /\ o # Nil THEN Coming(q) \union {o} ELSE Coming(q)
           /\ NothingOnItsWay(q)' <=> q # p /\ NothingOnItsWay(q)
<1> DEFINE n == Len(watch)
<1>1. n \in Nat
  BY EventsTyped
<1>2. /\ Len(watch') = n + 1
      /\ \A i \in 1..n : watch'[i] = watch[i]
      /\ watch'[n + 1].pod = p /\ watch'[n + 1].obj = o
  BY OneMoreEvent
<1>3. \A i : i \in 1..(n + 1) <=> i \in 1..n \/ i = n + 1
  BY <1>1
<1> HIDE DEF n
<1>4. ASSUME NEW x
      PROVE  x \in Coming(q)' <=> x \in Coming(q) \/ (q = p /\ x = o /\ x # Nil)
  BY <1>2, <1>3, ComingIs, ComingIsNext DEF n
<1>5. NothingOnItsWay(q)' <=> q # p /\ NothingOnItsWay(q)
  BY <1>2, <1>3 DEF NothingOnItsWay, n
<1>6. ASSUME q = p, o # Nil
      PROVE  Coming(q)' = Coming(q) \union {o}
  <2>1. \A x : x \in Coming(q)' <=> x \in Coming(q) \union {o}
    BY <1>4, <1>6
  <2> QED
    BY Zenon, <2>1
<1>7. ASSUME ~(q = p /\ o # Nil)
      PROVE  Coming(q)' = Coming(q)
  <2>1. \A x : x \in Coming(q)' <=> x \in Coming(q)
    BY <1>4, <1>7
  <2> QED
    BY Zenon, <2>1
<1> QED
  BY <1>5, <1>6, <1>7

\* The first event is delivered.
LEMMA FirstEvent ==
    ASSUME TypeOK, watch # << >>, watch' = Tail(watch)
    PROVE  /\ Head(watch).pod \in Pods /\ Head(watch).obj \in Object \union {Nil}
           /\ 1 \in 1..Len(watch) /\ Head(watch) = watch[1]
           /\ \A i \in 1..Len(watch') : /\ i + 1 \in 1..Len(watch) /\ 1 < i + 1
                                        /\ watch'[i] = watch[i + 1]
           /\ \A i, j \in 1..Len(watch') : i < j => i + 1 < j + 1
<1> DEFINE E == [pod : Pods, obj : Object \union {Nil}]
<1>1. watch \in Seq(E)
  BY DEF TypeOK
<1>2. \A e \in E : e.pod \in Pods /\ e.obj \in Object \union {Nil}
  OBVIOUS
<1> HIDE DEF E
<1>3. /\ Head(watch) \in E /\ Head(watch) = watch[1]
      /\ Len(watch) \in Nat /\ Len(watch) >= 1 /\ Len(watch') = Len(watch) - 1
      /\ \A i \in 1..Len(watch') : watch'[i] = watch[i + 1] /\ i + 1 \in 1..Len(watch)
  BY <1>1
<1>4. 1 \in 1..Len(watch)
  BY <1>3
<1>5. \A i \in 1..Len(watch') : 1 < i + 1
  BY <1>3
<1>6. \A i, j \in 1..Len(watch') : i < j => i + 1 < j + 1
  BY <1>3
<1> QED
  BY <1>2, <1>3, <1>4, <1>5, <1>6

\* The versions of a pod arrive in their order.
LEMMA ComingDelivered ==
    ASSUME TypeOK, WatchInv, watch # << >>, watch' = Tail(watch),
           UNCHANGED <<api, created, spent>>,
           NEW p, NEW o, Head(watch).pod = p, Head(watch).obj = o
    PROVE  /\ p \in Pods /\ o \in Object \union {Nil} /\ ~NothingOnItsWay(p)
           /\ o = Nil => api[p] = Nil /\ spent["delete"] # 0
           /\ o # Nil => o \in Coming(p)
           /\ \A x \in Coming(p)' : o # Nil /\ x # Nil /\ o.rv < x.rv
           /\ \A q \in Pods : /\ Coming(q)' \subseteq Coming(q)
                              /\ NothingOnItsWay(q) => NothingOnItsWay(q)'
           /\ WatchInv'
<1>1. /\ p \in Pods /\ o \in Object \union {Nil}
      /\ 1 \in 1..Len(watch) /\ watch[1].pod = p /\ watch[1].obj = o
      /\ \A i \in 1..Len(watch') : /\ i + 1 \in 1..Len(watch) /\ 1 < i + 1
                                   /\ watch'[i] = watch[i + 1]
      /\ \A i, j \in 1..Len(watch') : i < j => i + 1 < j + 1
  BY FirstEvent
<1>2. ~NothingOnItsWay(p)
  BY <1>1 DEF NothingOnItsWay
<1>3. o = Nil => api[p] = Nil /\ spent["delete"] # 0
  BY <1>1 DEF WatchInv, RemovalsTold
<1>4. o # Nil => o \in Coming(p)
  BY <1>1, ComingIs
<1>5. ASSUME NEW x \in Coming(p)'
      PROVE  o # Nil /\ x # Nil /\ o.rv < x.rv
  <2>1. PICK i \in 1..Len(watch') : watch'[i].pod = p /\ watch'[i].obj = x /\ x # Nil
    BY ComingIsNext
  <2>2. i + 1 \in 1..Len(watch) /\ 1 < i + 1 /\ watch[i + 1].pod = watch[1].pod /\ watch[i + 1].obj = x
    BY <1>1, <2>1
  <2> QED
    BY <1>1, <2>1, <2>2 DEF WatchInv, EventsInOrder
<1>6. ASSUME NEW q \in Pods
      PROVE  /\ Coming(q)' \subseteq Coming(q)
             /\ NothingOnItsWay(q) => NothingOnItsWay(q)'
  <2>1. ASSUME NEW x \in Coming(q)'
        PROVE  x \in Coming(q)
    <3>1. PICK i \in 1..Len(watch') : watch'[i].pod = q /\ watch'[i].obj = x /\ x # Nil
      BY ComingIsNext
    <3> QED
      BY <1>1, <3>1, ComingIs
  <2> QED
    BY <1>1, <2>1 DEF NothingOnItsWay
<1>7. EventsInOrder'
  <2> SUFFICES ASSUME NEW i \in 1..Len(watch'), NEW j \in 1..Len(watch'),
                      i < j, watch'[i].pod = watch'[j].pod
               PROVE  /\ watch'[i].obj # Nil
                      /\ watch'[j].obj # Nil => watch'[i].obj.rv < watch'[j].obj.rv
    BY DEF EventsInOrder
  <2>1. /\ i + 1 \in 1..Len(watch) /\ j + 1 \in 1..Len(watch) /\ i + 1 < j + 1
        /\ watch'[i] = watch[i + 1] /\ watch'[j] = watch[j + 1]
    BY <1>1
  <2> QED
    BY <2>1 DEF WatchInv, EventsInOrder
<1>8. RemovalsTold'
  BY <1>1 DEF WatchInv, RemovalsTold
<1> QED
  BY <1>1, <1>2, <1>3, <1>4, <1>5, <1>6, <1>7, <1>8 DEF WatchInv

\* A change of the store that the watch tells of: the pod's new version is newer
\* than what is on its way.
LEMMA WatchStored ==
    ASSUME TypeOK, WatchInv, NEW p \in Pods, NEW o \in Object \union {Nil},
           cycle.at # "down", Store(p, o),
           created \subseteq created', p \in created',
           api[p] # Nil \/ NothingOnItsWay(p),
           p \in created \/ o # Nil, api[p] = Nil => p \notin created,
           spent'["delete"] # 0 <=> o = Nil \/ spent["delete"] # 0,
           o # Nil => \A x \in Coming(p) : x.rv < o.rv
    PROVE  /\ WatchInv'
           /\ watch' = Append(watch, [pod |-> p, obj |-> o])
           /\ api'[p] = o /\ \A q \in Pods : q # p => api'[q] = api[q]
<1> DEFINE n == Len(watch)
<1>1. n \in Nat /\ \A i \in 1..n : watch[i].pod \in Pods
  BY EventsTyped
<1>2. watch' = Append(watch, [pod |-> p, obj |-> o]) /\ api' = [api EXCEPT ![p] = o]
  BY DEF Store
<1>3. /\ Len(watch') = n + 1
      /\ \A i \in 1..n : watch'[i] = watch[i]
      /\ watch'[n + 1].pod = p /\ watch'[n + 1].obj = o
  BY <1>2, OneMoreEvent
<1>4. api'[p] = o /\ \A q \in Pods : q # p => api'[q] = api[q]
  BY <1>2 DEF TypeOK
<1>5. \A i : i \in 1..(n + 1) <=> i \in 1..n \/ i = n + 1
  BY <1>1
<1>6. \A i \in 1..n : i < n + 1 /\ ~(n + 1 < i)
  BY <1>1
<1>7. ASSUME NEW i \in 1..n, watch[i].pod = p
      PROVE  watch[i].obj # Nil /\ (o # Nil => watch[i].obj.rv < o.rv)
  <2>1. watch[i].obj # Nil
    BY <1>7 DEF WatchInv, RemovalsTold, NothingOnItsWay, n
  <2> QED
    BY <1>7, <2>1, ComingIs DEF n
<1>8. ~(n + 1 < n + 1)
  BY <1>1
<1> HIDE DEF n
<1>9. EventsInOrder'
  BY <1>3, <1>5, <1>6, <1>7, <1>8 DEF WatchInv, EventsInOrder, n
<1>10. \A i \in 1..(n + 1) : watch'[i].obj = Nil => api'[watch'[i].pod] = Nil /\ spent'["delete"] # 0
  <2>1. ASSUME NEW i \in 1..n, watch[i].obj = Nil
        PROVE  api'[watch[i].pod] = Nil /\ spent'["delete"] # 0
    BY <1>1, <1>4, <1>7, <2>1 DEF WatchInv, RemovalsTold, n
  <2> QED
    BY <1>3, <1>4, <1>5, <2>1
<1>11. spent'["delete"] # 0 => \E q \in created' : api'[q] = Nil
  BY <1>4 DEF WatchInv, RemovalsTold, TypeOK
<1> QED
  BY <1>2, <1>3, <1>4, <1>9, <1>10, <1>11 DEF WatchInv, RemovalsTold

---------------------------------------------------------------------------
(* Pods that a step leaves alone *)

\* Nothing that the invariant says of q changes.
LEMMA PodFrame ==
    ASSUME NEW q \in Pods, PodInv(q), policies' = policies,
           api'[q] = api[q], cache'[q] = cache[q], queue'[q] = queue[q],
           assumed'[q] = assumed[q], binding'[q] = binding[q],
           q \in created => q \in created',
           Coming(q)' \subseteq Coming(q), NothingOnItsWay(q) => NothingOnItsWay(q)',
           cycle' = cycle \/ (cycle.pod # q /\ cycle'.pod # q)
    PROVE  PodInv(q)'
<1> USE DEF PodInv
<1>1. Untouched(q)'
  BY DEF Untouched
<1>2. Stages(q)'
  BY DEF Stages, AsStored, Versioned, Suits
<1>3. Custody(q)'
  BY DEF Custody
<1>4. Alive(q)'
  BY DEF Alive, Deciding, Decided, Undecided, CallOut, Mode, Suits
<1> QED
  BY <1>1, <1>2, <1>3, <1>4

\* So it is of the pod at hand.
LEMMA AtHandKept ==
    ASSUME TypeOK, AtHand, policies' = policies, cycle' = cycle,
           \A q \in Pods : cycle.pod # q \/ Coming(q)' \subseteq Coming(q)
    PROVE  AtHand'
<1> SUFFICES ASSUME cycle.at \in Undecided
             PROVE  /\ cycle'.nodes = Nodes /\ cycle'.policy = Nil
                    /\ cycle'.shared => Coming(cycle.pod)' = {}
  BY DEF AtHand, Undecided, Mode
<1>1. PICK q \in Pods : q = cycle.pod
  BY DEF TypeOK, Undecided
<1>2. Coming(cycle.pod)' = Coming(q)'
  BY <1>1 DEF Coming
<1> QED
  BY <1>1, <1>2 DEF AtHand

\* The step leaves the store and the watch alone.
LEMMA Unwatched ==
    ASSUME WatchInv, UNCHANGED <<api, watch, created, spent>>
    PROVE  /\ WatchInv'
           /\ \A q \in Pods : Coming(q)' = Coming(q) /\ (NothingOnItsWay(q)' <=> NothingOnItsWay(q))
BY DEF WatchInv, EventsInOrder, RemovalsTold, Coming, NothingOnItsWay

---------------------------------------------------------------------------
(* The steps of users, informer and queue *)

LEMMA QuotaCreate ==
    ASSUME TypeOK, QuotaInv, NEW p \in Pods, CreatePod(p)
    PROVE  QuotaInv'
<1>0. PICK o \in Object : o = [rv |-> 1, pref |-> "", by |-> "", node |-> Nil]
  BY DEF Object, Preferences
<1>1. /\ p \notin created /\ created' = created \union {p} /\ Store(p, o)
      /\ UNCHANGED <<cache, policies, queue, cycle, assumed, binding, spent>>
  BY <1>0 DEF CreatePod
<1>2. o # Nil
  BY SentinelAssumption
<1>3. o.rv = 1 /\ Unmarked(o) /\ o.node = Nil
  BY Zenon, <1>0 DEF Unmarked
<1>4. Untouched(p) /\ PodInv(p)
  BY DEF QuotaInv, PodInv
<1>5. /\ api[p] = Nil /\ cache[p] = Nil /\ queue[p] = Nil /\ assumed[p] = Nil
      /\ binding[p] = "none" /\ cycle.pod # p /\ NothingOnItsWay(p)
  BY <1>1, <1>4 DEF Untouched
<1>6. Coming(p) = {}
  BY <1>5 DEF NothingOnItsWay, Coming
<1>7. /\ WatchInv' /\ watch' = Append(watch, [pod |-> p, obj |-> o])
      /\ api'[p] = o /\ \A q \in Pods : q # p => api'[q] = api[q]
  BY <1>1, <1>2, <1>5, <1>6, WatchStored DEF QuotaInv, Calm
<1>8. /\ Coming(p)' = {o}
      /\ \A q \in Pods : q # p => Coming(q)' = Coming(q) /\ (NothingOnItsWay(q)' <=> NothingOnItsWay(q))
  BY <1>2, <1>6, <1>7, ComingStored
<1>9. ASSUME NEW q \in Pods, q # p
      PROVE  PodInv(q)'
  BY <1>1, <1>7, <1>8, <1>9, PodFrame DEF QuotaInv
<1>10. PodInv(p)'
  <2>1. Untouched(p)'
    BY <1>1 DEF Untouched
  <2>2. Stages(p)'
    <3>1. AsStored(o)
      BY <1>3 DEF AsStored, Versioned
    <3> QED
      BY <1>1, <1>3, <1>5, <1>7, <1>8, <3>1 DEF Stages
  <2>3. Custody(p)'
    BY <1>1, <1>3, <1>4, <1>5, <1>8, SentinelAssumption DEF Custody
  <2>4. Alive(p)'
    BY <1>1, <1>3, <1>5, <1>7 DEF Alive
  <2> QED
    BY <2>1, <2>2, <2>3, <2>4 DEF PodInv
<1>11. AtHand' /\ Calm'
  BY <1>1, <1>5, <1>8, AtHandKept DEF QuotaInv, Calm
<1> QED
  BY <1>7, <1>9, <1>10, <1>11 DEF QuotaInv

LEMMA QuotaDelete ==
    ASSUME TypeOK, QuotaInv, NEW p \in Pods, DeletePod(p)
    PROVE  QuotaInv'
<1>1. /\ api[p] # Nil /\ Store(p, Nil)
      /\ UNCHANGED <<created, cache, policies, queue, cycle, assumed, binding>>
      /\ spent' = [spent EXCEPT !["delete"] = @ + 1]
  BY DEF DeletePod, Disturb
<1>2. /\ spent'["delete"] # 0
      /\ \A d \in Disturbances \ {"delete"} : spent'[d] = spent[d]
  BY <1>1 DEF TypeOK, Disturbances
<1>3. p \in created
  BY <1>1 DEF QuotaInv, PodInv, Untouched
<1>4. /\ WatchInv' /\ watch' = Append(watch, [pod |-> p, obj |-> Nil])
      /\ api'[p] = Nil /\ \A q \in Pods : q # p => api'[q] = api[q]
  BY <1>1, <1>2, <1>3, WatchStored DEF QuotaInv, Calm
<1>5. \A q \in Pods : /\ Coming(q)' = Coming(q)
                      /\ q # p => (NothingOnItsWay(q)' <=> NothingOnItsWay(q))
  BY <1>4, ComingStored
<1>6. ASSUME NEW q \in Pods, q # p
      PROVE  PodInv(q)'
  BY <1>1, <1>4, <1>5, <1>6, PodFrame DEF QuotaInv
<1>7. PodInv(p)'
  <2>1. Untouched(p)'
    BY <1>1, <1>3 DEF Untouched
  <2>2. Stages(p)'
    BY <1>1, <1>4, <1>5 DEF QuotaInv, PodInv, Stages, AsStored, Versioned, Suits
  <2>3. Custody(p)'
    BY <1>1, <1>5 DEF QuotaInv, PodInv, Custody
  <2>4. Alive(p)'
    BY <1>4 DEF Alive
  <2> QED
    BY <2>1, <2>2, <2>3, <2>4 DEF PodInv
<1>8. AtHand'
  BY <1>1, <1>5, AtHandKept DEF QuotaInv
<1>9. Calm'
  BY <1>1, <1>2 DEF QuotaInv, Calm
<1> QED
  BY <1>4, <1>6, <1>7, <1>8, <1>9 DEF QuotaInv

LEMMA QuotaDeliver ==
    ASSUME TypeOK, QuotaInv, Deliver
    PROVE  QuotaInv'
<1>1. PICK p \in Pods, o \in Object \union {Nil} : Head(watch).pod = p /\ Head(watch).obj = o
  BY HeadOfWatch DEF Deliver
<1>2. /\ watch # << >> /\ watch' = Tail(watch)
      /\ cache' = [cache EXCEPT ![p] = o]
      /\ queue' = [queue EXCEPT ![p] = QueueAfter(p, o)]
      /\ assumed' = IF IsBound(o) THEN [assumed EXCEPT ![p] = Nil] ELSE assumed
      /\ cycle' = IF cycle.pod = p THEN [cycle EXCEPT !.shared = FALSE] ELSE cycle
      /\ UNCHANGED <<api, created, policies, binding, spent>>
  BY <1>1 DEF Deliver
<1>3. /\ ~NothingOnItsWay(p)
      /\ o = Nil => api[p] = Nil
      /\ o # Nil => o \in Coming(p)
      /\ \A x \in Coming(p)' : o # Nil /\ x # Nil /\ o.rv < x.rv
      /\ \A q \in Pods : /\ Coming(q)' \subseteq Coming(q)
                         /\ NothingOnItsWay(q) => NothingOnItsWay(q)'
      /\ WatchInv'
  BY <1>1, <1>2, ComingDelivered DEF QuotaInv
<1>4. /\ cache'[p] = o /\ queue'[p] = QueueAfter(p, o)
      /\ assumed'[p] = IF IsBound(o) THEN Nil ELSE assumed[p]
      /\ binding'[p] = binding[p] /\ api'[p] = api[p]
      /\ \A q \in Pods : q # p => /\ cache'[q] = cache[q] /\ queue'[q] = queue[q]
                                  /\ assumed'[q] = assumed[q]
  BY <1>2 DEF TypeOK
<1>5. /\ cycle'.at = cycle.at /\ cycle'.pod = cycle.pod /\ cycle'.obj = cycle.obj
      /\ cycle'.nodes = cycle.nodes /\ cycle'.policy = cycle.policy
      /\ cycle'.shared => cycle' = cycle /\ cycle.pod # p
      /\ cycle.pod # p => cycle' = cycle
  BY <1>2 DEF TypeOK
<1>6. ASSUME NEW q \in Pods, q # p
      PROVE  PodInv(q)'
  BY <1>2, <1>3, <1>4, <1>5, <1>6, PodFrame DEF QuotaInv
<1>7. p \in created /\ PodInv(p)
  BY <1>3 DEF QuotaInv, PodInv, Untouched
<1>8. Untouched(p)'
  BY <1>2, <1>7 DEF Untouched
<1>9. ASSUME o = Nil PROVE PodInv(p)'
  <2>1. Coming(p)' = {} /\ api'[p] = Nil /\ cache'[p] = Nil /\ assumed'[p] = assumed[p]
    BY <1>3, <1>4, <1>9 DEF IsBound
  <2>2. Stages(p)'
    BY <2>1 DEF Stages
  <2>3. Custody(p)'
    BY <1>4, <1>5, <1>7, <2>1 DEF PodInv, Custody
  <2>4. Alive(p)'
    BY <2>1 DEF Alive
  <2> QED
    BY <1>8, <2>2, <2>3, <2>4 DEF PodInv
<1>10. ASSUME o # Nil PROVE PodInv(p)'
  <2>1. /\ AsStored(o) /\ o \in Object /\ o.rv \in 1..3
        /\ IsBound(o) <=> o.rv = 3
        /\ cache[p] = Nil => o.rv = 1
        /\ cache[p] # Nil => cache[p].rv \in 1..3 /\ o.rv > cache[p].rv /\ o.pref = cache[p].pref
    BY <1>3, <1>7, <1>10 DEF PodInv, Stages, AsStored, Versioned, IsBound
  <2>2. ASSUME NEW x \in Coming(p)'
        PROVE  /\ AsStored(x) /\ x.rv \in 1..3 /\ x.rv > o.rv /\ x.pref = o.pref
               /\ cache[p] # Nil /\ x.rv = 3
               /\ assumed[p] # Nil /\ binding[p] = "none"
    <3>1. /\ x \in Coming(p) /\ AsStored(x) /\ o.rv < x.rv /\ x.rv \in 1..3
          /\ cache[p] = Nil => x.rv = 1
          /\ cache[p] # Nil => x.pref = cache[p].pref
      BY <1>3, <1>7 DEF PodInv, Stages, AsStored, Versioned
    <3>2. cache[p] # Nil /\ x.rv = 3
      BY <2>1, <3>1
    <3> QED
      BY <1>7, <2>1, <3>1, <3>2 DEF PodInv, Custody
  <2>3. Stages(p)'
    <3>1. api'[p] # Nil => AsStored(api'[p])
      BY <1>4, <1>7 DEF PodInv, Stages
    <3>2. Versioned(o)
      BY <2>1 DEF AsStored
    <3> QED
      BY <1>4, <1>10, <2>2, <3>1, <3>2 DEF Stages
  <2>4. IsBound(o) => /\ queue'[p] = Nil /\ assumed'[p] = Nil
                      /\ assumed[p] # Nil /\ binding[p] = "none" /\ cycle.pod # p
    BY <1>3, <1>4, <1>7, <1>10, <2>1 DEF QueueAfter, PodInv, Custody
  <2>5. queue'[p] = Shared => ~IsBound(o) /\ assumed[p] = Nil
    BY <1>4, <2>4, SentinelAssumption DEF QueueAfter, TypeOK
  <2>6. Custody(p)'
    BY <1>4, <1>5, <1>7, <2>1, <2>2, <2>4, <2>5 DEF PodInv, Custody
  <2>7. Alive(p)'
    <3>1. CASE api[p] # Nil /\ api[p].rv = 1
      <4>1. /\ cache[p] = Nil /\ cycle.pod # p /\ queue[p] = Nil /\ assumed[p] = Nil
            /\ o.rv = 1 /\ ~IsBound(o)
        BY <1>3, <1>7, <1>10, <2>1, <3>1 DEF PodInv, Alive
      <4>2. Coming(p)' = {}
        BY <2>2, <4>1
      <4>3. queue'[p] = Shared
        BY <1>4, <1>10, <4>1 DEF QueueAfter
      <4>4. /\ api'[p].rv = 1 /\ assumed'[p] = Nil /\ cycle'.pod # p
            /\ cache'[p] # Nil /\ cache'[p].rv = 1
        BY <1>4, <1>5, <1>10, <3>1, <4>1
      <4> QED
        BY <4>2, <4>3, <4>4 DEF Alive
    <3>2. CASE api[p] # Nil /\ api[p].rv = 2
      <4>1. cache[p] # Nil /\ cache[p].pref = api[p].pref
        BY <1>7, <3>2 DEF PodInv, Alive
      <4>2. \/ cycle.pod = p /\ Decided
            \/ binding[p] = "posting" /\ Suits(assumed[p], api[p].pref)
        BY <1>7, <3>2 DEF PodInv, Alive
      <4>3. cycle.pod = p /\ Decided => cycle'.pod = p /\ Decided'
        BY <1>2, <1>5 DEF Decided, Mode, Suits
      <4>4. binding[p] = "posting" => assumed'[p] = assumed[p]
        BY <1>4, <2>4
      <4> QED
        BY <1>4, <1>10, <2>1, <3>2, <4>1, <4>2, <4>3, <4>4 DEF Alive, Suits
    <3>3. CASE api[p] # Nil /\ api[p].rv = 3
      BY <1>4, <1>7, <1>10, <2>1, <3>3 DEF PodInv, Alive
    <3> QED
      BY <1>4, <3>1, <3>2, <3>3 DEF Alive
  <2> QED
    BY <1>8, <2>3, <2>6, <2>7 DEF PodInv
<1>11. AtHand'
  <2> SUFFICES ASSUME cycle.at \in Undecided
               PROVE  /\ cycle'.nodes = Nodes /\ cycle'.policy = Nil
                      /\ cycle'.shared => Coming(cycle.pod)' = {}
    BY <1>2, <1>5 DEF AtHand, Undecided, Mode
  <2>1. PICK q \in Pods : q = cycle.pod /\ q = cycle'.pod
    BY <1>5 DEF TypeOK, Undecided
  <2>2. Coming(cycle.pod)' = Coming(q)'
    BY <2>1 DEF Coming
  <2>3. Coming(q)' \subseteq Coming(cycle.pod)
    BY <1>3, <2>1
  <2> QED
    BY <1>5, <2>2, <2>3 DEF QuotaInv, AtHand
<1>12. Calm'
  BY <1>2, <1>5 DEF QuotaInv, Calm
<1> QED
  BY <1>3, <1>6, <1>9, <1>10, <1>11, <1>12 DEF QuotaInv

\* Every node has room for a pod that is on none.
LEMMA RoomEverywhere ==
    ASSUME RoomForAll, NEW p \in Pods, assumed[p] = Nil, ~IsBound(cache[p]), NEW n \in Nodes
    PROVE  HasRoom(n)
<1> DEFINE S == {q \in Pods : assumed[q] = n \/ (IsBound(cache[q]) /\ cache[q].node = n)}
<1>1. S \in SUBSET (Pods \ {p})
  BY SentinelAssumption
<1>2. /\ IsFiniteSet(Pods \ {p}) /\ Cardinality(Pods \ {p}) = Cardinality(Pods) - 1
      /\ Cardinality(Pods) \in Nat
  BY ConstantsAssumption, FS_RemoveElement, FS_CardinalityType
<1> HIDE DEF S
<1>3. Cardinality(S) <= Cardinality(Pods) - 1 /\ Cardinality(S) \in Nat
  BY <1>1, <1>2, FS_Subset, FS_CardinalityType
<1>4. Capacity[n] \in Nat /\ Capacity[n] >= Cardinality(Pods)
  BY DEF RoomForAll
<1>5. Cardinality(S) < Capacity[n]
  BY <1>2, <1>3, <1>4
<1> QED
  BY <1>5 DEF HasRoom, S

LEMMA QuotaPop ==
    ASSUME RoomForAll, TypeOK, QuotaInv, NEW p \in Pods, Pop(p)
    PROVE  QuotaInv'
<1>1. /\ cycle.at = "idle" /\ queue[p] # Nil
      /\ queue'[p] = Nil /\ \A q \in Pods : q # p => queue'[q] = queue[q]
      /\ UNCHANGED <<api, created, watch, cache, policies, assumed, binding, spent>>
  BY DEF Pop, TypeOK
<1>2. WatchInv' /\ \A q \in Pods : Coming(q)' = Coming(q) /\ (NothingOnItsWay(q)' <=> NothingOnItsWay(q))
  BY <1>1, Unwatched DEF QuotaInv
<1>3. \A q \in Pods : cycle.pod # q
  BY <1>1, SentinelAssumption DEF TypeOK, NoCycle
<1>4. PodInv(p) /\ p \in created
  BY <1>1 DEF QuotaInv, PodInv, Untouched
<1>5. cycle'.at # "down" /\ (cycle' = cycle \/ cycle'.pod = p)
  BY <1>1 DEF Pop
<1>6. ASSUME NEW q \in Pods, q # p
      PROVE  PodInv(q)'
  BY <1>1, <1>2, <1>3, <1>5, <1>6, PodFrame DEF QuotaInv
<1>7. Untouched(p)' /\ Stages(p)'
  BY <1>1, <1>2, <1>4 DEF PodInv, Untouched, Stages, AsStored, Versioned, Suits
<1>8. CASE assumed[p] # Nil
  <2>1. cycle' = cycle
    BY <1>8 DEF Pop
  <2>2. Custody(p)'
    BY <1>1, <1>2, <1>4, <2>1, SentinelAssumption DEF PodInv, Custody
  <2>3. Alive(p)'
    BY <1>1, <1>2, <1>4, <1>8, <2>1 DEF PodInv, Alive, Decided, Mode, Suits
  <2>4. AtHand'
    BY <1>1, <1>2, <2>1, AtHandKept DEF QuotaInv
  <2> QED
    BY <1>1, <1>2, <1>5, <1>6, <1>7, <2>2, <2>3, <2>4 DEF QuotaInv, PodInv, Calm
<1>9. CASE assumed[p] = Nil
  <2>1. /\ cycle'.at = "prefilter" /\ cycle'.pod = p /\ cycle'.policy = Nil
        /\ cycle'.nodes = {n \in Nodes : HasRoom(n)}
        /\ cycle'.shared <=> queue[p] = Shared
    BY <1>9 DEF Pop
  <2>2. ~IsBound(cache[p]) /\ (cache[p] # Nil => cache[p].rv # 3)
    BY <1>1, <1>4, <1>9 DEF PodInv, Custody, Stages, Versioned, IsBound
  <2>3. cycle'.nodes = Nodes
    BY <1>9, <2>1, <2>2, RoomEverywhere
  <2>4. cycle'.shared => Coming(p)' = {}
    BY <1>2, <1>4, <1>9, <2>1 DEF PodInv, Custody
  <2>5. Custody(p)'
    BY <1>1, <1>2, <1>4, <1>9, <2>2, SentinelAssumption DEF PodInv, Custody
  <2>6. "prefilter" \in Undecided'
    BY DEF Undecided
  <2>7. Alive(p)'
    <3>1. queue[p] = Shared => Deciding'
      BY <2>1, <2>6 DEF Deciding
    <3>2. queue'[p] = Nil /\ cycle'.pod = p /\ cycle.pod # p
      BY <1>1, <1>3, <2>1
    <3> QED
      BY <1>1, <1>2, <1>4, <1>9, <2>2, <3>1, <3>2, SentinelAssumption DEF PodInv, Alive, Custody
  <2>8. AtHand'
    <3>1. Coming(cycle.pod)' = Coming(p)'
      BY <2>1 DEF Coming
    <3> QED
      BY <2>1, <2>3, <2>4, <3>1 DEF AtHand
  <2> QED
    BY <1>1, <1>2, <1>5, <1>6, <1>7, <2>5, <2>7, <2>8 DEF QuotaInv, PodInv, Calm
<1> QED
  BY <1>8, <1>9

---------------------------------------------------------------------------
(* The steps of the scheduling cycle *)

\* The pod at hand: if it exists it is not decided yet, or decided and stored so.
LEMMA PodAtHand ==
    ASSUME TypeOK, QuotaInv, NEW p \in Pods, cycle.pod = p
    PROVE  /\ p \in created /\ assumed[p] = Nil /\ binding[p] = "none"
           /\ cache[p] # Nil => cache[p].rv \in {1, 2} /\ ~IsBound(cache[p])
           /\ \A o \in Coming(p) : o.rv # 3
           /\ api[p] # Nil =>
                 /\ AsStored(api[p])
                 /\ cache[p] # Nil
                 /\ \/ /\ api[p].rv = 1 /\ cache[p].rv = 1 /\ Coming(p) = {}
                       /\ queue[p] = Nil /\ Deciding
                    \/ api[p].rv = 2 /\ cache[p].pref = api[p].pref /\ Decided
<1>1. Untouched(p) /\ Stages(p) /\ Custody(p) /\ Alive(p)
  BY DEF QuotaInv, PodInv
<1>2. p \in created /\ assumed[p] = Nil
  BY <1>1 DEF Untouched, Custody
<1>3. binding[p] = "none" /\ \A o \in Coming(p) : o.rv # 3
  BY <1>1, <1>2 DEF Custody
<1>4. ASSUME cache[p] # Nil
      PROVE  cache[p].rv \in {1, 2} /\ ~IsBound(cache[p])
  <2>1. cache[p].rv \in 1..3 /\ cache[p].rv # 3 /\ (IsBound(cache[p]) => cache[p].rv = 3)
    BY <1>1, <1>4 DEF Stages, Custody, Versioned, IsBound
  <2> QED
    BY <2>1
<1>5. ASSUME api[p] # Nil
      PROVE  /\ AsStored(api[p])
             /\ cache[p] # Nil
             /\ \/ /\ api[p].rv = 1 /\ cache[p].rv = 1 /\ Coming(p) = {}
                   /\ queue[p] = Nil /\ Deciding
                \/ api[p].rv = 2 /\ cache[p].pref = api[p].pref /\ Decided
  <2>1. AsStored(api[p])
    BY <1>1, <1>5 DEF Stages
  <2>2. api[p].rv \in 1..3
    BY <2>1 DEF AsStored, Versioned
  <2>3. api[p].rv = 1 \/ api[p].rv = 2 \/ api[p].rv = 3
    BY <2>2
  <2>4. CASE api[p].rv = 1
    BY <1>1, <1>2, <1>5, <2>1, <2>4 DEF Alive
  <2>5. CASE api[p].rv = 2
    BY <1>1, <1>3, <1>5, <2>1, <2>5 DEF Alive
  <2>6. CASE api[p].rv = 3
    BY <1>1, <1>2, <1>4, <1>5, <2>6 DEF Alive
  <2> QED
    BY <2>3, <2>4, <2>5, <2>6
<1> QED
  BY <1>2, <1>3, <1>4, <1>5

\* The cycle moves on and nothing else happens.
LEMMA CycleMoves ==
    ASSUME TypeOK, QuotaInv, NEW p \in Pods, cycle.pod = p, cycle'.pod = p, cycle'.at # "down",
           UNCHANGED <<api, created, watch, cache, policies, queue, assumed, binding, spent>>,
           api[p] # Nil /\ Deciding => Deciding',
           api[p] # Nil /\ Decided => Decided',
           cycle'.at \in Undecided =>
               cycle.at \in Undecided /\ cycle'.nodes = Nodes /\ cycle'.policy = Nil
               /\ cycle'.shared = cycle.shared
    PROVE  QuotaInv'
<1>1. WatchInv' /\ \A q \in Pods : Coming(q)' = Coming(q) /\ (NothingOnItsWay(q)' <=> NothingOnItsWay(q))
  BY Unwatched DEF QuotaInv
<1>2. ASSUME NEW q \in Pods, q # p
      PROVE  PodInv(q)'
  BY <1>1, <1>2, PodFrame DEF QuotaInv
<1>3. PodInv(p) /\ p \in created
  BY PodAtHand DEF QuotaInv
<1>4. Untouched(p)' /\ Stages(p)' /\ Custody(p)'
  BY <1>1, <1>3 DEF PodInv, Untouched, Stages, Custody
<1>5. Alive(p)'
  BY <1>1, <1>3, PodAtHand DEF PodInv, Alive
<1>6. AtHand'
  <2> SUFFICES ASSUME cycle'.at \in Undecided
               PROVE  /\ cycle'.nodes = Nodes /\ cycle'.policy = Nil
                      /\ cycle'.shared => Coming(cycle.pod)' = {}
    BY DEF AtHand, Undecided, Mode
  <2>1. Coming(cycle.pod)' = Coming(p)
    BY DEF Coming
  <2> QED
    BY <2>1 DEF QuotaInv, AtHand
<1>7. Calm'
  BY DEF QuotaInv, Calm
<1> QED
  BY <1>1, <1>2, <1>3, <1>4, <1>5, <1>6, <1>7 DEF QuotaInv, PodInv

\* The pod at hand is assumed on a node; if it exists, it is one it should go to.
LEMMA QuotaAssume ==
    ASSUME TypeOK, QuotaInv, NEW p \in Pods, cycle.pod = p, NEW n \in Nodes, Assume(n),
           UNCHANGED <<api, created, watch, cache, policies, queue, spent>>,
           api[p] # Nil => api[p].rv = 2 /\ Suits(n, api[p].pref)
    PROVE  QuotaInv'
<1>1. WatchInv' /\ \A q \in Pods : Coming(q)' = Coming(q) /\ (NothingOnItsWay(q)' <=> NothingOnItsWay(q))
  BY Unwatched DEF QuotaInv
<1>2. ~IsBound(cache[p])
  BY PodAtHand DEF IsBound
<1>3. /\ assumed'[p] = n /\ binding'[p] = "posting" /\ cycle' = NoCycle("idle")
      /\ \A q \in Pods : q # p => assumed'[q] = assumed[q] /\ binding'[q] = binding[q]
  BY <1>2 DEF Assume, TypeOK
<1>4. cycle'.at = "idle" /\ cycle'.pod = Nil /\ n # Nil /\ p # Nil
  BY <1>3, NoCycleType, SentinelAssumption
<1>5. ASSUME NEW q \in Pods, q # p
      PROVE  PodInv(q)'
  <2>1. cycle'.pod # q
    BY <1>4, SentinelAssumption
  <2> QED
    BY <1>1, <1>3, <1>5, <2>1, PodFrame DEF QuotaInv
<1>6. PodInv(p) /\ p \in created
  BY PodAtHand DEF QuotaInv
<1>7. Untouched(p)' /\ Stages(p)'
  BY <1>1, <1>6 DEF PodInv, Untouched, Stages
<1>8. Custody(p)'
  BY <1>1, <1>3, <1>4, <1>6, PodAtHand DEF PodInv, Custody
<1>9. Alive(p)'
  BY <1>3, <1>6, PodAtHand DEF PodInv, Alive
<1>10. AtHand' /\ Calm'
  BY <1>4 DEF AtHand, Undecided, QuotaInv, Calm
<1> QED
  BY <1>1, <1>5, <1>6, <1>7, <1>8, <1>9, <1>10 DEF QuotaInv, PodInv

\* A decision is not empty.
LEMMA DecisionTaken ==
    ASSUME NEW o, NEW pp, NEW S, NEW p, NEW N, NEW L,
           o \in Object, pp \in Policies
    PROVE  LET obj == Annotated(o, pp, Preference(pp, S, p, N, L))
           IN  obj.rv = o.rv /\ obj.node = o.node /\ ~Unmarked(obj)
<1> DEFINE pref == Preference(pp, S, p, N, L)
<1>1. pref # "" /\ pref \in {"true", "false"}
  BY DEF Preference
<1> HIDE DEF pref
<1>2. /\ Annotated(o, pp, pref).rv = o.rv
      /\ Annotated(o, pp, pref).node = o.node
      /\ Annotated(o, pp, pref).pref = pref
  BY DEF Annotated, Object
<1>3. ~Unmarked(Annotated(o, pp, pref))
  BY Zenon, <1>1, <1>2 DEF Unmarked
<1> QED
  BY <1>2, <1>3 DEF pref

\* PreFilter and PreScore, whichever the mode leaves the decision to.
Decides(p, pp, nodeList) ==
    LET obj == Annotated(cycle.obj, pp,
                         Preference(pp, GetPodsWithLabels(pp.podSelector), p,
                                    groupNodesWithLabels(nodeList, NodeLabels, pp.nodeSelector), cache))
    IN  /\ cycle' = [cycle EXCEPT !.at = CallOut, !.obj = obj, !.policy = pp]
        /\ cache' = CacheAfterWrite(obj)

LEMMA DecisionStep ==
    ASSUME TypeOK, OneRule, NEW p \in Pods, cycle.pod = p, PreFilter \/ PreScore
    PROVE  /\ UNCHANGED <<api, created, watch, policies, queue, assumed, binding, spent>>
           /\ \/ /\ cache' = cache
                 /\ \/ /\ Mode = "BestEffort" /\ cycle.at = "prefilter"
                       /\ cycle' = [cycle EXCEPT !.at = "filter"]
                    \/ /\ Mode = "Strict" /\ cycle.at = "prescore"
                       /\ cycle' = [cycle EXCEPT !.at = "score"]
              \/ \E pp \in policies :
                    /\ cycle.at \in Undecided
                    /\ \/ Mode = "Strict" /\ Decides(p, pp, Nodes)
                       \/ Mode = "BestEffort" /\ Decides(p, pp, cycle.nodes)
<1>1. PICK pp \in Policies :
             /\ policies = {pp} /\ Mode = pp.mode /\ pp.mode \in {"Strict", "BestEffort"}
             /\ ~DecisionPanics(pp) /\ ~DecisionFails(pp)
             /\ Governing(p) = {pp}
  BY PolicyKnown
<1>2. CASE PreFilter
  <2>1. /\ cycle.at = "prefilter"
        /\ UNCHANGED <<api, created, watch, policies, queue, assumed, binding, spent>>
        /\ IF pp.mode = "BestEffort" THEN SkipTo("filter")
           ELSE DecidePreference(pp, Nodes, "annotateInPreFilter")
    BY <1>1, <1>2 DEF PreFilter, LeftToTheOther
  <2>2. CASE pp.mode = "BestEffort"
    BY <1>1, <2>1, <2>2 DEF SkipTo
  <2>3. CASE pp.mode = "Strict"
    <3>1. CallOut = "annotateInPreFilter" /\ cycle.at \in Undecided
      BY <1>1, <2>1, <2>3 DEF CallOut, Undecided
    <3>2. Decides(p, pp, Nodes)
      BY <1>1, <2>1, <2>3, <3>1 DEF Decides, DecidePreference
    <3> QED
      BY <1>1, <2>1, <2>3, <3>1, <3>2
  <2> QED
    BY <1>1, <2>2, <2>3
<1>3. CASE PreScore
  <2>1. /\ cycle.at = "prescore"
        /\ UNCHANGED <<api, created, watch, policies, queue, assumed, binding, spent>>
        /\ IF pp.mode = "Strict" THEN SkipTo("score")
           ELSE DecidePreference(pp, cycle.nodes, "annotateInPreScore")
    BY <1>1, <1>3 DEF PreScore, LeftToTheOther
  <2>2. CASE pp.mode = "Strict"
    BY <1>1, <2>1, <2>2 DEF SkipTo
  <2>3. CASE pp.mode = "BestEffort"
    <3>1. CallOut = "annotateInPreScore" /\ cycle.at \in Undecided
      BY <1>1, <2>1, <2>3 DEF CallOut, Undecided
    <3>2. Decides(p, pp, cycle.nodes)
      BY <1>1, <2>1, <2>3, <3>1 DEF Decides, DecidePreference
    <3> QED
      BY <1>1, <2>1, <2>3, <3>1, <3>2
  <2> QED
    BY <1>1, <2>2, <2>3
<1> QED
  BY <1>2, <1>3

\* What a decision writes.
LEMMA DecisionWritten ==
    ASSUME TypeOK, NEW p \in Pods, cycle.pod = p, NEW pp \in policies, NEW N,
           cycle.at \in Undecided, Decides(p, pp, N)
    PROVE  /\ cycle'.at = CallOut /\ cycle'.pod = p /\ cycle'.policy = pp
           /\ cycle'.shared = cycle.shared /\ cycle'.nodes = cycle.nodes
           /\ cycle'.obj.rv = cycle.obj.rv /\ cycle'.obj.node = cycle.obj.node
           /\ ~Unmarked(cycle'.obj)
           /\ cycle.shared => cache'[p] = cycle'.obj /\ cycle.obj = cache[p] /\ cache[p] # Nil
           /\ ~cycle.shared => cache' = cache
           /\ \A q \in Pods : q # p => cache'[q] = cache[q]
<1> DEFINE obj == Annotated(cycle.obj, pp,
                         Preference(pp, GetPodsWithLabels(pp.podSelector), p,
                                    groupNodesWithLabels(N, NodeLabels, pp.nodeSelector), cache))
<1>1. pp \in Policies
  BY DEF TypeOK, Policies
<1>2. cycle.obj \in Object
  BY CycleType DEF Undecided
<1>3. obj.rv = cycle.obj.rv /\ obj.node = cycle.obj.node /\ ~Unmarked(obj)
  BY <1>1, <1>2, DecisionTaken
<1>4. /\ cycle' = [cycle EXCEPT !.at = CallOut, !.obj = obj, !.policy = pp]
      /\ cache' = CacheAfterWrite(obj)
  BY DEF Decides
<1> HIDE DEF obj
<1>5. /\ cycle'.at = CallOut /\ cycle'.pod = p /\ cycle'.policy = pp
      /\ cycle'.shared = cycle.shared /\ cycle'.nodes = cycle.nodes /\ cycle'.obj = obj
  BY <1>4 DEF TypeOK
<1>6. /\ cycle.shared => cache'[p] = obj /\ cycle.obj = cache[p]
      /\ ~cycle.shared => cache' = cache
      /\ \A q \in Pods : q # p => cache'[q] = cache[q]
  BY <1>4 DEF CacheAfterWrite, TypeOK
<1>7. cycle.shared => cache[p] # Nil
  BY <1>2, <1>6, SentinelAssumption
<1> QED
  BY <1>3, <1>5, <1>6, <1>7

LEMMA QuotaDecide ==
    ASSUME TypeOK, QuotaInv, OneRule, PreFilter \/ PreScore
    PROVE  QuotaInv'
<1>1. PICK p \in Pods : cycle.pod = p
  BY CycleType DEF PreFilter, PreScore
<1>2. UNCHANGED <<api, created, watch, policies, queue, assumed, binding, spent>>
  BY <1>1, DecisionStep
<1>3. Mode' = Mode /\ Undecided' = Undecided /\ CallOut' = CallOut
  BY <1>2 DEF Mode, Undecided, CallOut
<1>4. ASSUME cache' = cache, Mode = "BestEffort", cycle.at = "prefilter",
             cycle' = [cycle EXCEPT !.at = "filter"]
      PROVE  QuotaInv'
  <2>1. /\ cycle'.at = "filter" /\ cycle'.pod = p /\ cycle'.shared = cycle.shared
        /\ cycle'.nodes = cycle.nodes /\ cycle'.policy = cycle.policy /\ cycle'.obj = cycle.obj
    BY <1>1, <1>4 DEF TypeOK
  <2>2. "filter" \in Undecided /\ cycle.at \in Undecided
    BY <1>4 DEF Undecided
  <2>3. Deciding => Deciding'
    BY <1>3, <2>1, <2>2 DEF Deciding
  <2>4. ~Decided
    BY <1>4 DEF Decided
  <2>5. cycle'.nodes = Nodes /\ cycle'.policy = Nil
    BY <2>1, <2>2 DEF QuotaInv, AtHand
  <2> QED
    BY <1>1, <1>2, <1>4, <2>1, <2>2, <2>3, <2>4, <2>5, CycleMoves
<1>5. ASSUME cache' = cache, Mode = "Strict", cycle.at = "prescore",
             cycle' = [cycle EXCEPT !.at = "score"]
      PROVE  QuotaInv'
  <2>1. /\ cycle'.at = "score" /\ cycle'.pod = p /\ cycle'.shared = cycle.shared
        /\ cycle'.nodes = cycle.nodes /\ cycle'.policy = cycle.policy /\ cycle'.obj = cycle.obj
    BY <1>1, <1>5 DEF TypeOK
  <2>2. "score" \notin Undecided /\ ~Deciding
    BY <1>5 DEF Undecided, Deciding, CallOut
  <2>3. Decided => Decided'
    BY <1>2, <1>3, <1>5, <2>1 DEF Decided
  <2> QED
    BY <1>1, <1>2, <1>5, <2>1, <2>2, <2>3, CycleMoves
<1>6. ASSUME NEW pp \in policies, NEW N, cycle.at \in Undecided, Decides(p, pp, N)
      PROVE  QuotaInv'
  <2>1. /\ cycle'.at = CallOut /\ cycle'.pod = p /\ cycle'.policy = pp
        /\ cycle'.shared = cycle.shared /\ cycle'.nodes = cycle.nodes
        /\ cycle'.obj.rv = cycle.obj.rv /\ cycle'.obj.node = cycle.obj.node
        /\ ~Unmarked(cycle'.obj)
        /\ cycle.shared => cache'[p] = cycle'.obj /\ cycle.obj = cache[p] /\ cache[p] # Nil
        /\ ~cycle.shared => cache' = cache
        /\ \A q \in Pods : q # p => cache'[q] = cache[q]
    BY <1>1, <1>6, DecisionWritten
  <2>2. WatchInv' /\ \A q \in Pods : Coming(q)' = Coming(q) /\ (NothingOnItsWay(q)' <=> NothingOnItsWay(q))
    BY <1>2, Unwatched DEF QuotaInv
  <2>3. ASSUME NEW q \in Pods, q # p
        PROVE  PodInv(q)'
    BY <1>1, <1>2, <2>1, <2>2, <2>3, PodFrame DEF QuotaInv
  <2>4. PodInv(p) /\ p \in created
    BY <1>1, PodAtHand DEF QuotaInv
  <2>5. cycle.nodes = Nodes /\ (cycle.shared => Coming(p) = {})
    BY <1>1, <1>6 DEF QuotaInv, AtHand
  <2>6. ~Decided
    BY <1>6 DEF Decided, Undecided
  <2>7. cycle.shared => /\ cache'[p] # Nil /\ cache'[p].rv = cache[p].rv /\ cache[p].rv \in {1, 2}
                        /\ cache'[p].node = Nil /\ ~Unmarked(cache'[p])
    <3>1. CallOut \notin {"down", "idle"}
      BY DEF CallOut
    <3>2. cycle'.obj # Nil
      BY TypePreFilter, TypePreScore, <2>1, <3>1 DEF TypeOK
    <3> QED
      BY <1>1, <2>1, <3>2, PodAtHand DEF IsBound
  <2>8. cycle.shared => Versioned(cache'[p])
    BY <2>7 DEF Versioned
  <2>9. Stages(p)'
    BY <1>2, <2>1, <2>2, <2>4, <2>5, <2>8 DEF PodInv, Stages
  <2>10. Untouched(p)'
    BY <1>2, <2>4 DEF Untouched
  <2>11. Custody(p)'
    BY <1>1, <1>2, <2>1, <2>2, <2>4, <2>7 DEF PodInv, Custody
  <2>12. Deciding => Deciding' /\ cycle.shared
    BY <1>2, <1>3, <2>1, <2>5 DEF Deciding
  <2>13. Alive(p)'
    BY <1>1, <1>2, <2>1, <2>2, <2>4, <2>6, <2>7, <2>12, PodAtHand DEF PodInv, Alive
  <2>14. CallOut \notin Undecided /\ CallOut # "down"
    BY DEF CallOut, Undecided
  <2>15. AtHand' /\ Calm'
    BY <1>2, <1>3, <2>1, <2>14 DEF AtHand, QuotaInv, Calm
  <2> QED
    BY <2>2, <2>3, <2>4, <2>9, <2>10, <2>11, <2>13, <2>15 DEF QuotaInv, PodInv
<1> QED
  BY <1>1, <1>4, <1>5, <1>6, DecisionStep

\* An update that is accepted is the first of its pod, and one that is not is of
\* a pod that is gone.
LEMMA QuotaAnnotate ==
    ASSUME TypeOK, QuotaInv, OneRule, AnnotatePod
    PROVE  QuotaInv'
<1>1. PICK p \in Pods : cycle.pod = p
  BY CycleType DEF AnnotatePod, AfterAnnotate
<1>2. /\ UNCHANGED <<created, cache, policies, queue, assumed, binding, spent>>
      /\ cycle.at \in {"annotateInPreFilter", "annotateInPreScore"}
      /\ cycle.obj \in Object
  BY CycleType DEF AnnotatePod, AfterAnnotate
<1>3. ~Decided /\ cycle.at \notin Undecided
  BY <1>2 DEF Decided, Undecided
<1>4. PodInv(p) /\ p \in created
  BY <1>1, PodAtHand DEF QuotaInv
<1>5. api[p] # Nil =>
         /\ AsStored(api[p]) /\ cache[p] # Nil
         /\ api[p].rv = 1 /\ cache[p].rv = 1 /\ Coming(p) = {} /\ queue[p] = Nil /\ Deciding
  BY <1>1, <1>3, PodAtHand
<1>6. Mode' = Mode /\ Undecided' = Undecided /\ CallOut' = CallOut
  BY <1>2 DEF Mode, Undecided, CallOut
<1>7. CASE ~UpdateAccepted(p)
  <2>1. UNCHANGED <<api, watch>> /\ cycle' = [cycle EXCEPT !.at = "failed"]
    BY <1>1, <1>7 DEF AnnotatePod
  <2>2. cycle'.at = "failed" /\ cycle'.pod = p
    BY <1>1, <2>1 DEF TypeOK
  <2>3. api[p] = Nil
    BY <1>1, <1>5, <1>7 DEF UpdateAccepted, Deciding, TypeOK
  <2>4. "failed" \notin Undecided
    BY DEF Undecided
  <2> QED
    BY <1>1, <1>2, <2>1, <2>2, <2>3, <2>4, CycleMoves
<1>8. CASE UpdateAccepted(p)
  <2> DEFINE a == Annotated(api[p], cycle.policy, cycle.obj.pref)
  <2>1. /\ api[p] # Nil /\ api[p] \in Object /\ UpdatePod(p)
        /\ cycle' = [cycle EXCEPT !.at = AfterAnnotate[cycle.at]]
    BY <1>1, <1>8 DEF AnnotatePod, UpdateAccepted, TypeOK
  <2>2. /\ cycle.shared /\ cycle.at = CallOut /\ ~Unmarked(cycle.obj)
        /\ cycle.nodes = Nodes /\ cycle.policy \in policies
    BY <1>3, <1>5, <2>1 DEF Deciding
  <2>3. /\ api[p].rv = 1 /\ Unmarked(api[p]) /\ api[p].node = Nil
        /\ cache[p] = cycle.obj /\ cache[p].rv = 1 /\ Coming(p) = {} /\ queue[p] = Nil
    BY <1>1, <1>5, <2>1, <2>2 DEF AsStored, Versioned, TypeOK
  <2>4. a.rv = 1 /\ a.node = Nil /\ a.pref = cycle.obj.pref
    BY <2>1, <2>3 DEF Annotated, Object
  <2>5. ~Unmarked(a)
    BY Zenon, <2>2, <2>4 DEF Unmarked
  <2>6. a \in Object
    <3>1. cycle.obj.pref \in Preferences
      BY <1>2 DEF Object
    <3>2. cycle.obj.pref \in {"true", "false"}
      BY Zenon, <2>2, <3>1 DEF Unmarked, Preferences
    <3>3. cycle.policy \in Policies
      BY <2>2 DEF TypeOK, Policies
    <3> QED
      BY <2>1, <3>2, <3>3, AnnotatedType
  <2>7. Store(p, NextVersion(a))
    BY <2>1, <2>3, <2>5 DEF UpdatePod
  <2>8. PICK o \in Object : o = NextVersion(a)
    BY <2>6, NextVersionType
  <2>9. o.rv = 2 /\ o.node = Nil /\ o.pref = cycle.obj.pref
    BY <2>4, <2>6, <2>8, NextVersionType
  <2>10. ~Unmarked(o) /\ o # Nil
    BY Zenon, <2>2, <2>9, SentinelAssumption DEF Unmarked
  <2>11. Store(p, o)
    BY <2>7, <2>8
  <2> HIDE DEF a
  <2>12. /\ WatchInv' /\ watch' = Append(watch, [pod |-> p, obj |-> o])
         /\ api'[p] = o /\ \A q \in Pods : q # p => api'[q] = api[q]
    BY <1>2, <1>4, <2>1, <2>3, <2>10, <2>11, WatchStored DEF QuotaInv, Calm
  <2>13. /\ Coming(p)' = {o}
         /\ \A q \in Pods : q # p => Coming(q)' = Coming(q) /\ (NothingOnItsWay(q)' <=> NothingOnItsWay(q))
    BY <2>3, <2>10, <2>12, ComingStored
  <2>14. /\ cycle'.at = AfterAnnotate[cycle.at] /\ cycle'.pod = p /\ cycle'.obj = cycle.obj
         /\ cycle'.nodes = Nodes /\ cycle'.policy \in policies
    BY <1>1, <2>1, <2>2 DEF TypeOK
  <2>15. \/ Mode = "Strict" /\ cycle'.at = "filter"
         \/ Mode = "BestEffort" /\ cycle'.at = "score"
    <3>1. Mode = "Strict" \/ Mode = "BestEffort"
      BY PolicyKnown
    <3>2. cycle.at = IF Mode = "Strict" THEN "annotateInPreFilter" ELSE "annotateInPreScore"
      BY <2>2 DEF CallOut
    <3> QED
      BY <2>14, <3>1, <3>2 DEF AfterAnnotate
  <2>16. Decided' /\ cycle'.at \notin Undecided
    BY <1>1, <1>2, <1>6, <2>9, <2>12, <2>14, <2>15 DEF Decided, Undecided
  <2>17. ASSUME NEW q \in Pods, q # p
         PROVE  PodInv(q)'
    BY <1>1, <1>2, <2>12, <2>13, <2>14, <2>17, PodFrame DEF QuotaInv
  <2>18. Untouched(p)'
    BY <1>2, <1>4 DEF Untouched
  <2>19. Stages(p)'
    <3>1. AsStored(o)
      BY <2>9, <2>10 DEF AsStored, Versioned
    <3>2. Versioned(cache[p])
      BY <1>4, <1>5, <2>1 DEF PodInv, Stages
    <3> QED
      BY <1>2, <1>5, <2>1, <2>3, <2>9, <2>12, <2>13, <3>1, <3>2 DEF Stages
  <2>20. Custody(p)'
    BY <1>1, <1>2, <1>4, <2>3, <2>9, <2>13, <2>14, SentinelAssumption DEF PodInv, Custody
  <2>21. Alive(p)'
    BY <1>2, <1>5, <2>1, <2>3, <2>9, <2>12, <2>14, <2>16 DEF Alive
  <2>22. AtHand' /\ Calm'
    BY <1>2, <1>6, <2>15, <2>16 DEF AtHand, QuotaInv, Calm
  <2> QED
    BY <2>12, <2>17, <2>18, <2>19, <2>20, <2>21, <2>22 DEF QuotaInv, PodInv
<1> QED
  BY <1>7, <1>8

\* The pod of a failed cycle is gone.
LEMMA QuotaFailCycle ==
    ASSUME TypeOK, QuotaInv, OnlyDeletions, FailCycle
    PROVE  QuotaInv'
<1>1. PICK p \in Pods : cycle.pod = p
  BY CycleType DEF FailCycle
<1>2. /\ cycle.at = "failed" /\ queue' = QueueAfterFailure(p) /\ PatchStatus(p)
      /\ cycle' = NoCycle("idle")
      /\ UNCHANGED <<created, cache, policies, assumed, binding>>
  BY <1>1 DEF FailCycle
<1>3. UNCHANGED <<api, watch, spent>>
  BY <1>2, NotDisturbed DEF PatchStatus, QuotaInv, Disturbances
<1>4. WatchInv' /\ \A q \in Pods : Coming(q)' = Coming(q) /\ (NothingOnItsWay(q)' <=> NothingOnItsWay(q))
  BY <1>2, <1>3, Unwatched DEF QuotaInv
<1>5. cycle'.at = "idle" /\ cycle'.pod = Nil /\ \A q \in Pods : q # Nil
  BY <1>2, NoCycleType, SentinelAssumption
<1>6. /\ \A q \in Pods : q # p => queue'[q] = queue[q]
      /\ queue'[p] = IF cache[p] = Nil \/ IsBound(cache[p]) \/ queue[p] # Nil
                     THEN queue[p] ELSE cache[p]
  BY <1>2 DEF QueueAfterFailure, TypeOK
<1>7. ASSUME NEW q \in Pods, q # p
      PROVE  PodInv(q)'
  BY <1>1, <1>2, <1>3, <1>4, <1>5, <1>6, <1>7, PodFrame DEF QuotaInv
<1>8. PodInv(p) /\ p \in created
  BY <1>1, PodAtHand DEF QuotaInv
<1>9. ~Deciding /\ ~Decided
  BY <1>2 DEF Deciding, Decided, Undecided, CallOut
<1>10. api[p] = Nil
  BY <1>1, <1>9, PodAtHand
<1>11. Untouched(p)' /\ Stages(p)' /\ Alive(p)'
  BY <1>2, <1>3, <1>4, <1>8, <1>10 DEF PodInv, Untouched, Stages, Alive
<1>12. queue'[p] = Shared => queue[p] = Shared
  BY <1>6, SentinelAssumption DEF TypeOK
<1>13. Custody(p)'
  BY <1>1, <1>2, <1>4, <1>5, <1>8, <1>12, PodAtHand DEF PodInv, Custody
<1>14. AtHand' /\ Calm'
  BY <1>2, <1>3, <1>5 DEF AtHand, Undecided, QuotaInv, Calm
<1> QED
  BY <1>4, <1>7, <1>8, <1>11, <1>13, <1>14 DEF QuotaInv, PodInv

\* So is the pod of a failed bind call.
LEMMA QuotaFailBind ==
    ASSUME TypeOK, QuotaInv, OnlyDeletions, NEW p \in Pods, FailBind(p)
    PROVE  QuotaInv'
<1>1. /\ binding[p] = "failed" /\ queue' = QueueAfterFailure(p) /\ PatchStatus(p)
      /\ binding' = [binding EXCEPT ![p] = "none"] /\ assumed' = [assumed EXCEPT ![p] = Nil]
      /\ UNCHANGED <<created, cache, policies, cycle>>
  BY DEF FailBind
<1>2. UNCHANGED <<api, watch, spent>>
  BY <1>1, NotDisturbed DEF PatchStatus, QuotaInv, Disturbances
<1>3. WatchInv' /\ \A q \in Pods : Coming(q)' = Coming(q) /\ (NothingOnItsWay(q)' <=> NothingOnItsWay(q))
  BY <1>1, <1>2, Unwatched DEF QuotaInv
<1>4. /\ \A q \in Pods : q # p => /\ queue'[q] = queue[q] /\ binding'[q] = binding[q]
                                  /\ assumed'[q] = assumed[q]
      /\ binding'[p] = "none" /\ assumed'[p] = Nil
      /\ queue'[p] = IF cache[p] = Nil \/ IsBound(cache[p]) \/ queue[p] # Nil
                     THEN queue[p] ELSE cache[p]
  BY <1>1 DEF QueueAfterFailure, TypeOK
<1>5. ASSUME NEW q \in Pods, q # p
      PROVE  PodInv(q)'
  BY <1>1, <1>2, <1>3, <1>4, <1>5, PodFrame DEF QuotaInv
<1>6. PodInv(p)
  BY DEF QuotaInv
<1>7. assumed[p] # Nil /\ p \in created /\ cycle.pod # p
  BY <1>1, <1>6 DEF PodInv, Custody, Untouched
<1>8. api[p] = Nil
  <2>1. api[p] # Nil => api[p].rv \in 1..3
    BY <1>6 DEF PodInv, Stages, AsStored, Versioned
  <2>2. api[p] # Nil => api[p].rv = 1 \/ api[p].rv = 2 \/ api[p].rv = 3
    BY <2>1
  <2> QED
    BY <1>1, <1>6, <1>7, <2>2 DEF PodInv, Alive
<1>9. Untouched(p)' /\ Stages(p)' /\ Alive(p)'
  BY <1>1, <1>2, <1>3, <1>6, <1>7, <1>8 DEF PodInv, Untouched, Stages, Alive
<1>10. queue'[p] = Shared => queue[p] = Shared
  BY <1>4, SentinelAssumption DEF TypeOK
<1>11. Custody(p)'
  BY <1>1, <1>3, <1>4, <1>6, <1>7, <1>10 DEF PodInv, Custody
<1>12. AtHand' /\ Calm'
  BY <1>1, <1>2, <1>3, AtHandKept DEF QuotaInv, Calm
<1> QED
  BY <1>3, <1>5, <1>6, <1>9, <1>11, <1>12 DEF QuotaInv, PodInv

\* A binding that is accepted is the last version of its pod.
LEMMA QuotaBind ==
    ASSUME TypeOK, QuotaInv, NEW p \in Pods, Bind(p)
    PROVE  QuotaInv'
<1>1. /\ binding[p] = "posting"
      /\ UNCHANGED <<created, cache, policies, queue, cycle, assumed, spent>>
  BY DEF Bind
<1>2. PodInv(p)
  BY DEF QuotaInv
<1>3. assumed[p] # Nil /\ p \in created /\ cycle.pod # p
  BY <1>1, <1>2 DEF PodInv, Custody, Untouched
<1>4. api[p] # Nil => /\ AsStored(api[p]) /\ api[p].rv = 2 /\ api[p].node = Nil
                      /\ cache[p] # Nil /\ cache[p].pref = api[p].pref /\ cache[p].rv \in {1, 2}
                      /\ Suits(assumed[p], api[p].pref)
  <2> SUFFICES ASSUME api[p] # Nil
               PROVE  /\ AsStored(api[p]) /\ api[p].rv = 2 /\ api[p].node = Nil
                      /\ cache[p] # Nil /\ cache[p].pref = api[p].pref /\ cache[p].rv \in {1, 2}
                      /\ Suits(assumed[p], api[p].pref)
    OBVIOUS
  <2>1. AsStored(api[p]) /\ api[p].rv \in 1..3 /\ (api[p].node # Nil <=> api[p].rv = 3)
    BY <1>2 DEF PodInv, Stages, AsStored, Versioned
  <2>2. api[p].rv = 1 \/ api[p].rv = 2 \/ api[p].rv = 3
    BY <2>1
  <2>3. api[p].rv = 2
    BY <1>1, <1>2, <1>3, <2>2 DEF PodInv, Alive
  <2>4. cache[p] # Nil /\ cache[p].pref = api[p].pref /\ Suits(assumed[p], api[p].pref)
    BY <1>2, <1>3, <2>3 DEF PodInv, Alive
  <2>5. cache[p].rv \in 1..3 /\ cache[p].rv # 3
    BY <1>2, <1>3, <2>4 DEF PodInv, Stages, Versioned, Custody
  <2> QED
    BY <2>1, <2>3, <2>4, <2>5
<1>5. /\ \A q \in Pods : q # p => binding'[q] = binding[q]
      /\ binding'[p] = IF BindAccepted(p) THEN "none" ELSE "failed"
  BY DEF Bind, TypeOK
<1>6. CASE ~BindAccepted(p)
  <2>1. UNCHANGED <<api, watch>> /\ api[p] = Nil
    BY <1>4, <1>6 DEF Bind, BindAccepted
  <2>2. WatchInv' /\ \A q \in Pods : Coming(q)' = Coming(q) /\ (NothingOnItsWay(q)' <=> NothingOnItsWay(q))
    BY <1>1, <2>1, Unwatched DEF QuotaInv
  <2>3. ASSUME NEW q \in Pods, q # p
        PROVE  PodInv(q)'
    BY <1>1, <1>5, <2>1, <2>2, <2>3, PodFrame DEF QuotaInv
  <2>4. Untouched(p)' /\ Stages(p)' /\ Alive(p)'
    BY <1>1, <1>2, <1>3, <2>1, <2>2 DEF PodInv, Untouched, Stages, Alive
  <2>5. Custody(p)'
    BY <1>1, <1>2, <1>3, <1>5, <2>2 DEF PodInv, Custody
  <2>6. AtHand' /\ Calm'
    BY <1>1, <2>2, AtHandKept DEF QuotaInv, Calm
  <2> QED
    BY <2>2, <2>3, <2>4, <2>5, <2>6 DEF QuotaInv, PodInv
<1>7. CASE BindAccepted(p)
  <2> DEFINE b == [api[p] EXCEPT !.node = assumed[p]]
  <2>1. StoreBinding(p) /\ api[p] # Nil /\ api[p] \in Object /\ assumed[p] \in Nodes
    BY <1>3, <1>7 DEF Bind, BindAccepted, TypeOK
  <2>2. /\ b \in Object /\ b.rv = api[p].rv /\ b.node = assumed[p] /\ b.pref = api[p].pref
    BY <2>1 DEF Object
  <2>3. Store(p, NextVersion(b))
    BY <2>1 DEF StoreBinding
  <2> HIDE DEF b
  <2>4. PICK o \in Object : o = NextVersion(b)
    BY <2>2, NextVersionType
  <2>5. o.rv = 3 /\ o.node = assumed[p] /\ o.pref = api[p].pref
    BY <1>4, <2>1, <2>2, <2>4, NextVersionType
  <2>6. ~Unmarked(o)
    <3>1. ~Unmarked(api[p])
      BY <1>4, <2>1 DEF AsStored, Versioned
    <3> QED
      BY Zenon, <2>5, <3>1 DEF Unmarked
  <2>7. AsStored(o) /\ o # Nil
    BY <1>3, <1>4, <2>1, <2>5, <2>6, SentinelAssumption DEF AsStored, Versioned
  <2>8. \A x \in Coming(p) : x.rv < o.rv
    <3> SUFFICES ASSUME NEW x \in Coming(p) PROVE x.rv < 3
      BY <2>5
    <3>1. x.rv \in 1..3 /\ x.rv # 3
      BY <1>1, <1>2 DEF PodInv, Stages, Custody, AsStored, Versioned
    <3> QED
      BY <3>1
  <2>9. /\ WatchInv' /\ watch' = Append(watch, [pod |-> p, obj |-> o])
        /\ api'[p] = o /\ \A q \in Pods : q # p => api'[q] = api[q]
    BY <1>1, <1>3, <2>1, <2>3, <2>4, <2>7, <2>8, WatchStored DEF QuotaInv, Calm
  <2>10. /\ Coming(p)' = Coming(p) \union {o}
         /\ \A q \in Pods : q # p => Coming(q)' = Coming(q) /\ (NothingOnItsWay(q)' <=> NothingOnItsWay(q))
    BY <2>7, <2>9, ComingStored
  <2>11. ASSUME NEW q \in Pods, q # p
         PROVE  PodInv(q)'
    BY <1>1, <1>5, <2>9, <2>10, <2>11, PodFrame DEF QuotaInv
  <2>12. Untouched(p)'
    BY <1>1, <1>3 DEF Untouched
  <2>13. Stages(p)'
    <3>1. o.rv > cache[p].rv /\ o.pref = cache[p].pref
      BY <1>4, <2>1, <2>5
    <3>2. ASSUME NEW x \in Coming(p)'
          PROVE  AsStored(x) /\ x.rv > cache[p].rv /\ x.pref = cache[p].pref
      BY <1>2, <1>4, <2>1, <2>7, <2>10, <3>1 DEF PodInv, Stages
    <3>3. cache[p] # Nil /\ Versioned(cache[p])
      BY <1>2, <1>4, <2>1 DEF PodInv, Stages
    <3> QED
      BY <1>1, <2>7, <2>9, <3>2, <3>3 DEF Stages
  <2>14. Custody(p)'
    BY <1>1, <1>2, <1>3, <1>5, <1>7, <2>5, <2>10 DEF PodInv, Custody
  <2>15. Alive(p)'
    BY <1>1, <1>3, <1>4, <1>5, <1>7, <2>1, <2>5, <2>9 DEF Alive
  <2>16. AtHand' /\ Calm'
    BY <1>1, <1>3, <2>10, AtHandKept DEF QuotaInv, Calm
  <2> QED
    BY <2>9, <2>11, <2>12, <2>13, <2>14, <2>15, <2>16 DEF QuotaInv, PodInv
<1> QED
  BY <1>6, <1>7

\* A node agrees with a decision if it suits it, and one always does.
LEMMA AgreesIfSuits ==
    ASSUME TypeOK, OneRule, NEW pp \in policies, NEW n \in Nodes, NEW pref
    PROVE  Agrees(pp, NodeLabels[n], pref) <=> Suits(n, pref)
<1>1. pp.nodeSelector = ThePolicy.nodeSelector
  BY PolicyKnown
<1> QED
  BY <1>1 DEF Agrees, Suits, Selected

LEMMA SomeSuits ==
    ASSUME RoomForAll, NEW pref
    PROVE  (\E n \in Nodes : Suits(n, pref)) /\ (\E n \in Nodes : ~Suits(n, pref))
<1>1. \E n \in Nodes : n \in Selected
  BY DEF RoomForAll, Selected
<1>2. \E n \in Nodes : n \notin Selected
  BY DEF RoomForAll
<1> QED
  BY <1>1, <1>2 DEF Suits

LEMMA QuotaFilterNodes ==
    ASSUME TypeOK, QuotaInv, OneRule, RoomForAll, FilterNodes
    PROVE  QuotaInv'
<1>1. PICK p \in Pods : cycle.pod = p
  BY CycleType DEF FilterNodes
<1> DEFINE feasible == {n \in cycle.nodes : Filter(n)}
<1>2. /\ cycle.at = "filter" /\ cycle.nodes \subseteq Nodes
      /\ UNCHANGED <<api, created, watch, cache, policies, queue, spent>>
      /\ \/ /\ feasible = {}
            /\ cycle' = [cycle EXCEPT !.at = "failed"]
            /\ UNCHANGED <<assumed, binding>>
         \/ \E n \in feasible : feasible = {n} /\ Assume(n)
         \/ /\ cycle' = [cycle EXCEPT !.at = "prescore", !.nodes = feasible, !.policy = Nil]
            /\ UNCHANGED <<assumed, binding>>
  BY DEF FilterNodes, TypeOK
<1>3. Mode' = Mode /\ Undecided' = Undecided /\ CallOut' = CallOut /\ Mode \in {"Strict", "BestEffort"}
  BY <1>2, PolicyKnown DEF Mode, Undecided, CallOut
<1>4. feasible \subseteq cycle.nodes /\ \A n \in cycle.nodes : n \in feasible <=> Filter(n)
  OBVIOUS
<1> HIDE DEF feasible
<1>5. CASE Mode = "BestEffort"
  <2>1. cycle.at \in Undecided
    BY <1>2, <1>5 DEF Undecided
  <2>2. cycle.nodes = Nodes /\ cycle.policy = Nil
    BY <2>1 DEF QuotaInv, AtHand
  <2>3. feasible = Nodes
    BY <1>4, <2>2 DEF Filter
  <2>4. /\ cycle' = [cycle EXCEPT !.at = "prescore", !.nodes = feasible, !.policy = Nil]
        /\ UNCHANGED <<assumed, binding>>
    BY <1>2, <2>3, SomeSuits
  <2>5. /\ cycle'.at = "prescore" /\ cycle'.pod = p /\ cycle'.shared = cycle.shared
        /\ cycle'.nodes = Nodes /\ cycle'.policy = Nil /\ cycle'.obj = cycle.obj
    BY <1>1, <2>3, <2>4 DEF TypeOK
  <2>6. "prescore" \in Undecided /\ ~Decided
    BY <1>2, <1>5 DEF Undecided, Decided
  <2>7. Deciding => Deciding'
    BY <1>3, <2>5, <2>6 DEF Deciding
  <2> QED
    BY <1>1, <1>2, <2>1, <2>4, <2>5, <2>6, <2>7, CycleMoves
<1>6. CASE Mode = "Strict"
  <2>1. ~Deciding
    BY <1>2, <1>6 DEF Deciding, Undecided, CallOut
  <2>2. api[p] # Nil => api[p].rv = 2 /\ Decided
    BY <1>1, <2>1, PodAtHand
  <2>3. api[p] # Nil => /\ cycle.obj.pref = api[p].pref /\ cycle.nodes = Nodes
                        /\ \A n \in Nodes : n \in feasible <=> Suits(n, api[p].pref)
    <3> SUFFICES ASSUME api[p] # Nil
                 PROVE  /\ cycle.obj.pref = api[p].pref /\ cycle.nodes = Nodes
                        /\ \A n \in Nodes : n \in feasible <=> Suits(n, api[p].pref)
      OBVIOUS
    <3>1. cycle.obj.pref = api[p].pref /\ cycle.nodes = Nodes /\ cycle.policy \in policies
      BY <1>1, <1>2, <2>2 DEF Decided
    <3>2. cycle.policy # Nil
      BY <3>1, SentinelAssumption DEF TypeOK, Policies
    <3> QED
      BY <1>4, <3>1, <3>2, AgreesIfSuits DEF Filter
  <2>4. ASSUME feasible = {}, cycle' = [cycle EXCEPT !.at = "failed"], UNCHANGED <<assumed, binding>>
        PROVE  QuotaInv'
    <3>1. api[p] = Nil
      BY <2>3, <2>4, SomeSuits
    <3>2. cycle'.at = "failed" /\ cycle'.pod = p
      BY <1>1, <2>4 DEF TypeOK
    <3> QED
      BY <1>1, <1>2, <2>4, <3>1, <3>2, CycleMoves DEF Undecided
  <2>5. ASSUME NEW n \in feasible, Assume(n)
        PROVE  QuotaInv'
    BY <1>1, <1>2, <1>4, <2>2, <2>3, <2>5, QuotaAssume
  <2>6. ASSUME cycle' = [cycle EXCEPT !.at = "prescore", !.nodes = feasible, !.policy = Nil],
               UNCHANGED <<assumed, binding>>
        PROVE  QuotaInv'
    <3>1. /\ cycle'.at = "prescore" /\ cycle'.pod = p /\ cycle'.nodes = feasible
          /\ cycle'.policy = Nil /\ cycle'.obj = cycle.obj
      BY <1>1, <2>6 DEF TypeOK
    <3>2. api[p] # Nil => Decided'
      BY <1>1, <1>2, <1>3, <1>4, <1>6, <2>3, <3>1 DEF Decided, Suits
    <3>3. "prescore" \notin Undecided
      BY <1>6 DEF Undecided
    <3> QED
      BY <1>1, <1>2, <2>1, <2>6, <3>1, <3>2, <3>3, CycleMoves
  <2> QED
    BY <1>2, <2>4, <2>5, <2>6
<1> QED
  BY <1>3, <1>5, <1>6

\* Nodes that agree score 100 and others 0, before and after they are normalised.
LEMMA ScoresNormal ==
    ASSUME RoomForAll, NEW pref, NEW f,
           f = [n \in Nodes |-> IF Suits(n, pref) THEN 100 ELSE 0], NEW n \in Nodes
    PROVE  NormalizeScore(f)[n] = IF Suits(n, pref) THEN 100 ELSE 0
<1> DEFINE values == {f[m] : m \in DOMAIN f}
<1>1. DOMAIN f = Nodes /\ \A m \in Nodes : f[m] = IF Suits(m, pref) THEN 100 ELSE 0
  OBVIOUS
<1>2. 100 \in values /\ 0 \in values /\ \A v \in values : v = 100 \/ v = 0
  BY <1>1, SomeSuits
<1> HIDE DEF values
<1>3. Max(values) = 100
  BY <1>2 DEF Max
<1>4. Min(values) = 0
  BY <1>2 DEF Min
<1>5. NormalizeScore(f)[n] = ((f[n] - 0) * 100) \div 100 + 0
  BY <1>1, <1>3, <1>4 DEF NormalizeScore, values, MinNodeScore, MaxNodeScore
<1>6. CASE Suits(n, pref)
  BY <1>1, <1>5, <1>6
<1>7. CASE ~Suits(n, pref)
  BY <1>1, <1>5, <1>7
<1> QED
  BY <1>6, <1>7

LEMMA QuotaScoreNodes ==
    ASSUME TypeOK, QuotaInv, OneRule, RoomForAll, ScoreNodes
    PROVE  QuotaInv'
<1>1. PICK p \in Pods : cycle.pod = p
  BY CycleType DEF ScoreNodes
<1>2. cycle.at = "score" /\ UNCHANGED <<api, created, watch, cache, policies, queue, spent>>
  BY DEF ScoreNodes
<1> DEFINE own == NormalizeScore([n \in cycle.nodes |-> Score(n)])
           total(other) == [n \in cycle.nodes |-> own[n] + other[n]]
<1>3. PICK other \in OtherScores, host \in cycle.nodes :
         (\A n \in cycle.nodes : total(other)[n] <= total(other)[host]) /\ Assume(host)
  BY DEF ScoreNodes
<1>4. host \in Nodes
  BY <1>3 DEF TypeOK
<1>5. ~Deciding
  BY <1>2 DEF Deciding, Undecided, CallOut
<1>6. ASSUME api[p] # Nil
      PROVE  api[p].rv = 2 /\ Suits(host, api[p].pref)
  <2>1. api[p].rv = 2 /\ Decided
    BY <1>1, <1>5, <1>6, PodAtHand
  <2>2. CASE Mode = "Strict"
    BY <1>1, <1>2, <1>3, <2>1, <2>2 DEF Decided
  <2>3. CASE Mode = "BestEffort"
    <3>1. cycle.obj.pref = api[p].pref /\ cycle.nodes = Nodes /\ cycle.policy \in policies
      BY <1>1, <1>2, <2>1, <2>3 DEF Decided
    <3>2. cycle.policy # Nil
      BY <3>1, SentinelAssumption DEF TypeOK, Policies
    <3>3. \A n \in Nodes : Score(n) = IF Suits(n, api[p].pref) THEN 100 ELSE 0
      BY <3>1, <3>2, AgreesIfSuits DEF Score
    <3>4. [n \in cycle.nodes |-> Score(n)] = [n \in Nodes |-> IF Suits(n, api[p].pref) THEN 100 ELSE 0]
      BY <3>1, <3>3
    <3> DEFINE f == [n \in cycle.nodes |-> Score(n)]
               pref == api[p].pref
    <3>5. f = [n \in Nodes |-> IF Suits(n, pref) THEN 100 ELSE 0]
      BY <3>4
    <3>6. own = NormalizeScore(f)
      OBVIOUS
    <3> HIDE DEF f, own, pref
    <3>7. \A n \in Nodes : own[n] = IF Suits(n, pref) THEN 100 ELSE 0
      BY <3>5, <3>6, ScoresNormal
    <3>8. \A n \in Nodes : other[n] \in 0..99
      BY <1>3 DEF RoomForAll
    <3>9. \A n \in Nodes : own[n] + other[n] <= own[host] + other[host]
      BY <1>3, <3>1
    <3>10. PICK n \in Nodes : Suits(n, pref)
      BY SomeSuits
    <3>11. own[n] + other[n] >= 100
      BY <3>7, <3>8, <3>10
    <3>12. ASSUME ~Suits(host, pref) PROVE FALSE
      <4>1. own[host] + other[host] < 100
        BY <1>4, <3>7, <3>8, <3>12
      <4>2. own[n] \in Int /\ own[host] \in Int /\ other[n] \in Int /\ other[host] \in Int
        BY <1>4, <3>7, <3>8
      <4> QED
        BY <3>9, <3>11, <4>1, <4>2
    <3> QED
      BY <2>1, <3>12 DEF pref
  <2>4. Mode = "Strict" \/ Mode = "BestEffort"
    BY PolicyKnown
  <2> QED
    BY <2>2, <2>3, <2>4
<1> QED
  BY <1>1, <1>2, <1>3, <1>4, <1>6, QuotaAssume

---------------------------------------------------------------------------
(* The invariant *)

\* What cannot happen in a quiet cluster.
LEMMA Quietly ==
    ASSUME TypeOK, QuotaInv, OneRule, OnlyDeletions
    PROVE  /\ \A p \in Pods : ~TouchPod(p) /\ ~BindLost(p)
           /\ ~PolicyEvent /\ ~AnnotatePodLost /\ ~Crash /\ ~Panic /\ ~Restart
<1>1. \A d \in {"touch", "fault", "policy", "crash"} : ~Disturb(d)
  BY NotDisturbed DEF QuotaInv, Disturbances
<1>2. ASSUME Panic PROVE FALSE
  <2>1. cycle.pod \in Pods
    BY <1>2, CycleType DEF Panic, LeftToTheOther
  <2> QED
    BY <1>2, <2>1, PolicyKnown DEF Panic
<1> QED
  BY <1>1, <1>2 DEF TouchPod, BindLost, PolicyEvent, AnnotatePodLost, Crash, Restart, QuotaInv, Calm

LEMMA QuotaStutter ==
    ASSUME TypeOK, QuotaInv, UNCHANGED vars
    PROVE  QuotaInv'
<1>1. UNCHANGED <<api, created, watch, cache, policies, queue, cycle, assumed, binding, spent>>
  BY DEF vars
<1>2. WatchInv' /\ \A q \in Pods : Coming(q)' = Coming(q) /\ (NothingOnItsWay(q)' <=> NothingOnItsWay(q))
  BY <1>1, Unwatched DEF QuotaInv
<1>3. \A q \in Pods : PodInv(q)'
  BY <1>1, <1>2, PodFrame DEF QuotaInv
<1>4. AtHand' /\ Calm'
  BY <1>1, <1>2, AtHandKept DEF QuotaInv, Calm
<1> QED
  BY <1>2, <1>3, <1>4 DEF QuotaInv

LEMMA QuotaStep == QuietCluster /\ TypeOK /\ QuotaInv /\ [Next]_vars => QuotaInv'
<1> SUFFICES ASSUME QuietCluster, TypeOK, QuotaInv, [Next]_vars PROVE QuotaInv'
  OBVIOUS
<1> USE DEF QuietCluster
<1>1. CASE Users
  BY <1>1, Quietly, QuotaCreate, QuotaDelete DEF Users
<1>2. CASE Deliver
  BY <1>2, QuotaDeliver
<1>3. ASSUME NEW p \in Pods, Pop(p) \/ Binding(p) PROVE QuotaInv'
  BY <1>3, QuotaPop, QuotaBind, QuotaFailBind DEF Binding
<1>4. CASE Scheduling
  BY <1>4, QuotaDecide, QuotaAnnotate, QuotaFilterNodes, QuotaScoreNodes, QuotaFailCycle DEF Scheduling
<1>5. CASE UNCHANGED vars
  BY <1>5, QuotaStutter
<1> QED
  BY <1>1, <1>2, <1>3, <1>4, <1>5, Quietly DEF Next

LEMMA QuotaInitially == Init => QuotaInv
<1> SUFFICES ASSUME Init PROVE QuotaInv
  OBVIOUS
<1>1. /\ cycle.at = "idle" /\ cycle.pod = Nil /\ watch = << >> /\ Len(watch) = 0
      /\ created = {} /\ spent = [d \in Disturbances |-> 0]
      /\ \A p \in Pods : /\ api[p] = Nil /\ cache[p] = Nil /\ queue[p] = Nil /\ assumed[p] = Nil
                         /\ binding[p] = "none" /\ p # Nil
  BY NoCycleType, SentinelAssumption DEF Init
<1>2. \A p \in Pods : Coming(p) = {} /\ NothingOnItsWay(p)
  BY <1>1 DEF Coming, NothingOnItsWay
<1>3. \A p \in Pods : PodInv(p)
  BY <1>1, <1>2, SentinelAssumption DEF PodInv, Untouched, Stages, Custody, Alive
<1>4. WatchInv
  BY <1>1 DEF WatchInv, EventsInOrder, RemovalsTold, Disturbances
<1>5. AtHand /\ Calm
  BY <1>1 DEF AtHand, Undecided, Calm
<1> QED
  BY <1>3, <1>4, <1>5 DEF QuotaInv

LEMMA QuotaInvariant ==
    ASSUME QuietCluster
    PROVE  Spec => [](TypeOK /\ QuotaInv)
<1>1. Init => TypeOK /\ QuotaInv
  BY InitTypeOK, QuotaInitially
<1>2. (TypeOK /\ QuotaInv) /\ [Next]_vars => (TypeOK /\ QuotaInv)'
  BY TypeStep, QuotaStep
<1> QED
  BY <1>1, <1>2, PTL DEF Spec

---------------------------------------------------------------------------
(* The refinement *)

\* The variables of PlacementQuota, as Promise maps them.
Shown == {p \in Pods : cache[p] # Nil}
Marked == {p \in Pods : cache[p] # Nil /\ ~Unmarked(cache[p])}
Sent == {p \in Pods : cache[p] # Nil /\ cache[p].pref = "true"}
Intact == spent["delete"] = 0

\* A step that changes none of them.
LEMMA PromiseStutters ==
    ASSUME \A q \in Pods : /\ cache'[q] = Nil <=> cache[q] = Nil
                           /\ cache[q] # Nil => cache'[q].pref = cache[q].pref,
           Intact' <=> Intact
    PROVE  UNCHANGED Promise!vars
<1>1. {p \in Pods : cache'[p] # Nil} = {p \in Pods : cache[p] # Nil}
  OBVIOUS
<1>2. {p \in Pods : cache'[p] # Nil /\ cache'[p].pref # ""}
         = {p \in Pods : cache[p] # Nil /\ cache[p].pref # ""}
  BY Zenon
<1>3. {p \in Pods : cache'[p] # Nil /\ cache'[p].pref = "true"}
         = {p \in Pods : cache[p] # Nil /\ cache[p].pref = "true"}
  OBVIOUS
<1>4. (spent'["delete"] = 0) = (spent["delete"] = 0)
  BY Zenon DEF Intact
<1> QED
  BY Zenon, <1>1, <1>2, <1>3, <1>4 DEF Promise!vars

LEMMA PromiseArrives ==
    ASSUME NEW p \in Pods, p \notin Shown, Shown' = Shown \union {p},
           Marked' = Marked, Sent' = Sent, Intact' = Intact
    PROVE  Promise!Next
<1>1. Promise!Arrive(p)
  BY Zenon DEF Promise!Arrive, Shown, Marked, Unmarked, Sent, Intact
<1> QED
  BY <1>1 DEF Promise!Next

LEMMA PromiseDecides ==
    ASSUME NEW p \in Pods, p \in Shown, Shown' = Shown, Intact' = Intact,
           Marked' = Marked \union {p},
           Sent' = IF Cardinality(Sent \ {p}) < TargetSize(ThePolicy.policy, Cardinality(Shown))
                   THEN Sent \union {p} ELSE Sent \ {p}
    PROVE  Promise!Next
<1>1. \A n : Promise!TargetSize(ThePolicy.policy, n) = TargetSize(ThePolicy.policy, n)
  BY Zenon DEF Promise!TargetSize, Promise!ScaledValue, TargetSize, ScaledValue
<1>c. \A S : Promise!Cardinality(S) = Cardinality(S)
  BY Zenon DEF Promise!Cardinality, Cardinality
<1>w. Promise!Wanted(p) <=> Cardinality(Sent \ {p}) < TargetSize(ThePolicy.policy, Cardinality(Shown))
  BY Zenon, <1>1, <1>c DEF Promise!Wanted, Shown, Sent, ThePolicy
<1>2. Promise!Decide(p)
  BY Zenon, <1>w DEF Promise!Decide, Shown, Marked, Unmarked, Sent, Intact
<1> QED
  BY <1>2 DEF Promise!Next

LEMMA PromiseDeparts ==
    ASSUME NEW p \in Pods, p \in Shown, ~Intact, Intact' = Intact,
           Shown' = Shown \ {p}, Marked' = Marked \ {p}, Sent' = Sent \ {p}
    PROVE  Promise!Next
<1>1. Promise!Depart(p)
  BY Zenon DEF Promise!Depart, Shown, Marked, Unmarked, Sent, Intact
<1> QED
  BY <1>1 DEF Promise!Next

LEMMA PromiseDisrupted ==
    ASSUME Shown' = Shown, Marked' = Marked, Sent' = Sent, Intact, ~Intact'
    PROVE  Promise!Next
<1>1. Promise!Disrupt
  BY Zenon DEF Promise!Disrupt, Shown, Marked, Unmarked, Sent, Intact
<1> QED
  BY <1>1 DEF Promise!Next

\* What one pod's new object does to the sets.
LEMMA OneShown ==
    ASSUME NEW p \in Pods, \A q \in Pods : q # p => cache'[q] = cache[q]
    PROVE  /\ cache'[p] # Nil => Shown' = Shown \union {p}
           /\ cache'[p] # Nil /\ ~Unmarked(cache'[p]) => Marked' = Marked \union {p}
           /\ cache'[p] # Nil /\ cache'[p].pref = "true" => Sent' = Sent \union {p}
           /\ cache'[p] = Nil => Shown' = Shown \ {p}
           /\ cache'[p] = Nil \/ Unmarked(cache'[p]) => Marked' = Marked \ {p}
           /\ cache'[p] = Nil \/ cache'[p].pref # "true" => Sent' = Sent \ {p}
<1>1. \A q : q \in Shown' <=> q \in Pods /\ IF q = p THEN cache'[p] # Nil ELSE q \in Shown
  BY DEF Shown
<1>2. \A q : q \in Marked' <=> q \in Pods /\ IF q = p THEN cache'[p] # Nil /\ ~Unmarked(cache'[p])
                                                  ELSE q \in Marked
  BY DEF Marked
<1>3. \A q : q \in Sent' <=> q \in Pods /\ IF q = p THEN cache'[p] # Nil /\ cache'[p].pref = "true"
                                                ELSE q \in Sent
  BY DEF Sent
<1>4. Shown \subseteq Pods /\ Marked \subseteq Pods /\ Sent \subseteq Pods
  BY DEF Shown, Marked, Sent
<1>5. cache'[p] # Nil => Shown' = Shown \union {p}
  BY <1>1, <1>4
<1>6. cache'[p] # Nil /\ ~Unmarked(cache'[p]) => Marked' = Marked \union {p}
  BY <1>2, <1>4
<1>7. cache'[p] # Nil /\ cache'[p].pref = "true" => Sent' = Sent \union {p}
  BY <1>3, <1>4
<1>8. cache'[p] = Nil => Shown' = Shown \ {p}
  BY <1>1, <1>4
<1>9. cache'[p] = Nil \/ Unmarked(cache'[p]) => Marked' = Marked \ {p}
  BY <1>2, <1>4
<1>10. cache'[p] = Nil \/ cache'[p].pref # "true" => Sent' = Sent \ {p}
  BY <1>3, <1>4
<1> QED
  BY <1>5, <1>6, <1>7, <1>8, <1>9, <1>10

\* Deliveries let pods arrive and depart; those of later versions change nothing.
LEMMA DeliverImplements ==
    ASSUME TypeOK, QuotaInv, Deliver
    PROVE  Promise!Next \/ UNCHANGED Promise!vars
<1>1. PICK p \in Pods, o \in Object \union {Nil} : Head(watch).pod = p /\ Head(watch).obj = o
  BY HeadOfWatch DEF Deliver
<1>2. /\ watch # << >> /\ watch' = Tail(watch)
      /\ cache' = [cache EXCEPT ![p] = o]
      /\ UNCHANGED <<api, created, spent>>
  BY <1>1 DEF Deliver
<1>3. cache'[p] = o /\ \A q \in Pods : q # p => cache'[q] = cache[q]
  BY <1>2 DEF TypeOK
<1>4. Intact' = Intact
  BY <1>2 DEF Intact
<1>5. /\ o = Nil => spent["delete"] # 0
      /\ o # Nil => o \in Coming(p)
  BY <1>1, <1>2, ComingDelivered DEF QuotaInv
<1>6. /\ p \in Shown <=> cache[p] # Nil
      /\ cache[p] = Nil => p \notin Marked /\ p \notin Sent
  BY DEF Shown, Marked, Sent
<1>7. CASE o = Nil
  <2>1. CASE cache[p] = Nil
    BY <1>3, <1>4, <1>7, <2>1, PromiseStutters
  <2>2. CASE cache[p] # Nil
    <3>1. Shown' = Shown \ {p} /\ Marked' = Marked \ {p} /\ Sent' = Sent \ {p}
      BY <1>3, <1>7, OneShown
    <3>2. ~Intact
      BY <1>5, <1>7 DEF Intact
    <3> QED
      BY <1>4, <1>6, <2>2, <3>1, <3>2, PromiseDeparts
  <2> QED
    BY <2>1, <2>2
<1>8. CASE o # Nil /\ cache[p] # Nil
  <2>1. o.pref = cache[p].pref
    BY <1>5, <1>8 DEF QuotaInv, PodInv, Stages
  <2> QED
    BY <1>3, <1>4, <1>8, <2>1, PromiseStutters
<1>9. CASE o # Nil /\ cache[p] = Nil
  <2>1. Unmarked(o)
    BY <1>5, <1>9 DEF QuotaInv, PodInv, Stages, AsStored
  <2>2. o.pref # "true"
    BY Zenon, <2>1 DEF Unmarked
  <2>3. Shown' = Shown \union {p} /\ Marked' = Marked \ {p} /\ Sent' = Sent \ {p}
    BY <1>3, <1>9, <2>1, <2>2, OneShown
  <2>4. Marked' = Marked /\ Sent' = Sent
    BY <1>6, <1>9, <2>3
  <2> QED
    BY <1>4, <1>6, <1>9, <2>3, <2>4, PromiseArrives
<1> QED
  BY <1>7, <1>8, <1>9

\* The pods that a decision counts are those that were sent to the selected nodes.
LEMMA CountedAreSent ==
    ASSUME TypeOK, QuotaInv, OneRule, NEW p \in Pods, NEW pp \in policies
    PROVE  /\ GetPodsWithLabels(pp.podSelector) = Shown
           /\ groupPodsBasedOnNodePreference(Shown, p,
                  groupNodesWithLabels(Nodes, NodeLabels, pp.nodeSelector), cache) = Sent \ {p}
           /\ pp.policy = ThePolicy.policy
<1>1. /\ pp.policy = ThePolicy.policy /\ pp.nodeSelector = ThePolicy.nodeSelector
      /\ \A q \in Pods : SelectorMatches(pp.podSelector, PodLabels[q])
  BY PolicyKnown
<1>2. GetPodsWithLabels(pp.podSelector) = Shown
  BY <1>1 DEF GetPodsWithLabels, Shown
<1>3. groupNodesWithLabels(Nodes, NodeLabels, pp.nodeSelector) = Selected
  BY <1>1 DEF groupNodesWithLabels, Selected
<1>4. ASSUME NEW q \in Shown, cache[q].node # Nil
      PROVE  cache[q].node \in Selected <=> cache[q].pref = "true"
  <2>1. q \in Pods /\ cache[q] # Nil
    BY DEF Shown
  <2>2. Versioned(cache[q])
    BY <2>1 DEF QuotaInv, PodInv, Stages
  <2> QED
    BY <1>4, <2>2 DEF Versioned, Suits
<1>5. groupPodsBasedOnNodePreference(Shown, p, Selected, cache) = Sent \ {p}
  BY <1>4 DEF groupPodsBasedOnNodePreference, Sent, Shown
<1> QED
  BY <1>1, <1>2, <1>3, <1>5

\* A decision that is written into the cache is one of PlacementQuota's; one that is
\* written into a private copy changes nothing there.
LEMMA DecisionImplements ==
    ASSUME TypeOK, QuotaInv, OneRule, PreFilter \/ PreScore
    PROVE  Promise!Next \/ UNCHANGED Promise!vars
<1>1. PICK p \in Pods : cycle.pod = p
  BY CycleType DEF PreFilter, PreScore
<1>2. UNCHANGED spent /\ Intact' = Intact
  BY <1>1, DecisionStep DEF Intact
<1>3. CASE cache' = cache
  BY <1>2, <1>3, PromiseStutters
<1>4. ASSUME NEW pp \in policies, cycle.at \in Undecided, Decides(p, pp, Nodes)
      PROVE  Promise!Next \/ UNCHANGED Promise!vars
  <2> DEFINE preference == IF Cardinality(Sent \ {p}) < TargetSize(ThePolicy.policy, Cardinality(Shown))
                           THEN "true" ELSE "false"
  <2>1. /\ cycle.shared => cache'[p] = cycle'.obj /\ cycle.obj = cache[p] /\ cache[p] # Nil
        /\ ~cycle.shared => cache' = cache
        /\ \A q \in Pods : q # p => cache'[q] = cache[q]
        /\ ~Unmarked(cycle'.obj) /\ cycle'.at = CallOut
    BY <1>1, <1>4, DecisionWritten
  <2>2. CASE ~cycle.shared
    BY <1>3, <2>1, <2>2
  <2>3. CASE cycle.shared
    <3>1. preference = Preference(pp, GetPodsWithLabels(pp.podSelector), p,
                           groupNodesWithLabels(Nodes, NodeLabels, pp.nodeSelector), cache)
      BY CountedAreSent DEF Preference
    <3>2. cycle.obj \in Object /\ pp \in Policies /\ preference \in {"true", "false"}
      BY <1>4, CycleType DEF TypeOK, Policies, Undecided
    <3> HIDE DEF preference
    <3>3. cycle' = [cycle EXCEPT !.at = CallOut, !.obj = Annotated(cycle.obj, pp, preference), !.policy = pp]
      BY <1>4, <3>1 DEF Decides
    <3>4. cycle'.obj = Annotated(cycle.obj, pp, preference)
      BY <3>3 DEF TypeOK
    <3>5. cache'[p].pref = preference /\ cache'[p] # Nil /\ ~Unmarked(cache'[p])
      BY <2>1, <2>3, <3>2, <3>4, AnnotatedType, SentinelAssumption
    <3>6. Shown' = Shown \union {p} /\ Marked' = Marked \union {p}
      BY <2>1, <3>5, OneShown
    <3>7. p \in Shown
      BY <2>1, <2>3 DEF Shown
    <3>8. Sent' = IF preference = "true" THEN Sent \union {p} ELSE Sent \ {p}
      BY <2>1, <3>5, OneShown
    <3> QED
      BY <1>2, <3>6, <3>7, <3>8, PromiseDecides DEF preference
  <2> QED
    BY <2>2, <2>3
<1>5. ASSUME NEW pp \in policies, cycle.at \in Undecided, Decides(p, pp, cycle.nodes)
      PROVE  Promise!Next \/ UNCHANGED Promise!vars
  <2>1. cycle.nodes = Nodes
    BY <1>5 DEF QuotaInv, AtHand
  <2> QED
    BY <1>4, <1>5, <2>1
<1> QED
  BY <1>1, <1>3, <1>4, <1>5, DecisionStep

LEMMA StepImplements ==
    QuietCluster /\ TypeOK /\ QuotaInv /\ [Next]_vars => [Promise!Next]_(Promise!vars)
<1> SUFFICES ASSUME QuietCluster, TypeOK, QuotaInv, [Next]_vars
             PROVE  Promise!Next \/ UNCHANGED Promise!vars
  OBVIOUS
<1> USE DEF QuietCluster
<1>1. CASE UNCHANGED <<cache, spent>>
  BY <1>1, PromiseStutters DEF Intact
<1>2. ASSUME NEW p \in Pods, DeletePod(p)
      PROVE  Promise!Next \/ UNCHANGED Promise!vars
  <2>1. cache' = cache
    BY <1>2 DEF DeletePod
  <2>2. ~Intact'
    BY <1>2 DEF DeletePod, Disturb, TypeOK, Intact, Disturbances
  <2>3. Shown' = Shown /\ Marked' = Marked /\ Sent' = Sent
    BY <2>1 DEF Shown, Marked, Sent
  <2>4. CASE Intact
    BY <2>2, <2>3, <2>4, PromiseDisrupted
  <2>5. CASE ~Intact
    BY <2>1, <2>2, <2>5, PromiseStutters
  <2> QED
    BY <2>4, <2>5
<1>3. CASE Deliver
  BY <1>3, DeliverImplements
<1>4. CASE PreFilter \/ PreScore
  BY <1>4, DecisionImplements
<1>5. CASE AnnotatePod \/ FilterNodes \/ ScoreNodes \/ \E p \in Pods : CreatePod(p) \/ Pop(p) \/ Bind(p)
  BY <1>1, <1>5 DEF AnnotatePod, FilterNodes, ScoreNodes, CreatePod, Pop, Bind
<1>6. CASE FailCycle \/ \E p \in Pods : FailBind(p)
  <2>1. ~Disturb("patch")
    BY NotDisturbed DEF QuotaInv, Disturbances
  <2> QED
    BY <1>1, <1>6, <2>1 DEF FailCycle, FailBind, PatchStatus
<1>7. CASE UNCHANGED vars
  BY <1>1, <1>7 DEF vars
<1> QED
  BY <1>2, <1>3, <1>4, <1>5, <1>6, <1>7, Quietly DEF Next, Users, Scheduling, Binding

LEMMA InitImplements == Init => Promise!Init
<1> SUFFICES ASSUME Init PROVE Promise!Init
  OBVIOUS
<1>1. \A p \in Pods : cache[p] = Nil
  BY DEF Init
<1>2. spent["delete"] = 0
  BY DEF Init, Disturbances
<1> QED
  BY Zenon, <1>1, <1>2 DEF Promise!Init

\* In a quiet cluster, where one rule governs all pods, deletions are the only disturbance,
\* nodes have room and other plugins' scores are outweighed, what the plugin
\* does to the informer's cache is what PlacementQuota lets happen (core.go:54-95).
THEOREM QuotaIsImplemented ==
    ASSUME QuietCluster
    PROVE  Spec => QuotaImplemented
<1>1. Init => Promise!Init
  BY InitImplements
<1>2. TypeOK /\ QuotaInv /\ [Next]_vars => [Promise!Next]_(Promise!vars)
  BY StepImplements
<1> QED
  BY <1>1, <1>2, QuotaInvariant, PTL DEF Spec, QuotaImplemented, Promise!Spec

---------------------------------------------------------------------------
(* What the promise comes to on the nodes *)

\* PlacementQuota's theorems, of the sets that Promise maps its variables to.  (None
\* of those used here speaks of the record of QuotaDepartures.)
Kept == INSTANCE PlacementQuotaProofs WITH
    Rule <- (CHOOSE pp \in Policies : TRUE).policy,
    arrived <- {p \in Pods : cache[p] # Nil},
    decided <- {p \in Pods : cache[p] # Nil /\ cache[p].pref # ""},
    preferred <- {p \in Pods : cache[p] # Nil /\ cache[p].pref = "true"},
    intact <- spent["delete"] = 0,
    since <- {}

\* The action is one that the CRD accepts, and the target a count or a share.
SensibleRule ==
    /\ ThePolicy.policy.action \in Actions
    /\ \/ ThePolicy.policy.targetSize.type = "int" /\ ThePolicy.policy.targetSize.val \in Nat
       \/ ThePolicy.policy.targetSize.type = "percent" /\ ThePolicy.policy.targetSize.val \in 0..100

\* The target can be met by as many pods as there are, never by fewer than none.
ByShare == SensibleRule /\ ThePolicy.policy.targetSize.type = "percent"
NeverNegative == ByShare \/ (SensibleRule /\ ThePolicy.policy.action # "MustNot")

LEMMA KeptAssumed == ASSUME SensibleRule PROVE Kept!RuleAssumption /\ Kept!PodsAssumption
<1>1. Kept!RuleAssumption
  BY Zenon DEF SensibleRule, Kept!RuleAssumption, Kept!Actions, Actions, ThePolicy
<1>2. Kept!PodsAssumption
  BY Zenon, ConstantsAssumption DEF Kept!PodsAssumption, Kept!IsFiniteSet, IsFiniteSet
<1> QED
  BY <1>1, <1>2

LEMMA PromiseKept == Promise!Spec => Kept!Spec
<1>1. Promise!Init => Kept!Init
  BY Zenon DEF Promise!Init, Kept!Init
<1>2. [Promise!Next]_(Promise!vars) => [Kept!Next]_(Kept!vars)
  BY Zenon DEF Promise!Next, Kept!Next, Promise!vars, Kept!vars, Promise!Disrupt, Kept!Disrupt,
         Promise!Arrive, Kept!Arrive, Promise!Decide, Kept!Decide, Promise!Depart, Kept!Depart,
         Promise!Wanted, Kept!Wanted, Promise!TargetSize, Kept!TargetSize,
         Promise!ScaledValue, Kept!ScaledValue, Promise!Cardinality, Kept!Cardinality
<1> QED
  BY <1>1, <1>2, PTL DEF Promise!Spec, Kept!Spec

LEMMA KeptBounds ==
    ASSUME QuietCluster, SensibleRule
    PROVE  Spec => [](Kept!NeverTooMany /\ Kept!Exact)
<1>1. Spec => Kept!Spec
  BY QuotaIsImplemented, PromiseKept DEF QuotaImplemented
<1>2. Kept!Spec => []Kept!NeverTooMany
  BY KeptAssumed, Kept!TargetNeverExceeded
<1>3. Kept!Spec => []Kept!Exact
  BY KeptAssumed, Kept!ShareExact
<1> QED
  BY <1>1, <1>2, <1>3, PTL

\* A target made possible, as PlacementQuota's Quota.
Share(n) ==
    LET t == TargetSize(ThePolicy.policy, n) IN IF t < 0 THEN 0 ELSE IF t > n THEN n ELSE t

LEMMA ShareIsQuota == \A n : Kept!Quota(n) = Share(n)
<1>1. \A n : Kept!TargetSize(ThePolicy.policy, n) = TargetSize(ThePolicy.policy, n)
  BY Zenon DEF Kept!TargetSize, Kept!ScaledValue, TargetSize, ScaledValue
<1> SUFFICES ASSUME NEW n PROVE Kept!Quota(n) = Share(n)
  OBVIOUS
<1> DEFINE t == TargetSize(ThePolicy.policy, n)
           k == Kept!TargetSize((CHOOSE pp \in Policies : TRUE).policy, n)
<1>2. k = t
  BY Zenon, <1>1 DEF ThePolicy
<1>3. Kept!Quota(n) = IF k < 0 THEN 0 ELSE IF k > n THEN n ELSE k
  BY DEF Kept!Quota
<1>4. Share(n) = IF t < 0 THEN 0 ELSE IF t > n THEN n ELSE t
  BY DEF Share
<1> HIDE DEF t, k
<1> QED
  BY SMT, <1>2, <1>3, <1>4

\* The bounds in this module's terms.
LEMMA BoundsSay ==
    ASSUME Kept!NeverTooMany, Kept!Exact
    PROVE  /\ Intact => Cardinality(Sent) <= Share(Cardinality(Shown))
           /\ Intact /\ Marked = Shown => Cardinality(Sent) = Share(Cardinality(Shown))
<1>1. \A S : Kept!Cardinality(S) = Cardinality(S)
  BY Zenon DEF Kept!Cardinality, Cardinality
<1>2. Intact => Cardinality(Sent) <= Share(Cardinality(Shown))
  BY Zenon, <1>1, ShareIsQuota DEF Kept!NeverTooMany, Intact, Sent, Shown
<1>3. Intact /\ Marked = Shown => Cardinality(Sent) = Share(Cardinality(Shown))
  BY Zenon, <1>1, ShareIsQuota DEF Kept!Exact, Intact, Sent, Shown, Marked, Unmarked
<1> QED
  BY <1>2, <1>3

\* More pods, no smaller share; and the share is no more than the target, and the
\* target itself if that is a percentage.
LEMMA ShareGrows ==
    ASSUME SensibleRule, NEW m \in Nat, NEW n \in Nat, m <= n
    PROVE  Share(m) \in 0..m /\ Share(m) <= Share(n)
<1>1. Kept!Quota(m) \in 0..m
  BY KeptAssumed, Kept!QuotaType
<1>2. Kept!Quota(m) <= Kept!Quota(n)
  BY KeptAssumed, Kept!QuotaMonotone
<1> QED
  BY <1>1, <1>2, ShareIsQuota

LEMMA ShareOfTarget ==
    ASSUME NEW n \in Nat
    PROVE  /\ ByShare => Share(n) = TargetSize(ThePolicy.policy, n)
           /\ NeverNegative => Share(n) <= TargetSize(ThePolicy.policy, n)
<1> DEFINE v == ThePolicy.policy.targetSize.val
           s == (v * n) \div 100
<1>1. ASSUME ByShare PROVE Share(n) = TargetSize(ThePolicy.policy, n)
  <2>1. v \in 0..100 /\ ThePolicy.policy.targetSize.type = "percent"
    BY <1>1 DEF ByShare, SensibleRule
  <2>2. TargetSize(ThePolicy.policy, n) = IF ThePolicy.policy.action = "MustNot" THEN n - s ELSE s
    BY <2>1 DEF TargetSize, ScaledValue
  <2>3. s \in 0..n
    <3> DEFINE x == v * n
    <3>1. x \in Nat /\ x <= 100 * n
      BY <2>1
    <3>2. s = x \div 100
      OBVIOUS
    <3> HIDE DEF x, s
    <3> QED
      BY <3>1, <3>2
  <2> HIDE DEF s
  <2>4. TargetSize(ThePolicy.policy, n) \in 0..n
    BY <2>2, <2>3
  <2> QED
    BY <2>4 DEF Share
<1>2. ASSUME SensibleRule, ThePolicy.policy.action # "MustNot", ~ByShare
      PROVE  Share(n) <= TargetSize(ThePolicy.policy, n)
  <2>1. TargetSize(ThePolicy.policy, n) \in Nat
    BY <1>2 DEF ByShare, SensibleRule, TargetSize, ScaledValue
  <2> QED
    BY <2>1 DEF Share
<1>3. ByShare => Share(n) \in Nat
  BY ShareGrows DEF ByShare
<1> QED
  BY <1>1, <1>2, <1>3 DEF NeverNegative

\* A pod that is bound is shown as decided, as it was when it was bound.
LEMMA BoundIsSent ==
    ASSUME QuotaInv, NEW p \in Pods, IsBound(api[p])
    PROVE  /\ p \in Shown /\ p \in Marked
           /\ api[p].node \in Selected <=> p \in Sent
<1>1. api[p] # Nil /\ api[p].rv = 3 /\ Versioned(api[p])
  BY DEF QuotaInv, PodInv, Stages, AsStored, Versioned, IsBound
<1>2. cache[p] # Nil /\ cache[p].pref = api[p].pref
  BY <1>1 DEF QuotaInv, PodInv, Alive
<1>3. ~Unmarked(api[p]) /\ Suits(api[p].node, api[p].pref)
  BY <1>1 DEF Versioned, IsBound
<1>4. ~Unmarked(cache[p])
  BY Zenon, <1>2, <1>3 DEF Unmarked
<1> QED
  BY <1>2, <1>3, <1>4 DEF Shown, Marked, Sent, Suits

\* What TargetReached and TargetNotExceeded count.
LEMMA GovernedAre ==
    ASSUME TypeOK, OneRule, NEW pp \in policies
    PROVE  /\ pp.policy = ThePolicy.policy
           /\ GovernedPods(pp) = {p \in Pods : api[p] # Nil}
           /\ PodsOnSelectedNodes(pp) = {p \in Pods : IsBound(api[p]) /\ api[p].node \in Selected}
<1>1. /\ pp.policy = ThePolicy.policy /\ pp.nodeSelector = ThePolicy.nodeSelector
      /\ \A q \in Pods : Namespace[q] = pp.namespace /\ SelectorMatches(pp.podSelector, PodLabels[q])
  BY DEF OneRule, TypeOK, Policies
<1>2. GovernedPods(pp) = {p \in Pods : api[p] # Nil}
  BY <1>1 DEF GovernedPods
<1>3. \A p \in Pods : IsBound(api[p]) => api[p] # Nil /\ api[p].node \in Nodes
  BY SentinelAssumption DEF IsBound, TypeOK, Object
<1>4. PodsOnSelectedNodes(pp) = {p \in Pods : IsBound(api[p]) /\ api[p].node \in Selected}
  BY <1>1, <1>2, <1>3 DEF PodsOnSelectedNodes, Selected
<1> QED
  BY <1>1, <1>2, <1>4

\* With every pod bound nothing was deleted, and every pod is decided.
LEMMA ReachedWhenBound ==
    ASSUME QuietCluster, ByShare, TypeOK, QuotaInv, Kept!NeverTooMany, Kept!Exact
    PROVE  TargetReached
<1> SUFFICES ASSUME NEW pp \in policies, \A p \in created : IsBound(api[p])
             PROVE  Cardinality(PodsOnSelectedNodes(pp))
                      = TargetSize(pp.policy, Cardinality(GovernedPods(pp)))
  BY DEF TargetReached
<1>1. created \subseteq Pods
  BY DEF TypeOK
<1>2. Intact
  BY DEF QuotaInv, WatchInv, RemovalsTold, Intact, IsBound
<1>3. \A p \in Pods : p \notin created => api[p] = Nil /\ cache[p] = Nil
  BY DEF QuotaInv, PodInv, Untouched
<1>4. \A p \in created : p \in Shown /\ p \in Marked /\ (api[p].node \in Selected <=> p \in Sent)
  BY <1>1, BoundIsSent
<1>5. Shown = created /\ Marked = Shown /\ Sent \subseteq created
  BY <1>1, <1>3, <1>4 DEF Shown, Marked, Sent
<1>6. {p \in Pods : api[p] # Nil} = Shown
  BY <1>1, <1>3, <1>5 DEF IsBound
<1>7. {p \in Pods : IsBound(api[p]) /\ api[p].node \in Selected} = Sent
  BY <1>1, <1>3, <1>4, <1>5 DEF IsBound
<1>8. Cardinality(Sent) = Share(Cardinality(Shown))
  BY <1>2, <1>5, BoundsSay
<1>9. Cardinality(Shown) \in Nat
  BY <1>1, <1>5, FS_Subset, FS_CardinalityType, ConstantsAssumption
<1> QED
  BY <1>6, <1>7, <1>8, <1>9, GovernedAre, ShareOfTarget DEF QuietCluster

\* In a quiet cluster, when every pod that was created is bound, exactly the target
\* percentage of them runs on the nodes the policy selects (README.md:206).
THEOREM TargetIsReached ==
    ASSUME QuietCluster, ByShare
    PROVE  Spec => []TargetReached
<1>1. TypeOK /\ QuotaInv /\ Kept!NeverTooMany /\ Kept!Exact => TargetReached
  BY ReachedWhenBound
<1>2. SensibleRule
  BY DEF ByShare
<1> QED
  BY <1>1, <1>2, QuotaInvariant, KeptBounds, PTL

---------------------------------------------------------------------------
(* Without deletions *)

\* Nothing was deleted: a pod that was created exists.
NoneDeleted == Intact /\ \A p \in created : api[p] # Nil

LEMMA NoneDeletedStep ==
    ASSUME QuietCluster, Bound["delete"] = 0, TypeOK, QuotaInv, OnlyCreated, Versions,
           NoneDeleted, [Next]_vars
    PROVE  NoneDeleted'
<1> USE DEF QuietCluster
<1>1. \A d \in Disturbances : ~Disturb(d)
  BY NotDisturbed DEF QuotaInv, NoneDeleted, Intact, Disturb, Disturbances
<1>2. \A p \in Pods : ~DeletePod(p) /\ ~TouchPod(p) /\ ~BindLost(p)
  BY <1>1 DEF DeletePod, TouchPod, BindLost, Disturbances
<1>3. created \subseteq Pods
  BY DEF TypeOK
<1>4. ASSUME UNCHANGED <<api, created, spent>> PROVE NoneDeleted'
  BY <1>4 DEF NoneDeleted, Intact
<1>5. ASSUME NEW p \in Pods, CreatePod(p) PROVE NoneDeleted'
  <2>1. PICK o \in Object : o = [rv |-> 1, pref |-> "", by |-> "", node |-> Nil]
    BY Zenon DEF Object, Preferences, Policies
  <2>2. Store(p, o) /\ created' = created \union {p} /\ spent' = spent
    BY Zenon, <1>5, <2>1 DEF CreatePod
  <2>3. api' = [api EXCEPT ![p] = o] /\ o # Nil
    BY <2>2, StoreType, SentinelAssumption
  <2> QED
    BY <1>3, <2>2, <2>3 DEF NoneDeleted, Intact, TypeOK
<1>6. CASE AnnotatePod
  <2>1. UNCHANGED <<created, spent>>
    BY <1>6 DEF AnnotatePod
  <2>2. CASE UpdateAccepted(cycle.pod) /\ UpdatePod(cycle.pod)
    <3>1. cycle.at \in DOMAIN AfterAnnotate
      BY <1>6 DEF AnnotatePod
    <3>2. /\ \A q \in Pods : q # cycle.pod => api'[q] = api[q]
          /\ api'[cycle.pod] # Nil
      BY <2>1, <2>2, <3>1, UpdateEffect
    <3> QED
      BY <1>3, <2>1, <3>2 DEF NoneDeleted, Intact
  <2>3. CASE api' = api
    BY <1>4, <2>1, <2>3
  <2> QED
    BY <1>6, <2>2, <2>3 DEF AnnotatePod
<1>7. ASSUME NEW p \in Pods, Bind(p) PROVE NoneDeleted'
  <2>1. UNCHANGED <<created, spent>>
    BY <1>7 DEF Bind
  <2>2. CASE BindAccepted(p) /\ StoreBinding(p)
    <3>1. api'[p] # Nil /\ \A q \in Pods : q # p => api'[q] = api[q]
      BY <2>1, <2>2, BindEffect
    <3> QED
      BY <1>3, <2>1, <3>1 DEF NoneDeleted, Intact
  <2>3. CASE api' = api
    BY <1>4, <2>1, <2>3
  <2> QED
    BY <1>7, <2>2, <2>3 DEF Bind
<1>8. CASE FailCycle \/ \E p \in Pods : FailBind(p)
  BY <1>1, <1>4, <1>8 DEF FailCycle, FailBind, PatchStatus, Disturbances
<1>9. CASE Deliver \/ \E p \in Pods : Pop(p)
  BY <1>4, <1>9 DEF Deliver, Pop
<1>10. CASE PreFilter \/ PreScore
  <2>1. UNCHANGED <<api, created, spent>>
    BY <1>10 DEF PreFilter, PreScore
  <2> QED
    BY <1>4, <2>1
<1>11. CASE FilterNodes \/ ScoreNodes
  BY <1>4, <1>11 DEF FilterNodes, ScoreNodes
<1>12. CASE UNCHANGED vars
  BY <1>4, <1>12 DEF vars
<1> QED
  BY <1>2, <1>5, <1>6, <1>7, <1>8, <1>9, <1>10, <1>11, <1>12, Quietly
     DEF Next, Users, Scheduling, Binding

\* The pods on the selected nodes were all sent there, and those that exist are at
\* least those that the decisions counted.
LEMMA NotExceeded ==
    ASSUME QuietCluster, NeverNegative, TypeOK, QuotaInv, OnlyCreated, NoneDeleted,
           Kept!NeverTooMany, Kept!Exact
    PROVE  TargetNotExceeded
<1> SUFFICES ASSUME NEW pp \in policies
             PROVE  Cardinality(PodsOnSelectedNodes(pp))
                      <= TargetSize(pp.policy, Cardinality(GovernedPods(pp)))
  BY DEF TargetNotExceeded
<1> DEFINE There == {p \in Pods : IsBound(api[p]) /\ api[p].node \in Selected}
           Existing == {p \in Pods : api[p] # Nil}
<1>1. There \subseteq Sent
  BY BoundIsSent
<1>2. Sent \subseteq Shown /\ Shown \subseteq Existing
  BY DEF Sent, Shown, OnlyCreated, NoneDeleted
<1>3. IsFiniteSet(Existing) /\ IsFiniteSet(Shown) /\ IsFiniteSet(Sent) /\ IsFiniteSet(There)
  BY ConstantsAssumption, FS_Subset DEF Shown, Sent
<1> HIDE DEF There, Existing
<1>4. /\ Cardinality(There) \in Nat /\ Cardinality(There) <= Cardinality(Sent)
      /\ Cardinality(Sent) \in Nat
  BY <1>1, <1>3, FS_Subset, FS_CardinalityType
<1>5. /\ Cardinality(Shown) \in Nat /\ Cardinality(Existing) \in Nat
      /\ Cardinality(Shown) <= Cardinality(Existing)
  BY <1>2, <1>3, FS_Subset, FS_CardinalityType
<1>6. Cardinality(Sent) <= Share(Cardinality(Shown))
  BY BoundsSay DEF NoneDeleted
<1>7. SensibleRule
  BY DEF NeverNegative, ByShare
<1>8. /\ Share(Cardinality(Shown)) \in Nat /\ Share(Cardinality(Existing)) \in Nat
      /\ Share(Cardinality(Shown)) <= Share(Cardinality(Existing))
  BY <1>5, <1>7, ShareGrows
<1>9. /\ Share(Cardinality(Existing)) <= TargetSize(ThePolicy.policy, Cardinality(Existing))
      /\ TargetSize(ThePolicy.policy, Cardinality(Existing)) \in Int
  <2> DEFINE n == Cardinality(Existing)
             t == ThePolicy.policy.targetSize.val * n
  <2>1. n \in Nat
    BY <1>5
  <2> HIDE DEF n
  <2>2. ThePolicy.policy.targetSize.type = "percent" => t \in Int
    BY <1>7, <2>1 DEF SensibleRule
  <2>3. ScaledValue(ThePolicy.policy.targetSize, n) \in Int
    <3>1. CASE ThePolicy.policy.targetSize.type = "int"
      BY <1>7, <3>1 DEF SensibleRule, ScaledValue
    <3>2. CASE ThePolicy.policy.targetSize.type = "percent"
      <4> HIDE DEF t
      <4>1. ScaledValue(ThePolicy.policy.targetSize, n) = t \div 100
        BY <3>2 DEF ScaledValue, t
      <4> QED
        BY <2>2, <3>2, <4>1
    <3> QED
      BY <1>7, <3>1, <3>2 DEF SensibleRule
  <2>4. TargetSize(ThePolicy.policy, n) \in Int
    BY <2>1, <2>3 DEF TargetSize
  <2> QED
    BY <1>5, <2>4, ShareOfTarget DEF n
<1>10. /\ pp.policy = ThePolicy.policy /\ GovernedPods(pp) = Existing
       /\ PodsOnSelectedNodes(pp) = There
  BY GovernedAre DEF QuietCluster, There, Existing
<1> QED
  BY <1>4, <1>6, <1>8, <1>9, <1>10

\* In a quiet cluster without deletions there are at no time more pods on the nodes
\* the policy selects than its target for the pods there are, in Strict and in
\* BestEffort mode (core.go:77-93, Filter and Score).
THEOREM TargetIsNotExceeded ==
    ASSUME QuietCluster, NeverNegative, Bound["delete"] = 0
    PROVE  Spec => []TargetNotExceeded
<1>1. SensibleRule
  BY DEF NeverNegative, ByShare
<1>2. Init => NoneDeleted
  BY DEF Init, NoneDeleted, Intact, Disturbances
<1>3. TypeOK /\ QuotaInv /\ IInv /\ NoneDeleted /\ [Next]_vars => NoneDeleted'
  BY NoneDeletedStep DEF IInv, Knowledge
<1>4. TypeOK /\ QuotaInv /\ IInv /\ NoneDeleted /\ Kept!NeverTooMany /\ Kept!Exact
        => TargetNotExceeded
  BY NotExceeded DEF IInv, Knowledge
<1> QED
  BY <1>1, <1>2, <1>3, <1>4, QuotaInvariant, Invariance, KeptBounds, PTL DEF Spec
=============================================================================
