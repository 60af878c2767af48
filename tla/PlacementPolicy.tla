-------------------------- MODULE PlacementPolicy ---------------------------
(***************************************************************************)
(* The placement policy plugin inside kube-scheduler.                      *)
(*                                                                         *)
(* The scheduler runs one scheduling cycle at a time: it pops a pod, runs  *)
(* PreFilter, Filter, PreScore, Score, assumes a node and leaves the bind  *)
(* call to a goroutine.  PreFilter (for policies that are not BestEffort)  *)
(* and PreScore (for policies that are not Strict) decide from the pod     *)
(* informer's cache whether the pod should go to the policy's nodes, write *)
(* the decision into the pod OBJECT THEY WERE GIVEN and send that object to *)
(* the API server.  The object of a first attempt is the very object of    *)
(* the informer's cache, so the next cycle sees the decision at once; the  *)
(* object of a retry is a private copy, and the next cycle sees the        *)
(* decision when the watch delivers it.                                    *)
(*                                                                         *)
(* The API server, the informers, the scheduling queue and the scheduler's *)
(* cache are not part of this repository; their actions are marked         *)
(* "external" and model how the plugin meets them.                         *)
(***************************************************************************)
EXTENDS PlacementRules, Sequences

CONSTANTS
    Pods, Nodes,
    Shared,         \* a queue entry that points at the informer cache's object
    Namespace,      \* [Pods -> namespaces]
    PodLabels,      \* [Pods -> label maps]
    NodeLabels,     \* [Nodes -> label maps]
    Capacity,       \* [Nodes -> Nat], how many pods fit: the other filters
    OtherScores,    \* what the other score plugins may add: set of [Nodes -> Nat]
    PolicySets,     \* the sets of policies the policy informer may show
    Bound           \* how often each kind of disturbance may happen

Disturbances == {"touch", "patch", "fault", "crash", "delete", "policy"}

Policies == UNION PolicySets
PolicyNames == {pp.name : pp \in Policies}

\* A pod as stored by the API server, the informer or a queue: its resource
\* version, the two annotations of the plugin, and spec.nodeName.
Object == [rv : Nat, pref : Preferences, by : PolicyNames \union {""}, node : Nodes \union {Nil}]

ASSUME SentinelAssumption ==
    /\ Nil # Shared /\ Nil \notin Object /\ Shared \notin Object
    /\ Nil \notin Nodes /\ Nil \notin Pods /\ Nil \notin Policies

ASSUME ConstantsAssumption ==
    /\ IsFiniteSet(Pods)
    /\ PolicySets # {}
    /\ Bound \in [Disturbances -> Nat]

VARIABLES
    \* API server
    api,            \* api[p]: the stored pod, Nil if there is none
    created,        \* the pods that were ever created
    \* pod informer
    watch,          \* the watch events not yet delivered, oldest first
    cache,          \* cache[p]: the object the pod lister returns
    \* policy informer
    policies,       \* what the policy lister returns
    \* scheduler
    queue,          \* queue[p]: Nil, Shared, or the private object queued for p
    cycle,          \* the scheduling cycle in progress
    assumed,        \* assumed[p]: the node p was assumed on, Nil if none
    binding,        \* binding[p]: the bind goroutine of p
    \* bookkeeping of the model
    spent           \* how many disturbances of each kind happened

vars == <<api, created, watch, cache, policies, queue, cycle, assumed, binding, spent>>

Phases == {"down", "idle", "prefilter", "annotateInPreFilter", "filter",
           "prescore", "annotateInPreScore", "score", "failed"}

\* No cycle in progress.
NoCycle(at) ==
    [at |-> at, pod |-> Nil, obj |-> Nil, shared |-> FALSE, nodes |-> {}, policy |-> Nil]

Init ==
    /\ api = [p \in Pods |-> Nil]
    /\ created = {}
    /\ watch = << >>
    /\ cache = [p \in Pods |-> Nil]
    /\ policies \in PolicySets
    /\ queue = [p \in Pods |-> Nil]
    /\ cycle = NoCycle("idle")
    /\ assumed = [p \in Pods |-> Nil]
    /\ binding = [p \in Pods |-> "none"]
    /\ spent = [d \in Disturbances |-> 0]

Disturb(d) ==
    /\ spent[d] < Bound[d]
    /\ spent' = [spent EXCEPT ![d] = @ + 1]

IsBound(o) == o # Nil /\ o.node # Nil

---------------------------------------------------------------------------
(* The API server and its users (external) *)

\* A change of a pod, or its removal (o = Nil), reaches the store and the watch.
Store(p, o) ==
    /\ api' = [api EXCEPT ![p] = o]
    /\ watch' = IF cycle.at = "down" THEN watch ELSE Append(watch, [pod |-> p, obj |-> o])

NextVersion(o) == [o EXCEPT !.rv = @ + 1]

CreatePod(p) ==
    /\ p \notin created
    /\ created' = created \union {p}
    /\ Store(p, [rv |-> 1, pref |-> "", by |-> "", node |-> Nil])
    /\ UNCHANGED <<cache, policies, queue, cycle, assumed, binding, spent>>

\* Anyone else updates the pod: its version moves, what the plugin reads stays.
TouchPod(p) ==
    /\ api[p] # Nil
    /\ Disturb("touch")
    /\ Store(p, NextVersion(api[p]))
    /\ UNCHANGED <<created, cache, policies, queue, cycle, assumed, binding>>

DeletePod(p) ==
    /\ api[p] # Nil
    /\ Disturb("delete")
    /\ Store(p, Nil)
    /\ UNCHANGED <<created, cache, policies, queue, cycle, assumed, binding>>

\* The policy informer shows other policies from now on.
PolicyEvent ==
    /\ Disturb("policy")
    /\ policies' \in PolicySets \ {policies}
    /\ UNCHANGED <<api, created, watch, cache, queue, cycle, assumed, binding>>

---------------------------------------------------------------------------
(* The pod informer and the scheduler's event handlers (external) *)

\* The queue entry of p after the delivery of its new object o.  An unbound pod
\* is (re)queued with the new object, even if it is being scheduled, unless it
\* is assumed; then an entry it has keeps the object it had.
QueueAfter(p, o) ==
    IF o = Nil \/ IsBound(o) THEN Nil
    ELSE IF assumed[p] = Nil THEN Shared
    ELSE IF queue[p] = Shared THEN cache[p] ELSE queue[p]

\* The informer replaces the object in its cache: whoever held the previous
\* one now holds a private object.  A bound pod is no longer merely assumed.
Deliver ==
    /\ watch # << >>
    /\ LET p == Head(watch).pod
           o == Head(watch).obj
       IN  /\ cache' = [cache EXCEPT ![p] = o]
           /\ queue' = [queue EXCEPT ![p] = QueueAfter(p, o)]
           /\ assumed' = IF IsBound(o) THEN [assumed EXCEPT ![p] = Nil] ELSE assumed
           /\ cycle' = IF cycle.pod = p THEN [cycle EXCEPT !.shared = FALSE] ELSE cycle
    /\ watch' = Tail(watch)
    /\ UNCHANGED <<api, created, policies, binding, spent>>

---------------------------------------------------------------------------
(* The scheduling cycle up to PreFilter (external) *)

HasRoom(n) ==
    Cardinality({q \in Pods : assumed[q] = n \/ (IsBound(cache[q]) /\ cache[q].node = n)}) < Capacity[n]

\* scheduleOne takes the next pod, skips one that is assumed, and takes the
\* snapshot of the nodes that this cycle works on.
Pop(p) ==
    /\ cycle.at = "idle"
    /\ queue[p] # Nil
    /\ queue' = [queue EXCEPT ![p] = Nil]
    /\ cycle' = IF assumed[p] # Nil THEN cycle
                ELSE [at |-> "prefilter", pod |-> p,
                      obj |-> IF queue[p] = Shared THEN cache[p] ELSE queue[p],
                      shared |-> queue[p] = Shared,
                      nodes |-> {n \in Nodes : HasRoom(n)}, policy |-> Nil]
    /\ UNCHANGED <<api, created, watch, cache, policies, assumed, binding, spent>>

---------------------------------------------------------------------------
(* The plugin *)

Governing(p) == GetPlacementPolicyForPod(policies, Namespace[p], PodLabels[p])

\* The pod lister knows no namespace here: pods of every namespace are listed.
GetPodsWithLabels(podLabels) ==
    {p \in Pods : cache[p] # Nil /\ SelectorMatches(podLabels, PodLabels[p])}

\* The object with the two annotations AnnotatePod writes.
Annotated(o, pp, preference) == [o EXCEPT !.pref = preference, !.by = pp.name]

\* Mutant of CacheAfterWrite: AnnotatePod works on a deep copy of the pod.
CacheAfterWriteToCopy(obj) == cache

\* Writing into the object at hand writes into the informer's cache while the
\* two are the same object.
CacheAfterWrite(obj) ==
    IF cycle.shared THEN [cache EXCEPT ![cycle.pod] = obj] ELSE cache

\* The common body of PreFilter and PreScore: count the pods on the policy's
\* nodes among nodeList, compare with the target, and write the decision into
\* the object at hand, which may be the cache's own.  The update call follows.
DecidePreference(pp, nodeList, next) ==
    /\ ~DecisionPanics(pp)
    /\ IF DecisionFails(pp)
       THEN /\ cycle' = [cycle EXCEPT !.at = "failed"]
            /\ UNCHANGED cache
       ELSE LET podList == GetPodsWithLabels(pp.podSelector)
                nodes   == groupNodesWithLabels(nodeList, NodeLabels, pp.nodeSelector)
                obj     == Annotated(cycle.obj, pp,
                                     Preference(pp, podList, cycle.pod, nodes, cache))
            IN  /\ cycle' = [cycle EXCEPT !.at = next, !.obj = obj, !.policy = pp]
                /\ cache' = CacheAfterWrite(obj)

\* The enforcement mode an extension point leaves to the other one.
LeftToTheOther == [prefilter |-> "BestEffort", prescore |-> "Strict"]

\* No policy, or one that is left to the other extension point.
SkipTo(next) ==
    /\ cycle' = [cycle EXCEPT !.at = next]
    /\ UNCHANGED cache

PreFilter ==
    /\ cycle.at = "prefilter"
    /\ ~PolicyLookupPanics(policies, Namespace[cycle.pod])
    /\ \/ Governing(cycle.pod) = {} /\ SkipTo("filter")
       \/ \E pp \in Governing(cycle.pod) :
             IF pp.mode = LeftToTheOther["prefilter"] THEN SkipTo("filter")
             ELSE DecidePreference(pp, Nodes, "annotateInPreFilter")
    /\ UNCHANGED <<api, created, watch, policies, queue, assumed, binding, spent>>

\* PreScore is given the nodes that passed the filters, not all nodes.
PreScore ==
    /\ cycle.at = "prescore"
    /\ ~PolicyLookupPanics(policies, Namespace[cycle.pod])
    /\ \/ Governing(cycle.pod) = {} /\ SkipTo("score")
       \/ \E pp \in Governing(cycle.pod) :
             IF pp.mode = LeftToTheOther["prescore"] THEN SkipTo("score")
             ELSE DecidePreference(pp, cycle.nodes, "annotateInPreScore")
    /\ UNCHANGED <<api, created, watch, policies, queue, assumed, binding, spent>>

\* The update carries the version of the object at hand; the API server takes
\* it only if that is still the pod's version, and an update that changes
\* nothing makes no new version.
UpdateAccepted(p) == api[p] # Nil /\ api[p].rv = cycle.obj.rv

\* Mutant of UpdatePod: a preference for the other nodes is not sent.
UpdatePodIfPreferred(p) ==
    LET o == Annotated(api[p], cycle.policy, cycle.obj.pref)
    IN  IF o.pref = "false" THEN UNCHANGED <<api, watch>> ELSE Store(p, NextVersion(o))

UpdatePod(p) ==
    LET o == Annotated(api[p], cycle.policy, cycle.obj.pref)
    IN  IF o = api[p] THEN UNCHANGED <<api, watch>> ELSE Store(p, NextVersion(o))

\* What follows a successful AnnotatePod; the policy stays in the CycleState.
AfterAnnotate == [annotateInPreFilter |-> "filter", annotateInPreScore |-> "score"]

\* Mutants of AnnotatePod: its error is not looked at; the annotations are sent
\* as a patch, which carries no version.
AnnotatePodUnchecked ==
    /\ cycle.at \in DOMAIN AfterAnnotate
    /\ IF UpdateAccepted(cycle.pod) THEN UpdatePod(cycle.pod) ELSE UNCHANGED <<api, watch>>
    /\ cycle' = [cycle EXCEPT !.at = AfterAnnotate[cycle.at]]
    /\ UNCHANGED <<created, cache, policies, queue, assumed, binding, spent>>

AnnotatePodByPatch ==
    /\ cycle.at \in DOMAIN AfterAnnotate
    /\ api[cycle.pod] # Nil
    /\ UpdatePod(cycle.pod)
    /\ cycle' = [cycle EXCEPT !.at = AfterAnnotate[cycle.at]]
    /\ UNCHANGED <<created, cache, policies, queue, assumed, binding, spent>>

\* The update call of AnnotatePod returns, at either extension point.
AnnotatePod ==
    /\ cycle.at \in DOMAIN AfterAnnotate
    /\ \/ /\ UpdateAccepted(cycle.pod)
          /\ UpdatePod(cycle.pod)
          /\ cycle' = [cycle EXCEPT !.at = AfterAnnotate[cycle.at]]
       \/ /\ ~UpdateAccepted(cycle.pod)
          /\ UNCHANGED <<api, watch>>
          /\ cycle' = [cycle EXCEPT !.at = "failed"]
    /\ UNCHANGED <<created, cache, policies, queue, assumed, binding, spent>>

\* The call fails on the way there, or on the way back after it was applied.
AnnotatePodLost ==
    /\ cycle.at \in DOMAIN AfterAnnotate
    /\ Disturb("fault")
    /\ \/ UNCHANGED <<api, watch>>
       \/ UpdateAccepted(cycle.pod) /\ UpdatePod(cycle.pod)
    /\ cycle' = [cycle EXCEPT !.at = "failed"]
    /\ UNCHANGED <<created, cache, policies, queue, assumed, binding>>

\* Whether the plugin lets the pod on node n; it does if PreFilter left no data.
Filter(n) == cycle.policy = Nil \/ Agrees(cycle.policy, NodeLabels[n], cycle.obj.pref)

\* Mutant of Score: the node is not looked at.
ScoreFlat(n) == IF cycle.policy # Nil THEN 100 ELSE 0

Score(n) ==
    IF cycle.policy # Nil /\ Agrees(cycle.policy, NodeLabels[n], cycle.obj.pref) THEN 100 ELSE 0

---------------------------------------------------------------------------
(* The scheduling cycle after PreFilter, and the binding cycle (external) *)

\* The scheduler's cache takes the pod on node n, unless it is there already;
\* the bind call is left to a goroutine.
Assume(n) ==
    IF IsBound(cache[cycle.pod])
    THEN /\ cycle' = [cycle EXCEPT !.at = "failed"]
         /\ UNCHANGED <<assumed, binding>>
    ELSE /\ assumed' = [assumed EXCEPT ![cycle.pod] = n]
         /\ binding' = [binding EXCEPT ![cycle.pod] = "posting"]
         /\ cycle' = NoCycle("idle")

\* Filter runs on every node with room.  With no node left the pod is
\* unschedulable; with one, the score plugins are not asked.
FilterNodes ==
    /\ cycle.at = "filter"
    /\ LET feasible == {n \in cycle.nodes : Filter(n)}
       IN  \/ /\ feasible = {}
              /\ cycle' = [cycle EXCEPT !.at = "failed"]
              /\ UNCHANGED <<assumed, binding>>
           \/ \E n \in feasible : feasible = {n} /\ Assume(n)
           \/ /\ Cardinality(feasible) > 1
              /\ cycle' = [cycle EXCEPT !.at = "prescore", !.nodes = feasible, !.policy = Nil]
              /\ UNCHANGED <<assumed, binding>>
    /\ UNCHANGED <<api, created, watch, cache, policies, queue, spent>>

\* The host is one of the nodes with the highest sum of scores.
ScoreNodes ==
    /\ cycle.at = "score"
    /\ \E other \in OtherScores :
          LET own == NormalizeScore([n \in cycle.nodes |-> Score(n)])
              total == [n \in cycle.nodes |-> own[n] + other[n]]
          IN  \E host \in cycle.nodes :
                 /\ \A n \in cycle.nodes : total[n] <= total[host]
                 /\ Assume(host)
    /\ UNCHANGED <<api, created, watch, cache, policies, queue, spent>>

\* A failed pod goes back to the queue as a deep copy of the lister's object,
\* unless it is gone, bound, or queued already.
QueueAfterFailure(p) ==
    IF cache[p] = Nil \/ IsBound(cache[p]) \/ queue[p] # Nil THEN queue
    ELSE [queue EXCEPT ![p] = cache[p]]

\* Its PodScheduled condition is then patched, if it changes and the call works.
PatchStatus(p) ==
    \/ UNCHANGED <<api, watch, spent>>
    \/ api[p] # Nil /\ Disturb("patch") /\ Store(p, NextVersion(api[p]))

FailCycle ==
    /\ cycle.at = "failed"
    /\ queue' = QueueAfterFailure(cycle.pod)
    /\ PatchStatus(cycle.pod)
    /\ cycle' = NoCycle("idle")
    /\ UNCHANGED <<created, cache, policies, assumed, binding>>

BindAccepted(p) == api[p] # Nil /\ api[p].node = Nil

StoreBinding(p) == Store(p, NextVersion([api[p] EXCEPT !.node = assumed[p]]))

\* The bind call returns.  It carries no version.
Bind(p) ==
    /\ binding[p] = "posting"
    /\ \/ /\ BindAccepted(p)
          /\ StoreBinding(p)
          /\ binding' = [binding EXCEPT ![p] = "none"]
       \/ /\ ~BindAccepted(p)
          /\ UNCHANGED <<api, watch>>
          /\ binding' = [binding EXCEPT ![p] = "failed"]
    /\ UNCHANGED <<created, cache, policies, queue, cycle, assumed, spent>>

BindLost(p) ==
    /\ binding[p] = "posting"
    /\ Disturb("fault")
    /\ \/ UNCHANGED <<api, watch>>
       \/ BindAccepted(p) /\ StoreBinding(p)
    /\ binding' = [binding EXCEPT ![p] = "failed"]
    /\ UNCHANGED <<created, cache, policies, queue, cycle, assumed>>

\* The scheduler's cache forgets the assumed pod, and the pod is queued again.
FailBind(p) ==
    /\ binding[p] = "failed"
    /\ binding' = [binding EXCEPT ![p] = "none"]
    /\ assumed' = [assumed EXCEPT ![p] = Nil]
    /\ queue' = QueueAfterFailure(p)
    /\ PatchStatus(p)
    /\ UNCHANGED <<created, cache, policies, cycle>>

---------------------------------------------------------------------------
(* The process (external, except that the plugin may bring it down) *)

\* Everything but the API server's state is lost.
Die ==
    /\ cycle' = NoCycle("down")
    /\ watch' = << >>
    /\ cache' = [p \in Pods |-> Nil]
    /\ queue' = [p \in Pods |-> Nil]
    /\ assumed' = [p \in Pods |-> Nil]
    /\ binding' = [p \in Pods |-> "none"]
    /\ UNCHANGED <<api, created, policies>>

Crash ==
    /\ cycle.at # "down"
    /\ Disturb("crash")
    /\ Die

\* A nil selector or rule of a policy is dereferenced at an extension point.
Panic ==
    /\ cycle.at \in DOMAIN LeftToTheOther
    /\ \/ PolicyLookupPanics(policies, Namespace[cycle.pod])
       \/ /\ ~PolicyLookupPanics(policies, Namespace[cycle.pod])
          /\ \E pp \in Governing(cycle.pod) :
                pp.mode # LeftToTheOther[cycle.at] /\ DecisionPanics(pp)
    /\ Die
    /\ UNCHANGED spent

\* The informers list the API server; unbound pods are queued.
Restart ==
    /\ cycle.at = "down"
    /\ cycle' = NoCycle("idle")
    /\ cache' = api
    /\ queue' = [p \in Pods |-> IF api[p] # Nil /\ ~IsBound(api[p]) THEN Shared ELSE Nil]
    /\ UNCHANGED <<api, created, watch, policies, assumed, binding, spent>>

---------------------------------------------------------------------------
(* The specification *)

Users == \E p \in Pods : CreatePod(p) \/ TouchPod(p) \/ DeletePod(p)

Scheduling == PreFilter \/ AnnotatePod \/ FilterNodes \/ PreScore \/ ScoreNodes \/ FailCycle

Binding(p) == Bind(p) \/ FailBind(p)

Next ==
    \/ Users
    \/ PolicyEvent
    \/ Deliver
    \/ \E p \in Pods : Pop(p) \/ Binding(p) \/ BindLost(p)
    \/ Scheduling
    \/ AnnotatePodLost
    \/ Crash \/ Panic \/ Restart

Spec == Init /\ [][Next]_vars

\* The scheduler's goroutine, the informer's and the bind goroutines keep
\* running and a dead process is restarted.  The queue is first in, first out,
\* so a pod that is queued again and again is popped again and again.
Fairness ==
    /\ WF_vars(Deliver)
    /\ WF_vars(Scheduling)
    /\ WF_vars(Panic)
    /\ WF_vars(Restart)
    /\ \A p \in Pods : SF_vars(Pop(p)) /\ WF_vars(Binding(p))

FairSpec == Spec /\ Fairness

---------------------------------------------------------------------------
(* Properties *)

\* The types of the variables, and what ties them together: the object at hand
\* is the cache's own while it is shared, and a queue entry that is shared has
\* an unbound object in the cache.
TypeOK ==
    /\ api \in [Pods -> Object \union {Nil}]
    /\ created \in SUBSET Pods
    /\ watch \in Seq([pod : Pods, obj : Object \union {Nil}])
    /\ cache \in [Pods -> Object \union {Nil}]
    /\ policies \in PolicySets
    /\ queue \in [Pods -> Object \union {Nil, Shared}]
    /\ cycle \in [at : Phases, pod : Pods \union {Nil}, obj : Object \union {Nil},
                  shared : BOOLEAN, nodes : SUBSET Nodes, policy : Policies \union {Nil}]
    /\ assumed \in [Pods -> Nodes \union {Nil}]
    /\ binding \in [Pods -> {"none", "posting", "failed"}]
    /\ spent \in [Disturbances -> Nat]
    /\ cycle.at \in {"down", "idle"} => cycle = NoCycle(cycle.at)
    /\ cycle.at \notin {"down", "idle"} => cycle.pod # Nil /\ cycle.obj # Nil
    /\ cycle.at \in DOMAIN AfterAnnotate => cycle.policy # Nil
    /\ cycle.shared => cycle.obj = cache[cycle.pod]
    /\ \A p \in Pods : queue[p] = Shared => cache[p] # Nil /\ ~IsBound(cache[p])

\* Every policy that may govern p, at any time, is Strict.
AlwaysStrict(p) ==
    \A S \in PolicySets :
        LET governing == GetPlacementPolicyForPod(S, Namespace[p], PodLabels[p])
        IN  governing # {} /\ \A pp \in governing : pp.mode = "Strict"

\* A pod governed by Strict policies is bound only after its decision reached
\* the API server, to a node of the group that the stored annotations name,
\* through retries, lost replies, policy changes and restarts: Filter works on
\* the object AnnotatePod sent, and only that update lets the pod go on.
StrictPlacementHonoured ==
    \A p \in Pods :
        IsBound(api[p]) /\ AlwaysStrict(p) =>
            \E pp \in Policies : /\ pp.name = api[p].by
                                 /\ Agrees(pp, NodeLabels[api[p].node], api[p].pref)

\* Once a pod is bound its node and its annotations stay: a cycle that goes on
\* with an object from before the binding has its update refused.
FrozenOnceBound ==
    [][\A p \in Pods :
          IsBound(api[p]) /\ api'[p] # Nil =>
              /\ api'[p].node = api[p].node
              /\ api'[p].pref = api[p].pref
              /\ api'[p].by = api[p].by]_vars

\* What a call that was lost on its way may leave of a pod in the cache: the
\* plugin's annotations in an object that is otherwise the stored one.
OnlyAnnotationsDiffer(o, stored) ==
    o # Nil /\ stored # Nil /\ o.rv = stored.rv /\ o.node = stored.node

\* Although the plugin scribbles on the informer's objects, and does so before
\* it knows whether the update succeeds, the cache shows what the API server
\* has whenever all events are delivered and no update call is out, but for the
\* annotations of at most as many pods as calls were lost: an update is refused
\* only if an event is on its way, which undoes the scribbling.
CacheAgreesAtRest ==
    watch = << >> /\ cycle.at \notin {"down"} \union DOMAIN AfterAnnotate =>
        LET astray == {p \in Pods : cache[p] # api[p]}
        IN  /\ Cardinality(astray) <= spent["fault"]
            /\ \A p \in astray : OnlyAnnotationsDiffer(cache[p], api[p])

\* The pods of the policy's own namespace and selector that exist.
GovernedPods(pp) ==
    {p \in Pods : /\ api[p] # Nil
                  /\ Namespace[p] = pp.namespace
                  /\ SelectorMatches(pp.podSelector, PodLabels[p])}

\* Those of them that run on the nodes the policy selects.
PodsOnSelectedNodes(pp) ==
    {p \in GovernedPods(pp) :
        IsBound(api[p]) /\ checkHasLabels(NodeLabels[api[p].node], pp.nodeSelector)}

\* No more pods run on the nodes a policy selects than its target size for the
\* pods there are: what placement_policy_int_test.go:210 asserts of a Must policy.
\* (Of a MustNot policy it bounds the pods on the other nodes, which TargetReached
\* fixes for these as well.)
TargetNotExceeded ==
    \A pp \in policies :
        Cardinality(PodsOnSelectedNodes(pp))
            <= TargetSize(pp.policy, Cardinality(GovernedPods(pp)))

\* When every pod is bound and none was deleted, exactly the target number runs
\* there (README.md:206).
TargetReached ==
    \A pp \in policies :
        (\A p \in created : IsBound(api[p])) =>
            Cardinality(PodsOnSelectedNodes(pp))
                = TargetSize(pp.policy, Cardinality(GovernedPods(pp)))

\* With a single rule that governs every pod, what the lister shows of the
\* pods implements the abstract promise: a pod is decided when its cached
\* object is annotated, and preferred when it is annotated "true".
Promise == INSTANCE PlacementQuota WITH
    Rule <- (CHOOSE pp \in Policies : TRUE).policy,
    arrived <- {p \in Pods : cache[p] # Nil},
    decided <- {p \in Pods : cache[p] # Nil /\ cache[p].pref # ""},
    preferred <- {p \in Pods : cache[p] # Nil /\ cache[p].pref = "true"},
    intact <- spent["delete"] = 0

QuotaImplemented == Promise!Spec

\* No governing policy has a nil selector or rule, or a target that cannot be
\* scaled.
Sound(S) ==
    \A pp \in S : pp.podSelector # Nil /\ ~DecisionPanics(pp) /\ ~DecisionFails(pp)

\* If the policies are sound from some time on, every pod that exists is
\* eventually bound or gone: whatever conflict, lost reply, crash or panic
\* interrupts its cycles, it is queued again and a later cycle goes through.
EveryPodPlaced ==
    <>[]Sound(policies) =>
        \A p \in Pods : api[p] # Nil ~> (api[p] = Nil \/ IsBound(api[p]))
=============================================================================
