# Placement policy scheduler plugins: models, checks and proofs

This directory holds TLA+ models of the placement policy plugin for
kube-scheduler (`src/`), the TLC runs that check them, and theorems about them
that TLAPS proves. The first part says what the system is and what can go wrong
in it; the second what each module models and how it maps to the code; the
third what the runs show; the fourth what is proved; the last what is left out
and what comes next.

## 1. The system

A `PlacementPolicy` says: of the pods that `podSelector` matches, so many
(`targetSize`, a count or a percentage) must, or must not, run on the nodes that
`nodeSelector` selects. The plugin enforces this at four extension points of one
scheduling cycle and keeps no state between cycles: whatever it knows of its
earlier decisions it reads from two annotations of the pods.

| Component | State it keeps | Operations |
|---|---|---|
| plugin, `pkg/plugins/placementpolicy/placementpolicy.go`, `state.go` | the policy used, in the `CycleState` of one cycle | `PreFilter`, `Filter`, `PreScore`, `Score`, `NormalizeScore`, `New` |
| manager, `core/core.go`, `core/sort.go`, `pkg/utils/labels.go` | none | `GetPlacementPolicyForPod`, `GetPodsWithLabels`, `AnnotatePod` |
| API types, `apis/v1alpha1` | the policies | defaults and enums; all fields are optional |
| informer factory, `pkg/client/informers/externalversions/factory.go` | the informer of each type, which were started, a mutex | `InformerFor`, `Start`, `WaitForCacheSync`, options |
| generated client, informer, lister, `pkg/client` | the policy informer's cache | requests to the API server, list and watch functions, `Informer`, `Lister` |
| `cmd/scheduler/main.go`, `charts/`, `deploy/`, `config/` | none | registers the plugin; one replica, rolling updates, no leader election |
| kube-scheduler, client-go, API server (not in this repository) | pods, queue, assumed pods, pod informer's cache, bind calls | scheduling cycle, binding cycle, event handlers, versioned updates |

How they interact. kube-scheduler runs one scheduling cycle at a time and hands
the pod object to the plugin. `PreFilter` (unless the policy is BestEffort) and
`PreScore` (unless it is Strict) look up the policy in the policy informer, list
the matching pods in the pod informer's cache, count those that are bound to
selected nodes or annotated to go there, compare with the target, write the
decision **into the pod object they were given** and send that object to the API
server. `Filter` and `Score` then let through, or favour, the nodes of the group
the annotation names. The bind call runs in a goroutine of its own while the next
pod is being scheduled.

The object of a first attempt is the informer's own (the queue holds the pointer
from the event handler, and 1.22's scheduling cycle does not copy it). Writing the annotation therefore changes
the cache that the next cycle counts with, before any watch event. That the
quota is exact with several pods in flight rests on this. The object of a retry is a deep copy, and
then it does not hold.

Before any of this, `New` makes the factory and the manager, starts the factory
and waits until the policies are cached. The informer that is started, waited for
and read by the manager is the same one only because all three get it from the factory's
map, and it is started only because the manager has asked for its lister before.

What is hard here: a decision is based on a cache that other pods' decisions,
their bind goroutines and the watch are changing; a write that is visible before
it is known to have succeeded; updates refused because of a stale version; lost
replies; a crash between annotation and binding; policies that change between two
extension points of one cycle; decisions that are never revised; policies that are
not cached yet, or changed between a list and a watch; goroutines that share a
factory; a second scheduler that the chart does not exclude. `PROJECT.json`
lists these hazards by source line, with the properties that would catch each
going wrong.

What makes each part correct:

- rules: the lookup and the count agree on which pods a policy governs, except for
  labels that it wants to be empty; rounding and inversion leave no gap as pods
  arrive; scores keep their order;
- the quota: exactly the policy's share of the pods is sent to the selected
  nodes and no decision is taken back; what departures upset, later decisions heal;
- the plugin in the scheduler: it implements that quota on the cache it decides
  by; bound pods are where their annotations say and stay so; the target is met
  by bindings, too; every pod is placed in the end;
- the factory: one informer per type, run once, whoever asks and starts it when;
  nobody holds the mutex while waiting;
- the policy informer: it shows what is in the factory's scope, misses nothing once
  it has synced, never goes back, and ends up with what users stored;
- the start-up: no pod is scheduled before the policies are there;
- two schedulers at once: what bound pods have is kept, and the harm ends with the
  overlap.

## 2. The modules

| Module | What it is |
|---|---|
| `PlacementRules` | the pure operators, one per function of the code |
| `MCPlacementRules` | reference definitions and inputs for them, small ones for TLC |
| `PlacementRulesProofs` | theorems: the operators agree with those definitions |
| `PlacementQuota` | the abstract promise: pods arrive, are decided, may leave |
| `QuotaDepartures` | the promise with a record of who was decided since the last departure, to say what departures do to it |
| `PlacementQuotaProofs` | theorems about both |
| `MCPlacementQuota` | an instance for TLC |
| `PlacementPolicy` | the plugin inside the scheduler, informers and API server |
| `PlacementPolicyProofs` | theorems about it: types, bound pods |
| `PlacementCacheProofs` | theorems about it: the pod informer's cache |
| `PlacementPromiseProofs` | theorems about it: it implements `PlacementQuota`, and meets the target |
| `MCPlacementPolicy` | clusters, policies, bounds, and what documents and tests say |
| `SharedInformers` | the abstract promise of an informer factory, with no lock and no calls |
| `InformerFactory` | the factory: callers, mutex, maps |
| `InformerFactoryProofs`, `MCInformerFactory` | theorems about it; instances for TLC |
| `PolicyInformer` | the generated client, the policy informer and its lister, over a changing API server |
| `MCPolicyInformer` | instances for TLC |
| `PluginStartup` | `New`, composed of `PolicyInformer` and the promise of `SharedInformers`; crash and restart |
| `PluginStartupProofs`, `MCPluginStartup` | theorems about it and `PolicyInformer`; instances for TLC |
| `TwoSchedulers` | two instances of `PlacementPolicy` over one API server |
| `TwoSchedulersProofs`, `MCTwoSchedulers` | theorems about it; an instance for TLC |

`PlacementPolicy` and `PlacementQuota` extend `PlacementRules`, so the detailed and the
abstract specification share the arithmetic but not the state;
`PlacementPolicy` instantiates `PlacementQuota` as `Promise` with a refinement
mapping to the pod informer's cache: a pod has *arrived* when the cache has it,
is *decided* when its cached object is annotated, and *preferred* when it is
annotated "true".

### State of `PlacementPolicy`

| Variable | Stands for |
|---|---|
| `api`, `created` | pods stored by the API server: resource version, the two annotations, `spec.nodeName`; which pods ever existed |
| `watch`, `cache` | undelivered watch events in order; what the pod lister returns |
| `policies` | what the policy lister returns |
| `queue` | the scheduling queue: for each pod nothing, `Shared` (the entry is the informer's pointer) or a private object |
| `cycle` | the cycle in progress: the extension point it is at, the pod object at hand, whether that object is the cache's own, the nodes left, the policy in the `CycleState` |
| `assumed`, `binding` | the scheduler cache's assumed node; the bind goroutine of each pod |
| `spent` | how many of the bounded disturbances happened |

### Actions

`PreFilter` and `PreScore` are the code up to the update call; `AnnotatePod` is
the return of the call (accepted or refused), `AnnotatePodLost` its failure
before or after it was applied. The split is where the code gives up control: events,
other clients and bind goroutines run between the two. `FilterNodes` calls
`Filter` for every node with room; `ScoreNodes` calls `Score` and `NormalizeScore`
and lets other score plugins add their own. `Panic` is a nil dereference of an
optional field. Policy choice among equal weights is nondeterministic because
the sort is unstable and its input is a map's iteration.

The rest is external: `CreatePod`, `TouchPod`, `DeletePod`, `PolicyEvent`;
`Deliver` (informer and event handlers); `Pop`, `Assume`, `FailCycle`, `Bind`,
`BindLost`, `FailBind`; `Crash`, `Restart`. They model kube-scheduler 1.22 and client-go from
how the plugin meets them: which object the plugin is handed, when a failed pod comes back
and as what copy, what a conflicting update does. The nodes a cycle sees are a
snapshot taken when it starts, and room on a node counts assumed pods.

### `InformerFactory`

`lock`, `informers` and `started` are the factory's fields; `op`, `at`, `asked`,
`mine` and `todo` are what a goroutine in a call has on its stack, with an action for
each step of the critical sections, so that calls interleave wherever the mutex
lets them. `got` and `owed` are history: what `InformerFor` returned to a caller, and
which informers were registered at its last `Start`. `Sync` and `Stop` are
the informers and whoever closes `stopCh`. The state of `SharedInformers` is
`informers` and `runs` of `InformerFactory`; every step is a registration, a start
of one informer, or a stutter.

### `PolicyInformer`

`log` is the history of the stored policies, its length the API server's version, so that a
list or a watch "at a version" can be said exactly. `Create`, `Update` and `Delete` are the
client's requests as users send them. `ListFunc` and `WatchFunc` make the
informer's requests: the namespace comes through the group's and version's
accessors, the selector from `tweakListOptions`, the version from the reflector. The
environment is client-go's: `ListSucceeds` (any version not older than the last seen for the
first list), `OpenWatch`, `ReceiveEvent`, `WatchEnds`, `WatchExpires` (list again), and
`Pop` from the queue into the indexer. `HasSynced` holds when the keys of the first list are popped.

### `PluginStartup`

`at` is where `New` is. The actions are its lines in order:
`NewPlacementPolicyManager` (which asks for the lister and so registers the informer),
`Start`, `AskHasSynced`, `WaitForCacheSync`. `Crash` loses everything but the
API server; `main` starts again. Users and the informer step in between at any point.
`InformerFor` and `Start` are used through `SharedInformers`: that the factory
keeps this promise is what `InformerFactory` shows.

### `TwoSchedulers`

`Old` and `Young` are instances of `PlacementPolicy` that share `api`, `created` and
`policies` and have a watch, cache, queue, cycle, assumed pods and bind calls each; a
change made by one is appended to the other's watch (`Told`). `StartNew` is the
restart of `PlacementPolicy` next to a running process, `EndOld` its death. `caught`
remembers which pods the new process was at work on at that moment.

### Abstractions

- A watch expires only when the queue is empty: the API server forgets a version minutes
  after it was current. A list after that is newer than the last one seen.
- A list that fails changes nothing; a queued key holds its last change only.
- `DeleteCollection` is several `Delete`s, as the API server does it; `Patch` has the effect
  of `Update`; `UpdateStatus` changes nothing, since the status has no fields.
- The view may mix versions of different policies: so does the indexer.
- `TwoSchedulers` loses no call and crashes nothing, `PlacementPolicy` covers both.
- Delivery of a watch event changes the informer's store and runs the
  scheduler's handlers in one step.
- An object is its version, annotations and node; other fields are the
  version's. Labels and namespace of a pod, and the nodes, do not change.
- Pods start without the plugin's annotations.
- A request of a crashed process does not arrive later than the crash.
- Errors of `ParseBool` cannot occur after `AnnotatePod` and are left out; so are
  errors of listers, which read memory.

## 3. What the runs show

All runs use the labels of the integration test (`app=nginx`, `node=want`).

| Run | Question | Bounds |
|---|---|---|
| `rules` | do the operators agree with their reference definitions? | 3 label keys, 3 values with the empty one; percentages and counts 0..100 of up to 30 pods; 3 policies; 4 scores |
| `quota` | is the share exact whatever the order and repetition of decisions? do decisions taken after a departure bring it back? | 5 pods, 40% |
| `quota_kept` | does the plugin implement the quota, in Strict and BestEffort mode, and are the pods bound accordingly? | 3 pods, 3 nodes, other plugins' scores up to 99 against, one deletion |
| `strict_crash` | is the target exact in spite of crashes and conflicts? | 3 pods, MustNot 60%, one crash, two updates by others, one status patch |
| `strict_disturbed` | do bound pods agree with their annotations, and the cache with the API server, through everything? | 2 pods, 3 nodes, a Strict and a BestEffort policy of equal weight that both match one pod, then a Strict one; one policy change, lost call, crash |
| `every_pod_placed` | is every pod placed in the end? | 2 pods, 3 nodes, all modes and three malformed policies, one policy change, one lost call |
| `informer_factory` | do all callers share one informer that is run once, does the wait cover the start, do calls return? does the factory implement its promise? | 2 callers, 2 types, 2 informers; calls unbounded |
| `policy_view` | is the view in scope, complete once synced, never older, and in the end what is stored? | 2 namespaces, one name, 2 labels, every scope, 4 changes |
| `plugin_startup` | are the policies there before the first pod? does `New` return, and do policies reach the plugin? | 2 policies, 3 changes, 2 crashes |
| `two_schedulers` | what survives two schedulers at once? | 2 pods, 2 nodes, Strict 50%; each process started and ended once |

Two callers are what a mutex excludes from each other, and two informers let a second one of
a type be made if the exclusion fails; with two types one is started while the other is
waited for. Two policies, of which one is
changed while the other is listed, are the smallest case of a view that
mixes versions; three changes are the smallest history with a list before, a change between
list and watch, and one after; a fourth lets a policy come back after a list that
missed it. Two pods at 50% are one pod for each group, and each can be in either process.
Runs stop when the changes are used up, so they do not check for deadlock;
`policy_view` and `plugin_startup` check progress instead.

Three pods at 50% or 60% are the smallest case in which a pod is decided while a
first one is assumed and a second one retried, and in which rounding and
inversion both matter; one pod of each group and one in flight are all that a
decision can confuse. One disturbance of each kind, at any step, reaches every
pair of a disturbance and an interleaving; `strict_disturbed` combines three
kinds, and the two policies that match one of its pods let `PreFilter` and `PreScore` act by
different ones in the same cycle, so that the plugin's own updates conflict. (With three
nodes two are left for a `true`, and `PreScore` is reached.) Runs stop when all pods are placed and no disturbance is left, so they do not
check for deadlock; `every_pod_placed` checks progress instead.

`MustNot` 60% of three pods keeps one pod off the nodes (60% of 3 rounds down to
1, so 2 go there), which tells the inversion from its mutants.

When the quota holds. A decision on a private copy is invisible to the next
cycle, so it can break the quota. It needs a cycle that failed without a conflict: no feasible node,
or a lost reply. After a conflict the event that caused it turns the queue
entry into the shared object again before any update of the private copy could be
accepted. `quota_kept` and `strict_crash` have room on every node and no lost calls: the
first shows the quota kept with a deletion at any step, the second that
conflicts, a status patch and a crash leave the target exact. `strict_retry` fills
the other nodes and shows that it breaks.

### Fairness

`every_pod_placed` assumes weak fairness of the scheduler's goroutine
(`Scheduling`), the informer (`Deliver`), the bind goroutines (`Binding`), and of
the process coming down and back (`Panic`, `Restart`): each runs a loop of its own that nothing
stops, and a container that dies is restarted. `Pop(p)` is strongly fair: the queue
is ordered by time, and a pod whose entry is replaced again and again still gets its
turn. Nothing is assumed of users, policies, faults and crashes.

`informer_factory` assumes that a goroutine within a call keeps running (weak
fairness of `Step`) and that `sync.Mutex`, which hands over to a waiter after a
millisecond, starves nobody (strong fairness of `Lock`); no cache need ever sync.
`WaitReturns` says "if every informer that runs syncs" itself.

`policy_view` and `plugin_startup` assume that a list succeeds in the end (the
reflector retries with a backoff), that a watch is opened, that the queue is worked off (weak
fairness), and that a watch is open for long enough, again and again, to be told
of a change (strong fairness of `ReceiveEvent`, as `WatchEnds` may come between).
`plugin_startup` adds that a dead process is started again and that `New` runs.

### Where documents, comments or tests disagree with the code

Two runs check a statement of the repository that TLC refutes.

| Run | Statement | What the code does |
|---|---|---|
| `strict_retry` | integration test, line 210: no more pods than the target on the nodes | a retried pod is decided on a private copy (`core.go:91`), the next cycle does not see it, and both of two pods go to the nodes of a 50% policy |
| `best_effort_full` | `placementpolicy.go:223`: pods already on selected nodes are counted | `PreScore` is given feasible nodes only; a full node's pods are not counted |

The others can be read off the model, and no run is spent on them:

- `placementpolicy_types.go:48` says BestEffort, scorer mode, is the default. An absent mode
  is not BestEffort to `PreFilter` (`LeftToTheOther`), and nodes are filtered.
- `placementpolicy_types.go:36-41` says that at equal weight the Strict policy is selected. Either
  is (`Lightest`, `Governing`), afresh at each call: both extension points may act in one
  cycle, and if each sees the policy that it leaves to the other (`SkipTo` in both), neither
  acts and the pod is placed as if no policy governed it. `StrictPlacementHonoured` is
  therefore about pods that are governed by Strict policies only.
- The integration test computes the target of a policy from the pods of its namespace (line
  193). `GetPodsWithLabels` counts those of all namespaces.
- `placementpolicy.go:64-66` reports a failed wait as "WaitForCacheSync failed". The channel
  waited with is `context.Background().Done()`, nil and never closed, so `WaitForCacheSync` has
  one outcome only: without an answer to the list `New` blocks for ever in silence. That is why
  `EventuallyReady` needs `ServerFairness`.
- `placementpolicy_types.go:50` says that a Strict policy is forced. The chart switches
  leader election off and its Deployment overlaps two processes; one may annotate a pod anew while
  the other's bind call, which carries no version, is in flight, and the pod is bound
  against its annotation. `HonouredAfterOverlap` bounds this: only pods that were being
  scheduled or bound before the old process ended (`caught`) can be hit.

## 4. What is proved

All proofs are checked by tlapm with SMT, Zenon and the PTL backend and hold for every value of
the constants under the named assumptions.

`PlacementQuotaProofs`, from `PodsAssumption` (finitely many pods) and
`RuleAssumption` (a natural number, or a percentage of at most 100):
`TargetNeverExceeded`, `TargetNeverMissed`, `ShareExact`, `PreferenceStays`,
`DeparturesAreHealed` and `ExactOnceDecidedAnew`. The invariant is that the preferred pods lie between the
quota of the decided and the quota of the arrived ones. It is inductive because
one more pod raises the quota by zero or one (`PercentStep` for rounding,
`TargetStep` for inversion, `QuotaGrowth` for the clipped count). A decision on
a pod then either adds it below the target or finds the target met by the others.

The last two are about `QuotaDepartures` and hold however many pods left. Nothing is known then
of the decisions from before a departure, so the invariant (`HInv`) counts the pods decided
since together with all that are preferred (`Settled`). Either no pod decided since is
preferred, or the share is not exceeded; and either every pod decided since is preferred, or
the preferred ones are at least the share of the settled. A decision settles at most one more pod,
and the share of one more pod is greater by at most one.

`PlacementPolicyProofs`, from `SentinelAssumption` (nil and the marker of shared
objects are no pods, nodes, objects or policies) and `ConstantsAssumption`:

- `TypeCorrect`: types, and the hand-over of objects. While a cycle's object is marked
  shared it *is* the cache's, and a shared queue entry is unbound. One lemma per
  action; the argument is in `Deliver` (the holder of a replaced object holds a
  private one) and in `DecidePreference` (both are written at once).
- `StrictHonoured`: a pod that only Strict policies govern is bound to a node of
  the group that its stored annotations name. The property alone is not
  inductive: that a bind call in flight is for the right node must be known
  before it arrives, and that needs what the cycle knew when it assumed the node.
  `IInv` adds `Knowledge` (no object held anywhere is newer than the stored one,
  objects to be scheduled are unbound, everything held is of a created pod)
  and `Placement` (`BindCalls`: an acceptable bind call agrees with the stored
  annotations and its pod is in no cycle; `CycleKnows`: from `Filter` on the
  stored annotations are the cycle's). Store changes are grouped as
  `Quiet` (nothing said anew), an accepted update, an accepted binding, or a creation.
- `BoundIsFrozen`: node and annotations of a bound pod never change, because an
  accepted update carries the stored version, and an object of that version is unbound.

`Placement` is stated for a set of pods, `Placement(Q)`, and kept for any: what a process
knows of the pods in `Q` needs nothing of the others. `StrictHonoured` takes all pods.

`PlacementRulesProofs`, from `RulesAssumption` (finitely many label keys, integer weights and
scores; the numbers of pods, policies and nodes are any): `GovernedListed`, `TargetRounded`,
`TargetGrows`, `LightestFirst` and `NormalizeOrdered`. `GovernedListed` says for all label
maps which pods are governed and not counted: those that lack a label which the policy wants to be
empty, and no others. Nothing is proved by induction:
that a non-empty set of numbers has a least one (`NatHasLeast`) does for it. The greatest
of a finite set is the element that fewest exceed (`MaxIsGreatest`); what is lighter
than the head of a sorted list would have a predecessor heavier than itself; and ranking policies by
weight arranges them in a sorted list with a given lightest one in front.

`PlacementCacheProofs`: `CacheAgrees`, for any bounds on failures. `CInv` says three things. The
last event on its way for a pod tells what is stored (`LastEventTells`). A pod of
which nothing is on its way is cached as it is stored, except for annotations (`CachedAsStored`). And
the pods whose annotations differ while no call for them is out (`Astray`) are at most as many as
calls were lost (`FewAstray`). Of a call that is out more must be known to be
inductive: what the plugin wrote into the cache is what the API server will
store, so the call will be accepted. It will, because with nothing on its way the cached version is the
stored one, also of a pod that is astray. A refusal thus implies an event that will undo the
writing, and only a lost call leads a pod astray, until it is decided again, changed by
anyone, or listed by a new process.

`PlacementPromiseProofs`: `QuotaIsImplemented`, `TargetIsReached`, `TargetIsNotExceeded`, for
any number of pods and nodes. They hold in a `QuietCluster`, which says when the
quota can be expected at all (see "When the quota holds" above):

- `OneRule`: one policy governs all pods, in Strict or BestEffort mode, and its fields are
  there. (The promise is about the pods of one policy.)
- `RoomForAll`: both groups have a node, every node has room for all pods, and other plugins' scores
  differ by at most 99. Without room a cycle fails and retries on a private copy, which
  is what `strict_retry` refutes.
- `OnlyDeletions`: pods may be deleted at any step and any number of times, but no call is
  lost, nobody else updates pods or policies, and nothing crashes.

Watch, update and bind calls are as asynchronous as ever. The instance of `quota_kept` is such a
cluster. The mapping is `Promise`'s. What needs proof is that a decision counts as
`preferred` exactly the pods that earlier decisions sent, which means that no write
into the cache is ever undone and that the decision is written into the cache and not into a copy.
`QuotaInv` shows this from where a pod can be. A pod goes through three versions (created,
annotated, bound). While it is *created* it is on its way to the cache; once there, nothing more of it is on its way and its
only holder is the queue, by the shared pointer, or the cycle that decides for it. While it is *annotated* it is in
the cycle that decided, past the update, or its bind call is out, for a node that `Suits` the
annotation. When it is *bound* the scheduler assumes it until the event arrives. Events on their way
are in order of version, none is unannotated if the cache's object is annotated (`Stages`), and
none makes the queue take the pod twice (`Custody`). TLC checked `QuotaInv` on the instance of
`quota_kept` (857 926 states) before it was proved. The steps of `PlacementPolicy` then are steps of
`PlacementQuota` as follows: `PreFilter` or `PreScore` on the shared object is `Decide`, `Deliver` is
`Arrive`, `Depart` or a stutter, the first `DeletePod` is `Disrupt`, all others are stutters.

With the refinement, what `PlacementQuotaProofs` proves of the promise holds of the cache (`KeptBounds`).
A bound pod is in the cache, annotated as in the store, and on a node of the group the annotation names
(`BoundIsSent`), so the bounds carry over to the nodes. `TargetIsReached` is for percentages
(`ByShare`), as a count may exceed the pods there are, `TargetIsNotExceeded` for percentages and for `Must`
(`NeverNegative`), as `MustNot` with a count above the number of pods gives a negative target that nothing meets;
it needs that nothing is deleted, since the share of fewer pods may be smaller than what runs.
TLC checks both targets with conflicting updates and a crash as well (`strict_crash`), which the theorems leave out.

`TwoSchedulersProofs`, from the same assumptions: `Invariance`, `FrozenWhoeverBinds`,
`CachesAgree` and `HonouredWhenAlone`. Each process is an instance of `PlacementPolicy`, so
what is proved of one process is instantiated twice; what the one does is to the other
a change made elsewhere (`StoreMoves`), which keeps `Knowledge` and `CInv`. `HonouredWhenAlone` uses
`Placement(Q)`: while the old process runs, nothing is known of what its bind calls do (`Q` may be
empty). When it ends, `Q` is chosen to be the pods that the new process is not at work on;
those outside are the `caught` ones, or they are bound or deleted already and stay so.

`InformerFactoryProofs`, from `NilAssumption`, for any number of callers, types
and informers: `TypeCorrect`, `SameInformerHeld`, `WaitCovers` and the refinement
`Implements`. The invariant says what each place of a call knows while its caller holds
the mutex (nobody else changes the maps there), that informers of different
types differ and were made, that an informer runs only if its type is marked or about to be, and
that what a caller still waits for together with what is synced covers what it is owed.

`PluginStartupProofs`, about `PolicyInformer`, from `PolicyInformerAssumption`: `TypeCorrect`,
`InScope`, `SyncedComplete` and `NeverGoesBack`. The invariant relates the indexer, the queue and the log: what
is shown of a key was in scope at some version, what is queued at a version since
the first list (`Known`), and a key that is not up to the first list is among those of it that
are still to be popped (`Complete`). `Requests` reduces the list and watch functions
to the factory's scope, `AtStable` says that later changes leave earlier versions
alone, and `OrdersAll` that a queue made from a list has every key of it. `NeverGoesBack` needs more:
a policy's version is its place in the log (`Numbered`), nothing shown is newer than the
last version seen, and what is queued of a key is no older than what is shown of it
(`Ordered`); then a `Pop` can only move forward (`LaterIsNewer`).

The same module, about `PluginStartup`, from these and `PluginAssumption`: `StartupTypeCorrect` and
`PoliciesFirst`, for any number of crashes. To the lemmas about the informer are added `Wired` (the informer that is read, the one that is waited
for and the factory's are one, and the wait's outcome stays) and that a restart
establishes the informer's invariant anew.

Not proved, only model-checked: the two targets under crashes and conflicting updates (`strict_crash`).
The liveness properties (`EveryPodPlaced`, `CallsReturn`, `WaitReturns`, `ViewFollows`, `EventuallyReady`,
`PoliciesReachPlugin`) are beyond the prover. Every other property of a passing run is stated by a theorem.

## 5. What is not modelled, and the plan

Not modelled: preemption and nominated nodes; expiry of assumed pods; changes of
nodes and of pod labels; `percentageOfNodesToScore`; `matchExpressions` (ignored by the
code as well); logging and metrics. Of the generated code: deep copies, scheme
registration and the fake clientset, which hold no behaviour of the system's own; `Get`,
`Patch`, rate limits and the construction of REST requests, which are I/O;
`ForResource`; resync periods, which `New` sets to zero. Of the deployment: roles,
images, mounts.

The order of work was: rules, the abstract quota, the plugin in the scheduler,
their runs, the quota's proofs, type correctness and the Strict placement; then the
informer factory, the policy informer, the start-up and their proofs,
the two schedulers; then the cache, the rules, the two schedulers and the refinement were proved. What would come next:

1. `TargetIsNotExceeded` with updates by others: a refused update leaves the annotation in the
   cache until the event that refused it arrives, so the decisions in between count a pod that
   will be decided again. The refinement fails there (the pod is un-decided); the bound holds.
2. The targets across a crash: the new process decides by what is stored, so what was annotated
   but not bound must be counted from the store.
3. A rule that governs some of the pods, with other policies for the rest.
4. Pods that arrive with annotations of an earlier owner, and policies whose
   selectors overlap.
