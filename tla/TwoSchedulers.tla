---------------------------- MODULE TwoSchedulers ----------------------------
(***************************************************************************)
(* Two processes of the scheduler over one API server.                     *)
(*                                                                         *)
(* The chart's scheduler runs without leader election, as a Deployment     *)
(* whose default strategy starts a new process before it ends the old one: *)
(* during an update, or with more than one replica, two of them schedule   *)
(* the same pods, each from its own informer's cache and each with its own *)
(* queue, assumed pods and bind calls.  Both are instances of              *)
(* PlacementPolicy; here no call is lost and no process crashes.           *)
(***************************************************************************)
EXTENDS PlacementRules, Sequences

CONSTANTS Pods, Nodes, Shared, Namespace, PodLabels, NodeLabels, Capacity, OtherScores, PolicySets, Bound

VARIABLES
    api, created, policies, spent,                                          \* shared
    oldWatch, oldCache, oldQueue, oldCycle, oldAssumed, oldBinding,         \* the old process
    newWatch, newCache, newQueue, newCycle, newAssumed, newBinding,         \* the new process
    caught          \* the pods the new process was at work on when the old one ended

oldProcess == <<oldWatch, oldCache, oldQueue, oldCycle, oldAssumed, oldBinding>>
newProcess == <<newWatch, newCache, newQueue, newCycle, newAssumed, newBinding>>
vars == <<api, created, policies, spent, oldProcess, newProcess, caught>>

Old == INSTANCE PlacementPolicy WITH
    watch <- oldWatch, cache <- oldCache, queue <- oldQueue,
    cycle <- oldCycle, assumed <- oldAssumed, binding <- oldBinding

Young == INSTANCE PlacementPolicy WITH
    watch <- newWatch, cache <- newCache, queue <- newQueue,
    cycle <- newCycle, assumed <- newAssumed, binding <- newBinding

ASSUME SentinelAssumption ==
    /\ Nil # Shared /\ Nil \notin Old!Object /\ Shared \notin Old!Object
    /\ Nil \notin Nodes /\ Nil \notin Pods /\ Nil \notin Old!Policies

ASSUME ConstantsAssumption ==
    /\ IsFiniteSet(Pods)
    /\ PolicySets # {}
    /\ Bound \in [Old!Disturbances -> Nat]

OldRuns == oldCycle.at # "down"
NewRuns == newCycle.at # "down"

\* The old process runs, the new one is yet to be started.
Init ==
    /\ Old!Init
    /\ newWatch = << >>
    /\ newCache = [p \in Pods |-> Nil]
    /\ newQueue = [p \in Pods |-> Nil]
    /\ newCycle = Old!NoCycle("down")
    /\ newAssumed = [p \in Pods |-> Nil]
    /\ newBinding = [p \in Pods |-> "none"]
    /\ caught = {}

---------------------------------------------------------------------------
(* A change that one process makes reaches the other one's watch (external) *)

Told(runs, watch) ==
    LET changed == {p \in Pods : api'[p] # api[p]}
    IN  IF ~runs \/ changed = {} THEN watch
        ELSE LET p == CHOOSE q \in changed : TRUE
             IN  Append(watch, [pod |-> p, obj |-> api'[p]])

TellOld ==
    /\ oldWatch' = Told(OldRuns, oldWatch)
    /\ UNCHANGED <<oldCache, oldQueue, oldCycle, oldAssumed, oldBinding>>

TellNew ==
    /\ newWatch' = Told(NewRuns, newWatch)
    /\ UNCHANGED <<newCache, newQueue, newCycle, newAssumed, newBinding>>

---------------------------------------------------------------------------
(* The steps *)

CreatePod == \E p \in Pods : Old!CreatePod(p) /\ TellNew /\ UNCHANGED caught

OldSchedules ==
    /\ \/ Old!Deliver
       \/ Old!Scheduling
       \/ \E p \in Pods : Old!Pop(p) \/ Old!Binding(p)
    /\ TellNew
    /\ UNCHANGED caught

NewSchedules ==
    /\ \/ Young!Deliver
       \/ Young!Scheduling
       \/ \E p \in Pods : Young!Pop(p) \/ Young!Binding(p)
    /\ TellOld
    /\ UNCHANGED caught

\* The new process is started once, next to the old one.
StartNew ==
    /\ OldRuns
    /\ Young!Restart
    /\ UNCHANGED <<oldProcess, caught>>

\* The old one is ended once the new one runs.
EndOld ==
    /\ OldRuns /\ NewRuns
    /\ Old!Die
    /\ caught' = {p \in Pods : newCycle.pod = p \/ newBinding[p] # "none"}
    /\ UNCHANGED <<spent, newProcess>>

Next == CreatePod \/ OldSchedules \/ NewSchedules \/ StartNew \/ EndOld

Spec == Init /\ [][Next]_vars

---------------------------------------------------------------------------
(* Properties *)

\* A pod that Strict policies govern is bound to a node of the group that its
\* annotations name.
Honoured(p) ==
    \E pp \in Old!Policies : /\ pp.name = api[p].by
                             /\ Agrees(pp, NodeLabels[api[p].node], api[p].pref)

\* However the processes overlap, a bound pod keeps its node and the annotations
\* it had when it was bound: the binding of one process makes the update of the
\* other one stale.
FrozenOnceBound ==
    [][\A p \in Pods :
          Old!IsBound(api[p]) /\ api'[p] # Nil =>
              /\ api'[p].node = api[p].node
              /\ api'[p].pref = api[p].pref
              /\ api'[p].by = api[p].by]_vars

\* The harm ends with the overlap: whatever annotations the old process has left
\* behind, every pod that the new one takes up after its end is bound to a node of
\* the group its annotations name.
HonouredAfterOverlap ==
    [][\A p \in Pods :
          /\ ~OldRuns /\ p \notin caught
          /\ ~Old!IsBound(api[p]) /\ Old!IsBound(api'[p])
          /\ Old!AlwaysStrict(p)
          => Honoured(p)']_vars

\* Both caches, each written to by its own process and each told of the other's
\* writes by its watch, show what the API server has when nothing is under way.
CachesAgreeAtRest ==
    Old!CacheAgreesAtRest /\ Young!CacheAgreesAtRest
=============================================================================
