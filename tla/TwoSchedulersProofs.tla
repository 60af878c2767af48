------------------------- MODULE TwoSchedulersProofs -------------------------
(***************************************************************************)
(* Proofs about TwoSchedulers, for all pods, nodes, policies and bounds.   *)
(* What is proved of one process in PlacementPolicyProofs and in           *)
(* PlacementCacheProofs is used of each of the two: what the one does is   *)
(* to the other a change made elsewhere.                                   *)
(***************************************************************************)
EXTENDS TwoSchedulers, TLAPS

OldP == INSTANCE PlacementCacheProofs WITH
    watch <- oldWatch, cache <- oldCache, queue <- oldQueue,
    cycle <- oldCycle, assumed <- oldAssumed, binding <- oldBinding

YoungP == INSTANCE PlacementCacheProofs WITH
    watch <- newWatch, cache <- newCache, queue <- newQueue,
    cycle <- newCycle, assumed <- newAssumed, binding <- newBinding

---------------------------------------------------------------------------
(* The inductive invariant *)

\* Nobody has bound p yet.
MayBeBound(p) == p \notin created \/ (api[p] # Nil /\ api[p].node = Nil)

\* After the overlap, the pods that the new process has all to itself.
OnlyNew(Q) ==
    OldRuns \/ \A p \in Pods : p \notin caught /\ MayBeBound(p) => p \in Q

OldInv == OldP!TypeOK /\ OldP!Knowledge /\ OldP!CInv

NewInv == YoungP!TypeOK /\ YoungP!Knowledge /\ YoungP!CInv

\* The bind calls of the new process are right for these pods, as if there had
\* never been another process.
NewPlaces == \E Q \in SUBSET Pods : YoungP!Placement(Q) /\ OnlyNew(Q)

\* The old process leaves no bind call behind.
OldEnds == OldRuns \/ \A p \in Pods : oldBinding[p] = "none"

Inv == OldInv /\ NewInv /\ NewPlaces /\ OldEnds

---------------------------------------------------------------------------
(* The instances of PlacementPolicy and those of its proofs say the same *)

LEMMA OldConstants ==
    /\ Nil # Shared /\ Nil \notin OldP!Object /\ Shared \notin OldP!Object
    /\ Nil \notin Nodes /\ Nil \notin Pods /\ Nil \notin OldP!Policies
    /\ OldP!IsFiniteSet(Pods) /\ PolicySets # {} /\ Bound \in [OldP!Disturbances -> Nat]
BY SentinelAssumption, ConstantsAssumption
   DEF Old!Object, OldP!Object, Old!Preferences, OldP!Preferences, Old!PolicyNames, OldP!PolicyNames,
       Old!Policies, OldP!Policies, Old!Disturbances, OldP!Disturbances, IsFiniteSet, OldP!IsFiniteSet

LEMMA NewConstants ==
    /\ Nil # Shared /\ Nil \notin YoungP!Object /\ Shared \notin YoungP!Object
    /\ Nil \notin Nodes /\ Nil \notin Pods /\ Nil \notin YoungP!Policies
    /\ YoungP!IsFiniteSet(Pods) /\ PolicySets # {} /\ Bound \in [YoungP!Disturbances -> Nat]
BY SentinelAssumption, ConstantsAssumption
   DEF Old!Object, YoungP!Object, Old!Preferences, YoungP!Preferences, Old!PolicyNames,
       YoungP!PolicyNames, Old!Policies, YoungP!Policies, Old!Disturbances, YoungP!Disturbances,
       IsFiniteSet, YoungP!IsFiniteSet

\* What does not depend on a process.
LEMMA SameTerms ==
    /\ OldP!Object = YoungP!Object
    /\ OldP!Disturbances = YoungP!Disturbances
    /\ \A s, t : OldP!Follows(t, s) <=> YoungP!Follows(t, s)
    /\ \A o : (Old!IsBound(o) <=> OldP!IsBound(o)) /\ (Old!IsBound(o) <=> YoungP!IsBound(o))
BY DEF OldP!Object, YoungP!Object, OldP!Preferences, YoungP!Preferences, OldP!PolicyNames,
       YoungP!PolicyNames, OldP!Policies, YoungP!Policies, OldP!Disturbances, YoungP!Disturbances,
       OldP!Follows, YoungP!Follows, Old!IsBound, OldP!IsBound, YoungP!IsBound

LEMMA OldSteps ==
    /\ Old!Deliver => OldP!Deliver
    /\ Old!Scheduling => OldP!Scheduling
    /\ Old!Die => OldP!Die
    /\ \A p \in Pods : /\ Old!CreatePod(p) => OldP!CreatePod(p)
                       /\ Old!Pop(p) => OldP!Pop(p)
                       /\ Old!Binding(p) => OldP!Binding(p)
<1> USE DEF
        Old!AfterAnnotate, OldP!AfterAnnotate, Old!Agrees, OldP!Agrees, Old!AnnotatePod,
        OldP!AnnotatePod, Old!Annotated, OldP!Annotated, Old!Assume, OldP!Assume, Old!Bind,
        OldP!Bind, Old!BindAccepted, OldP!BindAccepted, Old!Binding, OldP!Binding,
        Old!CacheAfterWrite, OldP!CacheAfterWrite, Old!Cardinality, OldP!Cardinality,
        Old!CreatePod, OldP!CreatePod, Old!DecidePreference, OldP!DecidePreference,
        Old!DecisionFails, OldP!DecisionFails, Old!DecisionPanics, OldP!DecisionPanics,
        Old!Deliver, OldP!Deliver, Old!Die, OldP!Die, Old!Disturb, OldP!Disturb,
        Old!FailBind, OldP!FailBind, Old!FailCycle, OldP!FailCycle, Old!Filter, OldP!Filter,
        Old!FilterNodes, OldP!FilterNodes, Old!GetPlacementPolicyForPod,
        OldP!GetPlacementPolicyForPod, Old!GetPodsWithLabels, OldP!GetPodsWithLabels,
        Old!Governing, OldP!Governing, Old!HasMatchingLabels, OldP!HasMatchingLabels,
        Old!HasRoom, OldP!HasRoom, Old!IsBound, OldP!IsBound, Old!IsScalable,
        OldP!IsScalable, Old!LeftToTheOther, OldP!LeftToTheOther, Old!Lightest,
        OldP!Lightest, Old!Lookup, OldP!Lookup, Old!Max, OldP!Max, Old!MaxNodeScore,
        OldP!MaxNodeScore, Old!Min, OldP!Min, Old!MinNodeScore, OldP!MinNodeScore,
        Old!NextVersion, OldP!NextVersion, Old!NoCycle, OldP!NoCycle, Old!NormalizeScore,
        OldP!NormalizeScore, Old!PatchStatus, OldP!PatchStatus, Old!PolicyLookupPanics,
        OldP!PolicyLookupPanics, Old!Pop, OldP!Pop, Old!PreFilter, OldP!PreFilter,
        Old!PreScore, OldP!PreScore, Old!Preference, OldP!Preference, Old!QueueAfter,
        OldP!QueueAfter, Old!QueueAfterFailure, OldP!QueueAfterFailure, Old!ScaledValue,
        OldP!ScaledValue, Old!Scheduling, OldP!Scheduling, Old!Score, OldP!Score,
        Old!ScoreNodes, OldP!ScoreNodes, Old!SelectorMatches, OldP!SelectorMatches,
        Old!SkipTo, OldP!SkipTo, Old!Store, OldP!Store, Old!StoreBinding, OldP!StoreBinding,
        Old!TargetSize, OldP!TargetSize, Old!UpdateAccepted, OldP!UpdateAccepted,
        Old!UpdatePod, OldP!UpdatePod, Old!checkHasLabels, OldP!checkHasLabels,
        Old!filterPlacementPolicyList, OldP!filterPlacementPolicyList,
        Old!groupNodesWithLabels, OldP!groupNodesWithLabels,
        Old!groupPodsBasedOnNodePreference, OldP!groupPodsBasedOnNodePreference
<1>1. ASSUME Old!Deliver PROVE OldP!Deliver
  BY <1>1
<1>2. ASSUME Old!Scheduling PROVE OldP!Scheduling
  BY <1>2
<1>3. Old!Die => OldP!Die
  OBVIOUS
<1>4. ASSUME NEW p \in Pods, Old!CreatePod(p) PROVE OldP!CreatePod(p)
  BY <1>4
<1>5. ASSUME NEW p \in Pods, Old!Pop(p) PROVE OldP!Pop(p)
  BY <1>5
<1>6. ASSUME NEW p \in Pods, Old!Binding(p) PROVE OldP!Binding(p)
  BY <1>6
<1> HIDE DEF
        Old!Deliver, OldP!Deliver, Old!Scheduling, OldP!Scheduling, Old!Die, OldP!Die,
        Old!CreatePod, OldP!CreatePod, Old!Pop, OldP!Pop, Old!Binding, OldP!Binding
<1> QED
  BY <1>1, <1>2, <1>3, <1>4, <1>5, <1>6

LEMMA NewSteps ==
    /\ Young!Deliver => YoungP!Deliver
    /\ Young!Scheduling => YoungP!Scheduling
    /\ Young!Restart => YoungP!Restart
    /\ \A p \in Pods : /\ Young!CreatePod(p) => YoungP!CreatePod(p)
                       /\ Young!Pop(p) => YoungP!Pop(p)
                       /\ Young!Binding(p) => YoungP!Binding(p)
<1> USE DEF
        Young!AfterAnnotate, YoungP!AfterAnnotate, Young!Agrees, YoungP!Agrees,
        Young!AnnotatePod, YoungP!AnnotatePod, Young!Annotated, YoungP!Annotated,
        Young!Assume, YoungP!Assume, Young!Bind, YoungP!Bind, Young!BindAccepted,
        YoungP!BindAccepted, Young!Binding, YoungP!Binding, Young!CacheAfterWrite,
        YoungP!CacheAfterWrite, Young!Cardinality, YoungP!Cardinality, Young!CreatePod,
        YoungP!CreatePod, Young!DecidePreference, YoungP!DecidePreference,
        Young!DecisionFails, YoungP!DecisionFails, Young!DecisionPanics,
        YoungP!DecisionPanics, Young!Deliver, YoungP!Deliver, Young!Disturb, YoungP!Disturb,
        Young!FailBind, YoungP!FailBind, Young!FailCycle, YoungP!FailCycle, Young!Filter,
        YoungP!Filter, Young!FilterNodes, YoungP!FilterNodes,
        Young!GetPlacementPolicyForPod, YoungP!GetPlacementPolicyForPod,
        Young!GetPodsWithLabels, YoungP!GetPodsWithLabels, Young!Governing,
        YoungP!Governing, Young!HasMatchingLabels, YoungP!HasMatchingLabels, Young!HasRoom,
        YoungP!HasRoom, Young!IsBound, YoungP!IsBound, Young!IsScalable, YoungP!IsScalable,
        Young!LeftToTheOther, YoungP!LeftToTheOther, Young!Lightest, YoungP!Lightest,
        Young!Lookup, YoungP!Lookup, Young!Max, YoungP!Max, Young!MaxNodeScore,
        YoungP!MaxNodeScore, Young!Min, YoungP!Min, Young!MinNodeScore, YoungP!MinNodeScore,
        Young!NextVersion, YoungP!NextVersion, Young!NoCycle, YoungP!NoCycle,
        Young!NormalizeScore, YoungP!NormalizeScore, Young!PatchStatus, YoungP!PatchStatus,
        Young!PolicyLookupPanics, YoungP!PolicyLookupPanics, Young!Pop, YoungP!Pop,
        Young!PreFilter, YoungP!PreFilter, Young!PreScore, YoungP!PreScore,
        Young!Preference, YoungP!Preference, Young!QueueAfter, YoungP!QueueAfter,
        Young!QueueAfterFailure, YoungP!QueueAfterFailure, Young!Restart, YoungP!Restart,
        Young!ScaledValue, YoungP!ScaledValue, Young!Scheduling, YoungP!Scheduling,
        Young!Score, YoungP!Score, Young!ScoreNodes, YoungP!ScoreNodes,
        Young!SelectorMatches, YoungP!SelectorMatches, Young!SkipTo, YoungP!SkipTo,
        Young!Store, YoungP!Store, Young!StoreBinding, YoungP!StoreBinding,
        Young!TargetSize, YoungP!TargetSize, Young!UpdateAccepted, YoungP!UpdateAccepted,
        Young!UpdatePod, YoungP!UpdatePod, Young!checkHasLabels, YoungP!checkHasLabels,
        Young!filterPlacementPolicyList, YoungP!filterPlacementPolicyList,
        Young!groupNodesWithLabels, YoungP!groupNodesWithLabels,
        Young!groupPodsBasedOnNodePreference, YoungP!groupPodsBasedOnNodePreference
<1>1. ASSUME Young!Deliver PROVE YoungP!Deliver
  BY <1>1
<1>2. ASSUME Young!Scheduling PROVE YoungP!Scheduling
  BY <1>2
<1>3. Young!Restart => YoungP!Restart
  OBVIOUS
<1>4. ASSUME NEW p \in Pods, Young!CreatePod(p) PROVE YoungP!CreatePod(p)
  BY <1>4
<1>5. ASSUME NEW p \in Pods, Young!Pop(p) PROVE YoungP!Pop(p)
  BY <1>5
<1>6. ASSUME NEW p \in Pods, Young!Binding(p) PROVE YoungP!Binding(p)
  BY <1>6
<1> HIDE DEF
        Young!Deliver, YoungP!Deliver, Young!Scheduling, YoungP!Scheduling, Young!Restart, YoungP!Restart,
        Young!CreatePod, YoungP!CreatePod, Young!Pop, YoungP!Pop, Young!Binding, YoungP!Binding
<1> QED
  BY <1>1, <1>2, <1>3, <1>4, <1>5, <1>6

---------------------------------------------------------------------------
(* What one process does is a change made elsewhere to the other *)

LEMMA NewIsTold ==
    ASSUME NewInv, OldP!StoreMoves, TellNew, UNCHANGED <<created, policies>>,
           spent' \in [OldP!Disturbances -> Nat], spent'["fault"] = spent["fault"]
    PROVE  YoungP!ChangedElsewhere
<1>1. api \in [Pods -> YoungP!Object \union {Nil}] /\ created \subseteq Pods
  BY DEF NewInv, YoungP!TypeOK
<1>2. CASE api' = api
  <2>1. newWatch' = newWatch
    BY <1>2 DEF TellNew, Told
  <2> QED
    BY <1>2, <2>1, SameTerms DEF TellNew, YoungP!ChangedElsewhere
<1>3. ASSUME api' # api PROVE YoungP!ChangedElsewhere
  <2>1. PICK p \in created, o \in OldP!Object \union {Nil} :
            api' = [api EXCEPT ![p] = o] /\ OldP!Follows(o, api[p])
    BY <1>3 DEF OldP!StoreMoves
  <2>2. p \in Pods /\ api'[p] = o /\ o # api[p] /\ {q \in Pods : api'[q] # api[q]} = {p}
    BY <1>1, <1>3, <2>1
  <2>3. newWatch' = IF newCycle.at = "down" THEN newWatch ELSE Append(newWatch, [pod |-> p, obj |-> o])
    BY <2>2 DEF TellNew, Told, NewRuns
  <2>4. YoungP!Store(p, o)
    BY <2>1, <2>3 DEF YoungP!Store
  <2> QED
    BY <2>1, <2>4, SameTerms DEF TellNew, YoungP!ChangedElsewhere
<1> QED
  BY <1>2, <1>3

LEMMA OldIsTold ==
    ASSUME OldInv, YoungP!StoreMoves, TellOld, UNCHANGED <<created, policies>>,
           spent' \in [YoungP!Disturbances -> Nat], spent'["fault"] = spent["fault"]
    PROVE  OldP!ChangedElsewhere
<1>1. api \in [Pods -> OldP!Object \union {Nil}] /\ created \subseteq Pods
  BY DEF OldInv, OldP!TypeOK
<1>2. CASE api' = api
  <2>1. oldWatch' = oldWatch
    BY <1>2 DEF TellOld, Told
  <2> QED
    BY <1>2, <2>1, SameTerms DEF TellOld, OldP!ChangedElsewhere
<1>3. ASSUME api' # api PROVE OldP!ChangedElsewhere
  <2>1. PICK p \in created, o \in YoungP!Object \union {Nil} :
            api' = [api EXCEPT ![p] = o] /\ YoungP!Follows(o, api[p])
    BY <1>3 DEF YoungP!StoreMoves
  <2>2. p \in Pods /\ api'[p] = o /\ o # api[p] /\ {q \in Pods : api'[q] # api[q]} = {p}
    BY <1>1, <1>3, <2>1
  <2>3. oldWatch' = IF oldCycle.at = "down" THEN oldWatch ELSE Append(oldWatch, [pod |-> p, obj |-> o])
    BY <2>2 DEF TellOld, Told, OldRuns
  <2>4. OldP!Store(p, o)
    BY <2>1, <2>3 DEF OldP!Store
  <2> QED
    BY <2>1, <2>4, SameTerms DEF TellOld, OldP!ChangedElsewhere
<1> QED
  BY <1>2, <1>3

---------------------------------------------------------------------------
(* The steps keep what each process knows *)

LEMMA OldStep == ASSUME OldInv, [OldP!Next]_(OldP!vars) PROVE OldInv'
BY OldConstants, OldP!TypeStep, OldP!KnowledgeStep, OldP!CacheStep DEF OldInv

LEMMA NewStep == ASSUME NewInv, [YoungP!Next]_(YoungP!vars) PROVE NewInv'
BY NewConstants, YoungP!TypeStep, YoungP!KnowledgeStep, YoungP!CacheStep DEF NewInv

LEMMA OldIsNext ==
    ASSUME OldSchedules
    PROVE  OldP!Schedules /\ OldP!Next /\ TellNew /\ UNCHANGED caught
BY OldSteps DEF OldSchedules, OldP!Schedules, OldP!Next

LEMMA NewIsNext ==
    ASSUME NewSchedules
    PROVE  YoungP!Schedules /\ YoungP!Next /\ TellOld /\ UNCHANGED caught
BY NewSteps DEF NewSchedules, YoungP!Schedules, YoungP!Next

\* A pod is created for both.
LEMMA CreatedForBoth ==
    ASSUME NewInv, CreatePod
    PROVE  \E p \in Pods : p \notin created /\ OldP!CreatePod(p) /\ YoungP!CreatePod(p)
<1>1. PICK p \in Pods : Old!CreatePod(p) /\ TellNew
  BY DEF CreatePod
<1>2. OldP!CreatePod(p)
  BY <1>1, OldSteps
<1> DEFINE o == [rv |-> 1, pref |-> "", by |-> "", node |-> Nil]
<1>3. p \notin created /\ created' = created \union {p} /\ api' = [api EXCEPT ![p] = o]
      /\ UNCHANGED <<policies, spent>>
  BY <1>2 DEF OldP!CreatePod, OldP!Store
<1>4. o # Nil
  <2>1. o \in YoungP!Object
    BY DEF YoungP!Object, YoungP!Preferences
  <2> QED
    BY <2>1, NewConstants
<1> HIDE DEF o
<1>5. api[p] = Nil /\ api \in [Pods -> YoungP!Object \union {Nil}]
  BY <1>3 DEF NewInv, YoungP!TypeOK, YoungP!Knowledge, YoungP!OnlyCreated
<1>6. api'[p] = o /\ {q \in Pods : api'[q] # api[q]} = {p}
  BY <1>3, <1>4, <1>5
<1>7. newWatch' = IF newCycle.at = "down" THEN newWatch ELSE Append(newWatch, [pod |-> p, obj |-> o])
  BY <1>1, <1>6 DEF TellNew, Told, NewRuns
<1>8. YoungP!CreatePod(p)
  BY <1>1, <1>3, <1>7 DEF YoungP!CreatePod, YoungP!Store, TellNew, o
<1> QED
  BY <1>2, <1>3, <1>8

LEMMA EndsOld ==
    ASSUME OldInv, NewInv, EndOld
    PROVE  OldInv' /\ NewInv' /\ OldEnds'
<1>1. OldP!Die /\ UNCHANGED <<spent, newProcess>>
  BY OldSteps DEF EndOld
<1>2. OldInv'
  BY <1>1, OldConstants, OldP!TypeDie, OldP!DieKnowledge, OldP!ProcessKeepsCache
     DEF OldInv, OldP!TypeOK
<1>3. NewInv'
  BY <1>1, NewStep DEF OldP!Die, YoungP!vars, newProcess
<1>4. OldEnds'
  BY <1>1 DEF OldEnds, OldP!Die
<1> QED
  BY <1>2, <1>3, <1>4

LEMMA StartsNew ==
    ASSUME OldInv, NewInv, StartNew
    PROVE  OldInv' /\ NewInv' /\ YoungP!Next /\ OldRuns /\ OldRuns'
<1>1. YoungP!Restart /\ UNCHANGED oldProcess /\ OldRuns
  BY NewSteps DEF StartNew
<1>2. YoungP!Next
  BY <1>1 DEF YoungP!Next
<1>3. UNCHANGED OldP!vars
  BY <1>1 DEF YoungP!Restart, OldP!vars, oldProcess
<1> QED
  BY <1>1, <1>2, <1>3, OldStep, NewStep DEF OldRuns, oldProcess

LEMMA BothKnow == ASSUME OldInv, NewInv, [Next]_vars PROVE OldInv' /\ NewInv'
<1>1. CASE CreatePod
  <2>1. OldP!Next /\ YoungP!Next
    BY <1>1, CreatedForBoth DEF OldP!Next, OldP!Users, YoungP!Next, YoungP!Users
  <2> QED
    BY <2>1, OldStep, NewStep
<1>2. CASE OldSchedules
  <2>1. OldP!Schedules /\ OldP!Next /\ TellNew
    BY <1>2, OldIsNext
  <2>2. YoungP!ChangedElsewhere
    BY <2>1, OldConstants, OldP!SchedulesMoves, NewIsTold DEF OldInv
  <2> QED
    BY <2>1, <2>2, NewConstants, OldStep, YoungP!ElsewhereKeeps DEF NewInv
<1>3. CASE NewSchedules
  <2>1. YoungP!Schedules /\ YoungP!Next /\ TellOld
    BY <1>3, NewIsNext
  <2>2. OldP!ChangedElsewhere
    BY <2>1, NewConstants, YoungP!SchedulesMoves, OldIsTold DEF NewInv
  <2> QED
    BY <2>1, <2>2, OldConstants, NewStep, OldP!ElsewhereKeeps DEF OldInv
<1>4. CASE StartNew \/ EndOld
  BY <1>4, StartsNew, EndsOld
<1>5. CASE UNCHANGED vars
  BY <1>5, OldStep, NewStep DEF vars, oldProcess, newProcess, OldP!vars, YoungP!vars
<1> QED
  BY <1>1, <1>2, <1>3, <1>4, <1>5 DEF Next

---------------------------------------------------------------------------
(* Where the new process binds, once it is alone *)

LEMMA PlacementStays ==
    ASSUME NewInv, NewInv', [YoungP!Next]_(YoungP!vars), NEW Q, YoungP!Placement(Q)
    PROVE  YoungP!Placement(Q)'
BY NewConstants, YoungP!PlacementStep DEF NewInv

\* While the other process runs nothing is said of where the bind calls should go.
LEMMA PlacementOfNone == ASSUME NEW Q, YoungP!Placement(Q) PROVE YoungP!Placement({})
BY DEF YoungP!Placement, YoungP!BindCalls, YoungP!CycleKnows, YoungP!HonouredIn, YoungP!Cared

\* A pod that nobody has bound after a step, nobody has bound before it; and one that
\* is bound by it, neither.
LEMMA NotBoundBefore ==
    ASSUME NewInv, YoungP!StoreMoves, created' = created, NEW p \in Pods,
           \/ MayBeBound(p)'
           \/ ~YoungP!IsBound(api[p]) /\ YoungP!IsBound(api'[p])
    PROVE  MayBeBound(p)
<1>1. CASE api' = api
  BY <1>1 DEF MayBeBound
<1>2. ASSUME NEW q \in created, NEW o, api' = [api EXCEPT ![q] = o], YoungP!Follows(o, api[q])
      PROVE  MayBeBound(p)
  <2>1. api'[p] = api[p] \/ (p = q /\ api'[p] = o)
    BY <1>2 DEF NewInv, YoungP!TypeOK
  <2> QED
    BY <1>2, <2>1 DEF MayBeBound, YoungP!Follows, YoungP!IsBound
<1> QED
  BY <1>1, <1>2 DEF YoungP!StoreMoves

\* A step of the new process, or a creation: what it had to itself it has to itself.
LEMMA PlacesWhenAlone ==
    ASSUME NewInv, NewInv', NewPlaces, [YoungP!Next]_(YoungP!vars),
           UNCHANGED caught, OldRuns' <=> OldRuns,
           \A p \in Pods : MayBeBound(p)' => MayBeBound(p)
    PROVE  NewPlaces'
<1>1. PICK Q \in SUBSET Pods : YoungP!Placement(Q) /\ OnlyNew(Q)
  BY DEF NewPlaces
<1>2. YoungP!Placement(Q)'
  BY <1>1, PlacementStays
<1>3. OnlyNew(Q)'
  BY <1>1 DEF OnlyNew
<1> QED
  BY <1>2, <1>3 DEF NewPlaces

LEMMA PlacesInOverlap == ASSUME YoungP!Placement({})', OldRuns' PROVE NewPlaces'
<1>1. OnlyNew({})'
  BY DEF OnlyNew
<1> QED
  BY <1>1 DEF NewPlaces

\* The new process has just the pods to itself that it is not at work on.
LEMMA PlacesFromNowOn ==
    ASSUME OldInv, NewInv, NewPlaces, EndOld
    PROVE  NewPlaces'
<1>0. PICK Q : Q = {p \in Pods : newCycle.pod # p /\ newBinding[p] = "none" /\ MayBeBound(p)}
  OBVIOUS
<1>1. /\ UNCHANGED <<api, created, newProcess>>
      /\ caught' = {p \in Pods : newCycle.pod = p \/ newBinding[p] # "none"}
  BY OldSteps DEF EndOld, OldP!Die
<1>2. \A p \in Pods : YoungP!Cared(Q, p) => newCycle.pod # p /\ newBinding[p] = "none" /\ MayBeBound(p)
  BY <1>0 DEF YoungP!Cared
<1>3. YoungP!BindCalls({})
  BY PlacementOfNone DEF NewPlaces, YoungP!Placement
<1>4. YoungP!BindCalls(Q)
  BY <1>2, <1>3 DEF YoungP!BindCalls
<1>5. YoungP!CycleKnows(Q)
  <2>1. newCycle.pod # Nil => newCycle.pod \in Pods
    BY DEF NewInv, YoungP!TypeOK
  <2> QED
    BY <1>2, <2>1 DEF YoungP!CycleKnows
<1>6. YoungP!HonouredIn(Q)
  <2>1. \A p \in Pods : YoungP!IsBound(api[p]) => ~MayBeBound(p)
    BY DEF NewInv, YoungP!Knowledge, YoungP!OnlyCreated, YoungP!IsBound, MayBeBound
  <2> QED
    BY <1>2, <2>1 DEF YoungP!HonouredIn
<1>7. YoungP!Placement(Q)
  BY <1>4, <1>5, <1>6 DEF YoungP!Placement
<1>8. UNCHANGED YoungP!vars
  BY <1>1, OldSteps DEF EndOld, OldP!Die, YoungP!vars, newProcess
<1>9. YoungP!Placement(Q)'
  BY <1>7, <1>8, NewStep, PlacementStays
<1>10. OnlyNew(Q)'
  BY <1>0, <1>1 DEF OnlyNew, MayBeBound
<1>11. Q \in SUBSET Pods
  BY <1>0
<1> QED
  BY <1>9, <1>10, <1>11 DEF NewPlaces

LEMMA OldKeepsRunning ==
    ASSUME OldInv, OldEnds, OldSchedules
    PROVE  OldRuns /\ OldRuns'
<1>1. OldP!Schedules
  BY OldIsNext
<1>2. OldRuns
  <2> SUFFICES ASSUME oldCycle.at = "down" PROVE FALSE
    BY DEF OldRuns
  <2>1. oldWatch = << >> /\ \A p \in Pods : oldBinding[p] = "none"
    BY DEF OldInv, OldP!CInv, OldEnds, OldRuns
  <2> QED
    BY <1>1, <2>1 DEF OldP!Schedules, OldP!Deliver, OldP!Scheduling, OldP!Pop, OldP!Binding,
       OldP!Bind, OldP!FailBind, OldP!PreFilter, OldP!AnnotatePod, OldP!FilterNodes, OldP!PreScore,
       OldP!ScoreNodes, OldP!FailCycle, OldP!AfterAnnotate
<1>3. OldRuns'
  BY <1>1, <1>2, OldConstants, OldP!SchedulesMoves DEF OldInv, OldRuns
<1> QED
  BY <1>2, <1>3

LEMMA PlacesStep == ASSUME Inv, [Next]_vars PROVE NewPlaces' /\ OldEnds'
<1> USE DEF Inv
<1>0. OldInv' /\ NewInv'
  BY BothKnow
<1>1. CASE CreatePod
  <2>1. PICK p \in Pods : p \notin created /\ OldP!CreatePod(p) /\ YoungP!CreatePod(p)
    BY <1>1, CreatedForBoth
  <2>2. UNCHANGED <<caught, oldCycle, oldBinding>> /\ [YoungP!Next]_(YoungP!vars)
    BY <1>1, <2>1 DEF CreatePod, OldP!CreatePod, YoungP!Next, YoungP!Users
  <2>3. \A q \in Pods : MayBeBound(q)' => MayBeBound(q)
    BY <2>1 DEF YoungP!CreatePod, YoungP!Store, NewInv, YoungP!TypeOK, MayBeBound
  <2> QED
    BY <1>0, <2>2, <2>3, PlacesWhenAlone DEF OldRuns, OldEnds
<1>2. CASE OldSchedules
  <2>1. OldRuns /\ OldRuns'
    BY <1>2, OldKeepsRunning
  <2>2. OldP!Schedules /\ TellNew
    BY <1>2, OldIsNext
  <2>3. YoungP!ChangedElsewhere
    BY <2>2, OldConstants, OldP!SchedulesMoves, NewIsTold DEF OldInv
  <2>4. YoungP!Placement({})'
    BY <2>3, NewConstants, PlacementOfNone, YoungP!ElsewhereKeepsCalls DEF NewInv, NewPlaces
  <2> QED
    BY <2>1, <2>4, PlacesInOverlap DEF OldEnds
<1>3. CASE NewSchedules
  <2>1. YoungP!Schedules /\ YoungP!Next /\ TellOld /\ UNCHANGED caught
    BY <1>3, NewIsNext
  <2>2. YoungP!StoreMoves /\ created' = created
    BY <2>1, NewConstants, YoungP!SchedulesMoves DEF NewInv
  <2>3. UNCHANGED <<oldCycle, oldBinding>>
    BY <2>1 DEF TellOld
  <2> QED
    BY <1>0, <2>1, <2>2, <2>3, NotBoundBefore, PlacesWhenAlone DEF OldRuns, OldEnds
<1>4. CASE StartNew
  <2>1. YoungP!Next /\ OldRuns /\ OldRuns'
    BY <1>4, StartsNew
  <2>2. YoungP!Placement({})'
    BY <1>0, <2>1, PlacementOfNone, PlacementStays DEF NewPlaces
  <2> QED
    BY <2>1, <2>2, PlacesInOverlap DEF OldEnds
<1>5. CASE EndOld
  BY <1>5, EndsOld, PlacesFromNowOn
<1>6. CASE UNCHANGED vars
  <2>1. UNCHANGED <<api, created, oldProcess, newProcess, caught>> /\ UNCHANGED YoungP!vars
    BY <1>6 DEF vars, newProcess, YoungP!vars
  <2> QED
    BY <1>0, <2>1, PlacesWhenAlone DEF OldRuns, OldEnds, oldProcess, MayBeBound
<1> QED
  BY <1>1, <1>2, <1>3, <1>4, <1>5, <1>6 DEF Next

---------------------------------------------------------------------------
(* The theorems *)

LEMMA InitInv == Init => Inv
<1> SUFFICES ASSUME Init PROVE Inv
  OBVIOUS
<1>1. OldP!Init
  BY DEF Init, Old!Init, OldP!Init, Old!NoCycle, OldP!NoCycle, Old!Disturbances, OldP!Disturbances
<1>2. OldInv
  BY <1>1, OldConstants, OldP!InitIInv, OldP!CacheInitially DEF OldInv, OldP!IInv
<1>3. newCycle = YoungP!NoCycle("down")
  BY DEF Init, Old!NoCycle, YoungP!NoCycle
<1>4. spent \in [YoungP!Disturbances -> Nat]
  BY DEF Init, Old!Init, Old!Disturbances, YoungP!Disturbances
<1>5. NewInv /\ YoungP!Placement({})
  BY <1>3, <1>4, NewConstants, YoungP!NotStarted DEF Init, Old!Init, NewInv
<1>6. OldRuns
  BY DEF Init, Old!Init, Old!NoCycle, OldRuns
<1> QED
  BY <1>2, <1>5, <1>6 DEF Inv, NewPlaces, OnlyNew, OldEnds

\* The invariant is inductive: each process keeps what is proved of one alone, and the
\* new one has right bind calls for the pods it has to itself.
THEOREM Invariance == Spec => []Inv
<1>1. Inv /\ [Next]_vars => Inv'
  BY BothKnow, PlacesStep DEF Inv
<1> QED
  BY InitInv, <1>1, PTL DEF Spec

\* Whoever binds a pod first has the last word: the versioned update of the other process
\* (core.go:91-94) is refused, and so is its bind call.
THEOREM FrozenWhoeverBinds == Spec => FrozenOnceBound
<1>1. ASSUME Inv, [Next]_vars, NEW p \in Pods, Old!IsBound(api[p]), api'[p] # Nil
      PROVE  /\ api'[p].node = api[p].node
             /\ api'[p].pref = api[p].pref
             /\ api'[p].by = api[p].by
  <2>1. OldInv /\ NewInv /\ OldP!IsBound(api[p]) /\ YoungP!IsBound(api[p])
    BY <1>1, SameTerms DEF Inv
  <2>2. CASE [OldP!Next]_(OldP!vars)
    BY <1>1, <2>1, <2>2, OldConstants, OldP!BoundStays DEF OldInv
  <2>3. CASE [YoungP!Next]_(YoungP!vars)
    BY <1>1, <2>1, <2>3, NewConstants, YoungP!BoundStays DEF NewInv
  <2>4. CASE CreatePod
    BY <2>1, <2>2, <2>4, CreatedForBoth DEF OldP!Next, OldP!Users
  <2>5. CASE OldSchedules \/ NewSchedules
    BY <2>2, <2>3, <2>5, OldIsNext, NewIsNext
  <2>6. CASE StartNew
    BY <2>1, <2>3, <2>6, StartsNew
  <2>7. CASE EndOld \/ UNCHANGED vars
    BY <2>7, OldSteps DEF EndOld, OldP!Die, vars
  <2> QED
    BY <1>1, <2>4, <2>5, <2>6, <2>7 DEF Next
<1>2. Inv /\ [Next]_vars =>
          [\A p \in Pods :
              Old!IsBound(api[p]) /\ api'[p] # Nil =>
                  /\ api'[p].node = api[p].node
                  /\ api'[p].pref = api[p].pref
                  /\ api'[p].by = api[p].by]_vars
  BY <1>1
<1> QED
  BY Invariance, <1>2, PTL DEF Spec, FrozenOnceBound

\* Each of the two caches, written to in place by its own process and told of the writes of
\* the other, shows what is stored whenever nothing is under way.
THEOREM CachesAgree == Spec => []CachesAgreeAtRest
<1>1. Inv => CachesAgreeAtRest
  <2> SUFFICES ASSUME OldInv, NewInv PROVE CachesAgreeAtRest
    BY DEF Inv
  <2>1. OldP!CacheAgreesAtRest /\ YoungP!CacheAgreesAtRest
    BY OldConstants, NewConstants, OldP!AgreesAtRest, YoungP!AgreesAtRest DEF OldInv, NewInv
  <2>2. Old!CacheAgreesAtRest
    BY <2>1 DEF Old!CacheAgreesAtRest, OldP!CacheAgreesAtRest, Old!AfterAnnotate,
       OldP!AfterAnnotate, Old!OnlyAnnotationsDiffer, OldP!OnlyAnnotationsDiffer,
       Old!Cardinality, OldP!Cardinality
  <2>3. Young!CacheAgreesAtRest
    BY <2>1 DEF Young!CacheAgreesAtRest, YoungP!CacheAgreesAtRest, Young!AfterAnnotate,
       YoungP!AfterAnnotate, Young!OnlyAnnotationsDiffer, YoungP!OnlyAnnotationsDiffer,
       Young!Cardinality, YoungP!Cardinality
  <2> QED
    BY <2>2, <2>3 DEF CachesAgreeAtRest
<1> QED
  BY Invariance, <1>1, PTL

\* A pod that Strict policies govern and the new process takes up after the end of the old
\* one is bound to a node of the group its annotations name, whoever wrote those before.
THEOREM HonouredWhenAlone == Spec => HonouredAfterOverlap
<1>1. ASSUME Inv, [Next]_vars, NEW p \in Pods, ~OldRuns, p \notin caught,
             ~Old!IsBound(api[p]), Old!IsBound(api'[p]), Old!AlwaysStrict(p)
      PROVE  Honoured(p)'
  <2>1. NewInv /\ NewInv' /\ OldInv /\ OldEnds /\ ~YoungP!IsBound(api[p]) /\ YoungP!IsBound(api'[p])
    BY <1>1, SameTerms, BothKnow DEF Inv
  <2>2. PICK Q \in SUBSET Pods : YoungP!Placement(Q) /\ OnlyNew(Q)
    BY <1>1 DEF Inv, NewPlaces
  <2>3. [YoungP!Next]_(YoungP!vars) /\ MayBeBound(p)
    <3>1. CASE CreatePod
      <4>1. PICK q \in Pods : q \notin created /\ YoungP!CreatePod(q)
        BY <2>1, <3>1, CreatedForBoth
      <4>2. p = q
        BY <2>1, <4>1 DEF YoungP!CreatePod, YoungP!Store, NewInv, YoungP!TypeOK
      <4> QED
        BY <4>1, <4>2 DEF MayBeBound, YoungP!Next, YoungP!Users
    <3>2. CASE NewSchedules
      <4>1. YoungP!Schedules /\ YoungP!Next
        BY <3>2, NewIsNext
      <4>2. YoungP!StoreMoves /\ created' = created
        BY <2>1, <4>1, NewConstants, YoungP!SchedulesMoves DEF NewInv
      <4> QED
        BY <2>1, <4>1, <4>2, NotBoundBefore
    <3>3. ~OldSchedules /\ ~StartNew /\ ~EndOld
      BY <1>1, <2>1, OldKeepsRunning DEF StartNew, EndOld
    <3>4. ~UNCHANGED vars
      BY <2>1 DEF vars
    <3> QED
      BY <1>1, <3>1, <3>2, <3>3, <3>4 DEF Next
  <2>4. YoungP!Placement(Q)' /\ p \in Q
    BY <1>1, <2>1, <2>2, <2>3, PlacementStays DEF OnlyNew
  <2>5. YoungP!AlwaysStrict(p)
    BY <1>1 DEF Old!AlwaysStrict, YoungP!AlwaysStrict, Old!GetPlacementPolicyForPod,
       YoungP!GetPlacementPolicyForPod, Old!filterPlacementPolicyList, YoungP!filterPlacementPolicyList,
       Old!Lightest, YoungP!Lightest, Old!HasMatchingLabels, YoungP!HasMatchingLabels,
       Old!Lookup, YoungP!Lookup, Old!Cardinality, YoungP!Cardinality
  <2>6. \E pp \in YoungP!Policies :
            pp.name = api'[p].by /\ YoungP!Agrees(pp, NodeLabels[api'[p].node], api'[p].pref)
    BY <2>1, <2>4, <2>5 DEF YoungP!Placement, YoungP!HonouredIn, YoungP!Cared, YoungP!AgreesWithStored
  <2> QED
    BY <2>6 DEF Honoured, Old!Policies, YoungP!Policies, Agrees, YoungP!Agrees, checkHasLabels,
       YoungP!checkHasLabels, Lookup, YoungP!Lookup, Cardinality, YoungP!Cardinality
<1>2. Inv /\ [Next]_vars =>
          [\A p \in Pods :
              /\ ~OldRuns /\ p \notin caught
              /\ ~Old!IsBound(api[p]) /\ Old!IsBound(api'[p])
              /\ Old!AlwaysStrict(p)
              => Honoured(p)']_vars
  BY <1>1
<1> QED
  BY Invariance, <1>2, PTL DEF Spec, HonouredAfterOverlap
=============================================================================
