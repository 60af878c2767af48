---------------------------- MODULE PluginStartup ----------------------------
(***************************************************************************)
(* How the plugin gets its policies: the scheduler's start calls New, which *)
(* makes the clients, the informer factory and the manager, starts the     *)
(* informers and waits until the policies are cached; only then are pods   *)
(* scheduled.  The process may die at any point and is started again.      *)
(*                                                                         *)
(* The factory is used through what it promises (SharedInformers, which    *)
(* InformerFactory implements), the policies' informer is PolicyInformer's.*)
(***************************************************************************)
EXTENDS PolicyInformer

CONSTANTS
    PolicyType,     \* the type &PlacementPolicy{} the informer is asked for by
    Informers,      \* the informers newFunc may make
    MaxCrashes      \* how often the process may die

ASSUME PluginAssumption == Nil \notin Informers /\ MaxCrashes \in Nat

VARIABLES
    at,             \* where New is; "ready" once it has returned
    informers,      \* the factory: the informer of a type, or Nil
    runs,           \* the factory: how many goroutines run an informer
    ppLister,       \* the informer whose indexer the manager's lister reads
    awaited,        \* the informer whose HasSynced New waits for
    crashes         \* how often the process has died

plugin == <<at, informers, runs, ppLister, awaited, crashes>>
vars == <<informerVars, plugin>>

Factory == INSTANCE SharedInformers WITH Types <- {PolicyType}

PluginInit ==
    /\ Factory!Init
    /\ ppLister = Nil
    /\ awaited = Nil

StartupInit ==
    /\ log = << >>
    /\ factory = NewSharedInformerFactory
    /\ InformerInit
    /\ at = "down"
    /\ crashes = 0
    /\ PluginInit

\* InformerFor, as Informer and Lister call it: afterwards the type has an
\* informer.
InformerFor ==
    \/ informers[PolicyType] # Nil /\ UNCHANGED <<informers, runs>>
    \/ \E i \in Informers : Factory!Register(PolicyType, i)

---------------------------------------------------------------------------
(* New *)

\* The scheduler is started and calls New, which makes the clients and the
\* factory.
main ==
    /\ at = "down"
    /\ at' = "manager"
    /\ UNCHANGED <<informerVars, informers, runs, ppLister, awaited, crashes>>

\* Mutants of NewPlacementPolicyManager: the lister is not asked for yet; its
\* informer is not the factory's.
ManagerWithoutLister ==
    /\ at = "manager"
    /\ at' = "start"
    /\ UNCHANGED <<informerVars, informers, runs, ppLister, awaited, crashes>>

ManagerWithOwnInformer ==
    /\ at = "manager"
    /\ InformerFor
    /\ ppLister' \in Informers \ {informers'[PolicyType]}
    /\ at' = "start"
    /\ UNCHANGED <<informerVars, awaited, crashes>>

\* The manager asks for the lister, which registers the informer.
NewPlacementPolicyManager ==
    /\ at = "manager"
    /\ InformerFor
    /\ ppLister' = informers'[PolicyType]
    /\ at' = "start"
    /\ UNCHANGED <<informerVars, awaited, crashes>>

\* The factory's Start runs what is registered, and only that.
Start ==
    /\ at = "start"
    /\ IF informers[PolicyType] # Nil THEN Factory!Run(PolicyType) /\ Run
       ELSE UNCHANGED <<informerVars, informers, runs>>
    /\ at' = "informer"
    /\ UNCHANGED <<ppLister, awaited, crashes>>

\* New asks for the informer once more, to wait for it.
AskHasSynced ==
    /\ at = "informer"
    /\ InformerFor
    /\ awaited' = informers'[PolicyType]
    /\ at' = "wait"
    /\ UNCHANGED <<informerVars, ppLister, crashes>>

\* Whether an informer has synced: one that is not run never does.
Synced(i) == runs[i] > 0 /\ HasSynced

\* Mutant of WaitForCacheSync: New does not wait.
ReturnAtOnce ==
    /\ at = "wait"
    /\ at' = "ready"
    /\ UNCHANGED <<informerVars, informers, runs, ppLister, awaited, crashes>>

\* The channel given to WaitForCacheSync is nil and never closed, so the wait
\* ends in one way only and the error that New would return is never made.
WaitForCacheSync ==
    /\ at = "wait"
    /\ Synced(awaited)
    /\ at' = "ready"
    /\ UNCHANGED <<informerVars, informers, runs, ppLister, awaited, crashes>>

New == NewPlacementPolicyManager \/ Start \/ AskHasSynced \/ WaitForCacheSync

---------------------------------------------------------------------------
(* The process (external) *)

\* Everything but the API server's state is lost.
Crash ==
    /\ at # "down"
    /\ crashes < MaxCrashes
    /\ crashes' = crashes + 1
    /\ at' = "down"
    /\ informers' = [t \in {PolicyType} |-> Nil]
    /\ runs' = [i \in Informers |-> 0]
    /\ ppLister' = Nil
    /\ awaited' = Nil
    /\ reflector' = "off"
    /\ last' = 0
    /\ stream' = Nil
    /\ queue' = << >>
    /\ pending' = NoPolicies
    /\ toPop' = 0
    /\ base' = Nil
    /\ indexer' = NoPolicies
    /\ UNCHANGED server

---------------------------------------------------------------------------
(* The specification *)

StartupNext ==
    \/ main
    \/ New
    \/ (Users \/ InformerStep) /\ UNCHANGED plugin
    \/ Crash

StartupSpec == StartupInit /\ [][StartupNext]_vars

\* A dead process is started again, and New runs until it waits.
StartupFairness == WF_vars(main) /\ WF_vars(New)

\* The API server answers a list in the end.
ServerFairness ==
    /\ WF_vars(ListSucceeds /\ UNCHANGED plugin)
    /\ WF_vars(OpenWatch /\ UNCHANGED plugin)
    /\ SF_vars(ReceiveEvent /\ UNCHANGED plugin)

QueueFairness == WF_vars(Pop /\ UNCHANGED plugin)

ServedSpec == StartupSpec /\ StartupFairness /\ QueueFairness /\ ServerFairness

---------------------------------------------------------------------------
(* Properties *)

\* The types of the variables of New and the factory, and what is set when.
StartupTypeOK ==
    /\ at \in {"down", "manager", "start", "informer", "wait", "ready"}
    /\ informers \in [{PolicyType} -> Informers \union {Nil}]
    /\ runs \in [Informers -> 0..1]
    /\ ppLister \in Informers \union {Nil}
    /\ awaited \in Informers \union {Nil}
    /\ crashes \in 0..MaxCrashes
    /\ at \in {"wait", "ready"} => awaited # Nil
    /\ at \in {"start", "informer", "wait", "ready"} => ppLister # Nil

\* What the manager's lister shows of k: an informer that is not run has no
\* policies.
Shown(k) ==
    IF ppLister # Nil /\ runs[ppLister] > 0 /\ k \in ListerList(k.namespace)
    THEN indexer[k] ELSE Nil

\* When pods are scheduled the manager sees every policy as it was at the first
\* list of this process or later: no pod that a policy governs is scheduled as if
\* it had none because the policies are still being loaded, neither after the
\* first start nor after a restart.
NoPodBeforePolicies ==
    at = "ready" => \A k \in Keys : \E v \in 0..Now :
        base # Nil /\ base <= v /\ Shown(k) = Scoped(k, v)

\* New returns, and the scheduler starts, whenever the API server answers.
EventuallyReady == <>[](at = "ready")

\* What users have made of a policy reaches the scheduling cycles in the end,
\* through restarts, too.
PoliciesReachPlugin == <>[](\A k \in Keys : Shown(k) = Scoped(k, Now))
=============================================================================
