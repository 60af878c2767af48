--------------------------- MODULE PolicyInformer ----------------------------
(***************************************************************************)
(* The generated client of PlacementPolicies and the informer built on it. *)
(*                                                                         *)
(* Users change policies through the API server.  The informer's reflector *)
(* lists them and then watches from the version it listed; it requests     *)
(* both through the generated client, within the namespace and the label   *)
(* selector its factory was made with.  What it receives goes through a    *)
(* queue into the indexer that the lister reads.                           *)
(*                                                                         *)
(* The API server, the reflector and the queue (client-go's DeltaFIFO) are *)
(* not part of this repository; their actions are marked "external".       *)
(***************************************************************************)
EXTENDS Naturals, Sequences, FiniteSets

CONSTANTS
    Namespaces, Names,
    Labels,         \* what a label selector tells apart
    All,            \* metav1.NamespaceAll
    Everything,     \* no label selector: tweakListOptions is nil
    Nil,            \* no policy
    MaxChanges      \* how often users change a policy

Keys == [namespace : Namespaces, name : Names]

\* A stored policy: its resource version and its labels.
Object == [rv : 1..MaxChanges, label : Labels]

ASSUME PolicyInformerAssumption ==
    /\ IsFiniteSet(Keys)
    /\ MaxChanges \in Nat
    /\ All \notin Namespaces /\ Everything \notin Labels
    /\ Nil \notin Object /\ Nil \notin Nat

VARIABLES
    log,            \* the API server: every change of a policy, in order
    factory,        \* the namespace and the selector of the informer factory
    reflector,      \* what the reflector does: nothing yet, list, or watch
    last,           \* the last resource version the reflector has seen
    stream,         \* the watch that is open, or Nil
    queue,          \* the keys with a change the indexer does not have yet
    pending,        \* pending[k]: what the indexer will have for a queued k
    toPop,          \* how many keys of the first list are still queued
    base,           \* the version of the first list, Nil before it
    indexer         \* indexer[k]: the policy the lister shows, or Nil

server == <<log, factory>>
fifo == <<queue, pending, toPop, base>>
informer == <<reflector, last, stream, fifo, indexer>>
informerVars == <<server, informer>>

NoPolicies == [k \in Keys |-> Nil]

---------------------------------------------------------------------------
(* The factory's options *)

NewSharedInformerFactory == [namespace |-> All, tweakListOptions |-> Everything]

WithNamespace(f, ns) == [f EXCEPT !.namespace = ns]

WithTweakListOptions(f, selector) == [f EXCEPT !.tweakListOptions = selector]

NewFilteredSharedInformerFactory(ns, selector) ==
    WithTweakListOptions(WithNamespace(NewSharedInformerFactory, ns), selector)

Factories ==
    {NewFilteredSharedInformerFactory(ns, selector) :
        ns \in Namespaces \union {All}, selector \in Labels \union {Everything}}

---------------------------------------------------------------------------
(* The API server (external) *)

\* The policy stored under k at a version, that is after so many changes.
At(k, version) ==
    LET changes == {i \in 1..version : log[i].key = k}
    IN  IF changes = {} THEN Nil
        ELSE log[CHOOSE i \in changes : \A j \in changes : j <= i].obj

Now == Len(log)

\* What a request for a namespace and a selector shows of k at a version.
Seen(ns, selector, k, version) ==
    LET o == At(k, version)
    IN  IF /\ ns \in {All, k.namespace}
           /\ o # Nil
           /\ selector \in {Everything, o.label}
        THEN o ELSE Nil

Change(k, o) ==
    /\ Now < MaxChanges
    /\ log' = Append(log, [key |-> k, obj |-> o])
    /\ UNCHANGED <<factory, informer>>

---------------------------------------------------------------------------
(* The generated client *)

Create(k, label) ==
    /\ At(k, Now) = Nil
    /\ Change(k, [rv |-> Now + 1, label |-> label])

\* Update and Patch change the policy if they go through; UpdateStatus changes
\* nothing, as the status has no fields.
Update(k, label) ==
    /\ At(k, Now) # Nil
    /\ Change(k, [rv |-> Now + 1, label |-> label])

\* DeleteCollection is a Delete for each of its policies.
Delete(k) ==
    /\ At(k, Now) # Nil
    /\ Change(k, Nil)

\* The replies to a list request: the policies at some version that is not
\* older than the one asked for.
List(ns, options) ==
    {[rv |-> v, items |-> [k \in Keys |-> Seen(ns, options.selector, k, v)]] :
        v \in options.rv..Now}

\* A stream of the changes after a version.
Watch(ns, options) == [namespace |-> ns, selector |-> options.selector, rv |-> options.rv]

---------------------------------------------------------------------------
(* The informer's requests *)

\* Mutant of PlacementPolicies: the namespace is not handed on.
PlacementPoliciesOfAll == [namespace |-> All, tweakListOptions |-> factory.tweakListOptions]

\* The factory's options reach the informer through its group and version.
PlacementPolicies ==
    [namespace |-> factory.namespace, tweakListOptions |-> factory.tweakListOptions]

Tweaked(options) ==
    IF PlacementPolicies.tweakListOptions = Everything THEN options
    ELSE [options EXCEPT !.selector = PlacementPolicies.tweakListOptions]

ListFunc(options) == List(PlacementPolicies.namespace, Tweaked(options))

\* Mutants of WatchFunc: the options are not tweaked; the version is lost, and
\* the watch starts with the next change, or with the first one.
WatchFuncUntweaked(options) == Watch(PlacementPolicies.namespace, options)
WatchFuncFromNow(options) ==
    Watch(PlacementPolicies.namespace, Tweaked([options EXCEPT !.rv = Now]))
WatchFuncFromStart(options) ==
    Watch(PlacementPolicies.namespace, Tweaked([options EXCEPT !.rv = 0]))

WatchFunc(options) == Watch(PlacementPolicies.namespace, Tweaked(options))

---------------------------------------------------------------------------
(* The reflector (external) *)

\* The request options the reflector starts from.
Options == [selector |-> Everything, rv |-> last]

\* The orders in which the keys of a list may be queued.
Orders(S) == {q \in [1..Cardinality(S) -> S] : \A i, j \in DOMAIN q : q[i] = q[j] => i = j}

\* A list replaces what the indexer has.  The first may be of any age; a later one
\* is from a server that has forgotten the version last seen, so it is newer.  A
\* list that fails is tried again and changes nothing.
ListSucceeds ==
    /\ reflector = "list"
    /\ \E reply \in {r \in ListFunc(Options) : base = Nil \/ r.rv > last} :
          LET keys == {k \in Keys : reply.items[k] # Nil \/ indexer[k] # Nil}
          IN  /\ queue' \in Orders(keys)
              /\ pending' = reply.items
              /\ last' = reply.rv
              /\ IF base = Nil THEN base' = reply.rv /\ toPop' = Cardinality(keys)
                 ELSE UNCHANGED <<base, toPop>>
    /\ reflector' = "watch"
    /\ UNCHANGED <<server, stream, indexer>>

OpenWatch ==
    /\ reflector = "watch"
    /\ stream = Nil
    /\ stream' = WatchFunc(Options)
    /\ UNCHANGED <<server, reflector, last, fifo, indexer>>

Streamed(k, version) == Seen(stream.namespace, stream.selector, k, version)

\* The changes the open stream has still to tell of.  One that puts a policy out
\* of the selector's reach is told as a deletion.
Events == {i \in stream.rv + 1..Now : Streamed(log[i].key, i) # Streamed(log[i].key, i - 1)}

\* A key that is queued already keeps its place.
ReceiveEvent ==
    /\ stream # Nil
    /\ \E i \in Events :
          LET k == log[i].key
          IN  /\ \A j \in Events : i <= j
              /\ stream' = [stream EXCEPT !.rv = i]
              /\ last' = i
              /\ pending' = [pending EXCEPT ![k] = Streamed(k, i)]
              /\ queue' = IF \E n \in DOMAIN queue : queue[n] = k THEN queue ELSE Append(queue, k)
    /\ UNCHANGED <<server, reflector, toPop, base, indexer>>

\* A watch is ended by its timeout or by the network, and opened again.
WatchEnds ==
    /\ stream # Nil
    /\ stream' = Nil
    /\ UNCHANGED <<server, reflector, last, fifo, indexer>>

\* The API server has forgotten the version to watch from.  It does so minutes
\* after it was current: the queue is empty by then.
WatchExpires ==
    /\ reflector = "watch"
    /\ stream = Nil
    /\ queue = << >>
    /\ last < Now
    /\ reflector' = "list"
    /\ UNCHANGED <<server, last, stream, fifo, indexer>>

Pop ==
    /\ queue # << >>
    /\ indexer' = [indexer EXCEPT ![Head(queue)] = pending[Head(queue)]]
    /\ queue' = Tail(queue)
    /\ toPop' = IF toPop = 0 THEN 0 ELSE toPop - 1
    /\ UNCHANGED <<server, reflector, last, stream, pending, base>>

HasSynced == base # Nil /\ toPop = 0

Reflector == ListSucceeds \/ OpenWatch \/ ReceiveEvent

---------------------------------------------------------------------------
(* The lister *)

\* The policies of a namespace.
ListerList(ns) == {k \in Keys : k.namespace = ns /\ indexer[k] # Nil}

---------------------------------------------------------------------------
(* The specification *)

Users ==
    \E k \in Keys :
        \/ \E label \in Labels : Create(k, label) \/ Update(k, label)
        \/ Delete(k)

\* The informer is started.
Run ==
    /\ reflector = "off"
    /\ reflector' = "list"
    /\ UNCHANGED <<server, last, stream, fifo, indexer>>

InformerStep == Reflector \/ WatchEnds \/ WatchExpires \/ Pop

InformerInit ==
    /\ reflector = "off"
    /\ last = 0
    /\ stream = Nil
    /\ queue = << >>
    /\ pending = NoPolicies
    /\ toPop = 0
    /\ base = Nil
    /\ indexer = NoPolicies

Init ==
    /\ log = << >>
    /\ factory \in Factories
    /\ InformerInit

Next == Users \/ Run \/ InformerStep

Spec == Init /\ [][Next]_informerVars

\* Lists succeed in the end, a watch is open for long enough to be told of a
\* change, and the queue is worked off.
InformerFairness ==
    /\ WF_informerVars(ListSucceeds)
    /\ WF_informerVars(OpenWatch)
    /\ SF_informerVars(ReceiveEvent)
    /\ WF_informerVars(Pop)

FairSpec == Spec /\ InformerFairness /\ WF_informerVars(Run)

---------------------------------------------------------------------------
(* Properties *)

\* What the lister should show of k at a version.
Scoped(k, version) == Seen(factory.namespace, factory.tweakListOptions, k, version)

\* The types of the variables; the queue has no key twice, and nothing is known
\* that has not happened.
TypeOK ==
    /\ log \in Seq([key : Keys, obj : Object \union {Nil}])
    /\ factory \in Factories
    /\ reflector \in {"off", "list", "watch"}
    /\ last \in 0..Now
    /\ stream \in [namespace : Namespaces \union {All}, selector : Labels \union {Everything},
                   rv : 0..Now] \union {Nil}
    /\ queue \in Seq(Keys)
    /\ \A i, j \in DOMAIN queue : queue[i] = queue[j] => i = j
    /\ pending \in [Keys -> Object \union {Nil}]
    /\ toPop \in 0..Len(queue)
    /\ base \in 0..last \union {Nil}
    /\ indexer \in [Keys -> Object \union {Nil}]
    /\ stream # Nil => reflector = "watch"
    /\ reflector = "list" => queue = << >>

\* A factory for a namespace and a selector never shows a policy of another
\* namespace, nor one whose labels do not match, also when a policy is labelled
\* away while it is watched, or while the watch is down.
ViewInScope ==
    \A k \in Keys : indexer[k] # Nil =>
        /\ factory.namespace \in {All, k.namespace}
        /\ factory.tweakListOptions \in {Everything, indexer[k].label}

\* Once HasSynced says so (New waits for it) the lister shows of every policy what
\* the API server had at the first list or later: none is missing because its
\* page, its key or its event has yet to come.
SyncedIsComplete ==
    HasSynced => \A k \in Keys : \E v \in base..Now : indexer[k] = Scoped(k, v)

\* The lister never goes back to an earlier version of a policy, whatever watches
\* end and whatever is listed again.
NeverBack ==
    [][\A k \in Keys :
          indexer[k] # Nil /\ indexer'[k] # Nil => indexer[k].rv <= indexer'[k].rv]_informerVars

\* When users leave the policies alone, the lister shows them in the end: no
\* change falls between a list and the watch that follows it, or between two
\* watches.
ViewFollows == <>[](\A k \in Keys : indexer[k] = Scoped(k, Now))
=============================================================================
