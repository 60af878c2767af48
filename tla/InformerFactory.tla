--------------------------- MODULE InformerFactory ---------------------------
(***************************************************************************)
(* The shared informer factory of the generated policy client.             *)
(*                                                                         *)
(* Any number of goroutines call InformerFor (whoever asks for an informer *)
(* or for its lister does), Start and WaitForCacheSync.  One mutex guards  *)
(* the two maps: the informers by type, and the types that were started.   *)
(* The mutex is not held while a caller waits for caches to be synced.     *)
(* Lock, the steps in the critical section and Unlock are actions of their *)
(* own, so calls interleave wherever the mutex lets them.                  *)
(***************************************************************************)
EXTENDS Naturals, FiniteSets

CONSTANTS
    Callers,        \* the goroutines that use the factory
    Types,          \* the object types; the plugin asks for one
    Informers,      \* the informers newFunc may make, no fewer than there are types
    Nil             \* nil: no informer, no holder of the mutex

ASSUME NilAssumption == Nil \notin Callers /\ Nil \notin Types /\ Nil \notin Informers

VARIABLES
    lock,           \* f.lock: the caller that holds it, or Nil
    informers,      \* f.informers: the informer of a type, or Nil
    started,        \* f.startedInformers: the types whose informer was started
    made,           \* the informers newFunc has made
    runs,           \* how many goroutines run an informer
    synced,         \* the informers whose HasSynced holds
    stopped,        \* whether stopCh is closed
    op,             \* op[c]: the call c is in, or the last one it was in
    at,             \* at[c]: where c is in it
    asked,          \* asked[c]: the type at hand in that call
    mine,           \* mine[c]: the informer newFunc returned to that call
    todo,           \* todo[c]: the informers that call still waits for
    got,            \* got[c][t]: the informer InformerFor gave c for type t
    owed            \* owed[c]: the informers that were registered at c's last Start

data == <<informers, started, made, runs>>
outside == <<synced, stopped>>
frame == <<op, asked, mine, todo>>
results == <<got, owed>>
vars == <<lock, data, outside, frame, at, results>>

Ops == {"none", "InformerFor", "Start", "WaitForCacheSync"}
Critical == {"body", "insert", "mark", "unlock"}
Places == {"idle", "lock", "waiting"} \union Critical

\* A factory has no informers, and nobody has called it.
Init ==
    /\ lock = Nil
    /\ informers = [t \in Types |-> Nil]
    /\ started = {}
    /\ made = {}
    /\ runs = [i \in Informers |-> 0]
    /\ synced = {}
    /\ stopped = FALSE
    /\ op = [c \in Callers |-> "none"]
    /\ at = [c \in Callers |-> "idle"]
    /\ asked = [c \in Callers |-> Nil]
    /\ mine = [c \in Callers |-> Nil]
    /\ todo = [c \in Callers |-> {}]
    /\ got = [c \in Callers |-> [t \in Types |-> Nil]]
    /\ owed = [c \in Callers |-> {}]

In(c, o, p) == op[c] = o /\ at[c] = p

\* c goes on to another place of its call.
GoTo(c, p) == at' = [at EXCEPT ![c] = p]

Registered == {t \in Types : informers[t] # Nil}

---------------------------------------------------------------------------
(* Calls, and the mutex *)

\* c calls InformerFor for a type, Start, or WaitForCacheSync.
Call(c, o, t) ==
    /\ at[c] = "idle"
    /\ op' = [op EXCEPT ![c] = o]
    /\ asked' = [asked EXCEPT ![c] = t]
    /\ GoTo(c, "lock")
    /\ UNCHANGED <<lock, data, outside, mine, todo, results>>

\* Mutant of Lock: the mutex is not taken.
LockNothing(c) ==
    /\ at[c] = "lock"
    /\ GoTo(c, "body")
    /\ UNCHANGED <<lock, data, outside, frame, results>>

Lock(c) ==
    /\ at[c] = "lock"
    /\ lock = Nil
    /\ lock' = c
    /\ GoTo(c, "body")
    /\ UNCHANGED <<data, outside, frame, results>>

\* What is left of a call without the mutex: only WaitForCacheSync goes on.
LeaveCritical(c) ==
    /\ GoTo(c, IF op[c] = "WaitForCacheSync" THEN "waiting" ELSE "idle")
    /\ asked' = [asked EXCEPT ![c] = Nil]
    /\ mine' = [mine EXCEPT ![c] = Nil]

\* Mutant of Unlock: WaitForCacheSync keeps the mutex until it has waited.
UnlockAfterWaiting(c) ==
    /\ at[c] = "unlock"
    /\ stopped \/ todo[c] \subseteq synced
    /\ lock' = Nil
    /\ LeaveCritical(c)
    /\ UNCHANGED <<data, outside, op, todo, results>>

\* The deferred unlock.
Unlock(c) ==
    /\ at[c] = "unlock"
    /\ lock' = Nil
    /\ LeaveCritical(c)
    /\ UNCHANGED <<data, outside, op, todo, results>>

---------------------------------------------------------------------------
(* InformerFor *)

\* The type has an informer: the caller gets it.
ReturnExisting(c) ==
    /\ In(c, "InformerFor", "body")
    /\ informers[asked[c]] # Nil
    /\ got' = [got EXCEPT ![c][asked[c]] = informers[asked[c]]]
    /\ GoTo(c, "unlock")
    /\ UNCHANGED <<lock, data, outside, frame, owed>>

\* It has none: newFunc makes one...
NewInformer(c) ==
    /\ In(c, "InformerFor", "body")
    /\ informers[asked[c]] = Nil
    /\ \E i \in Informers \ made :
          /\ made' = made \union {i}
          /\ mine' = [mine EXCEPT ![c] = i]
    /\ GoTo(c, "insert")
    /\ UNCHANGED <<lock, informers, started, runs, outside, op, asked, todo, results>>

\* ...which is put into the map and returned.
InsertInformer(c) ==
    /\ In(c, "InformerFor", "insert")
    /\ informers' = [informers EXCEPT ![asked[c]] = mine[c]]
    /\ got' = [got EXCEPT ![c][asked[c]] = mine[c]]
    /\ GoTo(c, "unlock")
    /\ UNCHANGED <<lock, started, made, runs, outside, frame, owed>>

---------------------------------------------------------------------------
(* Start *)

\* The types that Start still has to visit.
ToStart == Registered \ started

\* One informer that was not started: go informer.Run...
RunInformer(c) ==
    /\ In(c, "Start", "body")
    /\ \E t \in ToStart :
          /\ runs' = [runs EXCEPT ![informers[t]] = @ + 1]
          /\ asked' = [asked EXCEPT ![c] = t]
    /\ GoTo(c, "mark")
    /\ UNCHANGED <<lock, informers, started, made, outside, op, mine, todo, results>>

\* Mutant of MarkStarted: the type is not marked.
MarkNothing(c) ==
    /\ In(c, "Start", "mark")
    /\ GoTo(c, "body")
    /\ UNCHANGED <<lock, data, outside, frame, results>>

\* ...and its type is marked.
MarkStarted(c) ==
    /\ In(c, "Start", "mark")
    /\ started' = started \union {asked[c]}
    /\ GoTo(c, "body")
    /\ UNCHANGED <<lock, informers, made, runs, outside, frame, results>>

\* None is left.
EndStart(c) ==
    /\ In(c, "Start", "body")
    /\ ToStart = {}
    /\ owed' = [owed EXCEPT ![c] = {informers[t] : t \in Registered}]
    /\ GoTo(c, "unlock")
    /\ UNCHANGED <<lock, data, outside, frame, got>>

---------------------------------------------------------------------------
(* WaitForCacheSync *)

\* Mutant of CopyStarted: informers that were not started are waited for, too.
CopyRegistered(c) ==
    /\ In(c, "WaitForCacheSync", "body")
    /\ todo' = [todo EXCEPT ![c] = {informers[t] : t \in Registered}]
    /\ GoTo(c, "unlock")
    /\ UNCHANGED <<lock, data, outside, op, asked, mine, results>>

\* The informers of the started types are copied under the mutex.
CopyStarted(c) ==
    /\ In(c, "WaitForCacheSync", "body")
    /\ todo' = [todo EXCEPT ![c] = {informers[t] : t \in Registered \intersect started}]
    /\ GoTo(c, "unlock")
    /\ UNCHANGED <<lock, data, outside, op, asked, mine, results>>

\* Mutant of WaitForOne: the first cache that is synced ends the wait.
WaitForAny(c) ==
    /\ at[c] = "waiting"
    /\ \E i \in todo[c] : (i \in synced \/ stopped) /\ todo' = [todo EXCEPT ![c] = {}]
    /\ UNCHANGED <<lock, data, outside, op, at, asked, mine, results>>

\* One after the other is waited for, until it is synced or stopCh is closed.
WaitForOne(c) ==
    /\ at[c] = "waiting"
    /\ \E i \in todo[c] : (i \in synced \/ stopped) /\ todo' = [todo EXCEPT ![c] = @ \ {i}]
    /\ UNCHANGED <<lock, data, outside, op, at, asked, mine, results>>

EndWait(c) ==
    /\ at[c] = "waiting"
    /\ todo[c] = {}
    /\ GoTo(c, "idle")
    /\ UNCHANGED <<lock, data, outside, frame, results>>

---------------------------------------------------------------------------
(* The informers (external) *)

\* The first list of a running informer is in its store.
Sync(i) ==
    /\ runs[i] > 0
    /\ ~stopped
    /\ synced' = synced \union {i}
    /\ UNCHANGED <<lock, data, stopped, frame, at, results>>

Stop ==
    /\ ~stopped
    /\ stopped' = TRUE
    /\ UNCHANGED <<lock, data, synced, frame, at, results>>

---------------------------------------------------------------------------
(* The specification *)

Calls(c) ==
    \/ \E t \in Types : Call(c, "InformerFor", t)
    \/ Call(c, "Start", Nil)
    \/ Call(c, "WaitForCacheSync", Nil)

\* The steps of a call once it has the mutex, and while it waits.
Step(c) ==
    \/ ReturnExisting(c) \/ NewInformer(c) \/ InsertInformer(c)
    \/ RunInformer(c) \/ MarkStarted(c) \/ EndStart(c)
    \/ CopyStarted(c) \/ WaitForOne(c) \/ EndWait(c)
    \/ Unlock(c)

Next ==
    \/ \E c \in Callers : Calls(c) \/ Lock(c) \/ Step(c)
    \/ \E i \in Informers : Sync(i)
    \/ Stop

Spec == Init /\ [][Next]_vars

\* A goroutine in a call keeps running, and sync.Mutex starves nobody.  Nobody
\* has to call, no list has to succeed, and stopCh may stay open.
Fairness == \A c \in Callers : WF_vars(Step(c)) /\ SF_vars(Lock(c))

FairSpec == Spec /\ Fairness

---------------------------------------------------------------------------
(* Properties *)

\* The types of the variables, and who holds the mutex.
TypeOK ==
    /\ lock \in Callers \union {Nil}
    /\ informers \in [Types -> Informers \union {Nil}]
    /\ started \in SUBSET Types
    /\ made \in SUBSET Informers
    /\ runs \in [Informers -> Nat]
    /\ synced \in SUBSET Informers
    /\ stopped \in BOOLEAN
    /\ op \in [Callers -> Ops]
    /\ at \in [Callers -> Places]
    /\ asked \in [Callers -> Types \union {Nil}]
    /\ mine \in [Callers -> Informers \union {Nil}]
    /\ todo \in [Callers -> SUBSET Informers]
    /\ got \in [Callers -> [Types -> Informers \union {Nil}]]
    /\ owed \in [Callers -> SUBSET Informers]
    /\ \A c \in Callers : at[c] \in Critical <=> lock = c

\* Two callers that asked for the same type, at the same time or not, hold the
\* same informer (InformerFor returns what the map has): the lister that one
\* decides by reads the store whose HasSynced the other waited for.
SameInformer ==
    \A c, d \in Callers, t \in Types :
        got[c][t] # Nil /\ got[d][t] # Nil => got[c][t] = got[d][t]

\* Start may be called several times and at the same time (its comment on
\* startedInformers): there is one informer for a type, and only a registered
\* informer is run, once.
Promise == INSTANCE SharedInformers

InformersShared == Promise!Spec

\* When WaitForCacheSync returns and stopCh is open, every informer that was
\* registered at the caller's last Start is synced, whoever of several
\* concurrent callers of Start has run it.
WaitCoversStart ==
    \A c \in Callers :
        In(c, "WaitForCacheSync", "idle") /\ ~stopped => owed[c] \subseteq synced

\* InformerFor and Start return whatever happens to the caches: a goroutine that
\* waits for a cache that is never synced does not hold the mutex.
CallsReturn ==
    \A c \in Callers :
        at[c] # "idle" /\ op[c] \in {"InformerFor", "Start"} ~> at[c] = "idle"

\* WaitForCacheSync returns if every informer that runs is synced in the end:
\* it does not wait for informers that were registered but never started.
WaitReturns ==
    <>[](\A i \in Informers : runs[i] > 0 => i \in synced)
        => \A c \in Callers : at[c] = "waiting" ~> at[c] = "idle"
=============================================================================
