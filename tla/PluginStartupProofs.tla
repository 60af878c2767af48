------------------------- MODULE PluginStartupProofs -------------------------
(***************************************************************************)
(* Theorems about PolicyInformer and PluginStartup, for any namespaces,    *)
(* names, labels, informers and numbers of changes and crashes.  First     *)
(* about the informer alone, from PolicyInformerAssumption: its types,     *)
(* that nothing out of scope is shown, and that a synced informer misses   *)
(* nothing.  Then about the plugin that starts it: the types of New's      *)
(* variables, and that no pod is scheduled before the policies are cached; *)
(* a crash establishes the informer's invariant anew.                      *)
(***************************************************************************)
EXTENDS PluginStartup, SequenceTheorems, FiniteSetTheorems, WellFoundedInduction, TLAPS

---------------------------------------------------------------------------
(* The history of a policy *)

\* A nonempty set of versions has a last one.
LEMMA LastExists ==
    ASSUME NEW n \in Nat, NEW S \in SUBSET (1..n), S # {}
    PROVE  \E i \in S : \A j \in S : j <= i
<1> DEFINE T == {n - i : i \in S}
<1>0. \A i \in S : i \in Nat /\ n - i \in Nat
  OBVIOUS
<1>1. T \subseteq Nat /\ T # {}
  BY <1>0
<1>2. PICK x \in T : \A y \in T : <<y, x>> \notin OpToRel(<, Nat)
  BY <1>1, NatLessThanWellFounded, WFMin
<1>3. \A y \in T : x <= y
  <2>1. x \in Nat
    BY <1>1, <1>2
  <2> SUFFICES ASSUME NEW y \in T PROVE ~(y < x) /\ y \in Nat
    BY <2>1
  <2>2. y \in Nat
    BY <1>1
  <2>3. y < x => <<y, x>> \in OpToRel(<, Nat)
    BY <2>1, <2>2 DEF OpToRel
  <2> QED
    BY <1>2, <2>2, <2>3
<1>4. PICK i \in S : x = n - i
  BY <1>2
<1>5. \A j \in S : j <= i
  BY <1>0, <1>3, <1>4
<1> QED
  BY <1>4, <1>5

Logged == log \in Seq([key : Keys, obj : Object \union {Nil}])

LEMMA AtType ==
    ASSUME Logged, NEW k \in Keys, NEW v \in 0..Now
    PROVE  At(k, v) \in Object \union {Nil}
<1> DEFINE changes == {i \in 1..v : log[i].key = k}
           i == CHOOSE x \in changes : \A j \in changes : j <= x
<1>0. Now \in Nat
  BY DEF Now, Logged
<1>1. CASE changes = {}
  BY <1>1 DEF At
<1>2. CASE changes # {}
  <2>1. \E x \in changes : \A j \in changes : j <= x
    <3>1. v \in Nat /\ changes \in SUBSET (1..v)
      BY <1>0
    <3> HIDE DEF changes
    <3> QED
      BY <1>2, <3>1, LastExists
  <2>2. i \in changes
    BY <2>1
  <2>3. i \in 1..Len(log)
    BY <1>0, <2>2 DEF Now
  <2>4. log[i] \in [key : Keys, obj : Object \union {Nil}]
    BY <2>3, ElementOfSeq DEF Logged
  <2> QED
    BY <1>2, <2>4 DEF At
<1> QED
  BY <1>1, <1>2

\* What was stored at a version stays so when another change is made.
LEMMA AtStable ==
    ASSUME Logged, NEW e \in [key : Keys, obj : Object \union {Nil}], log' = Append(log, e),
           NEW k \in Keys, NEW v \in 0..Now
    PROVE  At(k, v)' = At(k, v)
<1> DEFINE changes == {i \in 1..v : log[i].key = k}
           i == CHOOSE x \in changes : \A j \in changes : j <= x
<1>0. Now \in Nat /\ v \in Nat /\ v <= Len(log)
  BY DEF Now, Logged
<1>1. \A j \in 1..v : log'[j] = log[j]
  BY <1>0 DEF Logged
<1>2. {j \in 1..v : log'[j].key = k} = changes
  BY <1>1
<1>3. CASE changes = {}
  BY <1>2, <1>3 DEF At
<1>4. CASE changes # {}
  <2>1. \E x \in changes : \A j \in changes : j <= x
    <3>1. v \in Nat /\ changes \in SUBSET (1..v)
      BY <1>0
    <3> HIDE DEF changes
    <3> QED
      BY <1>4, <3>1, LastExists
  <2>2. i \in 1..v
    BY <2>1
  <2>3. At(k, v) = log[i].obj
    BY <1>4 DEF At
  <2>4. At(k, v)' = log'[i].obj
    BY <1>2, <1>4 DEF At
  <2> QED
    BY <1>1, <2>2, <2>3, <2>4
<1> QED
  BY <1>3, <1>4

---------------------------------------------------------------------------
(* The inductive invariant *)

\* The reflector has listed before it watches, nothing is queued before that, and
\* an open stream has the factory's scope and the last version seen.
Reflecting ==
    /\ reflector = "off" => base = Nil /\ stream = Nil
    /\ reflector = "watch" => base # Nil
    /\ base = Nil => queue = << >>
    /\ stream # Nil => stream = [namespace |-> factory.namespace,
                                 selector |-> factory.tweakListOptions, rv |-> last]

\* What is shown was in scope at some version, what is queued at one since the
\* first list.
Known ==
    /\ \A k \in Keys : \E v \in 0..Now : indexer[k] = Scoped(k, v)
    /\ base # Nil => \A n \in 1..Len(queue) :
          \E v \in base..Now : pending[queue[n]] = Scoped(queue[n], v)

\* What is not up to the first list is among the keys of that list that are still
\* to be popped.
Complete ==
    base # Nil => \A k \in Keys :
        \/ \E v \in base..Now : indexer[k] = Scoped(k, v)
        \/ \E n \in 1..toPop : queue[n] = k

IInv == TypeOK /\ Reflecting /\ Known /\ Complete

---------------------------------------------------------------------------
(* Requests and replies *)

LEMMA FactoryType ==
    ASSUME NEW f \in Factories
    PROVE  f \in [namespace : Namespaces \union {All}, tweakListOptions : Labels \union {Everything}]
<1>1. PICK ns \in Namespaces \union {All}, selector \in Labels \union {Everything} :
         f = NewFilteredSharedInformerFactory(ns, selector)
  BY DEF Factories
<1>2. f = [namespace |-> ns, tweakListOptions |-> selector]
  BY <1>1 DEF NewFilteredSharedInformerFactory, WithTweakListOptions, WithNamespace,
     NewSharedInformerFactory
<1> QED
  BY <1>2

LEMMA ScopedType ==
    ASSUME TypeOK, NEW k \in Keys, NEW v \in 0..Now
    PROVE  Scoped(k, v) \in Object \union {Nil}
BY AtType DEF Scoped, Seen, TypeOK, Logged

\* The informer's requests have the factory's scope.
LEMMA Requests ==
    ASSUME factory \in Factories
    PROVE  /\ ListFunc(Options)
                = {[rv |-> v, items |-> [k \in Keys |-> Scoped(k, v)]] : v \in last..Now}
           /\ WatchFunc(Options) = [namespace |-> factory.namespace,
                                    selector |-> factory.tweakListOptions, rv |-> last]
<1>1. factory \in [namespace : Namespaces \union {All}, tweakListOptions : Labels \union {Everything}]
  BY FactoryType
<1>2. Tweaked(Options) = [selector |-> factory.tweakListOptions, rv |-> last]
  BY <1>1 DEF Tweaked, Options, PlacementPolicies
<1>3. PlacementPolicies.namespace = factory.namespace
  BY DEF PlacementPolicies
<1> QED
  BY <1>2, <1>3 DEF ListFunc, WatchFunc, List, Watch, Scoped

LEMMA ScopedStays ==
    ASSUME UNCHANGED server, NEW k, NEW v
    PROVE  Scoped(k, v)' = Scoped(k, v)
BY DEF server, Scoped, Seen, At

\* A queue that orders a set has all of it, and nothing twice.
LEMMA OrdersAll ==
    ASSUME NEW S, IsFiniteSet(S), NEW q \in Orders(S)
    PROVE  /\ Cardinality(S) \in Nat
           /\ q \in Seq(S) /\ Len(q) = Cardinality(S)
           /\ \A i, j \in 1..Len(q) : q[i] = q[j] => i = j
           /\ \A k \in S : \E n \in 1..Len(q) : q[n] = k
<1> DEFINE n == Cardinality(S)
<1>1. n \in Nat
  BY FS_CardinalityType
<1>2. q \in [1..n -> S] /\ \A i, j \in 1..n : q[i] = q[j] => i = j
  BY DEF Orders
<1>3. q \in Injection(1..n, S)
  BY <1>2 DEF Injection, IsInjective
<1>4. Cardinality(1..n) = n
  BY <1>1, FS_Interval
<1>5. q \in Surjection(1..n, S)
  BY <1>3, <1>4, FS_Injection
<1>6. q \in Seq(S) /\ Len(q) = n
  BY <1>1, <1>2
<1> QED
  BY <1>1, <1>2, <1>5, <1>6 DEF Surjection

---------------------------------------------------------------------------
(* The steps *)

LEMMA Initially == Init => IInv
<1> SUFFICES ASSUME Init PROVE IInv
  OBVIOUS
<1> USE PolicyInformerAssumption DEF Init, InformerInit, NoPolicies, Now
<1>1. TypeOK
  BY DEF TypeOK
<1>2. Reflecting /\ Complete
  BY DEF Reflecting, Complete
<1>3. Known
  BY DEF Known, Scoped, Seen, At
<1> QED
  BY <1>1, <1>2, <1>3 DEF IInv

\* A user's change only adds a version.
LEMMA ChangeStep == IInv /\ Users => IInv'
<1> SUFFICES ASSUME IInv, Users PROVE IInv'
  OBVIOUS
<1>0. PICK k \in Keys, o \in Object \union {Nil} : Change(k, o)
  <2>1. PICK k \in Keys : (\E label \in Labels : Create(k, label) \/ Update(k, label)) \/ Delete(k)
    BY DEF Users
  <2>2. Now \in Nat
    BY DEF Now, IInv, TypeOK
  <2>3. CASE Delete(k)
    BY <2>3 DEF Delete
  <2>4. ASSUME NEW label \in Labels, Create(k, label) \/ Update(k, label)
        PROVE  \E o \in Object : Change(k, o)
    <3>1. Change(k, [rv |-> Now + 1, label |-> label])
      BY <2>4 DEF Create, Update
    <3>2. Now + 1 \in 1..MaxChanges
      BY <2>2, <3>1, PolicyInformerAssumption DEF Change
    <3> QED
      BY <3>1, <3>2 DEF Object
  <2> QED
    BY <2>1, <2>3, <2>4
<1> USE PolicyInformerAssumption
<1> DEFINE e == [key |-> k, obj |-> o]
<1>1. /\ log \in Seq([key : Keys, obj : Object \union {Nil}])
      /\ e \in [key : Keys, obj : Object \union {Nil}]
      /\ log' = Append(log, e)
      /\ UNCHANGED <<factory, informer>>
  BY <1>0 DEF Change, IInv, TypeOK
<1> HIDE DEF e
<1>2. /\ log' \in Seq([key : Keys, obj : Object \union {Nil}])
      /\ Now \in Nat /\ Now' = Now + 1
  BY <1>1 DEF Now
<1>3. \A l \in Keys, v \in 0..Now : Scoped(l, v)' = Scoped(l, v)
  BY <1>1, AtStable DEF Scoped, Seen, Logged
<1>4. TypeOK'
  BY <1>1, <1>2 DEF IInv, TypeOK, informer, fifo
<1>5. Reflecting'
  BY <1>1 DEF IInv, Reflecting, informer, fifo
<1>6. Known'
  <2>1. ASSUME NEW l \in Keys PROVE \E v \in 0..Now' : indexer'[l] = Scoped(l, v)'
    <3>1. PICK v \in 0..Now : indexer[l] = Scoped(l, v)
      BY DEF IInv, Known
    <3> QED
      BY <1>1, <1>2, <1>3, <3>1 DEF informer
  <2>2. ASSUME base # Nil, NEW n \in 1..Len(queue)
        PROVE  \E v \in base..Now' : pending[queue[n]] = Scoped(queue[n], v)'
    <3>1. PICK v \in base..Now : pending[queue[n]] = Scoped(queue[n], v)
      BY <2>2 DEF IInv, Known
    <3>2. queue[n] \in Keys /\ base \in Nat
      BY <2>2, ElementOfSeq DEF IInv, TypeOK
    <3>3. v \in 0..Now /\ v \in base..Now'
      BY <1>2, <3>1, <3>2
    <3>4. Scoped(queue[n], v)' = Scoped(queue[n], v)
      BY <1>1, <3>2, <3>3, AtStable DEF Scoped, Seen, Logged, informer, fifo
    <3>5. pending[queue[n]] = Scoped(queue[n], v)'
      BY <3>1, <3>4
    <3> QED
      BY <1>1, <3>3, <3>5 DEF informer, fifo
  <2> QED
    BY <1>1, <2>1, <2>2 DEF Known, informer, fifo
<1>7. Complete'
  BY <1>1, <1>2, <1>3 DEF IInv, TypeOK, Complete, informer, fifo
<1> QED
  BY <1>4, <1>5, <1>6, <1>7 DEF IInv

LEMMA RunStep == IInv /\ Run => IInv'
<1> SUFFICES ASSUME IInv, Run PROVE IInv'
  OBVIOUS
<1>1. \A k, v : Scoped(k, v)' = Scoped(k, v)
  BY ScopedStays DEF Run
<1>2. TypeOK' /\ Reflecting'
  BY DEF IInv, TypeOK, Reflecting, Run, server, fifo, Now
<1>3. Known' /\ Complete'
  BY <1>1 DEF IInv, Known, Complete, Run, server, fifo, Now
<1> QED
  BY <1>2, <1>3 DEF IInv

\* The first list decides which keys have to be popped; what it does not have is
\* not in the indexer, either.  A later one finds the queue empty.
LEMMA ListStep == IInv /\ ListSucceeds => IInv'
<1> SUFFICES ASSUME IInv, ListSucceeds PROVE IInv'
  OBVIOUS
<1> USE PolicyInformerAssumption
<1>1. \A k, u : Scoped(k, u)' = Scoped(k, u)
  BY ScopedStays DEF ListSucceeds
<1>2. Now \in Nat /\ Now' = Now /\ last \in 0..Now /\ queue = << >> /\ toPop = 0 /\ stream = Nil
  BY DEF IInv, TypeOK, ListSucceeds, server, Now
<1>3. PICK v \in last..Now :
         LET items == [k \in Keys |-> Scoped(k, v)]
             keys == {k \in Keys : items[k] # Nil \/ indexer[k] # Nil}
         IN  /\ queue' \in Orders(keys)
             /\ pending' = items
             /\ last' = v
             /\ IF base = Nil THEN base' = v /\ toPop' = Cardinality(keys)
                ELSE UNCHANGED <<base, toPop>>
  <2>1. ListFunc(Options) = {[rv |-> v, items |-> [k \in Keys |-> Scoped(k, v)]] : v \in last..Now}
    BY Requests DEF IInv, TypeOK
  <2>2. PICK r \in ListFunc(Options) :
           LET keys == {k \in Keys : r.items[k] # Nil \/ indexer[k] # Nil}
           IN  /\ queue' \in Orders(keys)
               /\ pending' = r.items
               /\ last' = r.rv
               /\ IF base = Nil THEN base' = r.rv /\ toPop' = Cardinality(keys)
                  ELSE UNCHANGED <<base, toPop>>
    BY DEF ListSucceeds
  <2>3. PICK v \in last..Now : r = [rv |-> v, items |-> [k \in Keys |-> Scoped(k, v)]]
    BY <2>1, <2>2
  <2>4. r.rv = v /\ r.items = [k \in Keys |-> Scoped(k, v)]
    BY <2>3
  <2> QED
    BY <2>2, <2>4
<1> DEFINE keys == {k \in Keys : Scoped(k, v) # Nil \/ indexer[k] # Nil}
<1>4. /\ queue' \in Orders(keys)
      /\ pending' = [k \in Keys |-> Scoped(k, v)]
      /\ last' = v
      /\ IF base = Nil THEN base' = v /\ toPop' = Cardinality(keys) ELSE base' = base /\ toPop' = 0
  BY <1>2, <1>3
<1>5. IsFiniteSet(keys)
  BY FS_Subset
<1> HIDE DEF keys
<1>6. /\ Cardinality(keys) \in Nat
      /\ queue' \in Seq(keys) /\ Len(queue') = Cardinality(keys)
      /\ \A i, j \in 1..Len(queue') : queue'[i] = queue'[j] => i = j
      /\ \A k \in keys : \E n \in 1..Len(queue') : queue'[n] = k
  BY <1>4, <1>5, OrdersAll
<1>7. \A k \in Keys : Scoped(k, v) \in Object \union {Nil}
  BY <1>2, ScopedType DEF IInv
<1>8. base' \in 0..v /\ (base # Nil => base' = base)
  BY <1>2, <1>4 DEF IInv, TypeOK
<1>9. /\ reflector = "list" /\ reflector' = "watch"
      /\ UNCHANGED <<log, factory, stream, indexer>>
  BY DEF ListSucceeds, server
<1>10. TypeOK'
  <2>1. queue' \in Seq(Keys) /\ DOMAIN queue' = 1..Len(queue')
    BY <1>6 DEF keys
  <2>2. toPop' \in 0..Len(queue')
    BY <1>4, <1>6
  <2>3. v \in 0..Now
    BY <1>2
  <2> QED
    BY <1>2, <1>4, <1>6, <1>7, <1>8, <1>9, <2>1, <2>2, <2>3 DEF IInv, TypeOK
<1>11. Reflecting'
  BY <1>2, <1>8, <1>9 DEF Reflecting
<1>12. Known'
  <2>1. ASSUME NEW n \in 1..Len(queue')
        PROVE  pending'[queue'[n]] = Scoped(queue'[n], v) /\ v \in base'..Now
    BY <1>2, <1>4, <1>6, <1>8, ElementOfSeq DEF keys
  <2>2. \A k \in Keys : \E u \in 0..Now : indexer'[k] = Scoped(k, u)
    BY <1>9 DEF IInv, Known
  <2> QED
    BY <1>1, <1>2, <2>1, <2>2 DEF Known
<1>13. Complete'
  <2> SUFFICES ASSUME NEW k \in Keys
               PROVE  \/ \E u \in base'..Now : indexer[k] = Scoped(k, u)
                      \/ \E n \in 1..toPop' : queue'[n] = k
    BY <1>1, <1>2, <1>9 DEF Complete
  <2>1. CASE base # Nil
    BY <1>2, <1>8, <2>1 DEF IInv, Complete
  <2>2. CASE base = Nil /\ k \in keys
    BY <1>4, <1>6, <2>2
  <2>3. CASE base = Nil /\ k \notin keys
    <3>1. indexer[k] = Scoped(k, v) /\ v \in base'..Now
      BY <1>2, <1>4, <2>3 DEF keys
    <3> QED
      BY <3>1
  <2> QED
    BY <2>1, <2>2, <2>3
<1> QED
  BY <1>10, <1>11, <1>12, <1>13 DEF IInv

LEMMA WatchStep == IInv /\ (OpenWatch \/ WatchEnds \/ WatchExpires) => IInv'
<1> SUFFICES ASSUME IInv, OpenWatch \/ WatchEnds \/ WatchExpires PROVE IInv'
  OBVIOUS
<1> USE PolicyInformerAssumption
<1>1. UNCHANGED <<server, last, fifo, indexer>>
  BY DEF OpenWatch, WatchEnds, WatchExpires
<1>2. \A k, v : Scoped(k, v)' = Scoped(k, v)
  BY <1>1, ScopedStays
<1>3. OpenWatch => stream' = [namespace |-> factory.namespace,
                              selector |-> factory.tweakListOptions, rv |-> last]
  BY Requests DEF OpenWatch, IInv, TypeOK
<1>4. factory \in [namespace : Namespaces \union {All}, tweakListOptions : Labels \union {Everything}]
  BY FactoryType DEF IInv, TypeOK
<1>5. TypeOK'
  BY <1>1, <1>3, <1>4 DEF IInv, TypeOK, OpenWatch, WatchEnds, WatchExpires, server, fifo, Now
<1>6. Reflecting'
  BY <1>1, <1>3 DEF IInv, TypeOK, Reflecting, OpenWatch, WatchEnds, WatchExpires, server, fifo
<1>7. Known' /\ Complete'
  BY <1>1, <1>2 DEF IInv, Known, Complete, server, fifo, Now
<1> QED
  BY <1>5, <1>6, <1>7 DEF IInv

\* An event is of a version after the last one seen; it takes the place of what was
\* pending of its key.
LEMMA ReceiveStep == IInv /\ ReceiveEvent => IInv'
<1> SUFFICES ASSUME IInv, ReceiveEvent PROVE IInv'
  OBVIOUS
<1> USE PolicyInformerAssumption
<1>1. PICK i \in Events :
         LET k == log[i].key
         IN  /\ stream' = [stream EXCEPT !.rv = i]
             /\ last' = i
             /\ pending' = [pending EXCEPT ![k] = Streamed(k, i)]
             /\ queue' = IF \E n \in DOMAIN queue : queue[n] = k THEN queue ELSE Append(queue, k)
  BY DEF ReceiveEvent
<1> DEFINE k == log[i].key
<1>2. /\ UNCHANGED <<server, reflector, toPop, base, indexer>> /\ stream # Nil
      /\ reflector = "watch" /\ base # Nil
      /\ stream = [namespace |-> factory.namespace, selector |-> factory.tweakListOptions, rv |-> last]
  BY DEF ReceiveEvent, IInv, TypeOK, Reflecting
<1>3. /\ Now \in Nat /\ Now' = Now /\ log' = log /\ factory' = factory
      /\ last \in 0..Now /\ base \in 0..last
  BY <1>2 DEF IInv, TypeOK, Now, server
<1>4. i \in last + 1..Now
  BY <1>2, <1>3 DEF Events
<1>5. \A l, v : Scoped(l, v)' = Scoped(l, v)
  BY <1>2, ScopedStays
<1>6. k \in Keys
  <2>1. i \in 1..Len(log) /\ log \in Seq([key : Keys, obj : Object \union {Nil}])
    BY <1>3, <1>4 DEF IInv, TypeOK, Now
  <2>2. log[i] \in [key : Keys, obj : Object \union {Nil}]
    BY <2>1, ElementOfSeq
  <2> QED
    BY <2>2
<1>7. Streamed(k, i) = Scoped(k, i)
  BY <1>2 DEF Streamed, Scoped
<1>8. Scoped(k, i) \in Object \union {Nil}
  BY <1>3, <1>4, <1>6, ScopedType DEF IInv
<1>9. /\ pending \in [Keys -> Object \union {Nil}] /\ queue \in Seq(Keys)
      /\ \A m, n \in 1..Len(queue) : queue[m] = queue[n] => m = n
  BY DEF IInv, TypeOK
<1>10. pending' = [pending EXCEPT ![k] = Scoped(k, i)]
  BY <1>1, <1>7
<1>11. queue' = IF \E n \in 1..Len(queue) : queue[n] = k THEN queue ELSE Append(queue, k)
  BY <1>1, <1>9
<1> HIDE DEF k
<1>12. /\ queue' \in Seq(Keys) /\ Len(queue) <= Len(queue')
       /\ \A n \in 1..Len(queue) : queue'[n] = queue[n]
       /\ \A n \in 1..Len(queue') : n \in 1..Len(queue) \/ queue'[n] = k
       /\ \A m, n \in 1..Len(queue') : queue'[m] = queue'[n] => m = n
  BY <1>6, <1>9, <1>11
<1>13. TypeOK'
  <2>1. stream' = [namespace |-> factory.namespace, selector |-> factory.tweakListOptions, rv |-> i]
    BY <1>1, <1>2
  <2>2. factory \in [namespace : Namespaces \union {All}, tweakListOptions : Labels \union {Everything}]
    BY FactoryType DEF IInv, TypeOK
  <2>3. i \in 0..Now /\ base \in 0..i
    BY <1>3, <1>4
  <2>4. stream' \in [namespace : Namespaces \union {All}, selector : Labels \union {Everything},
                     rv : 0..Now']
    BY <1>3, <2>1, <2>2, <2>3
  <2>5. pending' \in [Keys -> Object \union {Nil}]
    BY <1>8, <1>9, <1>10
  <2>6. toPop' \in 0..Len(queue')
    BY <1>2, <1>9, <1>12 DEF IInv, TypeOK
  <2>7. DOMAIN queue' = 1..Len(queue')
    BY <1>12
  <2>8. last' \in 0..Now' /\ base' \in 0..last' \union {Nil} /\ reflector' = "watch"
    BY <1>1, <1>2, <1>3, <2>3
  <2> QED
    BY <1>2, <1>3, <1>12, <2>4, <2>5, <2>6, <2>7, <2>8 DEF IInv, TypeOK
<1>14. Reflecting'
  BY <1>1, <1>2, <1>3 DEF Reflecting
<1>15. Known'
  <2>1. ASSUME NEW n \in 1..Len(queue')
        PROVE  \E v \in base..Now : pending'[queue'[n]] = Scoped(queue'[n], v)
    <3>1. CASE queue'[n] = k
      BY <1>3, <1>4, <1>6, <1>9, <1>10, <3>1
    <3>2. CASE queue'[n] # k
      <4>1. n \in 1..Len(queue) /\ queue'[n] = queue[n]
        BY <1>12, <3>2
      <4>2. queue[n] \in Keys
        BY <1>9, <4>1, ElementOfSeq
      <4>3. pending'[queue[n]] = pending[queue[n]]
        BY <1>9, <1>10, <3>2, <4>1, <4>2
      <4> QED
        BY <1>2, <4>1, <4>3 DEF IInv, Known
    <3> QED
      BY <3>1, <3>2
  <2> QED
    BY <1>2, <1>3, <1>5, <2>1 DEF IInv, Known
<1>16. Complete'
  <2> SUFFICES ASSUME NEW l \in Keys
               PROVE  \/ \E v \in base..Now : indexer[l] = Scoped(l, v)
                      \/ \E n \in 1..toPop : queue'[n] = l
    BY <1>2, <1>3, <1>5 DEF Complete
  <2>1. \A n \in 1..toPop : queue'[n] = queue[n]
    BY <1>9, <1>12 DEF IInv, TypeOK
  <2> QED
    BY <1>2, <2>1 DEF IInv, Complete
<1> QED
  BY <1>13, <1>14, <1>15, <1>16 DEF IInv

\* What is popped is of a version since the first list.
LEMMA PopStep == IInv /\ Pop => IInv'
<1> SUFFICES ASSUME IInv, Pop PROVE IInv'
  OBVIOUS
<1> USE PolicyInformerAssumption
<1> DEFINE k == queue[1]
<1>1. \A l, v : Scoped(l, v)' = Scoped(l, v)
  BY ScopedStays DEF Pop
<1>2. /\ queue \in Seq(Keys) /\ queue # << >>
      /\ pending \in [Keys -> Object \union {Nil}] /\ indexer \in [Keys -> Object \union {Nil}]
      /\ \A m, n \in 1..Len(queue) : queue[m] = queue[n] => m = n
      /\ toPop \in 0..Len(queue)
  BY DEF Pop, IInv, TypeOK
<1>3. /\ Len(queue) \in Nat \ {0} /\ Head(queue) = k /\ k \in Keys
      /\ Tail(queue) \in Seq(Keys) /\ Len(Tail(queue)) = Len(queue) - 1
      /\ \A n \in 1..Len(queue) - 1 : Tail(queue)[n] = queue[n + 1]
  BY <1>2
<1>4. /\ UNCHANGED <<server, reflector, last, stream, pending, base>>
      /\ indexer' = [indexer EXCEPT ![k] = pending[k]]
      /\ queue' = Tail(queue)
      /\ toPop' = IF toPop = 0 THEN 0 ELSE toPop - 1
  BY <1>3 DEF Pop
<1>5. Now' = Now /\ log' = log /\ factory' = factory /\ Now \in Nat
  BY <1>4 DEF Now, server, IInv, TypeOK
<1>6. base # Nil /\ base \in 0..Now
  BY <1>2, <1>5 DEF IInv, TypeOK, Reflecting
<1>7. PICK v \in base..Now : pending[k] = Scoped(k, v)
  BY <1>3, <1>6 DEF IInv, Known
<1>8. /\ indexer'[k] = Scoped(k, v)
      /\ \A l \in Keys : l # k => indexer'[l] = indexer[l]
      /\ indexer' \in [Keys -> Object \union {Nil}]
  BY <1>2, <1>3, <1>4, <1>7
<1> HIDE DEF k
<1>9. TypeOK'
  <2>1. /\ queue' \in Seq(Keys) /\ DOMAIN queue' = 1..Len(queue) - 1
        /\ toPop' \in 0..Len(queue')
    BY <1>2, <1>3, <1>4
  <2>2. \A m, n \in 1..Len(queue) - 1 : queue'[m] = queue'[n] => m = n
    <3> SUFFICES ASSUME NEW m \in 1..Len(queue) - 1, NEW n \in 1..Len(queue) - 1,
                        queue[m + 1] = queue[n + 1]
                 PROVE  m = n
      BY <1>3, <1>4
    <3>1. m + 1 \in 1..Len(queue) /\ n + 1 \in 1..Len(queue)
      BY <1>3
    <3>2. m + 1 = n + 1
      BY <1>2, <3>1
    <3> QED
      BY <3>2
  <2>3. reflector = "list" => queue' = << >>
    BY <1>2 DEF IInv, TypeOK
  <2> QED
    BY <1>4, <1>5, <1>8, <2>1, <2>2, <2>3 DEF IInv, TypeOK
<1>10. Reflecting'
  BY <1>4, <1>5, <1>6 DEF IInv, Reflecting
<1>11. Known'
  <2>1. ASSUME NEW l \in Keys PROVE \E u \in 0..Now : indexer'[l] = Scoped(l, u)
    BY <1>6, <1>7, <1>8 DEF IInv, Known
  <2>2. ASSUME NEW n \in 1..Len(queue)  - 1
        PROVE  \E u \in base..Now : pending[queue'[n]] = Scoped(queue'[n], u)
    <3>1. n + 1 \in 1..Len(queue) /\ queue'[n] = queue[n + 1]
      BY <1>3, <1>4
    <3>2. \E u \in base..Now : pending[queue[n + 1]] = Scoped(queue[n + 1], u)
      BY <1>6, <3>1 DEF IInv, Known
    <3> QED
      BY <3>1, <3>2
  <2> QED
    BY <1>1, <1>3, <1>4, <1>5, <2>1, <2>2 DEF Known
<1>12. Complete'
  <2> SUFFICES ASSUME NEW l \in Keys, l # k
               PROVE  \/ \E u \in base..Now : indexer[l] = Scoped(l, u)
                      \/ \E n \in 1..toPop' : queue'[n] = l
    BY <1>1, <1>4, <1>5, <1>7, <1>8 DEF Complete
  <2>1. ASSUME NEW n \in 1..toPop, queue[n] = l
        PROVE  \E m \in 1..toPop' : queue'[m] = l
    <3>1. n # 1 /\ toPop \in Nat
      BY <1>2, <2>1 DEF k
    <3>2. n - 1 \in 1..toPop' /\ n - 1 \in 1..Len(queue) - 1
      BY <1>2, <1>3, <1>4, <3>1
    <3> QED
      BY <1>3, <1>4, <2>1, <3>2
  <2> QED
    BY <1>6, <2>1 DEF IInv, Complete
<1> QED
  BY <1>9, <1>10, <1>11, <1>12 DEF IInv

LEMMA Stuttering == IInv /\ UNCHANGED informerVars => IInv'
<1> SUFFICES ASSUME IInv, UNCHANGED informerVars PROVE IInv'
  OBVIOUS
<1> USE DEF informerVars, server, informer, fifo
<1>1. \A k, v : Scoped(k, v)' = Scoped(k, v)
  BY ScopedStays
<1>2. TypeOK' /\ Reflecting'
  BY DEF IInv, TypeOK, Reflecting, Now
<1>3. Known' /\ Complete'
  BY <1>1 DEF IInv, Known, Complete, Now
<1> QED
  BY <1>2, <1>3 DEF IInv

LEMMA StepKeeps == IInv /\ [Next]_informerVars => IInv'
BY ChangeStep, RunStep, ListStep, WatchStep, ReceiveStep, PopStep, Stuttering
   DEF Next, InformerStep, Reflector

---------------------------------------------------------------------------
(* The theorems *)

\* The inductive invariant holds in every reachable state.
THEOREM Invariance == Spec => []IInv
<1>1. Init => IInv
  BY Initially
<1>2. IInv /\ [Next]_informerVars => IInv'
  BY StepKeeps
<1> QED
  BY <1>1, <1>2, PTL DEF Spec

\* The variables keep their types.
THEOREM TypeCorrect == Spec => []TypeOK
<1>1. IInv => TypeOK
  BY DEF IInv
<1> QED
  BY Invariance, <1>1, PTL

\* A factory made WithNamespace and WithTweakListOptions shows no other policies.
THEOREM InScope == Spec => []ViewInScope
<1>1. IInv => ViewInScope
  <2> SUFFICES ASSUME IInv, NEW k \in Keys, indexer[k] # Nil
               PROVE  /\ factory.namespace \in {All, k.namespace}
                      /\ factory.tweakListOptions \in {Everything, indexer[k].label}
    BY DEF ViewInScope
  <2>1. PICK v \in 0..Now : indexer[k] = Scoped(k, v)
    BY DEF IInv, Known
  <2> QED
    BY <2>1 DEF Scoped, Seen
<1> QED
  BY Invariance, <1>1, PTL

\* When HasSynced lets New return, no policy of the first list is missing.
THEOREM SyncedComplete == Spec => []SyncedIsComplete
<1>1. IInv => SyncedIsComplete
  BY DEF IInv, Complete, SyncedIsComplete, HasSynced
<1> QED
  BY Invariance, <1>1, PTL

---------------------------------------------------------------------------
(* The versions shown never go back *)

\* A change is numbered by its place in the log.
Numbered == \A i \in 1..Now : log[i].obj # Nil => log[i].obj.rv = i

\* What is shown is no newer than what the reflector has seen, and what is queued of
\* a key is no older than what is shown of it.
Ordered ==
    /\ \A k \in Keys : \E u \in 0..last : indexer[k] = Scoped(k, u)
    /\ \A n \in 1..Len(queue) : \E u \in 0..last, w \in 0..last :
          /\ u <= w
          /\ indexer[queue[n]] = Scoped(queue[n], u)
          /\ pending[queue[n]] = Scoped(queue[n], w)

OInv == IInv /\ Numbered /\ Ordered

\* A policy as of a later version is no older.
LEMMA LaterIsNewer ==
    ASSUME IInv, Numbered, NEW k \in Keys, NEW u \in 0..Now, NEW w \in 0..Now, u <= w,
           Scoped(k, u) # Nil, Scoped(k, w) # Nil
    PROVE  Scoped(k, u).rv <= Scoped(k, w).rv
<1> DEFINE changes(v) == {i \in 1..v : log[i].key = k}
           Latest(v) == CHOOSE x \in changes(v) : \A y \in changes(v) : y <= x
<1>1. Now \in Nat /\ u \in Nat /\ w \in Nat
  BY DEF IInv, TypeOK, Now
<1>2. \A v : Scoped(k, v) # Nil => Scoped(k, v) = At(k, v) /\ At(k, v) # Nil
  BY DEF Scoped, Seen
<1>3. ASSUME NEW v \in 0..Now, At(k, v) # Nil
      PROVE  /\ Latest(v) \in changes(v) /\ \A y \in changes(v) : y <= Latest(v)
             /\ At(k, v).rv = Latest(v)
  <2>1. changes(v) # {} /\ At(k, v) = log[Latest(v)].obj
    BY <1>3 DEF At
  <2>2. \E x \in changes(v) : \A y \in changes(v) : y <= x
    <3>1. v \in Nat /\ changes(v) \in SUBSET (1..v)
      BY <1>1
    <3> HIDE DEF changes
    <3> QED
      BY <2>1, <3>1, LastExists
  <2>3. Latest(v) \in changes(v) /\ \A y \in changes(v) : y <= Latest(v)
    BY <2>2
  <2>4. Latest(v) \in 1..Now
    BY <1>1, <2>3
  <2> QED
    BY <1>3, <2>1, <2>3, <2>4 DEF Numbered
<1>4. changes(u) \subseteq changes(w)
  BY <1>1
<1> HIDE DEF Latest, changes
<1> QED
  BY <1>2, <1>3, <1>4

LEMMA OrderedInitially == Init => OInv
<1> SUFFICES ASSUME Init PROVE OInv
  OBVIOUS
<1>1. IInv
  BY Initially
<1>2. Numbered
  BY DEF Init, Numbered, Now
<1>3. Ordered
  BY <1>1, PolicyInformerAssumption DEF Init, InformerInit, NoPolicies, Ordered, Scoped, Seen, At
<1> QED
  BY <1>1, <1>2, <1>3 DEF OInv

LEMMA ChangeOrdered == OInv /\ Users => Numbered' /\ Ordered'
<1> SUFFICES ASSUME OInv, Users PROVE Numbered' /\ Ordered'
  OBVIOUS
<1>1. PICK k \in Keys, o \in Object \union {Nil} :
         Change(k, o) /\ (o # Nil => o.rv = Now + 1)
  <2>1. PICK k \in Keys : (\E label \in Labels : Create(k, label) \/ Update(k, label)) \/ Delete(k)
    BY DEF Users
  <2>2. CASE Delete(k)
    BY <2>2 DEF Delete
  <2>3. ASSUME NEW label \in Labels, Create(k, label) \/ Update(k, label)
        PROVE  \E o \in Object : Change(k, o) /\ o.rv = Now + 1
    <3>1. Change(k, [rv |-> Now + 1, label |-> label])
      BY <2>3 DEF Create, Update
    <3>2. Now + 1 \in 1..MaxChanges
      BY <3>1, PolicyInformerAssumption DEF Change, OInv, IInv, TypeOK, Now
    <3> QED
      BY <3>1, <3>2 DEF Object
  <2> QED
    BY <2>1, <2>2, <2>3
<1> DEFINE e == [key |-> k, obj |-> o]
<1>2. /\ log \in Seq([key : Keys, obj : Object \union {Nil}])
      /\ e \in [key : Keys, obj : Object \union {Nil}] /\ e.obj = o
      /\ log' = Append(log, e)
      /\ UNCHANGED <<factory, informer>>
  BY <1>1 DEF Change, OInv, IInv, TypeOK
<1> HIDE DEF e
<1>3. Now \in Nat /\ Now' = Now + 1 /\ last \in 0..Now /\ last' = last
  BY <1>2 DEF OInv, IInv, TypeOK, Now, informer
<1>4. Numbered'
  BY <1>1, <1>2, <1>3 DEF OInv, Numbered, Now
<1>5. \A l \in Keys, v \in 0..last : Scoped(l, v)' = Scoped(l, v)
  <2>1. \A l \in Keys, v \in 0..Now : Scoped(l, v)' = Scoped(l, v)
    BY <1>2, AtStable DEF Scoped, Seen, Logged
  <2> QED
    BY <1>3, <2>1
<1>6. \A n \in 1..Len(queue) : queue[n] \in Keys
  BY ElementOfSeq DEF OInv, IInv, TypeOK
<1>7. UNCHANGED <<factory, last, indexer, queue, pending>>
  BY <1>2 DEF informer, fifo
<1>8. ASSUME NEW l \in Keys
      PROVE  \E u \in 0..last : indexer'[l] = Scoped(l, u)'
  <2>1. PICK u \in 0..last : indexer[l] = Scoped(l, u)
    BY DEF OInv, Ordered
  <2>2. Scoped(l, u)' = Scoped(l, u)
    BY <1>5
  <2>3. indexer'[l] = Scoped(l, u)'
    BY <1>7, <2>1, <2>2
  <2> QED
    BY <2>3
<1>9. ASSUME NEW n \in 1..Len(queue)
      PROVE  \E u \in 0..last, w \in 0..last :
                /\ u <= w
                /\ indexer'[queue[n]] = Scoped(queue[n], u)'
                /\ pending'[queue[n]] = Scoped(queue[n], w)'
  <2>1. PICK u \in 0..last, w \in 0..last :
           /\ u <= w
           /\ indexer[queue[n]] = Scoped(queue[n], u)
           /\ pending[queue[n]] = Scoped(queue[n], w)
    BY DEF OInv, Ordered
  <2>2. queue[n] \in Keys
    BY <1>6
  <2> QED
    BY <1>2, <1>5, <1>7, <2>1, <2>2
<1>10. Ordered'
  BY <1>7, <1>8, <1>9 DEF Ordered
<1> QED
  BY <1>4, <1>10

\* The informer's own steps leave the log alone.
LEMMA InformerOrdered == OInv /\ (Run \/ InformerStep \/ UNCHANGED informerVars) => Numbered' /\ Ordered'
<1> SUFFICES ASSUME OInv, Run \/ InformerStep \/ UNCHANGED informerVars
             PROVE  Numbered' /\ Ordered'
  OBVIOUS
<1> USE PolicyInformerAssumption
<1>1. UNCHANGED server /\ Now' = Now /\ Now \in Nat
  BY DEF Run, InformerStep, Reflector, ListSucceeds, OpenWatch, ReceiveEvent, WatchEnds, WatchExpires,
     Pop, informerVars, server, Now, OInv, IInv, TypeOK
<1>2. Numbered'
  BY <1>1 DEF OInv, Numbered, server, Now
<1>3. \A k, v : Scoped(k, v)' = Scoped(k, v)
  BY <1>1, ScopedStays
<1>4. last \in 0..Now /\ queue \in Seq(Keys) /\ \A n \in 1..Len(queue) : queue[n] \in Keys
  BY ElementOfSeq DEF OInv, IInv, TypeOK
<1>5. CASE ListSucceeds
  <2>1. PICK r \in ListFunc(Options) :
           LET keys == {k \in Keys : r.items[k] # Nil \/ indexer[k] # Nil}
           IN  /\ queue' \in Orders(keys)
               /\ pending' = r.items
               /\ last' = r.rv
    BY <1>5 DEF ListSucceeds
  <2>2. PICK v \in last..Now : r = [rv |-> v, items |-> [k \in Keys |-> Scoped(k, v)]]
    BY <2>1, Requests DEF OInv, IInv, TypeOK
  <2>3. r.rv = v /\ r.items = [k \in Keys |-> Scoped(k, v)]
    BY <2>2
  <2> DEFINE keys == {k \in Keys : Scoped(k, v) # Nil \/ indexer[k] # Nil}
  <2>4. queue' \in Orders(keys) /\ pending' = [k \in Keys |-> Scoped(k, v)] /\ last' = v /\ indexer' = indexer
    BY <1>5, <2>1, <2>3 DEF ListSucceeds
  <2>5. IsFiniteSet(keys) /\ keys \subseteq Keys
    BY FS_Subset
  <2> HIDE DEF keys
  <2>6. queue' \in Seq(keys)
    BY <2>4, <2>5, OrdersAll
  <2>7. \A k \in Keys : \E u \in 0..v : indexer'[k] = Scoped(k, u)
    BY <1>4, <2>4 DEF OInv, Ordered
  <2>8. ASSUME NEW n \in 1..Len(queue')
        PROVE  \E u \in 0..v, w \in 0..v :
                  /\ u <= w
                  /\ indexer'[queue'[n]] = Scoped(queue'[n], u)
                  /\ pending'[queue'[n]] = Scoped(queue'[n], w)
    <3>1. queue'[n] \in Keys
      BY <2>5, <2>6, ElementOfSeq
    <3>2. PICK u \in 0..v : indexer'[queue'[n]] = Scoped(queue'[n], u)
      BY <2>7, <3>1
    <3>3. u <= v /\ v \in 0..v /\ pending'[queue'[n]] = Scoped(queue'[n], v)
      BY <1>4, <2>4, <3>1
    <3> QED
      BY <3>2, <3>3
  <2> QED
    BY <1>2, <1>3, <2>4, <2>7, <2>8 DEF Ordered
<1>6. CASE ReceiveEvent
  <2>1. PICK i \in Events :
           LET k == log[i].key
           IN  /\ last' = i
               /\ pending' = [pending EXCEPT ![k] = Streamed(k, i)]
               /\ queue' = IF \E n \in DOMAIN queue : queue[n] = k THEN queue ELSE Append(queue, k)
    BY <1>6 DEF ReceiveEvent
  <2> DEFINE k == log[i].key
  <2>2. /\ stream # Nil /\ indexer' = indexer
        /\ stream = [namespace |-> factory.namespace, selector |-> factory.tweakListOptions, rv |-> last]
    BY <1>6 DEF ReceiveEvent, OInv, IInv, Reflecting
  <2>3. i \in last + 1..Now /\ last' = i
    BY <1>1, <1>4, <2>1, <2>2 DEF Events
  <2>4. k \in Keys
    <3>1. i \in 1..Len(log) /\ log \in Seq([key : Keys, obj : Object \union {Nil}])
      BY <1>4, <2>3 DEF OInv, IInv, TypeOK, Now
    <3>2. log[i] \in [key : Keys, obj : Object \union {Nil}]
      BY <3>1, ElementOfSeq
    <3> QED
      BY <3>2
  <2>5. Streamed(k, i) = Scoped(k, i)
    BY <2>2 DEF Streamed, Scoped
  <2>6. pending \in [Keys -> Object \union {Nil}] /\ pending' = [pending EXCEPT ![k] = Scoped(k, i)]
    BY <2>1, <2>5 DEF OInv, IInv, TypeOK
  <2>7. queue' = IF \E n \in 1..Len(queue) : queue[n] = k THEN queue ELSE Append(queue, k)
    BY <1>4, <2>1
  <2> HIDE DEF k
  <2>8. \A n \in 1..Len(queue') : queue'[n] = k \/ (n \in 1..Len(queue) /\ queue'[n] = queue[n])
    BY <1>4, <2>4, <2>7
  <2>9. \A l \in Keys : \E u \in 0..i : indexer'[l] = Scoped(l, u)
    <3> SUFFICES ASSUME NEW l \in Keys PROVE \E u \in 0..i : indexer[l] = Scoped(l, u)
      BY <2>2
    <3>1. PICK u \in 0..last : indexer[l] = Scoped(l, u)
      BY DEF OInv, Ordered
    <3> QED
      BY <1>4, <2>3, <3>1
  <2>10. ASSUME NEW n \in 1..Len(queue')
         PROVE  \E u \in 0..i, w \in 0..i :
                   /\ u <= w
                   /\ indexer'[queue'[n]] = Scoped(queue'[n], u)
                   /\ pending'[queue'[n]] = Scoped(queue'[n], w)
    <3>1. CASE queue'[n] = k
      <4>1. PICK u \in 0..i : indexer'[k] = Scoped(k, u)
        BY <2>4, <2>9
      <4>2. u <= i /\ i \in 0..i /\ pending'[k] = Scoped(k, i)
        BY <1>4, <2>3, <2>4, <2>6
      <4> QED
        BY <3>1, <4>1, <4>2
    <3>2. CASE queue'[n] # k
      <4>1. n \in 1..Len(queue) /\ queue'[n] = queue[n]
        BY <2>8, <3>2
      <4>2. PICK u \in 0..last, w \in 0..last :
               /\ u <= w
               /\ indexer[queue[n]] = Scoped(queue[n], u)
               /\ pending[queue[n]] = Scoped(queue[n], w)
        BY <4>1 DEF OInv, Ordered
      <4>3. pending'[queue[n]] = pending[queue[n]]
        BY <1>4, <2>6, <3>2, <4>1
      <4>4. u \in 0..i /\ w \in 0..i
        BY <1>4, <2>3
      <4> QED
        BY <2>2, <4>1, <4>2, <4>3, <4>4
    <3> QED
      BY <3>1, <3>2
  <2> QED
    BY <1>2, <1>3, <2>3, <2>9, <2>10 DEF Ordered
<1>7. CASE Pop
  <2> DEFINE k == queue[1]
  <2>1. /\ queue # << >> /\ Len(queue) \in Nat \ {0} /\ Head(queue) = k /\ k \in Keys
        /\ \A n \in 1..Len(Tail(queue)) : n + 1 \in 1..Len(queue) /\ Tail(queue)[n] = queue[n + 1]
    BY <1>4, <1>7 DEF Pop
  <2>2. /\ UNCHANGED <<last, pending>> /\ queue' = Tail(queue)
        /\ indexer' = [indexer EXCEPT ![k] = pending[k]]
    BY <1>7, <2>1 DEF Pop
  <2>3. PICK v \in 0..last : pending[k] = Scoped(k, v)
    BY <2>1 DEF OInv, Ordered
  <2>4. indexer'[k] = Scoped(k, v) /\ \A l \in Keys : l # k => indexer'[l] = indexer[l]
    BY <2>1, <2>2, <2>3 DEF OInv, IInv, TypeOK
  <2> HIDE DEF k
  <2>5. \A l \in Keys : \E u \in 0..last : indexer'[l] = Scoped(l, u)
    BY <2>1, <2>4 DEF OInv, Ordered
  <2>6. ASSUME NEW n \in 1..Len(queue')
        PROVE  \E u \in 0..last, w \in 0..last :
                  /\ u <= w
                  /\ indexer'[queue'[n]] = Scoped(queue'[n], u)
                  /\ pending'[queue'[n]] = Scoped(queue'[n], w)
    <3>1. n + 1 \in 1..Len(queue) /\ queue'[n] = queue[n + 1] /\ queue[n + 1] # k
      BY <1>4, <2>1, <2>2 DEF k, OInv, IInv, TypeOK
    <3> QED
      BY <1>4, <2>2, <2>4, <3>1 DEF OInv, Ordered
  <2> QED
    BY <1>2, <1>3, <2>2, <2>5, <2>6 DEF Ordered
<1>8. CASE Run \/ OpenWatch \/ WatchEnds \/ WatchExpires \/ UNCHANGED informerVars
  <2>1. UNCHANGED <<last, queue, pending, indexer>>
    BY <1>8 DEF Run, OpenWatch, WatchEnds, WatchExpires, informerVars, informer, fifo
  <2> QED
    BY <1>2, <1>3, <2>1 DEF OInv, Ordered
<1> QED
  BY <1>5, <1>6, <1>7, <1>8 DEF InformerStep, Reflector

\* Only Pop changes what is shown, and what it shows is as of a later version.
LEMMA NoStepBack ==
    OInv /\ [Next]_informerVars =>
        \A k \in Keys : indexer[k] # Nil /\ indexer'[k] # Nil => indexer[k].rv <= indexer'[k].rv
<1> SUFFICES ASSUME OInv, [Next]_informerVars, NEW k \in Keys, indexer[k] # Nil, indexer'[k] # Nil
             PROVE  indexer[k].rv <= indexer'[k].rv
  OBVIOUS
<1>1. CASE Pop
  <2>1. queue \in Seq(Keys) /\ queue # << >> /\ indexer \in [Keys -> Object \union {Nil}]
        /\ pending \in [Keys -> Object \union {Nil}] /\ last \in 0..Now /\ Now \in Nat
    BY <1>1 DEF Pop, OInv, IInv, TypeOK, Now
  <2>2. Head(queue) = queue[1] /\ 1 \in 1..Len(queue)
    BY <2>1
  <2>3. CASE k = queue[1]
    <3>1. indexer'[k] = pending[k]
      BY <1>1, <2>1, <2>2, <2>3 DEF Pop
    <3>2. PICK u \in 0..last, w \in 0..last :
             u <= w /\ indexer[k] = Scoped(k, u) /\ pending[k] = Scoped(k, w)
      BY <2>2, <2>3 DEF OInv, Ordered
    <3>3. u \in 0..Now /\ w \in 0..Now
      BY <2>1
    <3> QED
      BY <3>1, <3>2, <3>3, LaterIsNewer DEF OInv
  <2>4. CASE k # queue[1]
    <3>1. indexer'[k] = indexer[k] /\ indexer[k].rv \in Nat
      BY <1>1, <2>1, <2>2, <2>4 DEF Pop, Object
    <3> QED
      BY <3>1
  <2> QED
    BY <2>3, <2>4
<1>2. CASE ~Pop
  <2>1. indexer' = indexer
    BY <1>2 DEF Next, Users, Create, Update, Delete, Change, Run, InformerStep, Reflector, ListSucceeds,
       OpenWatch, ReceiveEvent, WatchEnds, WatchExpires, informerVars, informer
  <2>2. indexer[k].rv \in Nat
    BY PolicyInformerAssumption DEF OInv, IInv, TypeOK, Object
  <2> QED
    BY <2>1, <2>2
<1> QED
  BY <1>1, <1>2

\* The lister never goes back to an earlier version of a policy, for any number of
\* policies and changes.
THEOREM NeverGoesBack == Spec => NeverBack
<1>1. Init => OInv
  BY OrderedInitially
<1>2. OInv /\ [Next]_informerVars => OInv'
  BY StepKeeps, ChangeOrdered, InformerOrdered DEF OInv, Next
<1>3. OInv /\ [Next]_informerVars =>
          [\A k \in Keys :
              indexer[k] # Nil /\ indexer'[k] # Nil => indexer[k].rv <= indexer'[k].rv]_informerVars
  BY NoStepBack
<1> QED
  BY <1>1, <1>2, <1>3, PTL DEF Spec, NeverBack

---------------------------------------------------------------------------
(* The plugin that starts the informer *)

\* The lister and the wait are for the factory's one informer, and what ended the
\* wait stays true.
Wired ==
    /\ ppLister # Nil => ppLister = informers[PolicyType]
    /\ awaited # Nil => awaited = informers[PolicyType]
    /\ at = "ready" => runs[awaited] > 0 /\ HasSynced

SInv == IInv /\ StartupTypeOK /\ Wired

---------------------------------------------------------------------------
(* The informer *)

LEMMA StartupInitially == StartupInit => SInv
<1> SUFFICES ASSUME StartupInit PROVE SInv
  OBVIOUS
<1>1. factory \in Factories
  <2>1. factory = NewFilteredSharedInformerFactory(All, Everything)
    <3>1. WithNamespace(NewSharedInformerFactory, All) = NewSharedInformerFactory
      BY DEF WithNamespace, NewSharedInformerFactory
    <3>2. WithTweakListOptions(NewSharedInformerFactory, Everything) = NewSharedInformerFactory
      BY DEF WithTweakListOptions, NewSharedInformerFactory
    <3> QED
      BY <3>1, <3>2 DEF StartupInit, NewFilteredSharedInformerFactory
  <2> QED
    BY <2>1 DEF Factories
<1>2. IInv
  BY <1>1, Initially DEF StartupInit, Init
<1>3. StartupTypeOK /\ Wired
  BY PluginAssumption DEF StartupInit, PluginInit, Factory!Init, StartupTypeOK, Wired
<1> QED
  BY <1>2, <1>3 DEF SInv

\* A process that is started again has a new informer.
LEMMA RestartKeeps == IInv /\ UNCHANGED server /\ InformerInit' => IInv'
<1> SUFFICES ASSUME IInv, UNCHANGED server, InformerInit' PROVE IInv'
  OBVIOUS
<1> USE PolicyInformerAssumption DEF InformerInit, NoPolicies, server
<1>1. Now \in Nat /\ Now' = Now
  BY DEF IInv, TypeOK, Now
<1>2. TypeOK'
  BY <1>1 DEF IInv, TypeOK
<1>3. Reflecting' /\ Complete'
  BY DEF Reflecting, Complete
<1>4. Known'
  <2>1. \A k \in Keys : Scoped(k, 0)' = Nil
    BY DEF Scoped, Seen, At
  <2> QED
    BY <1>1, <2>1 DEF Known
<1> QED
  BY <1>2, <1>3, <1>4 DEF IInv

\* An informer that has synced stays so.
LEMMA SyncedStays == IInv /\ HasSynced /\ (Users \/ InformerStep) => HasSynced'
<1> SUFFICES ASSUME IInv, HasSynced, Users \/ InformerStep PROVE HasSynced'
  OBVIOUS
<1>1. CASE Users
  BY <1>1 DEF Users, Create, Update, Delete, Change, informer, fifo, HasSynced
<1>2. CASE ListSucceeds
  BY <1>2 DEF ListSucceeds, HasSynced
<1>3. CASE OpenWatch \/ ReceiveEvent \/ WatchEnds \/ WatchExpires
  BY <1>3 DEF OpenWatch, ReceiveEvent, WatchEnds, WatchExpires, fifo, HasSynced
<1>4. CASE Pop
  BY <1>4 DEF Pop, HasSynced
<1> QED
  BY <1>1, <1>2, <1>3, <1>4 DEF InformerStep, Reflector

---------------------------------------------------------------------------
(* New *)

\* Whoever asks for the informer gets the one that others have got.
LEMMA Asked ==
    ASSUME StartupTypeOK, InformerFor
    PROVE  /\ informers' \in [{PolicyType} -> Informers \union {Nil}]
           /\ informers'[PolicyType] \in Informers
           /\ runs' = runs
           /\ informers[PolicyType] # Nil => informers' = informers
BY PluginAssumption DEF StartupTypeOK, InformerFor, Factory!Register

LEMMA NewKeeps == SInv /\ New => SInv'
<1> SUFFICES ASSUME SInv, New PROVE SInv'
  OBVIOUS
<1> USE PluginAssumption DEF SInv
<1>1. IInv'
  <2>1. Run \/ UNCHANGED informerVars
    BY DEF New, NewPlacementPolicyManager, Start, AskHasSynced, WaitForCacheSync
  <2> QED
    BY <2>1, StepKeeps DEF Next
<1>2. CASE NewPlacementPolicyManager
  BY <1>1, <1>2, Asked DEF NewPlacementPolicyManager, StartupTypeOK, Wired
<1>3. CASE Start
  <2>1. CASE informers[PolicyType] # Nil
    BY <1>1, <1>3, <2>1 DEF Start, Factory!Run, StartupTypeOK, Wired
  <2>2. CASE informers[PolicyType] = Nil
    BY <1>1, <1>3, <2>2 DEF Start, StartupTypeOK, Wired
  <2> QED
    BY <2>1, <2>2
<1>4. CASE AskHasSynced
  BY <1>1, <1>4, Asked DEF AskHasSynced, StartupTypeOK, Wired
<1>5. CASE WaitForCacheSync
  BY <1>1, <1>5 DEF WaitForCacheSync, Synced, HasSynced, informerVars, informer, fifo,
     StartupTypeOK, Wired
<1> QED
  BY <1>2, <1>3, <1>4, <1>5 DEF New

LEMMA StartupKeeps == SInv /\ [StartupNext]_vars => SInv'
<1> SUFFICES ASSUME SInv, [StartupNext]_vars PROVE SInv'
  OBVIOUS
<1> USE PluginAssumption DEF SInv
<1>1. CASE main
  BY <1>1, StepKeeps DEF main, StartupTypeOK, Wired
<1>2. CASE New
  BY <1>2, NewKeeps
<1>3. CASE (Users \/ InformerStep) /\ UNCHANGED plugin
  <2>1. IInv'
    BY <1>3, StepKeeps DEF Next
  <2>2. HasSynced => HasSynced'
    BY <1>3, SyncedStays
  <2> QED
    BY <1>3, <2>1, <2>2 DEF plugin, StartupTypeOK, Wired
<1>4. CASE Crash
  <2>1. IInv'
    BY <1>4, RestartKeeps DEF Crash, InformerInit
  <2> QED
    BY <1>4, <2>1 DEF Crash, StartupTypeOK, Wired
<1>5. CASE UNCHANGED vars
  BY <1>5, StepKeeps DEF vars, plugin, informerVars, informer, fifo, HasSynced, StartupTypeOK, Wired
<1> QED
  BY <1>1, <1>2, <1>3, <1>4, <1>5 DEF StartupNext

---------------------------------------------------------------------------
(* The theorems *)

\* The inductive invariant holds in every reachable state.
THEOREM StartupInvariance == StartupSpec => []SInv
<1>1. StartupInit => SInv
  BY StartupInitially
<1>2. SInv /\ [StartupNext]_vars => SInv'
  BY StartupKeeps
<1> QED
  BY <1>1, <1>2, PTL DEF StartupSpec

\* The variables of New keep their types, and the lister is asked for before the
\* factory is started.
THEOREM StartupTypeCorrect == StartupSpec => []StartupTypeOK
<1>1. SInv => StartupTypeOK
  BY DEF SInv
<1> QED
  BY StartupInvariance, <1>1, PTL

\* No pod is scheduled before the manager sees the policies, through any number of
\* restarts.
THEOREM PoliciesFirst == StartupSpec => []NoPodBeforePolicies
<1>1. SInv => NoPodBeforePolicies
  <2> SUFFICES ASSUME SInv, at = "ready", NEW k \in Keys
               PROVE  \E v \in 0..Now : base # Nil /\ base <= v /\ Shown(k) = Scoped(k, v)
    BY DEF NoPodBeforePolicies
  <2>1. base # Nil /\ toPop = 0 /\ runs[awaited] > 0 /\ ppLister # Nil /\ awaited = ppLister
    BY DEF SInv, Wired, StartupTypeOK, HasSynced
  <2>2. Shown(k) = indexer[k]
    BY <2>1 DEF Shown, ListerList
  <2>3. PICK v \in base..Now : indexer[k] = Scoped(k, v)
    BY <2>1 DEF SInv, IInv, Complete
  <2>4. base \in Nat /\ Now \in Nat
    BY <2>1, PolicyInformerAssumption DEF SInv, IInv, TypeOK, Now
  <2> QED
    BY <2>1, <2>2, <2>3, <2>4
<1> QED
  BY StartupInvariance, <1>1, PTL
=============================================================================
