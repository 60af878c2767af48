------------------------ MODULE InformerFactoryProofs ------------------------
(***************************************************************************)
(* Theorems about InformerFactory, for any goroutines, types and informers:*)
(* its types and the discipline of its mutex; that everyone who asks for a *)
(* type holds the same informer; that WaitForCacheSync covers what Start   *)
(* started; and that it implements SharedInformers.                        *)
(***************************************************************************)
EXTENDS InformerFactory, TLAPS

---------------------------------------------------------------------------
(* The inductive invariant *)

\* What InformerFor returned is what the map still has.
GotIsRegistered ==
    \A c \in Callers, t \in Types : got[c][t] # Nil => got[c][t] = informers[t]

\* An informer is in the map once, and one that is about to be put there is
\* new, is not run, and has a type without informer.
Distinct ==
    /\ \A t \in Types : informers[t] # Nil => informers[t] \in made
    /\ \A t, u \in Types : informers[t] # Nil /\ informers[t] = informers[u] => t = u
    /\ \A c \in Callers : at[c] = "insert" =>
          /\ op[c] = "InformerFor"
          /\ asked[c] \in Types /\ informers[asked[c]] = Nil
          /\ mine[c] \in made
          /\ runs[mine[c]] = 0
          /\ \A t \in Types : informers[t] # mine[c]

\* The types that were started, or are just being marked.
Marked == started \union {asked[c] : c \in {d \in Callers : at[d] = "mark"}}

\* Only informers of such types are run.
OnlyMarkedRun ==
    /\ \A i \in Informers \ made : runs[i] = 0
    /\ \A t \in Types : informers[t] # Nil /\ t \notin Marked => runs[informers[t]] = 0
    /\ \A t \in started : informers[t] # Nil
    /\ \A c \in Callers : at[c] = "mark" => asked[c] \in Registered

\* What a Start found registered is started, and a wait has it among what it
\* still waits for until it is synced.
WaitKnows ==
    /\ \A c \in Callers : owed[c] \subseteq {informers[t] : t \in started}
    /\ \A c \in Callers :
          op[c] = "WaitForCacheSync" /\ at[c] \in {"unlock", "waiting", "idle"} /\ ~stopped
              => owed[c] \subseteq todo[c] \union synced
    /\ \A c \in Callers : In(c, "WaitForCacheSync", "idle") => todo[c] = {}

\* A call that looks at the map for a type has one of the types at hand.
TypeAsked ==
    \A c \in Callers :
        \/ at[c] = "mark"
        \/ op[c] = "InformerFor" /\ at[c] \in {"lock", "body", "insert"}
        => asked[c] \in Types

IInv == TypeOK /\ TypeAsked /\ GotIsRegistered /\ Distinct /\ OnlyMarkedRun /\ WaitKnows

---------------------------------------------------------------------------
(* Types *)

LEMMA Initially == Init => IInv
<1> SUFFICES ASSUME Init PROVE IInv
  OBVIOUS
<1> USE NilAssumption DEF Init
<1>1. TypeOK
  BY DEF TypeOK, Ops, Places, Critical
<1>2. TypeAsked /\ GotIsRegistered /\ Distinct
  BY DEF TypeAsked, GotIsRegistered, Distinct
<1>3. OnlyMarkedRun
  BY DEF OnlyMarkedRun, Marked
<1>4. WaitKnows
  BY DEF WaitKnows, In
<1> QED
  BY <1>1, <1>2, <1>3, <1>4 DEF IInv

\* Types and mutex discipline, step by step: a caller is in the critical section
\* exactly while it holds the mutex, and it looks for types only.
LEMMA TypeStep == TypeOK /\ TypeAsked /\ [Next]_vars => TypeOK' /\ TypeAsked'
<1> SUFFICES ASSUME TypeOK, TypeAsked, [Next]_vars PROVE TypeOK' /\ TypeAsked'
  OBVIOUS
<1> USE NilAssumption DEF TypeOK, TypeAsked, Ops, Places, Critical, In, GoTo, Registered, data, outside, frame, results
<1>1. ASSUME NEW c \in Callers, Calls(c) PROVE TypeOK' /\ TypeAsked'
  <2>1. ASSUME NEW t \in Types, Call(c, "InformerFor", t) PROVE TypeOK' /\ TypeAsked'
    BY <2>1 DEF Call
  <2>2. CASE Call(c, "Start", Nil)
    BY <2>2 DEF Call
  <2>3. CASE Call(c, "WaitForCacheSync", Nil)
    BY <2>3 DEF Call
  <2> QED
    BY <1>1, <2>1, <2>2, <2>3 DEF Calls
<1>2. ASSUME NEW c \in Callers, Lock(c) PROVE TypeOK' /\ TypeAsked'
  BY <1>2 DEF Lock
<1>3. ASSUME NEW c \in Callers, ReturnExisting(c) PROVE TypeOK' /\ TypeAsked'
  BY <1>3 DEF ReturnExisting
<1>4. ASSUME NEW c \in Callers, NewInformer(c) PROVE TypeOK' /\ TypeAsked'
  BY <1>4 DEF NewInformer
<1>5. ASSUME NEW c \in Callers, InsertInformer(c) PROVE TypeOK' /\ TypeAsked'
  BY <1>5 DEF InsertInformer
<1>6. ASSUME NEW c \in Callers, RunInformer(c) PROVE TypeOK' /\ TypeAsked'
  BY <1>6 DEF RunInformer, ToStart
<1>7. ASSUME NEW c \in Callers, MarkStarted(c) PROVE TypeOK' /\ TypeAsked'
  BY <1>7 DEF MarkStarted
<1>8. ASSUME NEW c \in Callers, EndStart(c) PROVE TypeOK' /\ TypeAsked'
  BY <1>8 DEF EndStart
<1>9. ASSUME NEW c \in Callers, CopyStarted(c) PROVE TypeOK' /\ TypeAsked'
  BY <1>9 DEF CopyStarted
<1>10. ASSUME NEW c \in Callers, WaitForOne(c) PROVE TypeOK' /\ TypeAsked'
  BY <1>10 DEF WaitForOne
<1>11. ASSUME NEW c \in Callers, EndWait(c) PROVE TypeOK' /\ TypeAsked'
  BY <1>11 DEF EndWait
<1>12. ASSUME NEW c \in Callers, Unlock(c) PROVE TypeOK' /\ TypeAsked'
  BY <1>12 DEF Unlock, LeaveCritical
<1>13. ASSUME NEW i \in Informers, Sync(i) PROVE TypeOK' /\ TypeAsked'
  BY <1>13 DEF Sync
<1>14. CASE Stop
  BY <1>14 DEF Stop
<1>15. CASE UNCHANGED vars
  BY <1>15 DEF vars
<1> QED
  BY <1>1, <1>2, <1>3, <1>4, <1>5, <1>6, <1>7, <1>8, <1>9, <1>10, <1>11, <1>12, <1>13,
     <1>14, <1>15 DEF Next, Step

---------------------------------------------------------------------------
(* The other conjuncts *)

\* The map never loses or replaces an informer, so what was returned stays there.
LEMMA GotStep == IInv /\ [Next]_vars => GotIsRegistered'
<1> SUFFICES ASSUME IInv, [Next]_vars PROVE GotIsRegistered'
  OBVIOUS
<1> USE NilAssumption DEF IInv, TypeOK, In, GoTo, Registered, data, outside, frame, results, TypeAsked, GotIsRegistered, Distinct
<1>1. ASSUME NEW c \in Callers, Calls(c) PROVE GotIsRegistered'
  BY <1>1 DEF Calls, Call
<1>2. ASSUME NEW c \in Callers, Lock(c) PROVE GotIsRegistered'
  BY <1>2 DEF Lock
<1>3. ASSUME NEW c \in Callers, ReturnExisting(c) PROVE GotIsRegistered'
  BY <1>3 DEF ReturnExisting
<1>4. ASSUME NEW c \in Callers, NewInformer(c) PROVE GotIsRegistered'
  BY <1>4 DEF NewInformer
<1>5. ASSUME NEW c \in Callers, InsertInformer(c) PROVE GotIsRegistered'
  BY <1>5 DEF InsertInformer
<1>6. ASSUME NEW c \in Callers, RunInformer(c) PROVE GotIsRegistered'
  BY <1>6 DEF RunInformer, ToStart
<1>7. ASSUME NEW c \in Callers, MarkStarted(c) PROVE GotIsRegistered'
  BY <1>7 DEF MarkStarted
<1>8. ASSUME NEW c \in Callers, EndStart(c) PROVE GotIsRegistered'
  BY <1>8 DEF EndStart, ToStart
<1>9. ASSUME NEW c \in Callers, CopyStarted(c) PROVE GotIsRegistered'
  BY <1>9 DEF CopyStarted
<1>10. ASSUME NEW c \in Callers, WaitForOne(c) PROVE GotIsRegistered'
  BY <1>10 DEF WaitForOne
<1>11. ASSUME NEW c \in Callers, EndWait(c) PROVE GotIsRegistered'
  BY <1>11 DEF EndWait
<1>12. ASSUME NEW c \in Callers, Unlock(c) PROVE GotIsRegistered'
  BY <1>12 DEF Unlock, LeaveCritical
<1>13. ASSUME NEW i \in Informers, Sync(i) PROVE GotIsRegistered'
  BY <1>13 DEF Sync
<1>14. CASE Stop
  BY <1>14 DEF Stop
<1>15. CASE UNCHANGED vars
  BY <1>15 DEF vars
<1> QED
  BY <1>1, <1>2, <1>3, <1>4, <1>5, <1>6, <1>7, <1>8, <1>9, <1>10, <1>11, <1>12, <1>13,
     <1>14, <1>15 DEF Next, Step

\* Between making an informer and inserting it, its caller holds the mutex.
LEMMA DistinctStep == IInv /\ [Next]_vars => Distinct'
<1> SUFFICES ASSUME IInv, [Next]_vars PROVE Distinct'
  OBVIOUS
<1> USE NilAssumption DEF IInv, TypeOK, In, GoTo, Registered, data, outside, frame, results, TypeAsked, Distinct, OnlyMarkedRun, Critical
<1>1. ASSUME NEW c \in Callers, Calls(c) PROVE Distinct'
  BY <1>1 DEF Calls, Call
<1>2. ASSUME NEW c \in Callers, Lock(c) PROVE Distinct'
  BY <1>2 DEF Lock
<1>3. ASSUME NEW c \in Callers, ReturnExisting(c) PROVE Distinct'
  BY <1>3 DEF ReturnExisting
<1>4. ASSUME NEW c \in Callers, NewInformer(c) PROVE Distinct'
  BY <1>4 DEF NewInformer
<1>5. ASSUME NEW c \in Callers, InsertInformer(c) PROVE Distinct'
  BY <1>5 DEF InsertInformer
<1>6. ASSUME NEW c \in Callers, RunInformer(c) PROVE Distinct'
  BY <1>6 DEF RunInformer, ToStart
<1>7. ASSUME NEW c \in Callers, MarkStarted(c) PROVE Distinct'
  BY <1>7 DEF MarkStarted
<1>8. ASSUME NEW c \in Callers, EndStart(c) PROVE Distinct'
  BY <1>8 DEF EndStart, ToStart
<1>9. ASSUME NEW c \in Callers, CopyStarted(c) PROVE Distinct'
  BY <1>9 DEF CopyStarted
<1>10. ASSUME NEW c \in Callers, WaitForOne(c) PROVE Distinct'
  BY <1>10 DEF WaitForOne
<1>11. ASSUME NEW c \in Callers, EndWait(c) PROVE Distinct'
  BY <1>11 DEF EndWait
<1>12. ASSUME NEW c \in Callers, Unlock(c) PROVE Distinct'
  BY <1>12 DEF Unlock, LeaveCritical
<1>13. ASSUME NEW i \in Informers, Sync(i) PROVE Distinct'
  BY <1>13 DEF Sync
<1>14. CASE Stop
  BY <1>14 DEF Stop
<1>15. CASE UNCHANGED vars
  BY <1>15 DEF vars
<1> QED
  BY <1>1, <1>2, <1>3, <1>4, <1>5, <1>6, <1>7, <1>8, <1>9, <1>10, <1>11, <1>12, <1>13,
     <1>14, <1>15 DEF Next, Step

\* Between running an informer and marking its type, its caller holds the mutex.
LEMMA MarkedStep == IInv /\ [Next]_vars => OnlyMarkedRun'
<1> SUFFICES ASSUME IInv, [Next]_vars PROVE OnlyMarkedRun'
  OBVIOUS
<1> USE NilAssumption DEF IInv, TypeOK, In, GoTo, Registered, data, outside, frame, results, TypeAsked, Distinct, OnlyMarkedRun, Marked, Critical
<1>1. ASSUME NEW c \in Callers, Calls(c) PROVE OnlyMarkedRun'
  BY SMTT(60), <1>1 DEF Calls, Call
<1>2. ASSUME NEW c \in Callers, Lock(c) PROVE OnlyMarkedRun'
  BY <1>2 DEF Lock
<1>3. ASSUME NEW c \in Callers, ReturnExisting(c) PROVE OnlyMarkedRun'
  BY <1>3 DEF ReturnExisting
<1>4. ASSUME NEW c \in Callers, NewInformer(c) PROVE OnlyMarkedRun'
  BY <1>4 DEF NewInformer
<1>5. ASSUME NEW c \in Callers, InsertInformer(c) PROVE OnlyMarkedRun'
  BY <1>5 DEF InsertInformer
<1>6. ASSUME NEW c \in Callers, RunInformer(c) PROVE OnlyMarkedRun'
  BY <1>6 DEF RunInformer, ToStart
<1>7. ASSUME NEW c \in Callers, MarkStarted(c) PROVE OnlyMarkedRun'
  BY <1>7 DEF MarkStarted
<1>8. ASSUME NEW c \in Callers, EndStart(c) PROVE OnlyMarkedRun'
  BY <1>8 DEF EndStart, ToStart
<1>9. ASSUME NEW c \in Callers, CopyStarted(c) PROVE OnlyMarkedRun'
  BY <1>9 DEF CopyStarted
<1>10. ASSUME NEW c \in Callers, WaitForOne(c) PROVE OnlyMarkedRun'
  BY <1>10 DEF WaitForOne
<1>11. ASSUME NEW c \in Callers, EndWait(c) PROVE OnlyMarkedRun'
  BY <1>11 DEF EndWait
<1>12. ASSUME NEW c \in Callers, Unlock(c) PROVE OnlyMarkedRun'
  BY <1>12 DEF Unlock, LeaveCritical
<1>13. ASSUME NEW i \in Informers, Sync(i) PROVE OnlyMarkedRun'
  BY <1>13 DEF Sync
<1>14. CASE Stop
  BY <1>14 DEF Stop
<1>15. CASE UNCHANGED vars
  BY <1>15 DEF vars
<1> QED
  BY <1>1, <1>2, <1>3, <1>4, <1>5, <1>6, <1>7, <1>8, <1>9, <1>10, <1>11, <1>12, <1>13,
     <1>14, <1>15 DEF Next, Step

\* What was started stays started, and a wait drops what is synced only.
LEMMA WaitStep == IInv /\ [Next]_vars => WaitKnows'
<1> SUFFICES ASSUME IInv, [Next]_vars PROVE WaitKnows'
  OBVIOUS
<1> USE NilAssumption DEF IInv, TypeOK, In, GoTo, Registered, data, outside, frame, results, TypeAsked, OnlyMarkedRun, Distinct, WaitKnows, Critical
<1>1. ASSUME NEW c \in Callers, Calls(c) PROVE WaitKnows'
  <2>1. PICK o \in Ops, t \in Types \union {Nil} : Call(c, o, t)
    BY <1>1 DEF Calls, Ops
  <2> QED
    BY <2>1 DEF Call
<1>2. ASSUME NEW c \in Callers, Lock(c) PROVE WaitKnows'
  BY <1>2 DEF Lock
<1>3. ASSUME NEW c \in Callers, ReturnExisting(c) PROVE WaitKnows'
  BY <1>3 DEF ReturnExisting
<1>4. ASSUME NEW c \in Callers, NewInformer(c) PROVE WaitKnows'
  BY <1>4 DEF NewInformer
<1>5. ASSUME NEW c \in Callers, InsertInformer(c) PROVE WaitKnows'
  BY <1>5 DEF InsertInformer
<1>6. ASSUME NEW c \in Callers, RunInformer(c) PROVE WaitKnows'
  BY <1>6 DEF RunInformer, ToStart
<1>7. ASSUME NEW c \in Callers, MarkStarted(c) PROVE WaitKnows'
  BY <1>7 DEF MarkStarted
<1>8. ASSUME NEW c \in Callers, EndStart(c) PROVE WaitKnows'
  BY <1>8 DEF EndStart, ToStart
<1>9. ASSUME NEW c \in Callers, CopyStarted(c) PROVE WaitKnows'
  BY <1>9 DEF CopyStarted
<1>10. ASSUME NEW c \in Callers, WaitForOne(c) PROVE WaitKnows'
  BY <1>10 DEF WaitForOne
<1>11. ASSUME NEW c \in Callers, EndWait(c) PROVE WaitKnows'
  BY <1>11 DEF EndWait
<1>12. ASSUME NEW c \in Callers, Unlock(c) PROVE WaitKnows'
  BY <1>12 DEF Unlock, LeaveCritical
<1>13. ASSUME NEW i \in Informers, Sync(i) PROVE WaitKnows'
  BY <1>13 DEF Sync
<1>14. CASE Stop
  BY <1>14 DEF Stop
<1>15. CASE UNCHANGED vars
  BY <1>15 DEF vars
<1> QED
  BY <1>1, <1>2, <1>3, <1>4, <1>5, <1>6, <1>7, <1>8, <1>9, <1>10, <1>11, <1>12, <1>13,
     <1>14, <1>15 DEF Next, Step

---------------------------------------------------------------------------
(* Theorems *)

\* The strengthened invariant holds in every reachable state.
THEOREM Invariance == Spec => []IInv
<1>1. IInv /\ [Next]_vars => IInv'
  BY TypeStep, GotStep, DistinctStep, MarkedStep, WaitStep DEF IInv
<1> QED
  BY Initially, <1>1, PTL DEF Spec

\* The variables keep their types and the mutex is held by exactly the goroutine
\* that is between f.lock.Lock() and its deferred Unlock.
THEOREM TypeCorrect == Spec => []TypeOK
<1>1. IInv => TypeOK
  BY DEF IInv
<1> QED
  BY <1>1, Invariance, PTL

\* Whoever asked InformerFor for a type holds the same informer.
THEOREM SameInformerHeld == Spec => []SameInformer
<1>1. IInv => SameInformer
  BY DEF IInv, GotIsRegistered, SameInformer
<1> QED
  BY <1>1, Invariance, PTL

\* After WaitForCacheSync everything the caller started is synced.
THEOREM WaitCovers == Spec => []WaitCoversStart
<1>1. IInv => WaitCoversStart
  <2> SUFFICES ASSUME IInv, NEW c \in Callers, In(c, "WaitForCacheSync", "idle"), ~stopped
               PROVE owed[c] \subseteq synced
    BY DEF WaitCoversStart
  <2>1. owed[c] \subseteq todo[c] \union synced /\ todo[c] = {}
    BY DEF IInv, WaitKnows, In
  <2> QED
    BY <2>1
<1> QED
  BY <1>1, Invariance, PTL

\* The factory implements SharedInformers: to insert an informer is to register
\* it, to run one is to run it, and every other step is a stutter.
THEOREM Implements == Spec => InformersShared
<1>1. Init => Promise!Init
  BY DEF Init, Promise!Init
<1>2. IInv /\ [Next]_vars => [Promise!Next]_Promise!vars
  <2> SUFFICES ASSUME IInv, [Next]_vars PROVE [Promise!Next]_Promise!vars
    OBVIOUS
  <2> USE DEF Promise!vars
  <2>1. ASSUME NEW c \in Callers, InsertInformer(c) PROVE Promise!Next
    <3>1. /\ asked[c] \in Types /\ mine[c] \in Informers
          /\ informers[asked[c]] = Nil
          /\ \A t \in Types : informers[t] # mine[c]
      BY <2>1, NilAssumption DEF InsertInformer, In, IInv, Distinct, TypeOK
    <3>2. Promise!Register(asked[c], mine[c])
      BY <2>1, <3>1 DEF InsertInformer, Promise!Register
    <3> QED
      BY <3>1, <3>2 DEF Promise!Next
  <2>2. ASSUME NEW c \in Callers, RunInformer(c) PROVE Promise!Next
    <3>1. PICK t \in ToStart : runs' = [runs EXCEPT ![informers[t]] = @ + 1]
      BY <2>2 DEF RunInformer
    <3>2. \A d \in Callers : at[d] # "mark"
      BY <2>2, NilAssumption DEF RunInformer, In, IInv, TypeOK, Critical
    <3>3. t \in Types /\ informers[t] \in Informers /\ runs[informers[t]] = 0
      BY <3>2, NilAssumption DEF ToStart, Registered, IInv, OnlyMarkedRun, Marked, TypeOK
    <3>4. runs' = [runs EXCEPT ![informers[t]] = 1]
      BY <3>1, <3>3
    <3>5. Promise!Run(t)
      BY <2>2, <3>3, <3>4, NilAssumption DEF RunInformer, Promise!Run
    <3> QED
      BY <3>3, <3>5 DEF Promise!Next
  <2>3. ASSUME NEW c \in Callers, Calls(c) \/ Lock(c) PROVE UNCHANGED <<informers, runs>>
    BY <2>3 DEF Calls, Call, Lock, data
  <2>4. ASSUME NEW c \in Callers, Step(c), ~InsertInformer(c), ~RunInformer(c)
        PROVE UNCHANGED <<informers, runs>>
    BY <2>4 DEF Step, ReturnExisting, NewInformer, MarkStarted, EndStart, CopyStarted, WaitForOne,
       EndWait, Unlock, LeaveCritical, data
  <2>5. CASE UNCHANGED vars \/ Stop \/ \E i \in Informers : Sync(i)
    BY <2>5 DEF vars, data, Stop, Sync
  <2> QED
    BY <2>1, <2>2, <2>3, <2>4, <2>5 DEF Next
<1> QED
  BY <1>1, <1>2, Invariance, PTL DEF Spec, InformersShared, Promise!Spec
=============================================================================
