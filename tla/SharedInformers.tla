--------------------------- MODULE SharedInformers ---------------------------
(***************************************************************************)
(* What a shared informer factory promises, with no lock and no calls: for *)
(* a type there is one informer, everyone who asks gets that one, and it   *)
(* is run at most once, after it was registered.  InformerFactory is shown *)
(* to implement this specification.                                        *)
(***************************************************************************)
EXTENDS Naturals

CONSTANTS
    Types,          \* the object types an informer may be asked for
    Informers,      \* the informers that can be made
    Nil             \* no informer

VARIABLES
    informers,      \* the informer of a type, Nil before it is registered
    runs            \* how many goroutines run an informer

vars == <<informers, runs>>

Init ==
    /\ informers = [t \in Types |-> Nil]
    /\ runs = [i \in Informers |-> 0]

\* The first request for a type makes its informer, a new one.
Register(t, i) ==
    /\ informers[t] = Nil
    /\ \A u \in Types : informers[u] # i
    /\ informers' = [informers EXCEPT ![t] = i]
    /\ UNCHANGED runs

\* An informer that is registered starts to list and watch.
Run(t) ==
    /\ informers[t] # Nil
    /\ runs[informers[t]] = 0
    /\ runs' = [runs EXCEPT ![informers[t]] = 1]
    /\ UNCHANGED informers

Next == \E t \in Types : Run(t) \/ \E i \in Informers : Register(t, i)

Spec == Init /\ [][Next]_vars
=============================================================================
