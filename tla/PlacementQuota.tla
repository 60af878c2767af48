--------------------------- MODULE PlacementQuota ---------------------------
(***************************************************************************)
(* What a Strict placement policy promises about the pods it governs, with *)
(* no queue, cache, annotation or API server: pods arrive, the scheduler   *)
(* decides for each arrived pod, once or several times, whether it goes to *)
(* the selected nodes, and as long as no pod is deleted the policy's exact *)
(* share of the decided pods goes there.  PlacementPolicy is checked to    *)
(* implement this specification.                                           *)
(***************************************************************************)
EXTENDS PlacementRules

CONSTANTS
    Pods,           \* the pods the policy governs
    Rule            \* spec.policy: its action and its target size

ASSUME PodsAssumption == IsFiniteSet(Pods)

\* A sensible target: a count, or a percentage of the pods.
ASSUME RuleAssumption ==
    /\ Rule.action \in Actions
    /\ \/ Rule.targetSize.type = "int" /\ Rule.targetSize.val \in Nat
       \/ Rule.targetSize.type = "percent" /\ Rule.targetSize.val \in 0..100

VARIABLES
    arrived,        \* the pods that exist
    decided,        \* those that were given a preference
    preferred,      \* those that were sent to the selected nodes
    intact          \* whether no deletion has been asked for yet

vars == <<arrived, decided, preferred, intact>>

\* How many of n pods the policy wants on the selected nodes, made possible:
\* an absolute target may exceed n, and its MustNot complement be negative.
Quota(n) ==
    LET t == TargetSize(Rule, n) IN IF t < 0 THEN 0 ELSE IF t > n THEN n ELSE t

Init == arrived = {} /\ decided = {} /\ preferred = {} /\ intact = TRUE

Arrive(p) ==
    /\ p \notin arrived
    /\ arrived' = arrived \union {p}
    /\ UNCHANGED <<decided, preferred, intact>>

\* Mutants of Wanted: "less than or equal" for "less than"; one less than the
\* target; the pod counts itself.
WantedUpToTarget(p) == Cardinality(preferred \ {p}) <= TargetSize(Rule, Cardinality(arrived))
WantedBelowTarget(p) == Cardinality(preferred \ {p}) + 1 < TargetSize(Rule, Cardinality(arrived))
WantedCountingSelf(p) == Cardinality(preferred) < TargetSize(Rule, Cardinality(arrived))

\* Fewer of the other pods than the target are on the selected nodes.
Wanted(p) == Cardinality(preferred \ {p}) < TargetSize(Rule, Cardinality(arrived))

\* Mutant of Decide: the decision is not recorded.
DecideUnrecorded(p) ==
    /\ p \in arrived
    /\ preferred' = IF Wanted(p) THEN preferred \union {p} ELSE preferred \ {p}
    /\ UNCHANGED <<arrived, decided, intact>>

\* Mutant of Decide: a decision once taken is kept.
DecideOnce(p) ==
    /\ p \in arrived
    /\ decided' = decided \union {p}
    /\ preferred' = IF p \in decided THEN preferred
                    ELSE IF Wanted(p) THEN preferred \union {p} ELSE preferred
    /\ UNCHANGED <<arrived, intact>>

\* One scheduling cycle decides for p; a pod whose cycle failed is decided again.
Decide(p) ==
    /\ p \in arrived
    /\ decided' = decided \union {p}
    /\ preferred' = IF Wanted(p) THEN preferred \union {p} ELSE preferred \ {p}
    /\ UNCHANGED <<arrived, intact>>

\* The first deletion is asked for; from then on pods may leave.
Disrupt ==
    /\ intact
    /\ intact' = FALSE
    /\ UNCHANGED <<arrived, decided, preferred>>

Depart(p) ==
    /\ ~intact
    /\ p \in arrived
    /\ arrived' = arrived \ {p}
    /\ decided' = decided \ {p}
    /\ preferred' = preferred \ {p}
    /\ UNCHANGED intact

Next == Disrupt \/ \E p \in Pods : Arrive(p) \/ Decide(p) \/ Depart(p)

Spec == Init /\ [][Next]_vars

---------------------------------------------------------------------------
(* Properties *)

\* Only arrived pods are decided and only decided pods are preferred.
TypeOK ==
    /\ arrived \subseteq Pods
    /\ decided \subseteq arrived
    /\ preferred \subseteq decided
    /\ intact \in BOOLEAN

\* Until a deletion is asked for, the preferred pods never exceed the policy's
\* share of the arrived pods (PreFilter's "less than the target size" test)...
NeverTooMany == intact => Cardinality(preferred) <= Quota(Cardinality(arrived))

\* ...and never fall short of its share of the decided ones.
NeverTooFew == intact => Cardinality(preferred) >= Quota(Cardinality(decided))

\* Hence the share is exact whenever every arrived pod has been decided.
Exact == intact /\ decided = arrived => Cardinality(preferred) = Quota(Cardinality(arrived))

\* Deciding a pod again never takes a preference away: the annotation that
\* other pods' decisions counted on stays true, until a deletion is asked for.
NeverRevoked ==
    [][intact => preferred \subseteq preferred']_vars
=============================================================================
