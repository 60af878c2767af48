-------------------------- MODULE QuotaDepartures ---------------------------
(***************************************************************************)
(* PlacementQuota with a record of the pods decided since the last         *)
(* departure, to say what becomes of the share when pods leave.  The       *)
(* record is history only: it restricts no step.                           *)
(***************************************************************************)
EXTENDS PlacementQuota

VARIABLE since      \* the pods decided since the last departure

recordedVars == <<vars, since>>

RecordedInit == Init /\ since = {}

RecordedNext ==
    \/ (Disrupt \/ \E p \in Pods : Arrive(p)) /\ UNCHANGED since
    \/ \E p \in Pods : Decide(p) /\ since' = since \union {p}
    \/ \E p \in Pods : Depart(p) /\ since' = {}

RecordedSpec == RecordedInit /\ [][RecordedNext]_recordedVars

---------------------------------------------------------------------------
(* Properties *)

\* Pods that leave change the target without the decisions of the others being
\* revised, so the share may be exceeded or missed.  Each decision taken since
\* works against that, whatever it finds: while the share is exceeded no pod
\* decided since is preferred, and it is never missed by the pods decided since.
DeparturesHeal ==
    /\ Cardinality(preferred) > Quota(Cardinality(arrived)) => preferred \intersect since = {}
    /\ Cardinality(preferred) >= Quota(Cardinality(since))

\* Hence the share is exact again once every pod was decided since.
ExactAgain == since = arrived => Cardinality(preferred) = Quota(Cardinality(arrived))
=============================================================================
