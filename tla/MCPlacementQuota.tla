-------------------------- MODULE MCPlacementQuota --------------------------
(***************************************************************************)
(* Model checking PlacementQuota and QuotaDepartures: the rule the cfg     *)
(* file chooses.                                                           *)
(***************************************************************************)
EXTENDS QuotaDepartures

Percent(action, v) == [action |-> action, targetSize |-> [type |-> "percent", val |-> v]]

\* The rule of the README's strict-must policy.
Must40Percent == Percent("Must", 40)
=============================================================================
