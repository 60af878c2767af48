-------------------------- MODULE MCPolicyInformer ---------------------------
(***************************************************************************)
(* Model checking PolicyInformer: a policy in each of two namespaces, two  *)
(* labels, and every scope a factory may have.  Liveness is checked, too,  *)
(* so symmetry is not used.                                                *)
(***************************************************************************)
EXTENDS PolicyInformer
=============================================================================
