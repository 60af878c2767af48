------------------------- MODULE MCInformerFactory --------------------------
(***************************************************************************)
(* Model checking InformerFactory: two callers, whom a mutex keeps apart,  *)
(* and two types, so that one may be started while the other is waited     *)
(* for.  Liveness is checked, too, so symmetry is not used.                *)
(***************************************************************************)
EXTENDS InformerFactory
=============================================================================
