--------------------------- MODULE MCPluginStartup ---------------------------
(***************************************************************************)
(* Model checking PluginStartup: two policies, and a spare informer for    *)
(* whoever does not take the factory's.  Liveness is checked, too, so      *)
(* symmetry is not used.                                                   *)
(***************************************************************************)
EXTENDS PluginStartup
=============================================================================
