--------------------------- MODULE MCEngineSession ---------------------------
(* The sessions of a broker and of a hook with small bounds, for TLC. *)
EXTENDS ImpactHook
=============================================================================
