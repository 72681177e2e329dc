----------------------------- MODULE MCRefresh -----------------------------
(***************************************************************************)
(* Two sessions, two files and two contents. The sessions are symmetric.    *)
(***************************************************************************)
EXTENDS Refresh, TLC

Symmetric == Permutations(Sessions)
=============================================================================
