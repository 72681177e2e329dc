-------------------------- MODULE MCGenerationStore --------------------------
(* Small instances of GenerationStore for TLC. *)
EXTENDS GenerationStore, TLC

CONSTANTS b1, b2, p1, p2

SameProcess  == [b \in {b1, b2} |-> p1]
EachItsOwn   == (b1 :> p1) @@ (b2 :> p2)

=============================================================================
