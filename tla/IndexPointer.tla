----------------------------- MODULE IndexPointer -----------------------------
(***************************************************************************)
(* What the index store promises its readers, without the protocol that    *)
(* keeps the promise: one pointer names a stored generation; publications  *)
(* happen one at a time; a publication that is not settled yet may be      *)
(* withdrawn, which restores exactly the generation it replaced; a power   *)
(* loss takes the pointer to one of the values it may have on disk, all of *)
(* them stored generations.                                                *)
(***************************************************************************)
CONSTANTS Tokens, NoToken, Settled

VARIABLES selected,  \* the generation readers are sent to
          durable,   \* what selected may be after a power loss
          stored,    \* the complete generations
          undo       \* what withdrawing the publication in progress restores

vars == <<selected, durable, stored, undo>>

Init ==
    /\ selected = NoToken
    /\ durable = {NoToken}
    /\ stored = {}
    /\ undo = Settled

Store ==
    /\ \E t \in Tokens : stored' = stored \cup {t}
    /\ UNCHANGED <<selected, durable, undo>>

Publish ==
    /\ undo = Settled
    /\ \E t \in stored \ {selected} :
          /\ selected' = t
          /\ durable' = durable \cup {t}
    /\ undo' = selected
    /\ UNCHANGED stored

Flush ==
    /\ durable' = {selected}
    /\ UNCHANGED <<selected, stored, undo>>

Settle ==
    /\ undo' = Settled
    /\ UNCHANGED <<selected, durable, stored>>

Withdraw ==
    /\ undo # Settled
    /\ selected' = undo
    /\ durable' = durable \cup {undo}
    /\ undo' = Settled
    /\ UNCHANGED stored

PowerLoss ==
    /\ selected' \in durable
    /\ durable' = {selected'}
    /\ stored' \in SUBSET stored
    /\ durable \ {NoToken} \subseteq stored'
    /\ undo' = Settled

Next == Store \/ Publish \/ Flush \/ Settle \/ Withdraw \/ PowerLoss

Spec == Init /\ [][Next]_vars

\* The promise in one state: whatever a reader may be sent to, now or after a
\* power loss, is a stored generation.
AlwaysStored == {selected} \cup durable \subseteq stored \cup {NoToken}

=============================================================================
