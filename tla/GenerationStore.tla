--------------------------- MODULE GenerationStore ---------------------------
(***************************************************************************)
(* The publication protocol of the native index store                      *)
(* (tools/taf-context-native/internal/store): a build stages a complete     *)
(* generation, renames it to its content-derived token, and then swings    *)
(* the one mutable file, CURRENT, to that token under a mutex that every   *)
(* build of the same operating system process shares.                      *)
(*                                                                         *)
(* A token is the generation identity: two builds of the same content and  *)
(* binding have the same token, so an existing generation may be reused.   *)
(* A build is untrusted (a full build) or trusted (an incremental update,  *)
(* which expects CURRENT still to name the generation it started from).    *)
(*                                                                         *)
(* The file system is modelled with what is visible and what is on disk:   *)
(* a rename is visible at once and survives a power loss only once the     *)
(* directory that holds it has been synced.                                *)
(***************************************************************************)
EXTENDS Naturals, FiniteSets

CONSTANTS Builders,    \* build and update operations in flight
          Processes,   \* engine processes: each has its own publication mutex
          ProcessOf,   \* the process a builder runs in
          Tokens,      \* generation identities
          NoToken,     \* CURRENT does not exist
          NoBuilder,   \* the mutex is free
          NoUndo       \* no publication is under way (refinement mapping)

ASSUME StoreAssumption ==
    /\ ProcessOf \in [Builders -> Processes]
    /\ NoToken \notin Tokens
    /\ NoBuilder \notin Builders
    /\ NoUndo \notin Tokens \cup {NoToken}

VARIABLES
    current,         \* the token CURRENT names, as every process sees it
    currentOnDisk,   \* the tokens CURRENT may name after a power loss
    generation,      \* what each entry of generations/ holds, as seen
    generationOnDisk,\* the entries of generations/ that survive a power loss
    lock,            \* each process's currentPublicationLock
    pc,              \* where each builder is in the build
    target,          \* the token a builder is publishing
    expected,        \* the trusted previous generation, NoToken for a full build
    previous,        \* what a builder read from CURRENT under the mutex
    staging,         \* a builder's private .stage-* directory
    result           \* what the last build of a builder returned

fileVars    == <<current, currentOnDisk, generation, generationOnDisk>>
requestVars == <<target, expected>>
vars == <<current, currentOnDisk, generation, generationOnDisk, lock, pc,
          target, expected, previous, staging, result>>

Pointer == Tokens \cup {NoToken}

BeforeLock == {"opening", "stage", "syncStage", "install", "settle",
               "pointer", "reuse"}
Critical   == {"checked", "replaced", "reread", "finish", "rollback",
               "rollbackSync", "reuseBarrier"}

TypeOK ==
    /\ current \in Pointer
    /\ currentOnDisk \in SUBSET Pointer
    /\ generation \in [Tokens -> {"absent", "fragile", "intact", "torn"}]
    /\ generationOnDisk \in SUBSET Tokens
    /\ lock \in [Processes -> Builders \cup {NoBuilder}]
    /\ pc \in [Builders -> {"idle"} \cup BeforeLock \cup Critical]
    /\ target \in [Builders -> Pointer]
    /\ expected \in [Builders -> Pointer]
    /\ previous \in [Builders -> Pointer]
    /\ staging \in [Builders -> {"none", "unsynced", "synced"}]
    /\ result \in [Builders -> {"none", "published", "reused", "failed",
                                "stranded"}]

Init ==
    /\ current = NoToken
    /\ currentOnDisk = {NoToken}
    /\ generation = [t \in Tokens |-> "absent"]
    /\ generationOnDisk = {}
    /\ lock = [p \in Processes |-> NoBuilder]
    /\ pc = [b \in Builders |-> "idle"]
    /\ target = [b \in Builders |-> NoToken]
    /\ expected = [b \in Builders |-> NoToken]
    /\ previous = [b \in Builders |-> NoToken]
    /\ staging = [b \in Builders |-> "none"]
    /\ result = [b \in Builders |-> "none"]

-----------------------------------------------------------------------------
(* Helpers *)

\* verifyGenerationArtifacts and validateGenerationMetadataContext: all three
\* files are there with the right bytes.
Readable(t) == generation[t] \in {"intact", "fragile"}

Goto(b, label) == pc' = [pc EXCEPT ![b] = label]

\* The build returns: its deferred cleanupStaging runs.
Return(b, outcome) ==
    /\ pc' = [pc EXCEPT ![b] = "idle"]
    /\ staging' = [staging EXCEPT ![b] = "none"]
    /\ result' = [result EXCEPT ![b] = outcome]

Unlock(b) == lock' = [lock EXCEPT ![ProcessOf[b]] = NoBuilder]

LockFree(b) == lock[ProcessOf[b]] = NoBuilder

TakeLock(b) == lock' = [lock EXCEPT ![ProcessOf[b]] = b]

\* A trusted build refuses a CURRENT that no longer names its previous
\* generation.
Mismatch(b, seen) == expected[b] # NoToken /\ seen # expected[b]

-----------------------------------------------------------------------------
(* The build, up to the publication mutex *)

\* A request reaches the store with its artifacts prepared. An update trusts
\* the generation it found selected; a full build trusts nothing.
Begin(b) ==
    /\ pc[b] = "idle"
    /\ \E t \in Tokens, e \in {NoToken, current} :
          /\ e # NoToken => Readable(e)
          /\ target' = [target EXCEPT ![b] = t]
          /\ expected' = [expected EXCEPT ![b] = e]
    /\ Goto(b, "opening")
    /\ result' = [result EXCEPT ![b] = "none"]
    /\ UNCHANGED <<fileVars, lock, previous, staging>>

\* CURRENT already names the wanted generation and its bytes verify.
FindSelected(b) ==
    /\ pc[b] = "opening"
    /\ current = target[b]
    /\ Readable(target[b])
    /\ Goto(b, "reuse")
    /\ UNCHANGED <<fileVars, lock, requestVars, previous, staging, result>>

\* Another build moved CURRENT since this one loaded its snapshot.
RefuseMismatch(b) ==
    /\ pc[b] = "opening"
    /\ current # target[b]
    /\ Mismatch(b, current)
    /\ Return(b, "failed")
    /\ UNCHANGED <<fileVars, lock, requestVars, previous>>

\* An untrusted build validates the generation CURRENT names before it starts.
AcceptPrevious(b) ==
    /\ pc[b] = "opening"
    /\ current # target[b]
    /\ ~Mismatch(b, current)
    /\ (current # NoToken /\ expected[b] = NoToken) => Readable(current)
    /\ Goto(b, "stage")
    /\ UNCHANGED <<fileVars, lock, requestVars, previous, staging, result>>

\* Mutant of WriteStage: the staged directory is never synced.
WriteStageUnsynced(b) ==
    /\ pc[b] = "stage"
    /\ staging' = [staging EXCEPT ![b] = "unsynced"]
    /\ Goto(b, "install")
    /\ UNCHANGED <<fileVars, lock, requestVars, previous, result>>

\* index.bin, manifest.json and READY are written, synced and read back.
WriteStage(b) ==
    /\ pc[b] = "stage"
    /\ staging' = [staging EXCEPT ![b] = "unsynced"]
    /\ Goto(b, "syncStage")
    /\ UNCHANGED <<fileVars, lock, requestVars, previous, result>>

SyncStage(b) ==
    /\ pc[b] = "syncStage"
    /\ staging' = [staging EXCEPT ![b] = "synced"]
    /\ Goto(b, "install")
    /\ UNCHANGED <<fileVars, lock, requestVars, previous, result>>

\* renameNew: the staged directory becomes generations/<token>.
Install(b) ==
    /\ pc[b] = "install"
    /\ generation[target[b]] = "absent"
    /\ generation' = [generation EXCEPT ![target[b]] =
                          IF staging[b] = "synced" THEN "intact" ELSE "fragile"]
    /\ staging' = [staging EXCEPT ![b] = "none"]
    /\ Goto(b, "settle")
    /\ UNCHANGED <<current, currentOnDisk, generationOnDisk, lock, requestVars,
                   previous, result>>

\* renameNew found the token taken: the same bytes are reused in place.
ReuseInstalled(b) ==
    /\ pc[b] = "install"
    /\ Readable(target[b])
    /\ Goto(b, "settle")
    /\ UNCHANGED <<fileVars, lock, requestVars, previous, staging, result>>

\* Mutant of SyncGenerations: the sync of the generations directory is lost.
SyncGenerationsLost(b) ==
    /\ pc[b] = "settle"
    /\ Readable(target[b])
    /\ Goto(b, "pointer")
    /\ UNCHANGED <<fileVars, lock, requestVars, previous, staging, result>>

\* Mutant of SyncGenerations: a CURRENT that does not exist is taken for the
\* name of a generation.
SyncGenerationsAndCurrent(b) ==
    /\ pc[b] = "settle"
    /\ Readable(target[b])
    /\ generationOnDisk' = {t \in Tokens : generation[t] # "absent"} \cup {current}
    /\ Goto(b, "pointer")
    /\ UNCHANGED <<current, currentOnDisk, generation, lock, requestVars,
                   previous, staging, result>>

\* The generations directory is synced and the installed bytes verified again.
SyncGenerations(b) ==
    /\ pc[b] = "settle"
    /\ Readable(target[b])
    /\ generationOnDisk' = {t \in Tokens : generation[t] # "absent"}
    /\ Goto(b, "pointer")
    /\ UNCHANGED <<current, currentOnDisk, generation, lock, requestVars,
                   previous, staging, result>>

\* Any error or cancellation before the mutex is taken: nothing visible moved.
Abandon(b) ==
    /\ pc[b] \in BeforeLock
    /\ Return(b, "failed")
    /\ UNCHANGED <<fileVars, lock, requestVars, previous>>

-----------------------------------------------------------------------------
(* The publication, under the mutex of the builder's process *)

\* Mutant of CheckCurrent: CURRENT is not compared again under the mutex.
CheckCurrentUncompared(b) ==
    /\ pc[b] = "pointer"
    /\ LockFree(b)
    /\ TakeLock(b)
    /\ previous' = [previous EXCEPT ![b] = current]
    /\ Goto(b, "checked")
    /\ UNCHANGED <<fileVars, requestVars, staging, result>>

\* publishCurrent: take the mutex, read CURRENT, compare.
CheckCurrent(b) ==
    /\ pc[b] = "pointer"
    /\ LockFree(b)
    /\ ~Mismatch(b, current)
    /\ TakeLock(b)
    /\ previous' = [previous EXCEPT ![b] = current]
    /\ Goto(b, "checked")
    /\ UNCHANGED <<fileVars, requestVars, staging, result>>

\* The compare fails: the mutex is released and the build returns.
RefuseUnderLock(b) ==
    /\ pc[b] = "pointer"
    /\ LockFree(b)
    /\ Mismatch(b, current)
    /\ Return(b, "failed")
    /\ UNCHANGED <<fileVars, lock, requestVars, previous>>

\* Mutant of BarrierRefuses: the mutex is not released on this return.
BarrierRefusesLocked(b) ==
    /\ pc[b] \in {"checked", "reuseBarrier"}
    /\ Return(b, "failed")
    /\ UNCHANGED <<fileVars, lock, requestVars, previous>>

\* The repository witness changed, or a fault fires before the rename.
BarrierRefuses(b) ==
    /\ pc[b] \in {"checked", "reuseBarrier"}
    /\ Unlock(b)
    /\ Return(b, "failed")
    /\ UNCHANGED <<fileVars, requestVars, previous>>

\* Mutant of ReplaceCurrent: the state directory is not synced afterwards.
ReplaceCurrentUnsynced(b) ==
    /\ pc[b] = "checked"
    /\ current' = target[b]
    /\ currentOnDisk' = currentOnDisk \cup {target[b]}
    /\ Goto(b, "reread")
    /\ UNCHANGED <<generation, generationOnDisk, lock, requestVars, previous,
                   staging, result>>

\* The witness holds and CURRENT is replaced by a rename.
ReplaceCurrent(b) ==
    /\ pc[b] = "checked"
    /\ current' = target[b]
    /\ currentOnDisk' = currentOnDisk \cup {target[b]}
    /\ Goto(b, "replaced")
    /\ UNCHANGED <<generation, generationOnDisk, lock, requestVars, previous,
                   staging, result>>

SyncState(b) ==
    /\ pc[b] = "replaced"
    /\ currentOnDisk' = {current}
    /\ Goto(b, "reread")
    /\ UNCHANGED <<current, generation, generationOnDisk, lock, requestVars,
                   previous, staging, result>>

\* CURRENT is read back and the generation it names verified once more.
RereadCurrent(b) ==
    /\ pc[b] = "reread"
    /\ current = target[b]
    /\ Readable(target[b])
    /\ Goto(b, "finish")
    /\ UNCHANGED <<fileVars, lock, requestVars, previous, staging, result>>

Finish(b) ==
    /\ pc[b] = "finish"
    /\ Unlock(b)
    /\ Return(b, "published")
    /\ UNCHANGED <<fileVars, requestVars, previous>>

\* Mutant of FailPublication: the mutex is released before the rollback.
FailPublicationUnlocked(b) ==
    /\ pc[b] \in {"checked", "replaced", "reread", "finish"}
    /\ Goto(b, "rollback")
    /\ Unlock(b)
    /\ UNCHANGED <<fileVars, requestVars, previous, staging, result>>

\* An error or a cancellation once the rename was tried: CURRENT is put back.
\* The read-back of RereadCurrent failing is one of these.
FailPublication(b) ==
    /\ pc[b] \in {"checked", "replaced", "reread", "finish"}
    /\ Goto(b, "rollback")
    /\ UNCHANGED <<fileVars, lock, requestVars, previous, staging, result>>

\* Mutant of RollBack: CURRENT is removed whatever it named before.
RollBackToNothing(b) ==
    /\ pc[b] = "rollback"
    /\ current' = NoToken
    /\ currentOnDisk' = currentOnDisk \cup {NoToken}
    /\ Goto(b, "rollbackSync")
    /\ UNCHANGED <<generation, generationOnDisk, lock, requestVars, previous,
                   staging, result>>

\* rollbackCurrentWithFilesystem: the previous pointer replaces CURRENT, or
\* CURRENT is removed when there was none.
RollBack(b) ==
    /\ pc[b] = "rollback"
    /\ current' = previous[b]
    /\ currentOnDisk' = currentOnDisk \cup {previous[b]}
    /\ Goto(b, "rollbackSync")
    /\ UNCHANGED <<generation, generationOnDisk, lock, requestVars, previous,
                   staging, result>>

SyncRollBack(b) ==
    /\ pc[b] = "rollbackSync"
    /\ currentOnDisk' = {current}
    /\ Unlock(b)
    /\ Return(b, "failed")
    /\ UNCHANGED <<current, generation, generationOnDisk, requestVars, previous>>

\* The rollback itself fails: the error is joined to the original one.
RollBackFails(b) ==
    /\ pc[b] \in {"rollback", "rollbackSync"}
    /\ Unlock(b)
    /\ Return(b, "stranded")
    /\ UNCHANGED <<fileVars, requestVars, previous>>

\* validateSelectedCurrent: the reused generation must still be selected.
CheckSelected(b) ==
    /\ pc[b] = "reuse"
    /\ LockFree(b)
    /\ current = target[b]
    /\ TakeLock(b)
    /\ Goto(b, "reuseBarrier")
    /\ UNCHANGED <<fileVars, requestVars, previous, staging, result>>

RefuseSelected(b) ==
    /\ pc[b] = "reuse"
    /\ LockFree(b)
    /\ current # target[b]
    /\ Return(b, "failed")
    /\ UNCHANGED <<fileVars, lock, requestVars, previous>>

ReturnSelected(b) ==
    /\ pc[b] = "reuseBarrier"
    /\ Unlock(b)
    /\ Return(b, "reused")
    /\ UNCHANGED <<fileVars, requestVars, previous>>

-----------------------------------------------------------------------------
(* Failures of the environment *)

\* The builders in S are gone; what they staged is left as litter under a
\* random name nobody looks up again.
Drop(S) ==
    /\ pc' = [b \in Builders |-> IF b \in S THEN "idle" ELSE pc[b]]
    /\ staging' = [b \in Builders |-> IF b \in S THEN "none" ELSE staging[b]]
    /\ result' = [b \in Builders |-> IF b \in S THEN "none" ELSE result[b]]

\* An engine process is killed: its mutex dies with it, the files stay.
Crash(p) ==
    /\ \E b \in Builders : ProcessOf[b] = p /\ pc[b] # "idle"
    /\ Drop({b \in Builders : ProcessOf[b] = p})
    /\ lock' = [lock EXCEPT ![p] = NoBuilder]
    /\ UNCHANGED <<fileVars, requestVars, previous>>

\* The machine loses power: unsynced renames survive or not, one by one, and
\* a directory renamed before it was synced comes back without its files.
PowerLoss ==
    /\ \E c \in currentOnDisk :
          current' = c /\ currentOnDisk' = {c}
    /\ \E kept \in SUBSET {t \in Tokens : generation[t] # "absent"} :
          /\ generationOnDisk \subseteq kept
          /\ generationOnDisk' = kept
          /\ generation' = [t \in Tokens |->
                 IF t \notin kept THEN "absent"
                 ELSE IF generation[t] = "fragile" THEN "torn"
                 ELSE generation[t]]
    /\ Drop(Builders)
    /\ lock' = [p \in Processes |-> NoBuilder]
    /\ UNCHANGED <<requestVars, previous>>

-----------------------------------------------------------------------------

\* What a build does when nothing goes wrong around it.
Proceed(b) ==
    \/ FindSelected(b) \/ RefuseMismatch(b) \/ AcceptPrevious(b)
    \/ WriteStage(b) \/ SyncStage(b) \/ Install(b) \/ ReuseInstalled(b)
    \/ SyncGenerations(b) \/ CheckCurrent(b) \/ RefuseUnderLock(b)
    \/ ReplaceCurrent(b) \/ SyncState(b) \/ RereadCurrent(b) \/ Finish(b)
    \/ RollBack(b) \/ SyncRollBack(b)
    \/ CheckSelected(b) \/ RefuseSelected(b) \/ ReturnSelected(b)

\* An error, a refusal of the witness or a cancellation.
Fail(b) ==
    Abandon(b) \/ BarrierRefuses(b) \/ FailPublication(b) \/ RollBackFails(b)

Step(b) == Proceed(b) \/ Fail(b)

Next ==
    \/ \E b \in Builders : Begin(b) \/ Step(b)
    \/ \E p \in Processes : Crash(p)
    \/ PowerLoss

Spec == Init /\ [][Next]_vars

-----------------------------------------------------------------------------
(* Properties *)

\* Readers open the generation CURRENT names without asking whether it was
\* published: whatever builds, failures and kills came before, that generation
\* is there and complete (store.go, loadGenerationContextObserved).
SelectedIsIntact == current # NoToken => generation[current] = "intact"

\* A power loss at any instant leaves CURRENT naming a generation that is on
\* disk: the generation is synced before the pointer that names it can be.
SurvivesPowerLoss == currentOnDisk \subseteq generationOnDisk \cup {NoToken}

\* The inductive strengthening of the two invariants above. A generation is on
\* disk from before its builder may touch CURRENT, and whatever CURRENT may be
\* put back to was on disk before that.
IInv ==
    /\ TypeOK
    /\ current \in currentOnDisk
    /\ SurvivesPowerLoss
    /\ \A t \in Tokens : generation[t] \in {"absent", "intact"}
    /\ \A t \in generationOnDisk : generation[t] = "intact"
    /\ \A b \in Builders :
          /\ pc[b] # "idle" => target[b] \in Tokens
          /\ pc[b] = "install" => staging[b] = "synced"
          /\ pc[b] \in {"pointer", "checked", "replaced", "reread", "finish"}
                 => target[b] \in generationOnDisk
          /\ pc[b] \in Critical \ {"reuseBarrier"}
                 => previous[b] \in generationOnDisk \cup {NoToken}

\* All builds run in one engine process.
OneProcess == \A a, b \in Builders : ProcessOf[a] = ProcessOf[b]

\* What the mutex buys inside one process: the holder's view of CURRENT is
\* CURRENT, from the comparison to the return.
ExclusiveInv ==
    \A b \in Builders :
        /\ pc[b] \in Critical => lock[ProcessOf[b]] = b
        /\ pc[b] = "checked" => current = previous[b] /\ ~Mismatch(b, current)
        /\ pc[b] \in {"replaced", "reread", "finish"} => current = target[b]
        /\ pc[b] \in {"reread", "finish"} => currentOnDisk = {current}
        /\ pc[b] = "rollback" => current \in {target[b], previous[b]}
        /\ pc[b] = "rollbackSync" => current = previous[b]

\* When a build reports that it published a generation, a power loss can no
\* longer take CURRENT back to what it named before.
PublishedIsDurable ==
    [][\A b \in Builders :
          (result[b] # "published" /\ result'[b] = "published")
              => currentOnDisk' = {target[b]} /\ current' = target[b]]_vars

\* An update replaces only the generation it was computed from: at the rename
\* CURRENT still names the trusted previous generation ("compare-and-swap",
\* store.go, the comment on the publication order).
CompareAndSwap ==
    [][\A b \in Builders :
          (pc[b] = "checked" /\ pc'[b] = "replaced" /\ expected[b] # NoToken)
              => current = expected[b]]_vars

\* A failing build takes back only its own publication, never a generation
\* that another build has published in the meantime.
RollBackUndoesOwn ==
    [][\A b \in Builders :
          (pc[b] = "rollback" /\ pc'[b] = "rollbackSync" /\ current' # current)
              => current = target[b]]_vars

\* The builder whose rename of CURRENT is not settled yet, and the pointer its
\* withdrawal would restore.
Unsettled ==
    {b \in Builders :
        /\ pc[b] \in {"replaced", "reread", "finish", "rollback", "rollbackSync"}
        /\ current # previous[b]}

Undo == IF Unsettled = {} THEN NoUndo
        ELSE previous[CHOOSE b \in Unsettled : TRUE]

Abstract == INSTANCE IndexPointer WITH
    selected <- current,
    durable  <- currentOnDisk,
    stored   <- {t \in Tokens : generation[t] = "intact"},
    undo     <- Undo,
    Settled  <- NoUndo

\* Inside one process the store implements the abstract pointer: publications
\* do not overlap, and a withdrawal restores what the publication replaced.
ImplementsPointer == Abstract!Spec

\* No error path returns with the mutex: whoever holds it is a build that runs,
\* in the process the mutex belongs to, at a place from which it will unlock. A
\* forgotten unlock would make every later build of that engine wait for ever
\* (atomic.go, publishCurrent and validateSelectedCurrent; store.go).
MutexReleased ==
    \A p \in Processes : lock[p] # NoBuilder =>
        /\ pc[lock[p]] \in Critical
        /\ ProcessOf[lock[p]] = p

=============================================================================
