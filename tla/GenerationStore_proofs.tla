------------------------ MODULE GenerationStore_proofs ------------------------
(***************************************************************************)
(* Proofs about the publication protocol, for any number of builders,      *)
(* processes and generations.                                              *)
(***************************************************************************)
EXTENDS GenerationStore, TLAPS

LEMMA InitInductive == Init => IInv
  BY StoreAssumption DEF Init, IInv, TypeOK, Pointer, SurvivesPowerLoss

\* Every step of a build up to the mutex keeps the inductive invariant.
LEMMA PrepareKeepsInv ==
    ASSUME IInv, NEW b \in Builders,
           \/ Begin(b) \/ FindSelected(b) \/ RefuseMismatch(b)
           \/ AcceptPrevious(b) \/ WriteStage(b) \/ SyncStage(b) \/ Install(b)
           \/ ReuseInstalled(b) \/ SyncGenerations(b) \/ Abandon(b)
    PROVE  IInv'
  <1> USE StoreAssumption DEF IInv, TypeOK, Pointer, BeforeLock, Critical,
          SurvivesPowerLoss, fileVars, requestVars, Goto, Return, Readable
  <1>1. CASE Begin(b)
    BY <1>1 DEF Begin
  <1>2. CASE FindSelected(b)
    BY <1>2 DEF FindSelected
  <1>3. CASE RefuseMismatch(b)
    BY <1>3 DEF RefuseMismatch
  <1>4. CASE AcceptPrevious(b)
    BY <1>4 DEF AcceptPrevious
  <1>5. CASE WriteStage(b)
    BY <1>5 DEF WriteStage
  <1>6. CASE SyncStage(b)
    BY <1>6 DEF SyncStage
  <1>7. CASE Install(b)
    BY <1>7 DEF Install
  <1>8. CASE ReuseInstalled(b)
    BY <1>8 DEF ReuseInstalled
  <1>9. CASE SyncGenerations(b)
    BY <1>9 DEF SyncGenerations
  <1>10. CASE Abandon(b)
    BY <1>10 DEF Abandon
  <1>. QED
    BY <1>1, <1>2, <1>3, <1>4, <1>5, <1>6, <1>7, <1>8, <1>9, <1>10

\* Every step under the mutex keeps it.
LEMMA PublishKeepsInv ==
    ASSUME IInv, NEW b \in Builders,
           \/ CheckCurrent(b) \/ RefuseUnderLock(b) \/ BarrierRefuses(b)
           \/ ReplaceCurrent(b) \/ SyncState(b) \/ RereadCurrent(b)
           \/ Finish(b) \/ FailPublication(b) \/ RollBack(b)
           \/ SyncRollBack(b) \/ RollBackFails(b) \/ CheckSelected(b)
           \/ RefuseSelected(b) \/ ReturnSelected(b)
    PROVE  IInv'
  <1> USE StoreAssumption DEF IInv, TypeOK, Pointer, BeforeLock, Critical,
          SurvivesPowerLoss, fileVars, requestVars, Goto, Return, Readable,
          TakeLock, Unlock
  <1>1. CASE CheckCurrent(b)
    BY <1>1 DEF CheckCurrent
  <1>2. CASE RefuseUnderLock(b)
    BY <1>2 DEF RefuseUnderLock
  <1>3. CASE BarrierRefuses(b)
    BY <1>3 DEF BarrierRefuses
  <1>4. CASE ReplaceCurrent(b)
    BY <1>4 DEF ReplaceCurrent
  <1>5. CASE SyncState(b)
    BY <1>5 DEF SyncState
  <1>6. CASE RereadCurrent(b)
    BY <1>6 DEF RereadCurrent
  <1>7. CASE Finish(b)
    BY <1>7 DEF Finish
  <1>8. CASE FailPublication(b)
    BY <1>8 DEF FailPublication
  <1>9. CASE RollBack(b)
    BY <1>9 DEF RollBack
  <1>10. CASE SyncRollBack(b)
    BY <1>10 DEF SyncRollBack
  <1>11. CASE RollBackFails(b)
    BY <1>11 DEF RollBackFails
  <1>12. CASE CheckSelected(b)
    BY <1>12 DEF CheckSelected
  <1>13. CASE RefuseSelected(b)
    BY <1>13 DEF RefuseSelected
  <1>14. CASE ReturnSelected(b)
    BY <1>14 DEF ReturnSelected
  <1>. QED
    BY <1>1, <1>2, <1>3, <1>4, <1>5, <1>6, <1>7, <1>8, <1>9, <1>10, <1>11,
       <1>12, <1>13, <1>14

\* A killed process and a power loss keep it.
LEMMA FailureKeepsInv ==
    ASSUME IInv, PowerLoss \/ (\E p \in Processes : Crash(p))
    PROVE  IInv'
  <1> USE StoreAssumption DEF IInv, TypeOK, Pointer, BeforeLock, Critical,
          SurvivesPowerLoss, fileVars, requestVars, Drop
  <1>1. CASE PowerLoss
    BY <1>1 DEF PowerLoss
  <1>2. ASSUME NEW p \in Processes, Crash(p)
        PROVE  IInv'
    BY <1>2 DEF Crash
  <1>. QED
    BY <1>1, <1>2

LEMMA StepInductive == IInv /\ [Next]_vars => IInv'
  <1> SUFFICES ASSUME IInv, [Next]_vars
               PROVE  IInv'
    OBVIOUS
  <1>1. CASE UNCHANGED vars
    BY <1>1 DEF vars, IInv, TypeOK, SurvivesPowerLoss
  <1>2. CASE Next
    BY <1>2, PrepareKeepsInv, PublishKeepsInv, FailureKeepsInv
       DEF Next, Step, Proceed, Fail
  <1>. QED
    BY <1>1, <1>2

THEOREM Inductive == Spec => []IInv
  BY InitInductive, StepInductive, PTL DEF Spec

\* Type correctness of the protocol.
THEOREM TypeCorrect == Spec => []TypeOK
  <1>1. IInv => TypeOK
    BY DEF IInv
  <1>. QED
    BY <1>1, Inductive, PTL

\* Readers are never sent to a generation that is missing or incomplete
\* (loadGenerationContextObserved opens what CURRENT names), whatever builds,
\* rollbacks, kills and power losses happened, in any number of processes.
THEOREM SelectedStaysIntact == Spec => []SelectedIsIntact
  <1>1. IInv => SelectedIsIntact
    BY DEF IInv, TypeOK, Pointer, SurvivesPowerLoss, SelectedIsIntact
  <1>. QED
    BY <1>1, Inductive, PTL

\* CURRENT never reaches the disk before the generation it names.
THEOREM PointerSurvives == Spec => []SurvivesPowerLoss
  <1>1. IInv => SurvivesPowerLoss
    BY DEF IInv
  <1>. QED
    BY <1>1, Inductive, PTL

\* A step of a build keeps the mutex with somebody who will release it.
LEMMA StepKeepsMutex ==
    ASSUME TypeOK, MutexReleased, NEW b \in Builders, Begin(b) \/ Step(b)
    PROVE  MutexReleased'
  <1> USE StoreAssumption DEF TypeOK, MutexReleased, BeforeLock, Critical,
          Goto, Return, TakeLock, Unlock, LockFree
  <1>1. CASE Begin(b)
    BY <1>1 DEF Begin
  <1>2. CASE \/ FindSelected(b) \/ RefuseMismatch(b) \/ AcceptPrevious(b)
             \/ WriteStage(b) \/ SyncStage(b) \/ Install(b)
             \/ ReuseInstalled(b) \/ SyncGenerations(b) \/ Abandon(b)
    BY <1>2 DEF FindSelected, RefuseMismatch, AcceptPrevious, WriteStage,
           SyncStage, Install, ReuseInstalled, SyncGenerations, Abandon
  <1>3. CASE CheckCurrent(b) \/ CheckSelected(b)
    BY <1>3 DEF CheckCurrent, CheckSelected
  <1>4. CASE RefuseUnderLock(b) \/ RefuseSelected(b)
    BY <1>4 DEF RefuseUnderLock, RefuseSelected
  <1>5. CASE \/ ReplaceCurrent(b) \/ SyncState(b) \/ RereadCurrent(b)
             \/ FailPublication(b) \/ RollBack(b)
    BY <1>5 DEF ReplaceCurrent, SyncState, RereadCurrent, FailPublication,
           RollBack
  <1>6. CASE \/ BarrierRefuses(b) \/ Finish(b) \/ SyncRollBack(b)
             \/ RollBackFails(b) \/ ReturnSelected(b)
    BY <1>6 DEF BarrierRefuses, Finish, SyncRollBack, RollBackFails,
           ReturnSelected
  <1>. QED
    BY <1>1, <1>2, <1>3, <1>4, <1>5, <1>6 DEF Step, Proceed, Fail

\* The publication mutex is never left behind (atomic.go, publishCurrent and
\* validateSelectedCurrent), on any path of any number of builds.
THEOREM MutexNeverLeaks == Spec => []MutexReleased
  <1>1. Init => MutexReleased
    BY StoreAssumption DEF Init, MutexReleased
  <1>2. TypeOK /\ MutexReleased /\ [Next]_vars => MutexReleased'
    <2> SUFFICES ASSUME TypeOK, MutexReleased, [Next]_vars
                 PROVE  MutexReleased'
      OBVIOUS
    <2>1. CASE UNCHANGED vars
      BY <2>1 DEF vars, MutexReleased
    <2>2. ASSUME NEW b \in Builders, Begin(b) \/ Step(b)
          PROVE  MutexReleased'
      BY <2>2, StepKeepsMutex
    <2>3. ASSUME NEW p \in Processes, Crash(p)
          PROVE  MutexReleased'
      BY <2>3, StoreAssumption DEF TypeOK, MutexReleased, Crash, Drop
    <2>4. CASE PowerLoss
      BY <2>4, StoreAssumption DEF TypeOK, MutexReleased, PowerLoss, Drop
    <2>. QED
      BY <2>1, <2>2, <2>3, <2>4 DEF Next
  <1>. QED
    BY <1>1, <1>2, TypeCorrect, PTL DEF Spec

------------------------------------------------------------------------------
(***************************************************************************)
(* What the process-wide mutex guarantees when every build runs in one     *)
(* engine process, for any number of builders and generations: no lost     *)
(* update, rollbacks that touch nothing but their own publication,         *)
(* durable success, and the refinement of the abstract pointer.            *)
(***************************************************************************)
\* Two builders of one process are never both inside the mutex.
LEMMA AloneInside ==
    ASSUME OneProcess, TypeOK, ExclusiveInv, NEW a \in Builders,
           NEW b \in Builders, pc[a] \in Critical, pc[b] \in Critical
    PROVE  a = b
  BY StoreAssumption DEF OneProcess, TypeOK, ExclusiveInv

LEMMA InitExclusive == Init => ExclusiveInv
  BY DEF Init, ExclusiveInv, Critical

LEMMA PrepareKeepsExclusive ==
    ASSUME OneProcess, IInv, ExclusiveInv, NEW b \in Builders,
           \/ Begin(b) \/ FindSelected(b) \/ RefuseMismatch(b)
           \/ AcceptPrevious(b) \/ WriteStage(b) \/ SyncStage(b) \/ Install(b)
           \/ ReuseInstalled(b) \/ SyncGenerations(b) \/ Abandon(b)
    PROVE  ExclusiveInv'
  <1> USE StoreAssumption DEF IInv, TypeOK, ExclusiveInv, BeforeLock, Critical,
          Mismatch, fileVars, requestVars, Goto, Return
  <1>1. CASE Begin(b)
    BY <1>1 DEF Begin
  <1>2. CASE FindSelected(b) \/ RefuseMismatch(b) \/ AcceptPrevious(b)
    BY <1>2 DEF FindSelected, RefuseMismatch, AcceptPrevious
  <1>3. CASE WriteStage(b) \/ SyncStage(b)
    BY <1>3 DEF WriteStage, SyncStage
  <1>4. CASE Install(b) \/ ReuseInstalled(b)
    BY <1>4 DEF Install, ReuseInstalled
  <1>5. CASE SyncGenerations(b) \/ Abandon(b)
    BY <1>5 DEF SyncGenerations, Abandon
  <1>. QED
    BY <1>1, <1>2, <1>3, <1>4, <1>5

LEMMA PublishKeepsExclusive ==
    ASSUME OneProcess, IInv, ExclusiveInv, NEW b \in Builders,
           \/ CheckCurrent(b) \/ RefuseUnderLock(b) \/ BarrierRefuses(b)
           \/ ReplaceCurrent(b) \/ SyncState(b) \/ RereadCurrent(b)
           \/ Finish(b) \/ FailPublication(b) \/ RollBack(b)
           \/ SyncRollBack(b) \/ RollBackFails(b) \/ CheckSelected(b)
           \/ RefuseSelected(b) \/ ReturnSelected(b)
    PROVE  ExclusiveInv'
  <1> USE StoreAssumption DEF OneProcess, IInv, TypeOK, ExclusiveInv, Critical,
          Mismatch, fileVars, requestVars, Goto, Return, LockFree, TakeLock,
          Unlock
  <1>1. CASE CheckCurrent(b)
    BY <1>1 DEF CheckCurrent
  <1>2. CASE RefuseUnderLock(b) \/ RefuseSelected(b)
    BY <1>2 DEF RefuseUnderLock, RefuseSelected
  <1>3. CASE BarrierRefuses(b) \/ ReturnSelected(b)
    BY <1>3 DEF BarrierRefuses, ReturnSelected
  <1>4. CASE ReplaceCurrent(b)
    BY <1>4 DEF ReplaceCurrent
  <1>5. CASE SyncState(b)
    BY <1>5 DEF SyncState
  <1>6. CASE RereadCurrent(b) \/ FailPublication(b)
    BY <1>6 DEF RereadCurrent, FailPublication
  <1>7. CASE Finish(b)
    BY <1>7 DEF Finish
  <1>8. CASE RollBack(b)
    BY <1>8 DEF RollBack
  <1>9. CASE SyncRollBack(b) \/ RollBackFails(b)
    BY <1>9 DEF SyncRollBack, RollBackFails
  <1>10. CASE CheckSelected(b)
    BY <1>10 DEF CheckSelected
  <1>. QED
    BY <1>1, <1>2, <1>3, <1>4, <1>5, <1>6, <1>7, <1>8, <1>9, <1>10

LEMMA FailureKeepsExclusive ==
    ASSUME IInv, ExclusiveInv, PowerLoss \/ (\E p \in Processes : Crash(p))
    PROVE  ExclusiveInv'
  <1> USE StoreAssumption DEF IInv, TypeOK, ExclusiveInv, Critical, Mismatch,
          fileVars, requestVars, Drop
  <1>1. CASE PowerLoss
    BY <1>1 DEF PowerLoss
  <1>2. ASSUME NEW p \in Processes, Crash(p)
        PROVE  ExclusiveInv'
    BY <1>2 DEF Crash
  <1>. QED
    BY <1>1, <1>2

\* ExclusiveInv is inductive relative to IInv.
LEMMA StepExclusive ==
    ASSUME OneProcess
    PROVE  IInv /\ ExclusiveInv /\ [Next]_vars => ExclusiveInv'
  <1> SUFFICES ASSUME IInv, ExclusiveInv, [Next]_vars
               PROVE  ExclusiveInv'
    OBVIOUS
  <1>1. CASE UNCHANGED vars
    BY <1>1 DEF vars, ExclusiveInv, Critical, Mismatch
  <1>2. CASE Next
    BY <1>2, PrepareKeepsExclusive, PublishKeepsExclusive,
       FailureKeepsExclusive DEF Next, Step, Proceed, Fail
  <1>. QED
    BY <1>1, <1>2

\* The mutex holder's view of CURRENT is CURRENT.
THEOREM Exclusive == OneProcess => (Spec => []ExclusiveInv)
  <1> SUFFICES ASSUME OneProcess
               PROVE  Spec => []ExclusiveInv
    OBVIOUS
  <1>. QED
    BY InitExclusive, StepExclusive, Inductive, PTL DEF Spec

\* What one step of the protocol does to builder a, in one process: the three
\* action properties below are consequences.
LEMMA StepFacts ==
    ASSUME IInv, ExclusiveInv, Next, NEW a \in Builders
    PROVE  /\ pc[a] = "checked" /\ pc'[a] = "replaced" /\ expected[a] # NoToken
                 => current = expected[a]
           /\ pc[a] = "rollback" /\ pc'[a] = "rollbackSync" /\ current' # current
                 => current = target[a]
           /\ result[a] # "published" /\ result'[a] = "published"
                 => currentOnDisk' = {target[a]} /\ current' = target[a]
  <1> USE StoreAssumption DEF IInv, TypeOK, fileVars, requestVars, Goto, Return
  <1>1. ASSUME NEW b \in Builders, Begin(b) \/ Step(b)
        PROVE  /\ pc[a] = "rollback" /\ pc'[a] = "rollbackSync"
                       => current' = previous[a]
               /\ result[a] # "published" /\ result'[a] = "published"
                       => pc[a] = "finish" /\ current' = current
                          /\ currentOnDisk' = currentOnDisk
    BY <1>1 DEF Begin, Step, Proceed, Fail, FindSelected, RefuseMismatch, AcceptPrevious,
       WriteStage, SyncStage, Install, ReuseInstalled, SyncGenerations, Abandon,
       CheckCurrent, RefuseUnderLock, BarrierRefuses, ReplaceCurrent, SyncState,
       RereadCurrent, Finish, FailPublication, RollBack, SyncRollBack,
       RollBackFails, CheckSelected, RefuseSelected, ReturnSelected
  <1>2. ASSUME \/ PowerLoss \/ \E p \in Processes : Crash(p)
        PROVE  /\ pc[a] = "rollback" => pc'[a] # "rollbackSync"
               /\ result[a] # "published" => result'[a] # "published"
    BY <1>2 DEF PowerLoss, Crash, Drop
  <1>. QED
    BY <1>1, <1>2 DEF Next, ExclusiveInv, Mismatch

\* An update replaces only the generation it was computed from.
THEOREM NoLostUpdate == OneProcess => (Spec => CompareAndSwap)
  <1> SUFFICES ASSUME OneProcess
               PROVE  Spec => CompareAndSwap
    OBVIOUS
  <1>1. IInv /\ ExclusiveInv /\ [Next]_vars
            => [\A b \in Builders :
                  (pc[b] = "checked" /\ pc'[b] = "replaced"
                      /\ expected[b] # NoToken) => current = expected[b]]_vars
    BY StepFacts
  <1>. QED
    BY <1>1, Inductive, Exclusive, PTL DEF Spec, CompareAndSwap

\* A failing build withdraws nothing but its own publication.
THEOREM RollBackIsLocal == OneProcess => (Spec => RollBackUndoesOwn)
  <1> SUFFICES ASSUME OneProcess
               PROVE  Spec => RollBackUndoesOwn
    OBVIOUS
  <1>1. IInv /\ ExclusiveInv /\ [Next]_vars
            => [\A b \in Builders :
                  (pc[b] = "rollback" /\ pc'[b] = "rollbackSync"
                      /\ current' # current) => current = target[b]]_vars
    BY StepFacts
  <1>. QED
    BY <1>1, Inductive, Exclusive, PTL DEF Spec, RollBackUndoesOwn

\* A build that reports a publication has made it durable.
THEOREM PublicationIsDurable == OneProcess => (Spec => PublishedIsDurable)
  <1> SUFFICES ASSUME OneProcess
               PROVE  Spec => PublishedIsDurable
    OBVIOUS
  <1>1. IInv /\ ExclusiveInv /\ [Next]_vars
            => [\A b \in Builders :
                  (result[b] # "published" /\ result'[b] = "published")
                      => currentOnDisk' = {target[b]}
                         /\ current' = target[b]]_vars
    BY StepFacts
  <1>. QED
    BY <1>1, Inductive, Exclusive, PTL DEF Spec, PublishedIsDurable

------------------------------------------------------------------------------
(***************************************************************************)
(* Inside one engine process the publication protocol implements the       *)
(* abstract pointer of IndexPointer, for any number of builders and        *)
(* generations.                                                            *)
(***************************************************************************)
Stored == {t \in Tokens : generation[t] = "intact"}

LEMMA InitRefines == Init => Abstract!Init
  <1> SUFFICES ASSUME Init
               PROVE  Abstract!Init
    OBVIOUS
  <1>1. Unsettled = {}
    BY DEF Init, Unsettled
  <1>. QED
    BY <1>1 DEF Init, Abstract!Init, Undo

\* Only the builder inside the mutex can have an unsettled publication.
LEMMA UnsettledAlone ==
    ASSUME OneProcess, IInv, ExclusiveInv, NEW b \in Builders,
           pc[b] \in Critical
    PROVE  Unsettled \subseteq {b}
  BY AloneInside DEF IInv, Unsettled, Critical

\* Nobody has one while the mutex is free.
LEMMA UnsettledNone ==
    ASSUME OneProcess, IInv, ExclusiveInv, NEW b \in Builders, LockFree(b)
    PROVE  Unsettled = {}
  BY StoreAssumption
     DEF OneProcess, IInv, TypeOK, ExclusiveInv, LockFree, Unsettled, Critical

\* What the mapping makes of at most one unsettled publication.
LEMMA UndoOfOne ==
    ASSUME NEW b \in Builders, Unsettled \subseteq {b}
    PROVE  Undo = IF b \in Unsettled THEN previous[b] ELSE NoUndo
  <1>1. CASE Unsettled = {}
    BY <1>1 DEF Undo
  <1>2. CASE Unsettled = {b}
    BY <1>2 DEF Undo
  <1>. QED
    BY <1>1, <1>2

LEMMA UndoOfOneNext ==
    ASSUME NEW b \in Builders, Unsettled' \subseteq {b}
    PROVE  Undo' = IF b \in Unsettled' THEN previous'[b] ELSE NoUndo
  <1>1. CASE Unsettled' = {}
    BY <1>1 DEF Undo
  <1>2. CASE Unsettled' = {b}
    BY <1>2 DEF Undo
  <1>. QED
    BY <1>1, <1>2

\* Steps that leave CURRENT, the disk and every builder inside the mutex
\* alone are invisible, but for a generation that is stored.
LEMMA PrepareRefines ==
    ASSUME OneProcess, IInv, ExclusiveInv, NEW b \in Builders,
           \/ Begin(b) \/ FindSelected(b) \/ RefuseMismatch(b)
           \/ AcceptPrevious(b) \/ WriteStage(b) \/ SyncStage(b) \/ Install(b)
           \/ ReuseInstalled(b) \/ SyncGenerations(b) \/ Abandon(b)
    PROVE  Abstract!Next \/ UNCHANGED Abstract!vars
  <1> USE StoreAssumption DEF IInv, TypeOK
  <1>1. /\ UNCHANGED <<current, currentOnDisk, previous>>
        /\ Unsettled' = Unsettled
    BY DEF Begin, FindSelected, RefuseMismatch, AcceptPrevious, WriteStage,
       SyncStage, Install, ReuseInstalled, SyncGenerations, Abandon, Unsettled,
       fileVars, Goto, Return, BeforeLock
  <1>2. UNCHANGED Undo
    BY <1>1 DEF Undo
  <1>3. CASE Install(b)
    <2>1. Stored' = Stored \cup {target[b]} /\ target[b] \in Tokens
      BY <1>3 DEF Install, Stored
    <2>. QED
      BY <1>1, <1>2, <2>1 DEF Abstract!Next, Abstract!Store, Stored
  <1>4. CASE ~Install(b)
    <2>1. Stored' = Stored
      BY <1>4 DEF Begin, FindSelected, RefuseMismatch, AcceptPrevious,
         WriteStage, SyncStage, ReuseInstalled, SyncGenerations, Abandon,
         fileVars, Stored
    <2>. QED
      BY <1>1, <1>2, <2>1 DEF Abstract!vars, Stored
  <1>. QED
    BY <1>3, <1>4

\* Taking the mutex, and refusing at it, is invisible.
LEMMA LockRefines ==
    ASSUME OneProcess, IInv, ExclusiveInv, NEW b \in Builders,
           \/ CheckCurrent(b) \/ RefuseUnderLock(b) \/ CheckSelected(b)
           \/ RefuseSelected(b)
    PROVE  UNCHANGED Abstract!vars
  <1>1. LockFree(b)
    BY DEF CheckCurrent, RefuseUnderLock, CheckSelected, RefuseSelected
  <1>2. Unsettled = {}
    BY <1>1, UnsettledNone
  <1>3. Unsettled' = {}
    BY <1>2 DEF CheckCurrent, RefuseUnderLock, CheckSelected, RefuseSelected,
       Unsettled, fileVars, Goto, Return, IInv, TypeOK
  <1>4. UNCHANGED <<fileVars, Undo>>
    BY <1>2, <1>3 DEF Undo, CheckCurrent, RefuseUnderLock, CheckSelected,
       RefuseSelected, fileVars
  <1>. QED
    BY <1>4 DEF Abstract!vars, fileVars

\* The steps of the builder inside the mutex.
LEMMA InsideRefines ==
    ASSUME OneProcess, IInv, ExclusiveInv, NEW b \in Builders,
           \/ BarrierRefuses(b) \/ ReplaceCurrent(b) \/ SyncState(b)
           \/ RereadCurrent(b) \/ Finish(b) \/ FailPublication(b)
           \/ RollBack(b) \/ SyncRollBack(b) \/ RollBackFails(b)
           \/ ReturnSelected(b)
    PROVE  Abstract!Next \/ UNCHANGED Abstract!vars
  <1> USE DEF fileVars, Goto, Return
  <1>1. Unsettled \subseteq {b}
    BY UnsettledAlone DEF Critical, BarrierRefuses, ReplaceCurrent, SyncState,
       RereadCurrent, Finish, FailPublication, RollBack, SyncRollBack,
       RollBackFails, ReturnSelected
  <1>2. /\ UNCHANGED <<generation, previous>>
        /\ \A a \in Builders \ {b} : pc'[a] = pc[a]
    BY DEF BarrierRefuses, ReplaceCurrent, SyncState,
       RereadCurrent, Finish, FailPublication, RollBack, SyncRollBack,
       RollBackFails, ReturnSelected, IInv, TypeOK
  <1>3. \A a \in Builders \ {b} : pc[a] \notin Critical
    BY AloneInside DEF Critical, BarrierRefuses, ReplaceCurrent, SyncState,
       RereadCurrent, Finish, FailPublication, RollBack, SyncRollBack,
       RollBackFails, ReturnSelected, IInv
  <1>4. Unsettled' \subseteq {b}
    BY <1>2, <1>3 DEF Unsettled, Critical
  <1>5. /\ Undo = IF b \in Unsettled THEN previous[b] ELSE NoUndo
        /\ Undo' = IF b \in Unsettled' THEN previous[b] ELSE NoUndo
    BY <1>1, <1>2, <1>4, UndoOfOne, UndoOfOneNext
  <1>6. CASE BarrierRefuses(b) \/ ReturnSelected(b)
    <2>1. b \notin Unsettled /\ b \notin Unsettled'
      BY <1>6 DEF BarrierRefuses, ReturnSelected, Unsettled, IInv, TypeOK
    <2>. QED
      BY <1>2, <1>5, <1>6, <2>1 DEF BarrierRefuses, ReturnSelected, Abstract!vars
  <1>7. CASE ReplaceCurrent(b)
    <2>1. b \notin Unsettled /\ current = previous[b] /\ target[b] \in Tokens
      BY <1>7 DEF ReplaceCurrent, Unsettled, ExclusiveInv, IInv
    <2>2. target[b] \in Stored
      BY <1>7 DEF ReplaceCurrent, IInv, TypeOK, Stored
    <2>3. CASE target[b] = current
      <3>1. b \notin Unsettled' /\ currentOnDisk' = currentOnDisk
        BY <1>7, <2>1, <2>3 DEF ReplaceCurrent, Unsettled, IInv
      <3>. QED
        BY <1>2, <1>5, <1>7, <2>1, <2>3, <3>1
           DEF ReplaceCurrent, Abstract!vars
    <2>4. CASE target[b] # current
      <3>1. b \in Unsettled'
        BY <1>7, <2>1, <2>4 DEF ReplaceCurrent, Unsettled, IInv, TypeOK
      <3>. QED
        BY <1>2, <1>5, <1>7, <2>1, <2>2, <2>4, <3>1
           DEF ReplaceCurrent, Abstract!Next, Abstract!Publish, Stored
    <2>. QED
      BY <2>3, <2>4
  <1>8. CASE SyncState(b)
    <2>1. b \in Unsettled' <=> b \in Unsettled
      BY <1>8 DEF SyncState, Unsettled, IInv, TypeOK
    <2>. QED
      BY <1>2, <1>5, <1>8, <2>1 DEF SyncState, Abstract!Next, Abstract!Flush
  <1>9. CASE RereadCurrent(b) \/ FailPublication(b)
    <2>1. b \in Unsettled' <=> b \in Unsettled
      BY <1>9 DEF RereadCurrent, FailPublication, Unsettled, IInv, TypeOK,
         ExclusiveInv
    <2>. QED
      BY <1>2, <1>5, <1>9, <2>1
         DEF RereadCurrent, FailPublication, Abstract!vars
  <1>10. CASE Finish(b) \/ RollBackFails(b)
    <2>1. b \notin Unsettled'
      BY <1>10 DEF Finish, RollBackFails, Unsettled, IInv, TypeOK
    <2>. QED
      BY <1>2, <1>5, <1>10, <2>1
         DEF Finish, RollBackFails, Abstract!Next, Abstract!Settle
  <1>11. CASE RollBack(b)
    <2>1. b \notin Unsettled'
      BY <1>2, <1>11 DEF RollBack, Unsettled, IInv, TypeOK
    <2>2. CASE b \in Unsettled
      <3>1. previous[b] # NoUndo
        BY StoreAssumption DEF IInv, TypeOK, Pointer
      <3>. QED
        BY <1>2, <1>5, <1>11, <2>1, <2>2, <3>1
           DEF RollBack, Abstract!Next, Abstract!Withdraw
    <2>3. CASE b \notin Unsettled
      <3>1. current = previous[b]
        BY <1>11, <2>3 DEF RollBack, Unsettled
      <3>. QED
        BY <1>2, <1>5, <1>11, <2>1, <2>3, <3>1
           DEF RollBack, Abstract!vars, IInv
    <2>. QED
      BY <2>2, <2>3
  <1>12. CASE SyncRollBack(b)
    <2>1. b \notin Unsettled /\ b \notin Unsettled'
      BY <1>12 DEF SyncRollBack, Unsettled, ExclusiveInv, IInv, TypeOK
    <2>. QED
      BY <1>2, <1>5, <1>12, <2>1 DEF SyncRollBack, Abstract!Next, Abstract!Flush
  <1>. QED
    BY <1>6, <1>7, <1>8, <1>9, <1>10, <1>11, <1>12

\* A kill settles what it interrupts; a power loss falls back to the disk.
LEMMA FailureRefines ==
    ASSUME OneProcess, IInv, ExclusiveInv,
           PowerLoss \/ (\E p \in Processes : Crash(p))
    PROVE  Abstract!Next
  <1>1. CASE PowerLoss
    <2>1. Unsettled' = {}
      BY <1>1 DEF PowerLoss, Drop, Unsettled
    <2>2. Stored' \subseteq Stored /\ currentOnDisk \ {NoToken} \subseteq Stored'
      BY <1>1 DEF PowerLoss, Stored, IInv, TypeOK, SurvivesPowerLoss
    <2>. QED
      BY <1>1, <2>1, <2>2
         DEF PowerLoss, Undo, Stored, Abstract!Next, Abstract!PowerLoss
  <1>2. ASSUME NEW p \in Processes, Crash(p)
        PROVE  Abstract!Next
    <2>1. Unsettled' = {}
      BY <1>2 DEF Crash, Drop, Unsettled, OneProcess
    <2>. QED
      BY <1>2, <2>1 DEF Crash, fileVars, Undo, Abstract!Next, Abstract!Settle
  <1>. QED
    BY <1>1, <1>2

LEMMA StepRefines ==
    ASSUME OneProcess
    PROVE  IInv /\ ExclusiveInv /\ [Next]_vars => [Abstract!Next]_(Abstract!vars)
  <1> SUFFICES ASSUME IInv, ExclusiveInv, [Next]_vars
               PROVE  Abstract!Next \/ UNCHANGED Abstract!vars
    OBVIOUS
  <1>1. CASE UNCHANGED vars
    BY <1>1 DEF vars, Abstract!vars, Undo, Unsettled
  <1>2. CASE Next
    BY <1>2, PrepareRefines, LockRefines, InsideRefines, FailureRefines
       DEF Next, Step, Proceed, Fail
  <1>. QED
    BY <1>1, <1>2

\* In one process, every behaviour of the protocol is a behaviour of the
\* abstract pointer.
THEOREM StoreRefinesPointer == OneProcess => (Spec => ImplementsPointer)
  <1> SUFFICES ASSUME OneProcess
               PROVE  Spec => Abstract!Spec
    BY DEF ImplementsPointer
  <1>. QED
    BY InitRefines, StepRefines, Inductive, Exclusive, PTL
       DEF Spec, Abstract!Spec

==============================================================================
