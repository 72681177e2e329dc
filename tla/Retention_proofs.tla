--------------------------- MODULE Retention_proofs ---------------------------
(***************************************************************************)
(* What the refresh lock, the generation a refresh protects and the        *)
(* comparison before a publication achieve, when nothing but refreshes     *)
(* touches the store, for any number of sessions and generations and any   *)
(* grace period.                                                           *)
(***************************************************************************)
EXTENDS Retention, TLAPS

\* Age is capped, so that it stays an age.
LEMMA OlderIsAnAge ==
    ASSUME NEW a \in Ages
    PROVE  Older(a) \in Ages
  BY RetentionAssumption DEF Ages, Older

\* A selection overtakes a load at most twice as far as it is counted.
LEMMA SelectTypes ==
    ASSUME TypeOK, NEW t \in Pointer, NEW m \in Ages, Select(t, m)
    PROVE  /\ current' \in Pointer /\ currentAge' \in Ages
           /\ overtaken' \in [Sessions -> 0 .. 2]
           /\ UNCHANGED <<storeVars, loading>>
<1>1. \A s \in Sessions : overtaken[s] \in 0 .. 2
  BY DEF TypeOK
<1>2. \A s \in Sessions :
          (IF loading[s] # NoToken /\ overtaken[s] < 2
           THEN overtaken[s] + 1 ELSE overtaken[s]) \in 0 .. 2
  BY <1>1
<1> QED
  BY <1>2 DEF Select

\* The variables have their types, whatever the sessions are asked to do.
LEMMA StepTypes ==
    ASSUME TypeOK, [Next]_vars
    PROVE  TypeOK'
<1> USE RetentionAssumption DEF TypeOK, Pointer, Publishing, Goto, Release,
    pointerVars, storeVars, engineVars, pruneVars, loadVars
<1>1. 0 \in Ages
  BY DEF Ages
<1>2. CASE UNCHANGED vars
  BY <1>2 DEF vars
<1>3. CASE Tick
  <2>1. age' \in [Tokens -> Ages]
    BY <1>1, <1>3, OlderIsAnAge DEF Tick
  <2>2. stopwatch' \in [Sessions -> Ages]
    BY <1>3, OlderIsAnAge DEF Tick
  <2> QED
    BY <1>3, <2>1, <2>2, OlderIsAnAge DEF Tick
<1>4. ASSUME NEW s \in Sessions, Return(s)
      PROVE  TypeOK'
  BY <1>1, <1>4 DEF Return, Reset, ResetLoad
<1>5. ASSUME NEW s \in Sessions, Start(s)
      PROVE  TypeOK'
  <2>1. CASE StartRefresh(s)
    BY <2>1 DEF StartRefresh
  <2>2. CASE StartBuild(s) \/ StartQuery(s)
    BY <2>2 DEF StartBuild, StartQuery
  <2>3. CASE StartCollection(s)
    BY <2>3 DEF StartCollection
  <2> QED
    BY <1>5, <2>1, <2>2, <2>3 DEF Start
<1>6. ASSUME NEW s \in Sessions, Step(s)
      PROVE  TypeOK'
  <2>1. CASE ReuseSelected(s)
    BY <2>1 DEF ReuseSelected, AfterPublication
  <2>2. CASE Install(s)
    <3>1. PICK t \in Tokens \ {current} :
              /\ present' = present \cup {t}
              /\ seen' = seen \cup {t}
              /\ age' = IF t \in present THEN age ELSE [age EXCEPT ![t] = 0]
              /\ target' = [target EXCEPT ![s] = t]
      BY <2>2 DEF Install
    <3>2. age' \in [Tokens -> Ages] /\ target' \in [Sessions -> Pointer]
      BY <1>1, <3>1
    <3> QED
      BY <1>1, <2>2, <3>1, <3>2 DEF Install
  <2>3. CASE Publish(s)
    BY <2>3, SelectTypes DEF Publish
  <2>4. CASE Verify(s)
    BY <1>1, <2>4 DEF Verify, AfterPublication
  <2>5. CASE RollBack(s)
    BY <1>1, <2>5, SelectTypes DEF RollBack, Reset
  <2>6. CASE Refuse(s)
    BY <1>4, <2>6 DEF Refuse
  <2>7. CASE PassGate(s)
    BY <1>1, <2>7 DEF PassGate
  <2>8. CASE CloseGate(s)
    BY <1>4, <2>8 DEF CloseGate
  <2>9. CASE Protect(s) \/ PlanPrune(s) \/ ValidatePlan(s)
    BY <2>9 DEF Protect, PlanPrune, Removable, ValidatePlan
  <2>10. CASE Remove(s)
    BY <1>1, <2>10 DEF Remove
  <2>11. CASE EndPrune(s)
    BY <1>1, <1>4, <2>11 DEF EndPrune, Reset
  <2>12. CASE OpenGeneration(s)
    BY <2>12 DEF OpenGeneration
  <2>13. CASE RefuseLoad(s)
    BY <1>4, <2>13 DEF RefuseLoad
  <2>14. CASE Answer(s)
    BY <1>4, <2>14 DEF Answer, ResetLoad
  <2> QED
    BY <1>6, <2>1, <2>2, <2>3, <2>4, <2>5, <2>6, <2>7, <2>8, <2>9, <2>10, <2>11,
       <2>12, <2>13, <2>14 DEF Step
<1>7. ASSUME NEW s \in Sessions, Kill(s)
      PROVE  TypeOK'
  BY <1>4, <1>7 DEF Kill
<1> QED
  BY <1>2, <1>3, <1>5, <1>6, <1>7 DEF Next

\* The variables of the retention model have their types, whatever the sessions
\* are asked to do (state_lifecycle.py, context_operations.py).
THEOREM TypeCorrect == Spec => []TypeOK
<1>1. Init => TypeOK
  BY RetentionAssumption DEF Init, TypeOK, Ages, Pointer
<1>2. TypeOK /\ [Next]_vars => TypeOK'
  BY StepTypes
<1> QED
  BY <1>1, <1>2, PTL DEF Spec

-----------------------------------------------------------------------------
(* Refreshes alone *)

\* Where a session holds the refresh lock, and where it has published.
Inside    == {"open", "publish", "verify", "plan", "apply", "delete"}
Published == {"verify", "plan", "apply", "delete"}

\* Whoever is inside has the lock; there is no other operation.
Locked ==
    \A s \in Sessions :
        /\ pc[s] # "idle" => op[s] = "refresh"
        /\ pc[s] \in Inside => refreshLock = s
        /\ pc[s] \notin {"gate", "protect"}

\* What a refresh knows of CURRENT while it is inside.
Knows(s) ==
    /\ pc[s] \in {"open", "publish"} => protected[s] = current
    /\ pc[s] = "publish" => {target[s], previous[s]} \subseteq present
    /\ pc[s] = "verify" =>
          current = target[s] /\ {current, previous[s]} \subseteq present
    /\ pc[s] \in {"apply", "delete"} =>
          current \notin plan[s] /\ protected[s] \notin plan[s]

\* A load that is not overtaken loads what CURRENT names; one that is overtaken
\* once loads what the refresh that did it protects.
Loads(s) ==
    /\ pc[s] # "loading" => loading[s] = NoToken /\ overtaken[s] = 0
    /\ loading[s] # NoToken =>
          /\ overtaken[s] = 0 => loading[s] = current
          /\ overtaken[s] = 1 =>
                /\ loading[s] \in present
                /\ \A r \in Sessions : pc[r] \in Published =>
                       protected[r] = loading[s]

RefreshInv ==
    /\ TypeOK /\ Locked /\ CurrentNeverDangles
    /\ \A s \in Sessions : Knows(s)
    /\ \A s \in Sessions : Loads(s)

\* A session that is inside is there alone.
LEMMA InsideAlone ==
    ASSUME RefreshInv, NEW s \in Sessions, pc[s] \in Inside
    PROVE  /\ refreshLock = s
           /\ \A r \in Sessions \ {s} : pc[r] \notin Inside
  BY DEF RefreshInv, Locked

\* The end of an operation.
LEMMA ReturnKeeps ==
    ASSUME RefreshInv, TypeOK', NEW s \in Sessions, Return(s)
    PROVE  RefreshInv'
<1> USE DEF RefreshInv, TypeOK, Return, Goto, Release, Reset, ResetLoad,
    pointerVars, storeVars
<1>1. Locked'
  BY DEF Locked, Inside
<1>2. CurrentNeverDangles'
  BY DEF CurrentNeverDangles
<1>3. ASSUME NEW r \in Sessions
      PROVE  Knows(r)'
  BY DEF Knows
<1>4. ASSUME NEW r \in Sessions
      PROVE  Loads(r)'
  <2>1. CASE r = s
    BY <2>1 DEF Loads
  <2>2. CASE r # s
    <3>1. /\ loading'[r] = loading[r] /\ overtaken'[r] = overtaken[r]
          /\ \A q \in Sessions : pc'[q] \in Published =>
                 pc[q] \in Published /\ protected'[q] = protected[q]
      BY <2>2 DEF Published
    <3> QED
      BY <3>1 DEF Loads
  <2> QED
    BY <2>1, <2>2
<1> QED
  BY <1>1, <1>2, <1>3, <1>4

\* Time passes.
LEMMA TickKeeps ==
    ASSUME RefreshInv, TypeOK', Tick
    PROVE  RefreshInv'
<1> USE DEF RefreshInv, Tick, pruneVars, loadVars
<1>1. Locked' /\ CurrentNeverDangles'
  BY DEF Locked, CurrentNeverDangles
<1>2. \A s \in Sessions : Knows(s)' /\ Loads(s)'
  BY DEF Knows, Loads
<1> QED
  BY <1>1, <1>2

\* A step of a session that is inside and changes none but its own variables:
\* it goes on to another place, and knows there what that place asks for.
LEMMA OwnStep ==
    ASSUME RefreshInv, TypeOK', NEW s \in Sessions,
           NEW label \in Inside \cup {"load"},
           pc[s] # "loading", Goto(s, label), op'[s] = "refresh",
           \A r \in Sessions \ {s} :
               /\ op'[r] = op[r] /\ target'[r] = target[r]
               /\ previous'[r] = previous[r] /\ protected'[r] = protected[r]
               /\ plan'[r] = plan[r],
           label \in Inside => refreshLock' = s,
           refreshLock' \in {refreshLock, s, NoSession},
           refreshLock' # refreshLock => refreshLock \in {s, NoSession},
           label \in Published => pc[s] \in Published /\ UNCHANGED protected,
           UNCHANGED <<current, present, loadVars>>,
           Knows(s)'
    PROVE  RefreshInv'
<1> USE DEF RefreshInv, TypeOK, Goto, loadVars
<1>1. Locked'
  BY RetentionAssumption DEF Locked, Inside
<1>2. CurrentNeverDangles'
  BY DEF CurrentNeverDangles
<1>3. ASSUME NEW r \in Sessions
      PROVE  Knows(r)'
  BY DEF Knows
<1>4. \A q \in Sessions : pc'[q] \in Published =>
          pc[q] \in Published /\ protected'[q] = protected[q]
  OBVIOUS
<1>5. ASSUME NEW r \in Sessions
      PROVE  Loads(r)'
  BY <1>4 DEF Loads
<1> QED
  BY <1>1, <1>2, <1>3, <1>5

\* A generation is installed: nothing goes away.
LEMMA InstallKeeps ==
    ASSUME RefreshInv, TypeOK', NEW s \in Sessions, Install(s)
    PROVE  RefreshInv'
<1> USE DEF RefreshInv, TypeOK, Install, Goto, pointerVars, pruneVars, loadVars
<1>1. /\ pc[s] = "open" /\ op[s] = "refresh" /\ current \in present
      /\ present \subseteq present' /\ target'[s] \in present'
      /\ \A r \in Sessions \ {s} : target'[r] = target[r]
  BY DEF Locked
<1>2. Locked' /\ CurrentNeverDangles'
  BY <1>1 DEF Locked, Inside, CurrentNeverDangles
<1>3. ASSUME NEW r \in Sessions
      PROVE  Knows(r)'
  BY <1>1 DEF Knows
<1>4. ASSUME NEW r \in Sessions
      PROVE  Loads(r)'
  BY <1>1 DEF Loads, Published
<1> QED
  BY <1>1, <1>2, <1>3, <1>4

\* CURRENT is replaced: a load it named so far is overtaken for the first time,
\* by the refresh that protects what is loaded.
LEMMA PublishKeeps ==
    ASSUME RefreshInv, TypeOK', NEW s \in Sessions, Publish(s)
    PROVE  RefreshInv'
<1> USE DEF RefreshInv, TypeOK, Publish, Select, Goto, storeVars, pruneVars
<1>1. /\ pc[s] = "publish" /\ op[s] = "refresh" /\ current = previous[s]
      /\ protected[s] = current /\ {target[s], current} \subseteq present
      /\ current' = target[s] /\ previous'[s] = current /\ pc'[s] = "verify"
  BY DEF Locked, Knows
<1>2. \A r \in Sessions \ {s} : pc[r] \notin Inside
  BY <1>1, InsideAlone DEF Inside
<1>3. Locked' /\ CurrentNeverDangles'
  BY <1>1 DEF Locked, Inside, CurrentNeverDangles
<1>4. ASSUME NEW r \in Sessions
      PROVE  Knows(r)'
  BY <1>1, <1>2 DEF Knows, Inside
<1>5. ASSUME NEW r \in Sessions
      PROVE  Loads(r)'
  <2>1. CASE loading[r] = NoToken
    BY <1>1, <2>1 DEF Loads
  <2>2. ASSUME loading[r] # NoToken
        PROVE  overtaken'[r] # 0 /\ (overtaken'[r] = 1 => overtaken[r] = 0)
    BY <2>2
  <2>3. ASSUME loading[r] # NoToken, overtaken'[r] = 1
        PROVE  loading[r] = protected[s] /\ loading[r] \in present
    BY <1>1, <2>2, <2>3 DEF Loads
  <2> QED
    BY <1>1, <1>2, <2>1, <2>2, <2>3 DEF Loads, Published, Inside
<1> QED
  BY <1>3, <1>4, <1>5

\* CURRENT is put back: what was loaded is overtaken once more.
LEMMA RollBackKeeps ==
    ASSUME RefreshInv, TypeOK', NEW s \in Sessions, RollBack(s)
    PROVE  RefreshInv'
<1> USE DEF RefreshInv, TypeOK, RollBack, Select, Goto, Release, Reset,
    storeVars
<1>1. /\ pc[s] = "verify" /\ previous[s] \in present
      /\ current' = previous[s] /\ pc'[s] = "idle"
  BY DEF Knows
<1>2. \A r \in Sessions : pc'[r] \notin Inside
  BY <1>1, InsideAlone DEF Inside
<1>3. Locked' /\ CurrentNeverDangles'
  BY <1>1, <1>2 DEF Locked, CurrentNeverDangles
<1>4. ASSUME NEW r \in Sessions
      PROVE  Knows(r)'
  BY <1>2 DEF Knows, Inside
<1>5. ASSUME NEW r \in Sessions
      PROVE  Loads(r)'
  <2>1. CASE loading[r] = NoToken
    BY <1>1, <2>1 DEF Loads
  <2>2. ASSUME loading[r] # NoToken
        PROVE  overtaken'[r] # 0 /\ (overtaken'[r] = 1 => overtaken[r] = 0)
    BY <2>2
  <2>3. ASSUME loading[r] # NoToken, overtaken'[r] = 1
        PROVE  loading[r] \in present
    BY <1>1, <2>2, <2>3 DEF Loads, Knows
  <2> QED
    BY <1>1, <1>2, <2>1, <2>2, <2>3 DEF Loads, Published, Inside
<1> QED
  BY <1>3, <1>4, <1>5

\* A planned removal is neither of CURRENT nor of what the refresh protects.
LEMMA RemoveKeeps ==
    ASSUME RefreshInv, TypeOK', NEW s \in Sessions, Remove(s)
    PROVE  RefreshInv'
<1> USE DEF RefreshInv, TypeOK, Remove, pointerVars, loadVars
<1>1. PICK t \in plan[s] \cap present :
          present' = present \ {t} /\ plan' = [plan EXCEPT ![s] = @ \ {t}]
  OBVIOUS
<1>2. pc[s] = "delete" /\ t # current /\ t # protected[s]
  BY <1>1 DEF Knows
<1>3. \A r \in Sessions \ {s} : pc[r] \notin Inside
  BY <1>2, InsideAlone DEF Inside
<1>4. Locked' /\ CurrentNeverDangles'
  BY <1>1, <1>2 DEF Locked, CurrentNeverDangles
<1>5. ASSUME NEW r \in Sessions
      PROVE  Knows(r)'
  BY <1>1, <1>2, <1>3 DEF Knows, Inside
<1>6. ASSUME NEW r \in Sessions
      PROVE  Loads(r)'
  BY <1>1, <1>2 DEF Loads, Published
<1> QED
  BY <1>4, <1>5, <1>6

\* A load begins with what CURRENT names.
LEMMA OpenKeeps ==
    ASSUME RefreshInv, TypeOK', NEW s \in Sessions, OpenGeneration(s)
    PROVE  RefreshInv'
<1> USE DEF RefreshInv, TypeOK, OpenGeneration, Goto, pointerVars, storeVars,
    engineVars, pruneVars
<1>1. Locked' /\ CurrentNeverDangles'
  BY DEF Locked, Inside, CurrentNeverDangles
<1>2. ASSUME NEW r \in Sessions
      PROVE  Knows(r)'
  BY DEF Knows
<1>3. ASSUME NEW r \in Sessions
      PROVE  Loads(r)'
  BY DEF Loads, Published
<1> QED
  BY <1>1, <1>2, <1>3

\* Every step of a refresh, of a query that follows it and of the clock keeps
\* the invariant; the other operations are not asked for.
LEMMA RefreshStep ==
    ASSUME Operations = {"refresh"}, RefreshInv, [Next]_vars
    PROVE  RefreshInv'
<1>1. TypeOK'
  BY StepTypes DEF RefreshInv
<1>2. CASE UNCHANGED vars
  BY <1>2 DEF vars, pointerVars, storeVars, engineVars, pruneVars, loadVars,
     RefreshInv, TypeOK, Locked, CurrentNeverDangles, Knows, Loads
<1>3. CASE Tick
  BY <1>1, <1>3, TickKeeps
<1>4. ASSUME NEW s \in Sessions, Start(s)
      PROVE  RefreshInv'
  <2>1. StartRefresh(s)
    BY <1>4 DEF Start, StartBuild, StartQuery, StartCollection
  <2>2. /\ Goto(s, "open") /\ pc[s] = "idle" /\ op'[s] = "refresh"
        /\ protected'[s] = current /\ pc'[s] = "open"
    BY <2>1 DEF StartRefresh, Goto, RefreshInv, TypeOK
  <2>3. Knows(s)'
    BY <2>1, <2>2 DEF Knows, StartRefresh, pointerVars
  <2> QED
    BY <1>1, <2>1, <2>2, <2>3, OwnStep
       DEF StartRefresh, Inside, Published, pointerVars, storeVars, engineVars,
           RefreshInv, TypeOK
<1>5. ASSUME NEW s \in Sessions, Step(s)
      PROVE  RefreshInv'
  <2> USE DEF Inside, Published, pointerVars, storeVars, engineVars, pruneVars
  <2>1. pc[s] # "idle" => op[s] = "refresh"
    BY DEF RefreshInv, Locked
  <2>2. pc[s] \in Inside => refreshLock = s
    BY DEF RefreshInv, Locked
  <2>3. CASE Verify(s)
    <3>1. Goto(s, "plan") /\ pc[s] = "verify" /\ pc'[s] = "plan"
      BY <2>1, <2>3 DEF Verify, AfterPublication, Goto, RefreshInv, TypeOK
    <3>2. Knows(s)'
      BY <3>1 DEF Knows
    <3> QED
      BY <1>1, <2>1, <2>2, <2>3, <3>1, <3>2, OwnStep DEF Verify
  <2>4. CASE PlanPrune(s)
    <3>1. Goto(s, "apply") /\ pc[s] = "plan" /\ pc'[s] = "apply"
      BY <2>4 DEF PlanPrune, Goto, RefreshInv, TypeOK
    <3>2. current \notin Removable(s) /\ protected[s] \notin Removable(s)
      BY DEF Removable
    <3>3. /\ plan'[s] = Removable(s)
          /\ \A r \in Sessions \ {s} : plan'[r] = plan[r]
      BY <2>4 DEF PlanPrune, RefreshInv, TypeOK
    <3>4. Knows(s)'
      BY <2>4, <3>1, <3>2, <3>3 DEF Knows, PlanPrune
    <3> QED
      BY <1>1, <2>1, <2>2, <2>4, <3>1, <3>3, <3>4, OwnStep DEF PlanPrune
  <2>5. CASE ValidatePlan(s)
    <3>1. Goto(s, "delete") /\ pc[s] = "apply" /\ pc'[s] = "delete"
      BY <2>5 DEF ValidatePlan, Goto, RefreshInv, TypeOK
    <3>2. Knows(s)'
      BY <2>5, <3>1 DEF Knows, ValidatePlan, RefreshInv
    <3> QED
      BY <1>1, <2>1, <2>2, <2>5, <3>1, <3>2, OwnStep DEF ValidatePlan
  <2>6. CASE EndPrune(s)
    <3>1. /\ Goto(s, "load") /\ pc[s] \in {"apply", "delete"}
          /\ pc'[s] = "load" /\ refreshLock' = NoSession
          /\ Reset(s) /\ UNCHANGED <<pointerVars, storeVars, op, loadVars>>
      BY <2>1, <2>2, <2>6 DEF EndPrune, Release, Goto, RefreshInv, TypeOK
    <3>2. Knows(s)'
      BY <3>1 DEF Knows
    <3>3. \A r \in Sessions \ {s} :
              /\ target'[r] = target[r] /\ previous'[r] = previous[r]
              /\ protected'[r] = protected[r] /\ plan'[r] = plan[r]
      BY <3>1 DEF Reset, RefreshInv, TypeOK
    <3> QED
      BY <1>1, <2>1, <2>2, <3>1, <3>2, <3>3, OwnStep
  <2>7. CASE Install(s) \/ Publish(s) \/ RollBack(s) \/ Remove(s) \/
             OpenGeneration(s)
    BY <1>1, <2>7, InstallKeeps, PublishKeeps, RollBackKeeps, RemoveKeeps,
       OpenKeeps
  <2>8. CASE Refuse(s) \/ RefuseLoad(s) \/ Answer(s)
    <3>1. Return(s)
      BY <2>1, <2>8 DEF Refuse, RefuseLoad, Answer
    <3> QED
      BY <1>1, <3>1, ReturnKeeps
  <2>9. CASE ReuseSelected(s) \/ PassGate(s) \/ CloseGate(s) \/ Protect(s)
    BY <2>1, <2>9 DEF ReuseSelected, PassGate, CloseGate, Protect, RefreshInv,
       Locked
  <2> QED
    BY <1>5, <2>3, <2>4, <2>5, <2>6, <2>7, <2>8, <2>9 DEF Step
<1>6. ASSUME NEW s \in Sessions, Kill(s)
      PROVE  RefreshInv'
  BY <1>1, <1>6, ReturnKeeps DEF Kill
<1> QED
  BY <1>2, <1>3, <1>4, <1>5, <1>6 DEF Next

\* The initial states satisfy the invariant.
LEMMA RefreshInit ==
    ASSUME Init
    PROVE  RefreshInv
<1>1. TypeOK
  BY RetentionAssumption DEF Init, TypeOK, Ages, Pointer
<1>2. Locked /\ CurrentNeverDangles
  BY DEF Init, Locked, Inside, CurrentNeverDangles
<1>3. \A s \in Sessions : Knows(s) /\ Loads(s)
  BY DEF Init, Knows, Loads, Published
<1> QED
  BY <1>1, <1>2, <1>3 DEF RefreshInv

\* Where only refreshes touch the store (_refresh_if_stale), the lock, what a
\* refresh protects and what its loads rely on fit together.
THEOREM RefreshInductive ==
    ASSUME Operations = {"refresh"}
    PROVE  Spec => []RefreshInv
<1>1. Init => RefreshInv
  BY RefreshInit
<1>2. RefreshInv /\ [Next]_vars => RefreshInv'
  BY RefreshStep
<1> QED
  BY <1>1, <1>2, PTL DEF Spec

\* There CURRENT names a generation that is on disk: no refresh plans to remove,
\* on what it knows, what CURRENT names by the time it removes it
\* (plan_prune_generations, apply_plan).
THEOREM RefreshesKeepCurrent ==
    ASSUME Operations = {"refresh"}
    PROVE  Spec => []CurrentNeverDangles
<1>1. RefreshInv => CurrentNeverDangles
  BY DEF RefreshInv
<1> QED
  BY <1>1, RefreshInductive, PTL

\* And a load that CURRENT has moved away from at most once keeps its files: the
\* refresh that did it protects them, and the next has to publish first.
THEOREM RefreshesSpareLoads ==
    ASSUME Operations = {"refresh"}
    PROVE  Spec => []OvertakenOnceKeepsLoading
<1>1. RefreshInv => OvertakenOnceKeepsLoading
  BY RetentionAssumption
     DEF RefreshInv, TypeOK, Loads, CurrentNeverDangles,
         OvertakenOnceKeepsLoading
<1> QED
  BY <1>1, RefreshInductive, PTL

=============================================================================
