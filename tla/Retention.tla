------------------------------ MODULE Retention ------------------------------
(***************************************************************************)
(* How long a generation of the index stays on disk.  The broker            *)
(* (tools/taf-context) lets the engine publish generations and removes the *)
(* ones CURRENT no longer names: after a refresh, under the refresh lock;  *)
(* after an idle query or a build, without it; and on `prepare gc`.  Every *)
(* removal is planned first and carried out later, entry by entry, while   *)
(* other sessions load, publish and roll back.                             *)
(*                                                                         *)
(* Time is kept as ages, in ticks, capped just above the grace period: the *)
(* code compares an age with the grace period and with nothing else.       *)
(* The refresh lock excludes here what it is meant to exclude. The binding *)
(* is not modelled: a query whose binding names another index is refused   *)
(* before it loads anything and changes nothing.                           *)
(***************************************************************************)
EXTENDS Naturals, FiniteSets

CONSTANTS Sessions,       \* broker processes working on one repository
          Tokens,         \* generation identities
          NoToken,        \* CURRENT does not exist
          NoSession,      \* the refresh lock is free
          Grace,          \* GENERATION_PRUNE_GRACE_SECONDS, in ticks
          Operations,     \* what the sessions are asked to do
          Mortal,         \* the sessions that may be killed
          Revert,         \* content may return to an earlier generation
          Apart,          \* nobody builds while another session refreshes
          Prompt,         \* CURRENT stays between the two reads of the gate
          MaxSpan         \* ticks from writing a pointer to its settlement,
                          \* and from passing the gate to the plan

ASSUME RetentionAssumption ==
    /\ Grace \in Nat \ {0}
    /\ MaxSpan \in Nat
    /\ NoToken \notin Tokens
    /\ NoSession \notin Sessions
    /\ Operations \subseteq {"refresh", "query", "build", "gc"}
    /\ Mortal \subseteq Sessions
    /\ Revert \in BOOLEAN /\ Apart \in BOOLEAN /\ Prompt \in BOOLEAN

VARIABLES
    current,      \* the generation CURRENT names
    currentAge,   \* the age of the file CURRENT (its mtime)
    present,      \* the generation directories
    seen,         \* the generations there have ever been (history)
    age,          \* their ages (mtimes); 0 for an absent one
    refreshLock,  \* .refresh.lock
    pc, op,       \* each session: where it is, in which operation
    target,       \* the generation its engine publishes
    previous,     \* what its engine expects, then replaced, in CURRENT
    stopwatch,    \* ticks since its engine wrote the temporary file that
                  \* becomes CURRENT, or since it passed the gate
    protected,    \* the generation its prune must spare
    plan,         \* the removals it has planned and not carried out
    loading,      \* the generation its engine is loading
    overtaken     \* how often CURRENT was replaced during that load

pointerVars == <<current, currentAge>>
storeVars   == <<present, seen, age>>
engineVars  == <<target, previous, stopwatch>>
pruneVars   == <<protected, plan>>
loadVars    == <<loading, overtaken>>
vars == <<pointerVars, storeVars, refreshLock, pc, op, engineVars, pruneVars,
          loadVars>>

Ages    == 0 .. Grace + 1
Pointer == Tokens \cup {NoToken}

\* Mutant of Older: the age is not capped.
OlderUncapped(a) == a + 1

Older(a) == IF a = Grace + 1 THEN a ELSE a + 1

Publishing == {"open", "publish", "verify"}

TypeOK ==
    /\ current \in Pointer
    /\ currentAge \in Ages
    /\ present \in SUBSET Tokens
    /\ seen \in SUBSET Tokens
    /\ age \in [Tokens -> Ages]
    /\ refreshLock \in Sessions \cup {NoSession}
    /\ pc \in [Sessions -> {"idle", "load", "loading", "gate", "protect",
                            "plan", "apply", "delete"} \cup Publishing]
    /\ op \in [Sessions -> {"refresh", "query", "build", "gc"}]
    /\ target \in [Sessions -> Pointer]
    /\ previous \in [Sessions -> Pointer]
    /\ stopwatch \in [Sessions -> Ages]
    /\ protected \in [Sessions -> Pointer]
    /\ plan \in [Sessions -> SUBSET Tokens]
    /\ loading \in [Sessions -> Pointer]
    /\ overtaken \in [Sessions -> 0 .. 2]

\* The repository has an index or none yet, and earlier sessions left other
\* generations.
Init ==
    /\ current \in Pointer
    /\ currentAge \in {0, Grace + 1}
    /\ present \in {S \in SUBSET Tokens : current \in S \cup {NoToken}}
    /\ seen = present
    /\ age \in [Tokens -> {0, Grace + 1}]
    /\ \A t \in Tokens \ present : age[t] = 0
    /\ refreshLock = NoSession
    /\ pc = [s \in Sessions |-> "idle"]
    /\ op = [s \in Sessions |-> "query"]
    /\ target = [s \in Sessions |-> NoToken]
    /\ previous = [s \in Sessions |-> NoToken]
    /\ stopwatch = [s \in Sessions |-> 0]
    /\ protected = [s \in Sessions |-> NoToken]
    /\ plan = [s \in Sessions |-> {}]
    /\ loading = [s \in Sessions |-> NoToken]
    /\ overtaken = [s \in Sessions |-> 0]

-----------------------------------------------------------------------------

Goto(s, label) == pc' = [pc EXCEPT ![s] = label]

\* Leaving the `with RefreshLock` block.
Release(s) ==
    refreshLock' = IF refreshLock = s THEN NoSession ELSE refreshLock

\* The session's own variables go back to their initial values.
Reset(s) ==
    /\ target' = [target EXCEPT ![s] = NoToken]
    /\ previous' = [previous EXCEPT ![s] = NoToken]
    /\ stopwatch' = [stopwatch EXCEPT ![s] = 0]
    /\ protected' = [protected EXCEPT ![s] = NoToken]
    /\ plan' = [plan EXCEPT ![s] = {}]

ResetLoad(s) ==
    /\ loading' = [loading EXCEPT ![s] = NoToken]
    /\ overtaken' = [overtaken EXCEPT ![s] = 0]

\* The operation ends, with an answer or an error.
Return(s) ==
    /\ Goto(s, "idle")
    /\ op' = [op EXCEPT ![s] = "query"]
    /\ Release(s)
    /\ Reset(s)
    /\ ResetLoad(s)
    /\ UNCHANGED <<pointerVars, storeVars>>

\* CURRENT is replaced by t: every load in progress is overtaken once more.
Select(t, mtime) ==
    /\ current' = t
    /\ currentAge' = mtime
    /\ overtaken' = [s \in Sessions |->
           IF loading[s] # NoToken /\ overtaken[s] < 2
           THEN overtaken[s] + 1 ELSE overtaken[s]]
    /\ UNCHANGED <<storeVars, loading>>

\* Under the assumption Prompt, nobody is between the two reads of the gate.
Undivided == Prompt => \A s \in Sessions : pc[s] # "protect"

-----------------------------------------------------------------------------
(* The start of an operation *)

\* Under the assumption Apart, no publication of the other kind is under way.
Alone(other) == Apart => \A s \in Sessions : pc[s] # "idle" => op[s] # other

\* _refresh_if_stale: take the refresh lock, note what CURRENT names.
StartRefresh(s) ==
    /\ pc[s] = "idle" /\ "refresh" \in Operations /\ Alone("build")
    /\ refreshLock = NoSession
    /\ refreshLock' = s
    /\ protected' = [protected EXCEPT ![s] = current]
    /\ op' = [op EXCEPT ![s] = "refresh"]
    /\ Goto(s, "open")
    /\ UNCHANGED <<pointerVars, storeVars, engineVars, plan, loadVars>>

\* run_build does not take the refresh lock.
StartBuild(s) ==
    /\ pc[s] = "idle" /\ "build" \in Operations /\ Alone("refresh")
    /\ op' = [op EXCEPT ![s] = "build"]
    /\ Goto(s, "open")
    /\ UNCHANGED <<pointerVars, storeVars, refreshLock, engineVars, pruneVars,
                   loadVars>>

\* A query whose binding is fresh goes straight to the engine.
StartQuery(s) ==
    /\ pc[s] = "idle" /\ "query" \in Operations
    /\ op' = [op EXCEPT ![s] = "query"]
    /\ Goto(s, "load")
    /\ UNCHANGED <<pointerVars, storeVars, refreshLock, engineVars, pruneVars,
                   loadVars>>

\* prepare gc: everything CURRENT does not name, whatever its age.
StartCollection(s) ==
    /\ pc[s] = "idle" /\ "gc" \in Operations
    /\ current # NoToken
    /\ plan' = [plan EXCEPT ![s] = present \ {current}]
    /\ op' = [op EXCEPT ![s] = "gc"]
    /\ Goto(s, "apply")
    /\ UNCHANGED <<pointerVars, storeVars, refreshLock, engineVars, protected,
                   loadVars>>

-----------------------------------------------------------------------------
(* The engine's publication, in the steps that matter to retention *)

\* A refresh goes on to prune, a build first looks at the age of CURRENT.
AfterPublication(s) == IF op[s] = "refresh" THEN "plan" ELSE "gate"

\* A build finds the content unchanged: the selected generation is kept. An
\* update always moves to another binding, and so to another generation.
ReuseSelected(s) ==
    /\ pc[s] = "open" /\ op[s] = "build"
    /\ current \in present
    /\ Goto(s, AfterPublication(s))
    /\ UNCHANGED <<pointerVars, storeVars, refreshLock, op, engineVars,
                   pruneVars, loadVars>>

\* The generation is installed, or an identical one already there is reused
\* with its old mtime; then the temporary pointer file is written. An update
\* loads the previous generation first, and a build validates it.
Install(s) ==
    /\ pc[s] = "open"
    /\ IF op[s] = "refresh" THEN current \in present
       ELSE current \in present \cup {NoToken}
    /\ \E t \in Tokens \ {current} :
          /\ t \in seen => Revert
          /\ present' = present \cup {t}
          /\ seen' = seen \cup {t}
          /\ age' = IF t \in present THEN age ELSE [age EXCEPT ![t] = 0]
          /\ target' = [target EXCEPT ![s] = t]
    /\ previous' = [previous EXCEPT ![s] = current]
    /\ stopwatch' = [stopwatch EXCEPT ![s] = 0]
    /\ Goto(s, "publish")
    /\ UNCHANGED <<pointerVars, refreshLock, op, pruneVars, loadVars>>

\* CURRENT is replaced. An update refuses when it no longer names the
\* generation the update was computed from; a build takes it as it is.
Publish(s) ==
    /\ pc[s] = "publish" /\ Undivided
    /\ op[s] = "refresh" => current = previous[s]
    /\ previous' = [previous EXCEPT ![s] = current]
    /\ Select(target[s], stopwatch[s])
    /\ Goto(s, "verify")
    /\ UNCHANGED <<refreshLock, op, target, stopwatch, pruneVars>>

\* CURRENT and the generation are read back.
Verify(s) ==
    /\ pc[s] = "verify"
    /\ current = target[s] /\ target[s] \in present
    /\ stopwatch' = [stopwatch EXCEPT ![s] = 0]
    /\ Goto(s, AfterPublication(s))
    /\ UNCHANGED <<pointerVars, storeVars, refreshLock, op, target, previous,
                   pruneVars, loadVars>>

\* They do not verify, or the sync or the request fails: CURRENT is put back,
\* as a new file. The error ends a refresh and a build alike.
RollBack(s) ==
    /\ pc[s] = "verify" /\ Undivided
    /\ Select(previous[s], 0)
    /\ Goto(s, "idle")
    /\ op' = [op EXCEPT ![s] = "query"]
    /\ Release(s)
    /\ Reset(s)

\* The engine refuses or fails before it replaces CURRENT.
Refuse(s) == pc[s] \in {"open", "publish"} /\ Return(s)

-----------------------------------------------------------------------------
(* Removing generations *)

\* Mutant of PassGate: the age of CURRENT is not asked for.
PassGateAlways(s) ==
    /\ pc[s] = "gate"
    /\ stopwatch' = [stopwatch EXCEPT ![s] = 0]
    /\ Goto(s, "protect")
    /\ UNCHANGED <<pointerVars, storeVars, refreshLock, op, target, previous,
                   pruneVars, loadVars>>

\* Mutant of PassGate: the comparison is reversed.
PassGateReversed(s) ==
    /\ pc[s] = "gate"
    /\ currentAge < Grace
    /\ stopwatch' = [stopwatch EXCEPT ![s] = 0]
    /\ Goto(s, "protect")
    /\ UNCHANGED <<pointerVars, storeVars, refreshLock, op, target, previous,
                   pruneVars, loadVars>>

\* _run_convergence_prune: only when CURRENT has not been published lately.
PassGate(s) ==
    /\ pc[s] = "gate"
    /\ currentAge > Grace \/ current = NoToken
    /\ stopwatch' = [stopwatch EXCEPT ![s] = 0]
    /\ Goto(s, "protect")
    /\ UNCHANGED <<pointerVars, storeVars, refreshLock, op, target, previous,
                   pruneVars, loadVars>>

\* Then CURRENT is read: what it names now is spared.
Protect(s) ==
    /\ pc[s] = "protect"
    /\ protected' = [protected EXCEPT ![s] = current]
    /\ Goto(s, "plan")
    /\ UNCHANGED <<pointerVars, storeVars, refreshLock, op, engineVars, plan,
                   loadVars>>

CloseGate(s) ==
    pc[s] = "gate" /\ currentAge <= Grace /\ current # NoToken /\ Return(s)

\* Mutant of Removable: the prune after a refresh protects nothing.
RemovableUnprotected(s) ==
    IF current = NoToken THEN {}
    ELSE {t \in present : t # current /\ age[t] >= Grace}

\* Mutant of Removable: the plan trusts the protected generation alone.
RemovableUnreferenced(s) ==
    {t \in present : age[t] >= Grace /\ t # protected[s]}

\* plan_prune_generations: aged, not CURRENT, and not the protected one.
Removable(s) ==
    IF current = NoToken THEN {}
    ELSE {t \in present : t # current /\ age[t] >= Grace /\ t # protected[s]}

PlanPrune(s) ==
    /\ pc[s] = "plan"
    /\ plan' = [plan EXCEPT ![s] = Removable(s)]
    /\ Goto(s, "apply")
    /\ UNCHANGED <<pointerVars, storeVars, refreshLock, op, engineVars,
                   protected, loadVars>>

\* apply_plan validates the whole plan before it removes anything.
ValidatePlan(s) ==
    /\ pc[s] = "apply"
    /\ plan[s] \subseteq present
    /\ Goto(s, "delete")
    /\ UNCHANGED <<pointerVars, storeVars, refreshLock, op, engineVars,
                   pruneVars, loadVars>>

Remove(s) ==
    /\ pc[s] = "delete"
    /\ \E t \in plan[s] \cap present :
          /\ present' = present \ {t}
          /\ age' = [age EXCEPT ![t] = 0]
          /\ plan' = [plan EXCEPT ![s] = @ \ {t}]
    /\ UNCHANGED <<pointerVars, seen, refreshLock, pc, op, engineVars, protected,
                   loadVars>>

\* The plan fails validation, is done, or fails half-way (mkdir, rename and
\* rmtree may all raise): the prune never does. A refresh leaves the lock and
\* asks the engine its question.
EndPrune(s) ==
    /\ \/ pc[s] = "apply" /\ ~(plan[s] \subseteq present)
       \/ pc[s] = "delete"
    /\ IF op[s] = "refresh"
       THEN /\ Goto(s, "load")
            /\ Release(s)
            /\ Reset(s)
            /\ UNCHANGED <<pointerVars, storeVars, op, loadVars>>
       ELSE Return(s)

-----------------------------------------------------------------------------
(* Loading a generation *)

\* The engine reads CURRENT and opens the generation it names.
OpenGeneration(s) ==
    /\ pc[s] = "load"
    /\ current \in present
    /\ loading' = [loading EXCEPT ![s] = current]
    /\ Goto(s, "loading")
    /\ UNCHANGED <<pointerVars, storeVars, refreshLock, op, engineVars,
                   pruneVars, overtaken>>

\* Nothing to open, the files went away, or CURRENT moved during the load.
RefuseLoad(s) ==
    /\ \/ pc[s] = "load" /\ current \notin present
       \/ pc[s] = "loading" /\ ~(loading[s] \in present /\ current = loading[s])
    /\ Return(s)

\* The engine answers. A query that did not refresh prunes once more.
Answer(s) ==
    /\ pc[s] = "loading"
    /\ loading[s] \in present /\ current = loading[s]
    /\ IF op[s] = "refresh" THEN Return(s)
       ELSE /\ Goto(s, "gate")
            /\ ResetLoad(s)
            /\ UNCHANGED <<pointerVars, storeVars, refreshLock, op, engineVars,
                           pruneVars>>

-----------------------------------------------------------------------------
(* The environment *)

\* A session is killed; its lock file goes stale and is taken over.
Kill(s) == s \in Mortal /\ pc[s] # "idle" /\ Return(s)

\* Time passes; what the stopwatch measures takes at most MaxSpan ticks.
Timed ==
    {s \in Sessions : pc[s] \in {"publish", "verify", "protect", "plan"}}

Tick ==
    /\ \A s \in Timed : stopwatch[s] < MaxSpan
    /\ currentAge' = Older(currentAge)
    /\ age' = [t \in Tokens |-> IF t \in present THEN Older(age[t]) ELSE 0]
    /\ stopwatch' = [s \in Sessions |->
           IF s \in Timed THEN Older(stopwatch[s]) ELSE stopwatch[s]]
    /\ UNCHANGED <<current, present, seen, refreshLock, pc, op, target, previous,
                   pruneVars, loadVars>>

Start(s) ==
    StartRefresh(s) \/ StartBuild(s) \/ StartQuery(s) \/ StartCollection(s)

Step(s) ==
    \/ ReuseSelected(s) \/ Install(s) \/ Publish(s) \/ Verify(s) \/ RollBack(s)
    \/ Refuse(s) \/ PassGate(s) \/ CloseGate(s) \/ Protect(s) \/ PlanPrune(s)
    \/ ValidatePlan(s) \/ Remove(s) \/ EndPrune(s)
    \/ OpenGeneration(s) \/ RefuseLoad(s) \/ Answer(s)

Next ==
    \/ \E s \in Sessions : Start(s) \/ Step(s) \/ Kill(s)
    \/ Tick

Spec == Init /\ [][Next]_vars

\* A session that has begun goes on, queries keep coming, and time passes (the
\* guard of Tick bounds what may take long, it does not stop the clock).
\* Removing an entry that is there does not fail for ever.
Fairness ==
    /\ \A s \in Sessions :
          WF_vars(Step(s)) /\ WF_vars(StartQuery(s)) /\ SF_vars(Remove(s))
    /\ SF_vars(Tick)

FairSpec == Spec /\ Fairness

-----------------------------------------------------------------------------
(* Properties *)

\* The generation CURRENT names is on disk, through publications that reuse a
\* generation, rollbacks, kills and prunes: nothing repairs a CURRENT that
\* dangles (every read and every build refuses it).
CurrentNeverDangles == current \in present \cup {NoToken}

\* "with both in place" (CURRENT's age and the grace period) "this is the prune
\* that lets a repository ... still converge": what keeps the prune after an
\* idle query safe, says _converge_retention_after_query. It is stated here of
\* the moments at which no publication is waiting to be verified.
ConvergencePruneIsSafe ==
    (\A s \in Sessions : pc[s] # "verify") => current \in present \cup {NoToken}

\* A load that CURRENT has moved away from at most once still has its
\* generation: this is what _refresh_if_stale protects it for. Two publications
\* within one load can delete it, since its age counts from its creation.
OvertakenOnceKeepsLoading ==
    \A s \in Sessions :
        (loading[s] # NoToken /\ overtaken[s] <= 1) => loading[s] \in present

\* run_query: "a repository that is only ever queried still reaches one
\* referenced generation once the grace period passes".
Converges == <>[](current # NoToken => present = {current})

=============================================================================
