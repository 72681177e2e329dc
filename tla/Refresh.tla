------------------------------- MODULE Refresh -------------------------------
(***************************************************************************)
(* Bringing the bound index to the working tree, across the broker         *)
(* (taf_context/context_operations.py, refresh.py) and the engine          *)
(* (internal/engine: update, build, query).                                *)
(*                                                                         *)
(* A call takes a snapshot of the repository, reads the binding file, and  *)
(* when the two differ asks the engine for an update: the broker writes    *)
(* the paths that may differ into a change document that every session of  *)
(* the state root shares by name, and the engine reads these paths again,  *)
(* keeps every other record and publishes the result over CURRENT. The     *)
(* lock around it is advisory: a session that has waited long enough goes  *)
(* on without it, and an old lock file is removed.                         *)
(*                                                                         *)
(* A version of the repository is its committed and its working files. An  *)
(* index is the content it was built from and the version it was labelled  *)
(* with; its identity is a digest of both, so an index stands for itself.  *)
(***************************************************************************)
EXTENDS Naturals, FiniteSets

CONSTANTS Sessions,   \* brokers, each with an engine child of its own
          Paths,      \* files of the repository
          Contents,   \* what a file may hold, being absent included
          Nothing,    \* no index, no document, nobody
          MaxEdits,   \* bound: changes of the repository
          MaxCalls,   \* bound: calls of all sessions together
          MaxFaults   \* bound: crashes, timeouts and failed reads

Tree    == [Paths -> Contents]
Version == [head : Tree, tree : Tree]
Index   == [label : Version, content : Tree]

ASSUME RefreshAssumption ==
    /\ IsFiniteSet(Sessions) /\ Nothing \notin Sessions \cup Index
    /\ Contents # {}
    /\ MaxEdits \in Nat /\ MaxCalls \in Nat /\ MaxFaults \in Nat

VARIABLES
    repo,      \* the repository: head and working tree
    current,   \* the index CURRENT names
    binding,   \* binding.json: the index it names, with its label
    document,  \* .taf-update.json
    lock,      \* .refresh.lock: who created the file that is there
    pc,        \* where the call of a session is
    op,        \* "query" or "build"
    snap,      \* the snapshot the call was made with
    bound,     \* the binding the call goes by
    job,       \* what the engine holds: base index, changed paths, contents
    result,    \* the engine's status of the update or build
    fresh,     \* the index the engine has published for this call
    attempt,   \* of the two attempts of _refresh_if_stale
    owner,     \* sessions that created a lock file and will remove it
    cache,     \* the snapshot an engine remembers
    answer,    \* the index the last query of a session was answered from
    orphan,    \* sessions whose broker is gone and whose engine still works
    disturbed, \* a fault, a broken or bypassed lock, or an overlapping build
               \* since the last build that ran alone
    raced,     \* a change of the repository under a call that was still to
               \* read it, since the last build that ran alone
    solo,      \* the build that has run alone so far
    edits, calls, faults

repoVars  == <<repo, edits>>
fileVars  == <<current, binding, document>>
lockVars  == <<lock, owner>>
callVars  == <<op, snap, calls>>
engineVars == <<job, result, fresh, cache>>
ghosts    == <<disturbed, raced, solo>>
vars == <<repo, current, binding, document, lock, pc, op, snap, bound, job,
          result, fresh, attempt, owner, cache, answer, orphan, disturbed,
          raced, solo, edits, calls, faults>>

Job     == [base : Index \cup {Nothing}, changed : SUBSET Paths,
            seen : UNION {[P -> Contents] : P \in SUBSET Paths}]
Unread  == [p \in {} |-> Nothing]
NoJob   == [base |-> Nothing, changed |-> {}, seen |-> Unread]

\* The engine child is at work; everywhere else the broker is.
EngineAt == {"send", "read", "barrier", "rename", "collect"}
BrokerAt == {"bind", "lock", "document", "answered", "unlock", "reread",
             "query"}

TypeOK ==
    /\ repo \in Version
    /\ current \in Index \cup {Nothing} /\ binding \in Index \cup {Nothing}
    /\ document = Nothing \/ document \in
          [prior : Index, after : Version, changed : SUBSET Paths]
    /\ lock \in Sessions \cup {Nothing}
    /\ pc \in [Sessions -> {"idle"} \cup EngineAt \cup BrokerAt]
    /\ op \in [Sessions -> {"query", "build"}]
    /\ snap \in [Sessions -> Version]
    /\ bound \in [Sessions -> Index \cup {Nothing}]
    /\ job \in [Sessions -> Job]
    /\ result \in [Sessions -> {"none", "ready", "stale", "error", "lost"}]
    /\ fresh \in [Sessions -> Index \cup {Nothing}]
    /\ attempt \in [Sessions -> 0..1]
    /\ owner \subseteq Sessions /\ orphan \subseteq Sessions
    /\ cache \in [Sessions -> Index \cup {Nothing}]
    /\ answer \in [Sessions -> Index \cup {Nothing}]
    /\ disturbed \in BOOLEAN /\ raced \in BOOLEAN
    /\ solo \in Sessions \cup {Nothing}
    /\ edits \in 0..MaxEdits /\ calls \in 0..MaxCalls /\ faults \in 0..MaxFaults

-----------------------------------------------------------------------------
(* Helpers *)

\* dirty_paths_of: staged, unstaged and untracked paths.
Dirty(v) == {p \in Paths : v.tree[p] # v.head[p]}

\* Mutant of Delta: it forgets the files that were dirty in the bound index.
DeltaOfNow(before, after) ==
    Dirty(after) \cup {p \in Paths : before.head[p] # after.head[p]}

\* changed_paths_between: dirty then, dirty now, or different between the heads.
Delta(before, after) ==
    Dirty(before) \cup Dirty(after)
        \cup {p \in Paths : before.head[p] # after.head[p]}

Goto(s, label) == pc' = [pc EXCEPT ![s] = label]

Broker(s, label) == pc[s] = label /\ s \notin orphan

Idle(s) == pc[s] = "idle"

\* A call ends and leaves what its files and its engine hold.
End(s) ==
    /\ Goto(s, "idle")
    /\ solo' = IF solo = s THEN Nothing ELSE solo

\* freshnessFor: the index the request names, labelled with its snapshot.
Exact(s, idx) == idx # Nothing /\ idx = bound[s] /\ idx.label = snap[s]

\* Mutant of Merged: the update publishes what it has read and drops the
\* records it keeps.
MergedOnly(s) ==
    [label |-> snap[s],
     content |-> [p \in job[s].changed |-> job[s].seen[p]]]

\* update after its records are merged: paths that were not declared keep what
\* the base index holds.
Merged(s) ==
    [label |-> snap[s],
     content |-> [p \in Paths |-> IF p \in job[s].changed THEN job[s].seen[p]
                                  ELSE job[s].base.content[p]]]

\* updateFailure, and the same result of a build.
Fail(s) == Goto(s, "answered") /\ result' = [result EXCEPT ![s] = "error"]

\* Witnesses: the declared paths still hold what was read.
Unchanged(s) == \A p \in job[s].changed : repo.tree[p] = job[s].seen[p]

\* Nothing has been built, or the repository as it is; all files are alike and
\* committed.
Init ==
    /\ LET clean == [p \in Paths |-> CHOOSE c \in Contents : TRUE]
       IN  repo = [head |-> clean, tree |-> clean]
    /\ current \in {Nothing, [label |-> repo, content |-> repo.tree]}
    /\ binding = current /\ document = Nothing
    /\ lock = Nothing /\ owner = {} /\ orphan = {}
    /\ pc = [s \in Sessions |-> "idle"]
    /\ op = [s \in Sessions |-> "query"]
    /\ snap = [s \in Sessions |-> repo]
    /\ bound = [s \in Sessions |-> Nothing]
    /\ job = [s \in Sessions |-> NoJob]
    /\ result = [s \in Sessions |-> "none"]
    /\ fresh = [s \in Sessions |-> Nothing]
    /\ attempt = [s \in Sessions |-> 0]
    /\ cache = [s \in Sessions |-> Nothing]
    /\ answer = [s \in Sessions |-> Nothing]
    /\ disturbed = FALSE /\ raced = FALSE /\ solo = Nothing
    /\ edits = 0 /\ calls = 0 /\ faults = 0

-----------------------------------------------------------------------------
(* The user of the repository *)

\* A snapshot has been taken and its files may still have to be read.
Reading == \E s \in Sessions :
              pc[s] \notin {"idle", "query"} /\ result[s] # "ready"

Change ==
    /\ edits < MaxEdits
    /\ edits' = edits + 1
    /\ raced' = (raced \/ Reading)
    /\ solo' = IF Reading THEN Nothing ELSE solo
    /\ UNCHANGED <<fileVars, lockVars, pc, callVars, bound, engineVars,
                   attempt, answer, orphan, disturbed, faults>>

\* A file is edited, created or deleted.
Edit == /\ \E p \in Paths : \E c \in Contents \ {repo.tree[p]} :
              repo' = [repo EXCEPT !.tree[p] = c]
        /\ Change

\* Everything is committed, or everything uncommitted is thrown away.
Commit == /\ repo.head # repo.tree
          /\ repo' = [repo EXCEPT !.head = repo.tree]
          /\ Change

Discard == /\ repo.head # repo.tree
           /\ repo' = [repo EXCEPT !.tree = repo.head]
           /\ Change

-----------------------------------------------------------------------------
(* The broker: snapshot, binding, lock, document *)

\* _resolve_repository: every call starts with a snapshot.
Begin(s, o) ==
    /\ Idle(s) /\ calls < MaxCalls
    /\ calls' = calls + 1
    /\ op' = [op EXCEPT ![s] = o]
    /\ snap' = [snap EXCEPT ![s] = repo]
    /\ attempt' = [attempt EXCEPT ![s] = 0]
    /\ answer' = [answer EXCEPT ![s] = Nothing]
    /\ fresh' = [fresh EXCEPT ![s] = Nothing]
    /\ result' = [result EXCEPT ![s] = "none"]
    /\ bound' = [bound EXCEPT ![s] = Nothing]
    /\ job' = [job EXCEPT ![s] = NoJob]
    /\ Goto(s, IF o = "build" THEN "collect" ELSE "bind")
    /\ LET others == {t \in Sessions : ~Idle(t)} IN
          /\ solo' = IF o = "build" /\ others = {} THEN s ELSE Nothing
          /\ disturbed' = (disturbed \/
                             \E t \in others : "build" \in {o, op[t]})
    /\ UNCHANGED <<repoVars, fileVars, lockVars, cache, orphan, raced, faults>>

\* _read_binding, and the returns of _refresh_if_stale before its loop: no
\* binding refuses the call, and a binding of this very snapshot needs nothing.
\* A delta that cannot be computed leaves the index as it is.
ReadBinding(s) ==
    /\ Broker(s, "bind")
    /\ bound' = [bound EXCEPT ![s] = binding]
    /\ IF binding = Nothing THEN End(s)
       ELSE /\ \/ Goto(s, "query")
               \/ binding.label # snap[s] /\ Goto(s, "lock")
            /\ UNCHANGED solo
    /\ UNCHANGED <<repoVars, fileVars, lockVars, callVars, engineVars, attempt,
                   answer, orphan, disturbed, raced, faults>>

\* Mutant of TakeLock: the lock file is created without O_EXCL.
TakeLockAnyway(s) ==
    /\ Broker(s, "lock")
    /\ lock' = s /\ owner' = owner \cup {s}
    /\ Goto(s, "document")
    /\ UNCHANGED <<repoVars, fileVars, callVars, bound, engineVars, attempt,
                   answer, orphan, ghosts, faults>>

\* _try_acquire: exclusive creation of the lock file.
TakeLock(s) ==
    /\ Broker(s, "lock") /\ lock = Nothing
    /\ lock' = s /\ owner' = owner \cup {s}
    /\ Goto(s, "document")
    /\ UNCHANGED <<repoVars, fileVars, callVars, bound, engineVars, attempt,
                   answer, orphan, ghosts, faults>>

\* The file looks old, and it is unlinked whoever made it.
BreakLock(s) ==
    /\ Broker(s, "lock") /\ lock # Nothing
    /\ lock' = Nothing
    /\ disturbed' = TRUE
    /\ UNCHANGED <<repoVars, fileVars, owner, pc, callVars, bound, engineVars,
                   attempt, answer, orphan, raced, solo, faults>>

\* Mutant of GoUnlocked: the wait for the lock has no deadline.
GoUnlockedNever(s) == FALSE

\* The wait is over: the refresh proceeds without the lock.
GoUnlocked(s) ==
    /\ Broker(s, "lock") /\ lock # Nothing
    /\ Goto(s, "document")
    /\ disturbed' = TRUE
    /\ UNCHANGED <<repoVars, fileVars, lockVars, callVars, bound, engineVars,
                   attempt, answer, orphan, raced, solo, faults>>

\* write_change_document, over whatever document is there, and the request.
WriteDocument(s) ==
    /\ Broker(s, "document")
    /\ document' = [prior |-> bound[s], after |-> snap[s],
                    changed |-> Delta(bound[s].label, snap[s])]
    /\ Goto(s, "send")
    /\ UNCHANGED <<repoVars, current, binding, lockVars, callVars, bound,
                   engineVars, attempt, answer, orphan, ghosts, faults>>

-----------------------------------------------------------------------------
(* The engine: update and build *)

\* decodeChangeDocument and validUpdateBindings: the document is about the
\* index and the snapshot of this request, and CURRENT still names that index.
Accepts(s) ==
    /\ document # Nothing
    /\ document.prior = bound[s]
    /\ document.after = snap[s]
    /\ current = bound[s]

StartUpdate(s) ==
    /\ pc[s] = "send"
    /\ IF Accepts(s)
       THEN /\ job' = [job EXCEPT ![s] = [base |-> current,
                                          changed |-> document.changed,
                                          seen |-> Unread]]
            /\ Goto(s, "read")
            /\ UNCHANGED result
       ELSE /\ result' = [result EXCEPT ![s] = "stale"]
            /\ Goto(s, "answered")
            /\ UNCHANGED job
    /\ UNCHANGED <<repoVars, fileVars, lockVars, callVars, bound, fresh, cache,
                   attempt, answer, orphan, ghosts, faults>>

\* The first pass over the declared paths. A change between two reads of it
\* is noticed by the next pass.
ReadChanged(s) ==
    /\ pc[s] = "read"
    /\ job' = [job EXCEPT ![s].seen = [p \in job[s].changed |-> repo.tree[p]]]
    /\ Goto(s, "barrier")
    /\ UNCHANGED <<repoVars, fileVars, lockVars, callVars, bound, result, fresh,
                   cache, attempt, answer, orphan, ghosts, faults>>

\* The second pass and the publication barrier, then the comparison of CURRENT
\* with the base under a mutex other engines do not share.
Barrier(s) ==
    /\ pc[s] = "barrier"
    /\ IF Unchanged(s) /\ current = job[s].base
       THEN Goto(s, "rename") /\ UNCHANGED result
       ELSE Fail(s)
    /\ UNCHANGED <<repoVars, fileVars, lockVars, callVars, bound, job, fresh,
                   cache, attempt, answer, orphan, ghosts, faults>>

\* A build reads every path. Nothing looks at them again.
CollectTree(s) ==
    /\ pc[s] = "collect"
    /\ job' = [job EXCEPT ![s] = [base |-> Nothing, changed |-> Paths,
                                  seen |-> repo.tree]]
    /\ Goto(s, "rename")
    /\ UNCHANGED <<repoVars, fileVars, lockVars, callVars, bound, result, fresh,
                   cache, attempt, answer, orphan, ghosts, faults>>

\* CURRENT is replaced, and the engine remembers what it published.
Publish(s) ==
    /\ pc[s] = "rename"
    /\ current' = Merged(s)
    /\ fresh' = [fresh EXCEPT ![s] = Merged(s)]
    /\ cache' = [cache EXCEPT ![s] = Merged(s)]
    /\ result' = [result EXCEPT ![s] = "ready"]
    /\ Goto(s, "answered")
    /\ UNCHANGED <<repoVars, binding, document, lockVars, callVars, bound, job,
                   attempt, answer, orphan, ghosts, faults>>

-----------------------------------------------------------------------------
(* The broker: what follows the engine's answer *)

\* remove_change_document, whoever wrote it, and _write_binding for an index
\* that is ready (a build has no document and no lock).
Bind(s) ==
    /\ Broker(s, "answered")
    /\ document' = IF op[s] = "build" THEN document ELSE Nothing
    /\ IF result[s] = "ready"
       THEN /\ binding' = fresh[s]
            /\ bound' = [bound EXCEPT ![s] = fresh[s]]
       ELSE UNCHANGED <<binding, bound>>
    /\ Goto(s, "unlock")
    /\ UNCHANGED <<repoVars, current, lockVars, callVars, engineVars, attempt,
                   answer, orphan, ghosts, faults>>

\* RefreshLock.__exit__ unlinks by name what it created, and the call goes on:
\* a build returns, a refreshed query asks, a refusal ends, an error is retried.
Unlock(s) ==
    /\ Broker(s, "unlock")
    /\ lock' = IF s \in owner THEN Nothing ELSE lock
    /\ owner' = owner \ {s}
    /\ IF op[s] = "build" \/ result[s] \in {"stale", "lost"} \/
             (result[s] = "error" /\ attempt[s] = 1)
       THEN /\ End(s)
            /\ LET repaired == result[s] = "ready" /\ solo = s IN
                  /\ disturbed' = (disturbed /\ ~repaired)
                  /\ raced' = (raced /\ ~repaired)
       ELSE /\ Goto(s, IF result[s] = "ready" THEN "query" ELSE "reread")
            /\ UNCHANGED ghosts
    /\ UNCHANGED <<repoVars, fileVars, callVars, bound, engineVars, attempt,
                   answer, orphan, faults>>

\* The second attempt starts from the binding as it is now.
Reread(s) ==
    /\ Broker(s, "reread")
    /\ bound' = [bound EXCEPT ![s] = binding]
    /\ attempt' = [attempt EXCEPT ![s] = 1]
    /\ result' = [result EXCEPT ![s] = "none"]
    /\ \/ binding.label = snap[s] /\ Goto(s, "query") /\ UNCHANGED solo
       \/ binding.label # snap[s] /\ Goto(s, "lock") /\ UNCHANGED solo
       \/ binding.label # snap[s] /\ End(s)     \* no delta can be computed
    /\ UNCHANGED <<repoVars, fileVars, lockVars, callVars, job, fresh, cache,
                   answer, orphan, disturbed, raced, faults>>

\* query: from the remembered snapshot without a look at CURRENT, or from the
\* index CURRENT names, and only if it is exact; otherwise the call is refused.
Query(s) ==
    /\ Broker(s, "query")
    /\ LET found == IF Exact(s, cache[s]) THEN cache[s] ELSE current IN
          IF Exact(s, found)
          THEN /\ answer' = [answer EXCEPT ![s] = found]
               /\ cache' = [cache EXCEPT ![s] = found]
          ELSE UNCHANGED <<answer, cache>>
    /\ End(s)
    /\ UNCHANGED <<repoVars, fileVars, lockVars, callVars, bound, job, result,
                   fresh, attempt, orphan, disturbed, raced, faults>>

-----------------------------------------------------------------------------
(* Faults *)

Fault == faults < MaxFaults /\ faults' = faults + 1 /\ disturbed' = TRUE

\* A file cannot be read or parsed, or the index cannot be stored: the engine
\* says so, and nothing else is disturbed.
ReadFails(s) ==
    /\ faults < MaxFaults /\ faults' = faults + 1
    /\ pc[s] \in {"barrier", "collect"}
    /\ Fail(s)
    /\ UNCHANGED <<repoVars, fileVars, lockVars, callVars, bound, job, fresh,
                   cache, attempt, answer, orphan, ghosts>>

\* The broker gives up on its engine and kills it, before or after the engine
\* has published, or cannot write the binding; the cleanup still runs.
TimeOut(s) ==
    /\ Fault
    /\ s \notin orphan
    /\ pc[s] \in EngineAt \/ (pc[s] = "answered" /\ result[s] # "lost")
    /\ result' = [result EXCEPT ![s] = "lost"]
    /\ cache' = [cache EXCEPT ![s] = Nothing]
    /\ Goto(s, "answered")
    /\ UNCHANGED <<repoVars, fileVars, lockVars, callVars, bound, job, fresh,
                   attempt, answer, orphan, raced, solo>>

\* The broker dies. Its lock file and its document stay; an engine that was at
\* work may finish what it does before it notices.
Crash(s) ==
    /\ Fault
    /\ ~Idle(s) /\ s \notin orphan
    /\ owner' = owner \ {s}
    /\ \/ /\ pc[s] \in EngineAt
          /\ orphan' = orphan \cup {s}
          /\ UNCHANGED <<pc, cache, solo>>
       \/ /\ End(s)
          /\ cache' = [cache EXCEPT ![s] = Nothing]
          /\ UNCHANGED orphan
    /\ UNCHANGED <<repoVars, fileVars, lock, callVars, bound, job, result,
                   fresh, attempt, answer, raced>>

\* An engine without a broker ends at the end of its input.
OrphanEnds(s) ==
    /\ pc[s] = "answered" /\ s \in orphan
    /\ orphan' = orphan \ {s}
    /\ cache' = [cache EXCEPT ![s] = Nothing]
    /\ End(s)
    /\ UNCHANGED <<repoVars, fileVars, lockVars, callVars, bound, job, result,
                   fresh, attempt, answer, disturbed, raced, faults>>

-----------------------------------------------------------------------------

User == Edit \/ Commit \/ Discard

\* What a session does by itself once it has been called.
Work(s) ==
    \/ ReadBinding(s) \/ TakeLock(s) \/ GoUnlocked(s) \/ WriteDocument(s)
    \/ StartUpdate(s) \/ ReadChanged(s) \/ Barrier(s) \/ CollectTree(s)
    \/ Publish(s) \/ Bind(s) \/ Unlock(s) \/ Reread(s) \/ Query(s)
    \/ OrphanEnds(s)

Done == calls = MaxCalls /\ (\A s \in Sessions : Idle(s)) /\ UNCHANGED vars

Next ==
    \/ User
    \/ \E s \in Sessions :
          \/ \E o \in {"query", "build"} : Begin(s, o)
          \/ Work(s) \/ BreakLock(s) \/ ReadFails(s) \/ TimeOut(s) \/ Crash(s)
    \/ Done

Spec == Init /\ [][Next]_vars

FairSpec == Spec /\ \A s \in Sessions : WF_vars(Work(s))

-----------------------------------------------------------------------------
(* Properties *)

\* An answer is labelled with the snapshot of its call, and unless the
\* repository has changed under a refresh it holds the working tree of that
\* snapshot, as a clean build would: whatever the sessions, the lock, the shared
\* document, the engines' memories and the faults do. A build that runs alone
\* makes up for such a change.
ExactIsCurrent ==
    [][\A s \in Sessions : answer'[s] \notin {Nothing, answer[s]} =>
          /\ answer'[s].label = snap[s]
          /\ raced \/ answer'[s].content = snap[s].tree]_vars

\* The contract of an answer, also when files change under a refresh
\* (skills/prepare-repo-context/references/result-contract.md:10: `exact` binds
\* the index to the current commit and dirty state): while the repository is at
\* the version of an answer, the answer holds its working tree.
ExactBindsTree ==
    \A s \in Sessions : (answer[s] # Nothing /\ repo = snap[s]) =>
        answer[s].content = repo.tree

\* The binding names the index CURRENT names, except between a publication and
\* the write that follows it, unless a fault or an overlap came between; and a
\* build that runs alone makes them agree again.
BindingNamesCurrent ==
    disturbed \/ binding = current
        \/ \E s \in Sessions : pc[s] = "answered" /\ result[s] = "ready"

\* A call returns whatever the other sessions and left-over lock files do.
CallsReturn == \A s \in Sessions : ~Idle(s) ~> Idle(s)

\* A refresh is refused because CURRENT has moved only when reading the binding
\* again would not help. Of its second attempt context_operations.py:381 says
\* that another process may have published a newer generation and rewritten
\* the binding, so it is read again and the refresh is retried.
RereadsBeforeRefusing ==
    [][\A s \in Sessions :
          (/\ pc[s] = "unlock" /\ pc'[s] = "idle"
           /\ result[s] = "stale"
           /\ ~disturbed)
              => binding = bound[s]]_vars

=============================================================================
