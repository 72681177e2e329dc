---------------------------- MODULE Refresh_proofs ----------------------------
(***************************************************************************)
(* What an answer and a binding are worth, for any number of sessions,     *)
(* files, contents, edits, calls and faults. The inductive invariant has   *)
(* three parts: the types, with what the program knows of its indexes      *)
(* where it is; who is alone, or holds the lock, while nothing has         *)
(* disturbed the order of the calls; and what the indexes hold while no    *)
(* file has changed under a call that was still to read it.                *)
(***************************************************************************)
EXTENDS Refresh, TLAPS

(* Types *)

Documents == [prior : Index, after : Version, changed : SUBSET Paths]

\* Where a call has a lock, or goes on without one, and where it works on an
\* index it is bound to.
Writing == {"document", "send", "read", "barrier", "rename", "answered",
            "unlock"}
Based(s) ==
    \/ pc[s] \in {"lock", "document", "send", "read", "barrier", "reread"}
    \/ pc[s] \in Writing /\ op[s] = "query"

\* What a session holds where it is.
Holds(s) ==
    /\ pc[s] = "bind" => op[s] = "query"
    /\ pc[s] = "collect" => op[s] = "build"
    /\ Based(s) => op[s] = "query" /\ bound[s] \in Index /\ binding \in Index
    /\ result[s] = "ready" => fresh[s] \in Index
    /\ pc[s] \notin {"idle", "answered", "unlock", "query"} =>
          result[s] \in {"none", "error"}
    /\ pc[s] \in {"read", "barrier"} => job[s].base \in Index
    /\ pc[s] \in {"barrier", "rename"} =>
          job[s].seen \in [job[s].changed -> Contents]
    /\ pc[s] = "rename" =>
          \/ op[s] = "build" /\ job[s].changed = Paths
          \/ op[s] = "query" /\ job[s].base \in Index

Typed == TypeOK /\ \A s \in Sessions : Holds(s)

-----------------------------------------------------------------------------
(* Order *)

Alone(s) == \A t \in Sessions \ {s} : pc[t] = "idle"

\* A build that has run alone; who has made a lock file; engines on their own.
Roles ==
    /\ solo # Nothing => op[solo] = "build" /\ pc[solo] # "idle" /\ Alone(solo)
    /\ \A s \in owner : pc[s] \in Writing /\ op[s] = "query" /\ s \notin orphan
    /\ \A s \in orphan : pc[s] \in EngineAt \cup {"answered"}

\* A build that has run alone writes the binding of what it has published.
Repairs ==
    solo # Nothing /\ result[solo] = "ready" =>
        /\ pc[solo] = "answered" => current = fresh[solo]
        /\ pc[solo] = "unlock" => binding = current

\* One call at a time changes CURRENT and the binding.
Ordered ==
    /\ orphan = {}
    /\ \A s \in owner : lock = s
    /\ \A s \in Sessions :
          /\ pc[s] \in Writing /\ op[s] = "query" => s \in owner
          /\ pc[s] # "idle" /\ op[s] = "build" => Alone(s)
          /\ pc[s] = "answered" /\ result[s] = "ready" => current = fresh[s]

Regular == Roles /\ Repairs /\ (~disturbed => Ordered) /\ BindingNamesCurrent

-----------------------------------------------------------------------------
(* Content *)

\* An index that holds the working tree of its label.
Right(idx) == idx.content = idx.label.tree

\* A call that is still to read the files of its snapshot.
Reads(s) == pc[s] \notin {"idle", "query"} /\ result[s] \notin {"ready", "lost"}

\* What the engine works on is the index of its request, and what it is to read
\* is what may differ between that and the snapshot.
Asked ==
    /\ document # Nothing =>
          document.changed = Delta(document.prior.label, document.after)
    /\ \A s \in Sessions :
          (pc[s] \in {"read", "barrier", "rename"} /\ op[s] = "query") =>
              /\ job[s].base = bound[s]
              /\ job[s].changed = Delta(bound[s].label, snap[s])

\* A call under which no file has changed.
Undisturbed(s) == pc[s] # "idle" /\ (~raced \/ solo = s)

\* It reads its snapshot, and what it publishes is right.
ReadsRight(s) ==
    Undisturbed(s) =>
        /\ Reads(s) => repo = snap[s]
        /\ pc[s] \in {"barrier", "rename"} =>
              \A p \in job[s].changed : job[s].seen[p] = snap[s].tree[p]
        /\ result[s] = "ready" => Right(fresh[s])
        /\ solo = s /\ pc[s] = "unlock" /\ result[s] = "ready" => Right(binding)

\* As long as no file has changed under any call, what can be answered from is
\* right.
Faithful ==
    /\ Asked
    /\ \A s \in Sessions : ReadsRight(s)
    /\ ~raced =>
          /\ binding \in Index => Right(binding)
          /\ \A s \in Sessions :
                pc[s] # "idle" /\ bound[s] \in Index => Right(bound[s])

\* The inductive invariant.
IInv == Typed /\ Regular /\ Faithful

-----------------------------------------------------------------------------
(* Lemmas about indexes *)

\* The parts of an index.
LEMMA IndexParts ==
    /\ \A i \in Index : i.label \in Version /\ i.content \in Tree
    /\ \A v \in Version : v.head \in Tree /\ v.tree \in Tree
    /\ \A v \in Version, t \in Tree : [label |-> v, content |-> t] \in Index
    /\ \A v, w : Delta(v, w) \subseteq Paths
  BY DEF Index, Version, Delta, Dirty

\* The parts of what an engine holds.
LEMMA JobParts ==
    /\ NoJob \in Job
    /\ \A j \in Job :
          j.base \in Index \cup {Nothing} /\ j.changed \subseteq Paths
    /\ \A b \in Index \cup {Nothing}, c \in SUBSET Paths :
          /\ [base |-> b, changed |-> c, seen |-> Unread] \in Job
          /\ \A f \in [c -> Contents] :
                [base |-> b, changed |-> c, seen |-> f] \in Job
    /\ \A j \in Job : \A f \in [j.changed -> Contents] :
          [j EXCEPT !.seen = f] \in Job
<1>1. \A c \in SUBSET Paths : \A f \in [c -> Contents] :
          f \in UNION {[P -> Contents] : P \in SUBSET Paths}
  OBVIOUS
<1>2. Unread \in [{} -> Contents]
  BY DEF Unread
<1>3. Unread \in UNION {[P -> Contents] : P \in SUBSET Paths}
  BY <1>1, <1>2
<1> QED
  BY <1>1, <1>3 DEF Job, NoJob

\* What an update or a build publishes is an index, labelled with the snapshot.
LEMMA MergedIsIndex ==
    ASSUME TypeOK, NEW s \in Sessions, Holds(s), pc[s] = "rename"
    PROVE  /\ Merged(s) \in Index
           /\ Merged(s).label = snap[s]
           /\ Merged(s).content =
                 [p \in Paths |-> IF p \in job[s].changed THEN job[s].seen[p]
                                  ELSE job[s].base.content[p]]
<1> DEFINE content == [p \in Paths |-> IF p \in job[s].changed
                                       THEN job[s].seen[p]
                                       ELSE job[s].base.content[p]]
<1>1. snap[s] \in Version
  BY DEF TypeOK
<1>2. content \in Tree
  <2>1. job[s].seen \in [job[s].changed -> Contents]
    BY DEF Holds
  <2>2. job[s].changed = Paths \/ job[s].base.content \in Tree
    BY IndexParts DEF Holds
  <2> QED
    BY <2>1, <2>2 DEF Tree
<1> QED
  BY <1>1, <1>2, IndexParts DEF Merged

\* A file that is not among the changed ones is the same in both versions.
LEMMA DeltaCovers ==
    ASSUME NEW v, NEW w, NEW p \in Paths, p \notin Delta(v, w)
    PROVE  v.tree[p] = w.tree[p]
  BY DEF Delta, Dirty

-----------------------------------------------------------------------------
(* Types are kept *)

\* The variables' own types.
LEMMA TypeStep ==
    ASSUME RefreshAssumption, Typed, [Next]_vars
    PROVE  TypeOK'
<1> USE DEF RefreshAssumption, Typed, TypeOK, Goto, End, Broker, repoVars,
    fileVars, lockVars, callVars, engineVars, ghosts, EngineAt, BrokerAt
<1>1. CASE UNCHANGED vars
  BY <1>1 DEF vars
<1>2. CASE User
  <2>1. repo' \in Version
    <3>1. CASE Edit
      <4>1. PICK p \in Paths, c \in Contents :
                repo' = [repo EXCEPT !.tree[p] = c]
        BY <3>1 DEF Edit
      <4>2. [repo.tree EXCEPT ![p] = c] \in Tree
        BY IndexParts DEF Tree
      <4> QED
        BY <4>1, <4>2 DEF Version
    <3>2. CASE Commit \/ Discard
      BY <3>2 DEF Commit, Discard, Version
    <3> QED
      BY <1>2, <3>1, <3>2 DEF User
  <2>2. Change
    BY <1>2 DEF User, Edit, Commit, Discard
  <2>3. raced' \in BOOLEAN
    BY <2>2 DEF Change
  <2>4. edits' \in 0 .. MaxEdits /\ solo' \in Sessions \cup {Nothing}
    BY <2>2 DEF Change
  <2> QED
    BY <2>1, <2>2, <2>3, <2>4 DEF Change
<1>3. ASSUME NEW s \in Sessions, NEW o \in {"query", "build"}, Begin(s, o)
      PROVE  TypeOK'
  BY <1>3, JobParts DEF Begin
<1>4. ASSUME NEW s \in Sessions, Work(s)
      PROVE  TypeOK'
  <2>1. CASE ReadBinding(s)
    BY <2>1 DEF ReadBinding
  <2>2. CASE TakeLock(s)
    BY <2>2 DEF TakeLock
  <2>3. CASE GoUnlocked(s)
    BY <2>3 DEF GoUnlocked
  <2>4. CASE WriteDocument(s)
    <3>1. document' \in Documents
      BY <2>4, IndexParts DEF WriteDocument, Typed, Holds, Based, Documents
    <3> QED
      BY <2>4, <3>1 DEF WriteDocument, Documents
  <2>5. CASE StartUpdate(s)
    <3>1. CASE UNCHANGED job
      BY <2>5, <3>1 DEF StartUpdate
    <3>2. CASE Accepts(s)
      <4>1. [base |-> current, changed |-> document.changed, seen |-> Unread]
                \in Job
        BY <3>2, JobParts DEF Accepts
      <4> QED
        BY <2>5, <3>2, <4>1 DEF StartUpdate
    <3> QED
      BY <2>5, <3>1, <3>2 DEF StartUpdate
  <2>6. CASE ReadChanged(s)
    <3>1. [p \in job[s].changed |-> repo.tree[p]] \in
              [job[s].changed -> Contents]
      BY IndexParts, JobParts DEF Tree
    <3>2. [job[s] EXCEPT !.seen = [p \in job[s].changed |-> repo.tree[p]]]
              \in Job
      BY <3>1, JobParts
    <3> QED
      BY <2>6, <3>2 DEF ReadChanged
  <2>7. CASE Barrier(s)
    BY <2>7 DEF Barrier, Fail
  <2>8. CASE CollectTree(s)
    <3>1. [base |-> Nothing, changed |-> Paths, seen |-> repo.tree] \in Job
      BY IndexParts, JobParts DEF Tree
    <3> QED
      BY <2>8, <3>1 DEF CollectTree
  <2>9. CASE Publish(s)
    <3>1. Merged(s) \in Index
      BY <2>9, MergedIsIndex DEF Publish, Typed
    <3> QED
      BY <2>9, <3>1 DEF Publish
  <2>10. CASE Bind(s)
    BY <2>10 DEF Bind
  <2>11. CASE Unlock(s)
    <3>1. /\ pc' \in [Sessions -> {"idle"} \cup EngineAt \cup BrokerAt]
          /\ solo' \in Sessions \cup {Nothing}
      BY <2>11 DEF Unlock
    <3>2. disturbed' \in BOOLEAN /\ raced' \in BOOLEAN
      BY <2>11 DEF Unlock
    <3>3. lock' \in Sessions \cup {Nothing} /\ owner' \subseteq Sessions
      BY <2>11 DEF Unlock
    <3> QED
      BY <2>11, <3>1, <3>2, <3>3 DEF Unlock
  <2>12. CASE Reread(s)
    BY <2>12 DEF Reread
  <2>13. CASE Query(s)
    BY <2>13 DEF Query
  <2>14. CASE OrphanEnds(s)
    BY <2>14 DEF OrphanEnds
  <2> QED
    BY <1>4, <2>1, <2>2, <2>3, <2>4, <2>5, <2>6, <2>7, <2>8, <2>9, <2>10, <2>11,
       <2>12, <2>13, <2>14 DEF Work
<1>5. ASSUME NEW s \in Sessions, BreakLock(s) \/ ReadFails(s)
      PROVE  TypeOK'
  <2>1. CASE BreakLock(s)
    BY <2>1 DEF BreakLock
  <2>2. CASE ReadFails(s)
    BY <2>2 DEF ReadFails, Fail
  <2> QED
    BY <1>5, <2>1, <2>2
<1>6. ASSUME NEW s \in Sessions, TimeOut(s)
      PROVE  TypeOK'
  BY <1>6 DEF TimeOut, Fault
<1>7. ASSUME NEW s \in Sessions, Crash(s)
      PROVE  TypeOK'
  BY <1>7 DEF Crash, Fault
<1> QED
  BY <1>1, <1>2, <1>3, <1>4, <1>5, <1>6, <1>7 DEF Next, Done

\* A session that does nothing keeps what it holds; the binding, once there is
\* one, is never taken away.
LEMMA HoldsKept ==
    ASSUME NEW t \in Sessions, Holds(t),
           binding \in Index => binding' \in Index,
           /\ pc'[t] = pc[t] /\ op'[t] = op[t] /\ bound'[t] = bound[t]
           /\ result'[t] = result[t] /\ fresh'[t] = fresh[t]
           /\ job'[t] = job[t]
    PROVE  Holds(t)'
  BY DEF Holds, Based

\* A step of one session, which goes to another place, touches no other.
LEMMA OthersKept ==
    ASSUME Typed, NEW s \in Sessions,
           \/ \E o \in {"query", "build"} : Begin(s, o)
           \/ Work(s) \/ ReadFails(s) \/ TimeOut(s) \/ Crash(s),
           NEW t \in Sessions \ {s}
    PROVE  /\ pc'[t] = pc[t] /\ op'[t] = op[t] /\ bound'[t] = bound[t]
           /\ result'[t] = result[t] /\ fresh'[t] = fresh[t]
           /\ job'[t] = job[t] /\ snap'[t] = snap[t]
           /\ (t \in owner' <=> t \in owner)
           /\ (t \in orphan' <=> t \in orphan)
<1> USE DEF Typed, TypeOK, Goto, End, lockVars, callVars, engineVars
<1>1. CASE \E o \in {"query", "build"} : Begin(s, o)
  BY <1>1 DEF Begin
<1>2. CASE ReadBinding(s) \/ TakeLock(s) \/ GoUnlocked(s) \/ WriteDocument(s)
  BY <1>2 DEF ReadBinding, TakeLock, GoUnlocked, WriteDocument
<1>3. CASE StartUpdate(s) \/ ReadChanged(s) \/ Barrier(s) \/ CollectTree(s)
  BY <1>3 DEF StartUpdate, ReadChanged, Barrier, Fail, CollectTree
<1>4. CASE Publish(s) \/ Bind(s) \/ Unlock(s)
  BY <1>4 DEF Publish, Bind, Unlock
<1>5. CASE Reread(s) \/ Query(s) \/ OrphanEnds(s)
  BY <1>5 DEF Reread, Query, OrphanEnds
<1>6. CASE ReadFails(s) \/ TimeOut(s) \/ Crash(s)
  BY <1>6 DEF ReadFails, Fail, TimeOut, Crash
<1> QED
  BY <1>1, <1>2, <1>3, <1>4, <1>5, <1>6 DEF Work

\* A session knows what the place it goes to asks for.
LEMMA HoldsStep ==
    ASSUME RefreshAssumption, Typed, [Next]_vars
    PROVE  \A t \in Sessions : Holds(t)'
<1>1. binding \in Index => binding' \in Index
  <2>1. CASE UNCHANGED binding
    BY <2>1
  <2>2. ASSUME NEW s \in Sessions, Bind(s)
        PROVE  binding' = binding \/ binding' \in Index
    BY <2>2 DEF Bind, Typed, Holds
  <2> QED
    BY <2>1, <2>2
       DEF Next, Work, Begin, User, Edit, Commit, Discard, Change, ReadBinding,
           TakeLock, GoUnlocked, WriteDocument, StartUpdate, ReadChanged,
           Barrier, CollectTree, Publish, Unlock, Reread, Query, OrphanEnds,
           BreakLock, ReadFails, TimeOut, Crash, Done, vars, fileVars
<1>2. CASE UNCHANGED <<pc, op, bound, result, fresh, job>>
  BY <1>1, <1>2, HoldsKept DEF Typed
<1>3. ASSUME NEW s \in Sessions,
             \/ \E o \in {"query", "build"} : Begin(s, o)
             \/ Work(s) \/ ReadFails(s) \/ TimeOut(s) \/ Crash(s),
             Holds(s)'
      PROVE  \A t \in Sessions : Holds(t)'
  <2>1. ASSUME NEW t \in Sessions \ {s}
        PROVE  Holds(t)'
    BY <1>1, <1>3, OthersKept, HoldsKept DEF Typed
  <2> QED
    BY <1>3, <2>1
<1>4. ASSUME NEW s \in Sessions, NEW o \in {"query", "build"}, Begin(s, o)
      PROVE  Holds(s)'
  BY <1>4 DEF Begin, Goto, Typed, TypeOK, Holds, Based, Writing
<1>5. ASSUME NEW s \in Sessions, Work(s)
      PROVE  Holds(s)'
  <2> USE DEF Typed, TypeOK, Goto, End, Broker, Holds, Based, Writing, EngineAt,
      BrokerAt, repoVars, fileVars, lockVars, callVars, engineVars, ghosts
  <2>1. CASE ReadBinding(s)
    BY <2>1 DEF ReadBinding
  <2>2. CASE TakeLock(s) \/ GoUnlocked(s) \/ WriteDocument(s)
    BY <2>2 DEF TakeLock, GoUnlocked, WriteDocument
  <2>3. CASE StartUpdate(s)
    BY <2>3 DEF StartUpdate, Accepts
  <2>4. CASE ReadChanged(s)
    <3>1. job'[s].changed = job[s].changed /\ job'[s].base = job[s].base
          /\ job'[s].seen = [p \in job[s].changed |-> repo.tree[p]]
      BY <2>4, JobParts DEF ReadChanged, Job
    <3>2. job'[s].seen \in [job'[s].changed -> Contents]
      BY <3>1, IndexParts, JobParts DEF Tree
    <3> QED
      BY <2>4, <3>1, <3>2 DEF ReadChanged
  <2>5. CASE Barrier(s)
    BY <2>5 DEF Barrier, Fail
  <2>6. CASE CollectTree(s)
    BY <2>6, IndexParts DEF CollectTree, Tree
  <2>7. CASE Publish(s)
    <3>1. Merged(s) \in Index /\ pc[s] = "rename"
      BY <2>7, MergedIsIndex DEF Publish
    <3>2. /\ pc'[s] = "answered" /\ op'[s] = op[s] /\ bound'[s] = bound[s]
          /\ binding' = binding /\ fresh'[s] = Merged(s)
      BY <2>7 DEF Publish
    <3> QED
      BY <3>1, <3>2
  <2>8. CASE Bind(s)
    BY <2>8 DEF Bind
  <2>9. CASE Unlock(s)
    BY <2>9 DEF Unlock
  <2>10. CASE Reread(s)
    BY <2>10 DEF Reread
  <2>11. CASE Query(s) \/ OrphanEnds(s)
    BY <2>11 DEF Query, OrphanEnds
  <2> QED
    BY <1>5, <2>1, <2>2, <2>3, <2>4, <2>5, <2>6, <2>7, <2>8, <2>9, <2>10, <2>11
       DEF Work
<1>6. ASSUME NEW s \in Sessions, ReadFails(s) \/ TimeOut(s) \/ Crash(s)
      PROVE  Holds(s)'
  <2> USE DEF Typed, TypeOK, Goto, End, Holds, Based, Writing, EngineAt,
      BrokerAt, repoVars, fileVars, lockVars, callVars
  <2>1. CASE ReadFails(s)
    BY <2>1 DEF ReadFails, Fail
  <2>2. CASE TimeOut(s)
    BY <2>2 DEF TimeOut
  <2>3. CASE Crash(s)
    BY <2>3 DEF Crash
  <2> QED
    BY <1>6, <2>1, <2>2, <2>3
<1>7. CASE User \/ Done \/ UNCHANGED vars
  BY <1>2, <1>7 DEF User, Edit, Commit, Discard, Change, Done, vars, callVars,
     engineVars
<1>8. ASSUME NEW s \in Sessions, BreakLock(s)
      PROVE  \A t \in Sessions : Holds(t)'
  BY <1>2, <1>8 DEF BreakLock, callVars, engineVars
<1> QED
  BY <1>3, <1>4, <1>5, <1>6, <1>7, <1>8 DEF Next

\* The types, with what the program knows of its indexes, are kept.
LEMMA TypedStep ==
    ASSUME RefreshAssumption, Typed, [Next]_vars
    PROVE  Typed'
  BY TypeStep, HoldsStep DEF Typed

-----------------------------------------------------------------------------
(* The order is kept *)

\* Whoever does something has been called; while a build runs alone, nobody
\* else has.
LEMMA ActorIsCalled ==
    ASSUME Regular, NEW s \in Sessions,
           Work(s) \/ ReadFails(s) \/ TimeOut(s) \/ Crash(s)
    PROVE  pc[s] # "idle" /\ solo \in {s, Nothing}
<1>1. pc[s] # "idle"
  BY DEF Work, ReadBinding, TakeLock, GoUnlocked, WriteDocument, StartUpdate,
     ReadChanged, Barrier, CollectTree, Publish, Bind, Unlock, Reread, Query,
     OrphanEnds, ReadFails, TimeOut, Crash, Broker, Idle, EngineAt
<1> QED
  BY <1>1 DEF Regular, Roles, Alone

\* The roles: a session takes one when it begins or takes the lock, and lays it
\* down when it ends.
LEMMA RolesStep ==
    ASSUME RefreshAssumption, Typed, Regular, [Next]_vars
    PROVE  Roles'
<1> USE DEF RefreshAssumption, Typed, TypeOK, Goto, End, Broker, Writing,
    EngineAt, repoVars, fileVars, lockVars, callVars, engineVars, ghosts
<1>1. CASE User \/ Done \/ UNCHANGED vars
  BY <1>1 DEF User, Edit, Commit, Discard, Change, Done, vars, Regular, Roles,
     Alone
<1>2. ASSUME NEW s \in Sessions, BreakLock(s)
      PROVE  Roles'
  BY <1>2 DEF BreakLock, Regular, Roles, Alone
<1>3. ASSUME NEW s \in Sessions, NEW o \in {"query", "build"}, Begin(s, o)
      PROVE  Roles'
  <2>1. /\ pc[s] = "idle" /\ pc'[s] # "idle" /\ op'[s] = o
        /\ UNCHANGED <<owner, orphan>>
    BY <1>3 DEF Begin, Idle
  <2>2. \A t \in Sessions \ {s} : pc'[t] = pc[t] /\ op'[t] = op[t]
    BY <1>3 DEF Begin
  <2>3. solo' # Nothing => solo' = s /\ o = "build" /\ Alone(s)
    BY <1>3 DEF Begin, Idle, Alone
  <2>4. s \notin owner /\ s \notin orphan
    BY <2>1 DEF Regular, Roles
  <2> QED
    BY <2>1, <2>2, <2>3, <2>4 DEF Regular, Roles, Alone
<1>4. ASSUME NEW s \in Sessions,
             Work(s) \/ ReadFails(s) \/ TimeOut(s) \/ Crash(s),
             op'[s] = op[s], solo' \in {solo, Nothing},
             solo' = s => pc'[s] # "idle",
             s \in owner' => pc'[s] \in Writing /\ op[s] = "query"
                             /\ s \notin orphan',
             s \in orphan' => pc'[s] \in EngineAt \cup {"answered"}
      PROVE  Roles'
  <2>1. pc[s] # "idle" /\ solo \in {s, Nothing}
    BY <1>4, ActorIsCalled
  <2>2. \A t \in Sessions \ {s} :
            /\ pc'[t] = pc[t] /\ op'[t] = op[t]
            /\ (t \in owner' <=> t \in owner)
            /\ (t \in orphan' <=> t \in orphan)
    BY <1>4, OthersKept
  <2>3. owner' \subseteq Sessions /\ orphan' \subseteq Sessions
    BY <1>4, TypeStep DEF Next
  <2> QED
    BY <1>4, <2>1, <2>2, <2>3 DEF Regular, Roles, Alone
<1>5. ASSUME NEW s \in Sessions, Work(s)
      PROVE  Roles'
  <2> USE DEF Regular, Roles
  <2>1. CASE ReadBinding(s)
    BY <1>4, <1>5, <2>1 DEF ReadBinding
  <2>2. CASE TakeLock(s)
    BY <1>4, <1>5, <2>2 DEF TakeLock, Holds, Based
  <2>3. CASE GoUnlocked(s) \/ WriteDocument(s)
    BY <1>4, <1>5, <2>3 DEF GoUnlocked, WriteDocument
  <2>4. CASE StartUpdate(s)
    BY <1>4, <1>5, <2>4 DEF StartUpdate
  <2>5. CASE ReadChanged(s) \/ CollectTree(s) \/ Publish(s)
    BY <1>4, <1>5, <2>5 DEF ReadChanged, CollectTree, Publish
  <2>6. CASE Barrier(s)
    BY <1>4, <1>5, <2>6 DEF Barrier, Fail
  <2>7. CASE Bind(s)
    BY <1>4, <1>5, <2>7 DEF Bind
  <2>8. CASE Unlock(s)
    BY <1>4, <1>5, <2>8 DEF Unlock
  <2>9. CASE Reread(s)
    BY <1>4, <1>5, <2>9 DEF Reread
  <2>10. CASE Query(s)
    BY <1>4, <1>5, <2>10 DEF Query
  <2>11. CASE OrphanEnds(s)
    BY <1>4, <1>5, <2>11 DEF OrphanEnds
  <2> QED
    BY <1>5, <2>1, <2>2, <2>3, <2>4, <2>5, <2>6, <2>7, <2>8, <2>9, <2>10, <2>11
       DEF Work
<1>6. ASSUME NEW s \in Sessions, ReadFails(s) \/ TimeOut(s) \/ Crash(s)
      PROVE  Roles'
  <2> USE DEF Regular, Roles
  <2>1. CASE ReadFails(s)
    <3>1. /\ pc[s] \in {"barrier", "collect"} /\ pc'[s] = "answered"
          /\ UNCHANGED <<op, solo, owner, orphan>>
      BY <2>1 DEF ReadFails, Fail
    <3> QED
      BY <1>4, <2>1, <3>1
  <2>2. CASE TimeOut(s)
    <3>1. /\ pc[s] \in EngineAt \cup {"answered"} /\ pc'[s] = "answered"
          /\ UNCHANGED <<op, solo, owner, orphan>>
      BY <2>2 DEF TimeOut
    <3> QED
      BY <1>4, <2>2, <3>1
  <2>3. CASE Crash(s)
    BY <1>4, <2>3 DEF Crash
  <2> QED
    BY <1>6, <2>1, <2>2, <2>3
<1> QED
  BY <1>1, <1>2, <1>3, <1>5, <1>6 DEF Next

\* A build that runs alone finds CURRENT and its index where it has put them.
LEMMA RepairsStep ==
    ASSUME RefreshAssumption, Typed, Regular, [Next]_vars
    PROVE  Repairs'
<1> USE DEF RefreshAssumption, Typed, TypeOK, Goto, End, Broker, EngineAt,
    repoVars, fileVars, lockVars, callVars, engineVars, ghosts
<1>1. CASE User \/ Done \/ UNCHANGED vars
  BY <1>1 DEF User, Edit, Commit, Discard, Change, Done, vars, Regular, Repairs
<1>2. ASSUME NEW s \in Sessions, BreakLock(s)
      PROVE  Repairs'
  BY <1>2 DEF BreakLock, Regular, Repairs
<1>3. ASSUME NEW s \in Sessions, NEW o \in {"query", "build"}, Begin(s, o)
      PROVE  Repairs'
  BY <1>3 DEF Begin, Repairs
<1>4. ASSUME NEW s \in Sessions,
             Work(s) \/ ReadFails(s) \/ TimeOut(s) \/ Crash(s)
      PROVE  Repairs'
  <2>1. pc[s] # "idle" /\ solo \in {s, Nothing}
    BY <1>4, ActorIsCalled
  <2>2. solo' \in {solo, Nothing}
    BY <1>4 DEF Work, ReadBinding, TakeLock, GoUnlocked, WriteDocument,
       StartUpdate, ReadChanged, Barrier, CollectTree, Publish, Bind, Unlock,
       Reread, Query, OrphanEnds, ReadFails, TimeOut, Crash
  <2>3. solo = s => op[s] = "build"
    BY DEF Regular, Roles
  <2> USE DEF Repairs
  <2>4. CASE Publish(s)
    BY <2>1, <2>2, <2>4 DEF Publish
  <2>5. CASE Bind(s)
    BY <2>1, <2>2, <2>5 DEF Bind, Regular
  <2>6. CASE Unlock(s)
    BY <2>1, <2>2, <2>3, <2>6 DEF Unlock
  <2>7. CASE ReadBinding(s) \/ TakeLock(s) \/ GoUnlocked(s) \/ WriteDocument(s)
    BY <2>1, <2>2, <2>7 DEF ReadBinding, TakeLock, GoUnlocked, WriteDocument,
       Regular
  <2>8. CASE StartUpdate(s) \/ ReadChanged(s) \/ CollectTree(s)
    BY <2>1, <2>2, <2>8 DEF StartUpdate, ReadChanged, CollectTree, Regular
  <2>9. CASE Barrier(s) \/ ReadFails(s)
    BY <2>1, <2>2, <2>9 DEF Barrier, Fail, ReadFails, Regular
  <2>10. CASE Reread(s) \/ Query(s) \/ OrphanEnds(s)
    BY <2>1, <2>2, <2>10 DEF Reread, Query, OrphanEnds, Regular
  <2>11. CASE TimeOut(s) \/ Crash(s)
    BY <2>1, <2>2, <2>11 DEF TimeOut, Crash, Regular
  <2> QED
    BY <1>4, <2>4, <2>5, <2>6, <2>7, <2>8, <2>9, <2>10, <2>11 DEF Work
<1> QED
  BY <1>1, <1>2, <1>3, <1>4 DEF Next

\* A session that works alone, holds the lock, or is done with its binding.
LEMMA OrderedStep ==
    ASSUME RefreshAssumption, Typed, Regular, [Next]_vars, ~disturbed'
    PROVE  Ordered'
<1> USE DEF RefreshAssumption, Typed, TypeOK, Goto, End, Broker, Writing,
    EngineAt, repoVars, fileVars, lockVars, callVars, engineVars, ghosts
<1>1. CASE User \/ Done \/ UNCHANGED vars
  BY <1>1 DEF User, Edit, Commit, Discard, Change, Done, vars, Regular,
     Ordered, Alone
<1>2. ASSUME NEW s \in Sessions, BreakLock(s) \/ TimeOut(s) \/ Crash(s)
      PROVE  FALSE
  BY <1>2 DEF BreakLock, TimeOut, Crash, Fault
<1>3. ASSUME NEW s \in Sessions, NEW o \in {"query", "build"}, Begin(s, o)
      PROVE  Ordered'
  <2>1. /\ Ordered /\ pc[s] = "idle" /\ pc'[s] \notin Writing /\ op'[s] = o
        /\ UNCHANGED <<owner, orphan, lock, current>>
        /\ result'[s] = "none"
    BY <1>3 DEF Begin, Idle, Regular
  <2>2. \A t \in Sessions \ {s} :
            pc'[t] = pc[t] /\ op'[t] = op[t] /\ result'[t] = result[t]
            /\ fresh'[t] = fresh[t]
    BY <1>3 DEF Begin
  <2>3. \A t \in Sessions \ {s} :
            pc[t] # "idle" => o # "build" /\ op[t] # "build"
    BY <1>3 DEF Begin, Idle
  <2> QED
    BY <2>1, <2>2, <2>3 DEF Ordered, Alone
  \* One that has nothing to do with CURRENT, the lock or an end.
<1>4. ASSUME NEW s \in Sessions, Work(s) \/ ReadFails(s), Ordered,
             op'[s] = op[s], orphan' \subseteq orphan,
             lock' = lock, owner' = owner, current' = current,
             pc'[s] \in Writing /\ op[s] = "query" => pc[s] \in Writing,
             pc'[s] = "answered" => result'[s] # "ready"
      PROVE  Ordered'
  <2>1. pc[s] # "idle"
    BY <1>4, ActorIsCalled
  <2>2. \A t \in Sessions \ {s} :
            /\ pc'[t] = pc[t] /\ op'[t] = op[t] /\ result'[t] = result[t]
            /\ fresh'[t] = fresh[t]
    BY <1>4, OthersKept
  <2> QED
    BY <1>4, <2>1, <2>2 DEF Ordered, Alone
<1>5. ASSUME NEW s \in Sessions, Work(s)
      PROVE  Ordered'
  <2>1. \A t \in Sessions \ {s} :
            /\ pc'[t] = pc[t] /\ op'[t] = op[t] /\ result'[t] = result[t]
            /\ fresh'[t] = fresh[t] /\ (t \in owner' <=> t \in owner)
            /\ (t \in orphan' <=> t \in orphan)
    BY <1>5, OthersKept
  <2>2. pc[s] # "idle" /\ solo \in {s, Nothing}
    BY <1>5, ActorIsCalled
  <2>3. CASE ReadBinding(s)
    BY <1>4, <1>5, <2>3 DEF ReadBinding, Regular
  <2>4. CASE TakeLock(s)
    <3>1. Ordered /\ owner = {} /\ op[s] = "query" /\ op'[s] = op[s]
      BY <2>4 DEF TakeLock, Regular, Ordered, Holds, Based
    <3>2. \A t \in Sessions \ {s} : pc[t] \in Writing => op[t] = "build"
      BY <3>1 DEF Ordered
    <3> QED
      BY <2>1, <2>2, <2>4, <3>1, <3>2 DEF TakeLock, Ordered, Alone
  <2>5. CASE GoUnlocked(s)
    BY <2>5 DEF GoUnlocked
  <2>6. CASE WriteDocument(s) \/ StartUpdate(s)
    BY <1>4, <1>5, <2>6 DEF WriteDocument, StartUpdate, Regular
  <2>7. CASE ReadChanged(s) \/ Barrier(s)
    BY <1>4, <1>5, <2>7 DEF ReadChanged, Barrier, Fail, Regular
  <2>8. CASE CollectTree(s)
    BY <1>4, <1>5, <2>8 DEF CollectTree, Regular, Holds
  <2>9. CASE Publish(s)
    <3>1. /\ Ordered /\ op'[s] = op[s] /\ pc[s] = "rename"
          /\ pc'[s] = "answered" /\ current' = fresh'[s]
          /\ UNCHANGED <<owner, lock, orphan>>
      BY <2>9 DEF Publish, Regular
    <3>2. \A t \in Sessions \ {s} : pc[t] # "answered"
      BY <3>1 DEF Ordered, Alone
    <3> QED
      BY <2>1, <2>2, <3>1, <3>2 DEF Ordered, Alone
  <2>10. CASE Bind(s)
    BY <1>4, <1>5, <2>10 DEF Bind, Regular
  <2>11. CASE Unlock(s)
    <3>1. CASE disturbed
      <4>1. solo = s /\ pc'[s] = "idle"
        BY <2>11, <3>1 DEF Unlock
      <4>2. op[s] = "build" /\ Alone(s) /\ owner = {}
        BY <4>1 DEF Regular, Roles, Alone
      <4>3. orphan = {}
        BY <2>11, <4>2 DEF Regular, Roles, Alone, Unlock
      <4> QED
        BY <2>1, <2>11, <4>1, <4>2, <4>3 DEF Unlock, Ordered, Alone
    <3>2. CASE ~disturbed
      <4>1. /\ Ordered /\ op'[s] = op[s] /\ pc'[s] \notin Writing
            /\ owner' = owner \ {s} /\ UNCHANGED <<current, orphan>>
            /\ lock' = IF s \in owner THEN Nothing ELSE lock
        BY <2>11, <3>2 DEF Unlock, Regular
      <4>2. \A t \in owner' : lock' = t
        BY <4>1 DEF Ordered
      <4> QED
        BY <2>1, <2>2, <4>1, <4>2 DEF Ordered, Alone
    <3> QED
      BY <3>1, <3>2
  <2>12. CASE Reread(s)
    BY <1>4, <1>5, <2>12 DEF Reread, Regular
  <2>13. CASE Query(s)
    BY <1>4, <1>5, <2>13 DEF Query, Regular
  <2>14. CASE OrphanEnds(s)
    BY <2>14 DEF OrphanEnds, Regular, Ordered
  <2> QED
    BY <1>5, <2>3, <2>4, <2>5, <2>6, <2>7, <2>8, <2>9, <2>10, <2>11, <2>12,
       <2>13, <2>14 DEF Work
<1>6. ASSUME NEW s \in Sessions, ReadFails(s)
      PROVE  Ordered'
  <2>1. /\ pc[s] \in {"barrier", "collect"} /\ pc'[s] = "answered"
        /\ result'[s] = "error" /\ Ordered
        /\ UNCHANGED <<op, orphan, lock, owner, current>>
    BY <1>6 DEF ReadFails, Fail, Regular
  <2>2. pc[s] = "barrier" \/ op[s] = "build"
    BY <2>1 DEF Holds
  <2> QED
    BY <1>4, <1>6, <2>1, <2>2
<1> QED
  BY <1>1, <1>2, <1>3, <1>5, <1>6 DEF Next

\* A binding that does not name what CURRENT names is about to be written.
LEMMA BindingStep ==
    ASSUME RefreshAssumption, Typed, Regular, [Next]_vars
    PROVE  BindingNamesCurrent'
<1> USE DEF Typed, TypeOK, Goto, End, Broker, Writing, EngineAt, repoVars,
    fileVars, lockVars, callVars, engineVars, ghosts
<1>1. SUFFICES ASSUME ~disturbed'
               PROVE  BindingNamesCurrent'
  BY DEF BindingNamesCurrent
<1>2. CASE User \/ Done \/ UNCHANGED vars
  BY <1>1, <1>2 DEF User, Edit, Commit, Discard, Change, Done, vars, Regular,
     BindingNamesCurrent
<1>3. ASSUME NEW s \in Sessions, BreakLock(s) \/ TimeOut(s) \/ Crash(s)
      PROVE  FALSE
  BY <1>1, <1>3 DEF BreakLock, TimeOut, Crash, Fault
  \* A step that leaves CURRENT, the binding and every published call alone.
<1>4. ASSUME NEW s \in Sessions, UNCHANGED <<binding, current>>, ~disturbed,
             pc[s] # "answered" \/ result[s] # "ready",
             \A t \in Sessions \ {s} : pc'[t] = pc[t] /\ result'[t] = result[t]
      PROVE  BindingNamesCurrent'
  BY <1>4 DEF Regular, BindingNamesCurrent
<1>5. ASSUME NEW s \in Sessions, NEW o \in {"query", "build"}, Begin(s, o)
      PROVE  BindingNamesCurrent'
  <2>1. ~disturbed /\ pc[s] = "idle"
    BY <1>1, <1>5 DEF Begin, Idle
  <2>2. \A t \in Sessions \ {s} : pc'[t] = pc[t] /\ result'[t] = result[t]
    BY <1>5, OthersKept
  <2> QED
    BY <1>4, <1>5, <2>1, <2>2 DEF Begin
<1>6. ASSUME NEW s \in Sessions, Work(s) \/ ReadFails(s)
      PROVE  BindingNamesCurrent'
  <2>1. \A t \in Sessions \ {s} : pc'[t] = pc[t] /\ result'[t] = result[t]
    BY <1>6, OthersKept
  <2>2. CASE Publish(s)
    BY <2>2 DEF Publish, BindingNamesCurrent
  <2>3. CASE Bind(s)
    <3>1. /\ Ordered /\ pc[s] = "answered" /\ UNCHANGED current
          /\ (result[s] = "ready" => binding' = fresh[s])
          /\ (result[s] # "ready" => binding' = binding)
          /\ ~disturbed
      BY <1>1, <2>3 DEF Bind, Regular
    <3>2. CASE result[s] = "ready"
      BY <3>1, <3>2 DEF Ordered, BindingNamesCurrent
    <3>3. CASE result[s] # "ready"
      BY <1>4, <2>1, <3>1, <3>3
    <3> QED
      BY <3>2, <3>3
  <2>4. CASE Unlock(s)
    <3>1. pc[s] = "unlock" /\ UNCHANGED <<binding, current>>
      BY <2>4 DEF Unlock
    <3>2. CASE disturbed
      <4>1. solo = s /\ result[s] = "ready"
        BY <1>1, <2>4, <3>2 DEF Unlock
      <4> QED
        BY <3>1, <4>1
           DEF Regular, Repairs, BindingNamesCurrent, RefreshAssumption
    <3>3. CASE ~disturbed
      BY <1>4, <2>1, <3>1, <3>3
    <3> QED
      BY <3>2, <3>3
  <2>5. CASE OrphanEnds(s)
    BY <1>1, <2>5 DEF OrphanEnds, Regular, Ordered
  <2>6. CASE ReadBinding(s) \/ TakeLock(s) \/ GoUnlocked(s) \/ WriteDocument(s)
    BY <1>1, <1>4, <2>1, <2>6
       DEF ReadBinding, TakeLock, GoUnlocked, WriteDocument
  <2>7. CASE StartUpdate(s) \/ ReadChanged(s) \/ Barrier(s) \/ CollectTree(s)
    BY <1>1, <1>4, <2>1, <2>7 DEF StartUpdate, ReadChanged, Barrier, CollectTree
  <2>8. CASE Reread(s) \/ Query(s) \/ ReadFails(s)
    BY <1>1, <1>4, <2>1, <2>8 DEF Reread, Query, ReadFails
  <2> QED
    BY <1>6, <2>2, <2>3, <2>4, <2>5, <2>6, <2>7, <2>8 DEF Work
<1> QED
  BY <1>2, <1>3, <1>5, <1>6 DEF Next

\* The order of the calls is kept.
LEMMA RegularStep ==
    ASSUME RefreshAssumption, Typed, Regular, [Next]_vars
    PROVE  Regular'
<1>1. Roles' /\ Repairs' /\ BindingNamesCurrent'
  BY RolesStep, RepairsStep, BindingStep
<1>2. ~disturbed' => Ordered'
  BY OrderedStep
<1> QED
  BY <1>1, <1>2 DEF Regular

-----------------------------------------------------------------------------
(* What the indexes hold *)

\* The document and the work of the engines stay what they were asked for.
LEMMA AskedStep ==
    ASSUME RefreshAssumption, Typed, Asked, [Next]_vars
    PROVE  Asked'
<1> USE DEF RefreshAssumption, Typed, TypeOK, Goto, End, Broker, EngineAt,
    repoVars, fileVars, lockVars, callVars, engineVars, ghosts
<1>1. CASE User \/ Done \/ UNCHANGED vars
  BY <1>1 DEF User, Edit, Commit, Discard, Change, Done, vars, Asked
<1>2. ASSUME NEW s \in Sessions, BreakLock(s)
      PROVE  Asked'
  BY <1>2 DEF BreakLock, Asked
\* A step after which the session is not at work on its paths, or as before.
<1>3. ASSUME NEW s \in Sessions,
             \/ \E o \in {"query", "build"} : Begin(s, o)
             \/ Work(s) \/ ReadFails(s) \/ TimeOut(s) \/ Crash(s),
             document' # Nothing =>
                 document'.changed =
                     Delta(document'.prior.label, document'.after),
             (pc'[s] \in {"read", "barrier", "rename"} /\ op'[s] = "query") =>
                 /\ job'[s].base = bound'[s]
                 /\ job'[s].changed = Delta(bound'[s].label, snap'[s])
      PROVE  Asked'
  <2>1. \A t \in Sessions \ {s} :
            /\ pc'[t] = pc[t] /\ op'[t] = op[t] /\ job'[t] = job[t]
            /\ bound'[t] = bound[t] /\ snap'[t] = snap[t]
    BY <1>3, OthersKept
  <2> QED
    BY <1>3, <2>1 DEF Asked
<1>4. ASSUME NEW s \in Sessions, NEW o \in {"query", "build"}, Begin(s, o)
      PROVE  Asked'
  BY <1>3, <1>4 DEF Begin, Asked
<1>5. ASSUME NEW s \in Sessions, Work(s)
      PROVE  Asked'
  <2>1. CASE ReadBinding(s) \/ TakeLock(s) \/ GoUnlocked(s)
    BY <1>3, <1>5, <2>1 DEF ReadBinding, TakeLock, GoUnlocked, Asked
  <2>2. CASE WriteDocument(s)
    BY <1>3, <1>5, <2>2 DEF WriteDocument
  <2>3. CASE StartUpdate(s)
    BY <1>3, <1>5, <2>3 DEF StartUpdate, Accepts, Asked
  <2>4. CASE ReadChanged(s)
    <3>1. job'[s].changed = job[s].changed /\ job'[s].base = job[s].base
      BY <2>4, JobParts DEF ReadChanged, Job
    <3> QED
      BY <1>3, <1>5, <2>4, <3>1 DEF ReadChanged, Asked
  <2>5. CASE Barrier(s)
    BY <1>3, <1>5, <2>5 DEF Barrier, Fail, Asked
  <2>6. CASE CollectTree(s)
    BY <1>3, <1>5, <2>6 DEF CollectTree, Holds, Asked
  <2>7. CASE Publish(s) \/ Bind(s) \/ Unlock(s)
    BY <1>3, <1>5, <2>7 DEF Publish, Bind, Unlock, Asked
  <2>8. CASE Reread(s) \/ Query(s) \/ OrphanEnds(s)
    BY <1>3, <1>5, <2>8 DEF Reread, Query, OrphanEnds, Asked
  <2> QED
    BY <1>5, <2>1, <2>2, <2>3, <2>4, <2>5, <2>6, <2>7, <2>8 DEF Work
<1>6. ASSUME NEW s \in Sessions, ReadFails(s) \/ TimeOut(s) \/ Crash(s)
      PROVE  Asked'
  BY <1>3, <1>6 DEF ReadFails, Fail, TimeOut, Crash, Asked
<1> QED
  BY <1>1, <1>2, <1>4, <1>5, <1>6 DEF Next

\* An update that has read the files of its snapshot, over a base that is right,
\* publishes what is right; so does a build.
LEMMA MergedIsRight ==
    ASSUME Typed, Regular, Faithful, NEW s \in Sessions, pc[s] = "rename",
           Undisturbed(s)
    PROVE  Right(Merged(s))
<1>1. /\ Merged(s).label = snap[s] /\ snap[s].tree \in Tree
      /\ Merged(s).content =
            [p \in Paths |-> IF p \in job[s].changed THEN job[s].seen[p]
                             ELSE job[s].base.content[p]]
  BY MergedIsIndex, IndexParts DEF Typed, TypeOK
<1>2. ASSUME NEW p \in Paths
      PROVE  Merged(s).content[p] = snap[s].tree[p]
  <2>1. CASE p \in job[s].changed
    BY <1>1, <2>1 DEF Faithful, ReadsRight
  <2>2. CASE p \notin job[s].changed
    <3>1. op[s] = "query"
      BY <2>2 DEF Typed, TypeOK, Holds
    <3>2. solo # s /\ ~raced
      BY <3>1, RefreshAssumption DEF Undisturbed, Regular, Roles
    <3>3. bound[s] \in Index /\ Right(bound[s])
      BY <3>1, <3>2 DEF Typed, Holds, Based, Writing, Faithful
    <3>4. /\ job[s].base = bound[s]
          /\ job[s].changed = Delta(bound[s].label, snap[s])
      BY <3>1 DEF Faithful, Asked
    <3>5. bound[s].label.tree[p] = snap[s].tree[p]
      BY <2>2, <3>4, DeltaCovers
    <3> QED
      BY <1>1, <2>2, <3>3, <3>4, <3>5 DEF Right
  <2> QED
    BY <2>1, <2>2
<1>3. Merged(s).content = snap[s].tree
  BY <1>1, <1>2 DEF Tree
<1> QED
  BY <1>1, <1>3 DEF Right

\* A session that does nothing, and whose files do not change either.
LEMMA ReadsRightKept ==
    ASSUME NEW t \in Sessions, ReadsRight(t), UNCHANGED repo,
           Undisturbed(t)' => Undisturbed(t),
           solo' = t => solo = t /\ UNCHANGED binding,
           /\ pc'[t] = pc[t] /\ snap'[t] = snap[t] /\ job'[t] = job[t]
           /\ result'[t] = result[t] /\ fresh'[t] = fresh[t]
    PROVE  ReadsRight(t)'
<1>1. SUFFICES ASSUME Undisturbed(t)'
               PROVE  /\ Reads(t)' => repo' = snap'[t]
                      /\ pc'[t] \in {"barrier", "rename"} =>
                            \A p \in job'[t].changed :
                               job'[t].seen[p] = snap'[t].tree[p]
                      /\ result'[t] = "ready" => Right(fresh'[t])
                      /\ solo' = t /\ pc'[t] = "unlock" /\ result'[t] = "ready"
                            => Right(binding')
  BY DEF ReadsRight, Right
<1>2. /\ Reads(t) => repo = snap[t]
      /\ pc[t] \in {"barrier", "rename"} =>
            \A p \in job[t].changed : job[t].seen[p] = snap[t].tree[p]
      /\ result[t] = "ready" => Right(fresh[t])
      /\ solo = t /\ pc[t] = "unlock" /\ result[t] = "ready" => Right(binding)
  BY <1>1 DEF ReadsRight
<1> QED
  BY <1>2 DEF Reads, Right

\* A call reads its snapshot, unless a file changes before it has.
LEMMA ReadsRightStep ==
    ASSUME RefreshAssumption, Typed, Regular, Faithful, [Next]_vars
    PROVE  \A t \in Sessions : ReadsRight(t)'
<1> USE DEF RefreshAssumption, Typed, TypeOK, Goto, End, Broker, EngineAt,
    repoVars, fileVars, lockVars, callVars, engineVars, ghosts
<1>1. CASE Done \/ UNCHANGED vars
  BY <1>1, ReadsRightKept DEF Done, vars, Faithful, Undisturbed
<1>2. CASE User
  <2>1. Change
    BY <1>2 DEF User, Edit, Commit, Discard
  <2>2. ASSUME NEW t \in Sessions
        PROVE  ReadsRight(t)'
    <3>1. CASE Reading
      BY <2>1, <3>1 DEF Change, ReadsRight, Undisturbed
    <3>2. CASE ~Reading
      <4>1. ~Reads(t)' /\ (Undisturbed(t)' => Undisturbed(t))
        BY <2>1, <3>2 DEF Change, Reading, Reads, Undisturbed
      <4> QED
        BY <2>1, <3>2, <4>1
           DEF Change, Faithful, ReadsRight, Right, Undisturbed
    <3> QED
      BY <3>1, <3>2
  <2> QED
    BY <2>2
<1>3. ASSUME NEW s \in Sessions, BreakLock(s)
      PROVE  \A t \in Sessions : ReadsRight(t)'
  BY <1>3, ReadsRightKept DEF BreakLock, Faithful, Undisturbed
<1>4. ASSUME NEW s \in Sessions, NEW o \in {"query", "build"}, Begin(s, o)
      PROVE  \A t \in Sessions : ReadsRight(t)'
  <2>1. ReadsRight(s)'
    BY <1>4 DEF Begin, ReadsRight, Reads
  <2>2. ASSUME NEW t \in Sessions \ {s}
        PROVE  ReadsRight(t)'
    <3>1. solo' # t /\ UNCHANGED <<raced, repo>>
      BY <1>4 DEF Begin
    <3> QED
      BY <1>4, <3>1, OthersKept, ReadsRightKept DEF Undisturbed, Faithful
  <2> QED
    BY <2>1, <2>2
<1>5. ASSUME NEW s \in Sessions,
             Work(s) \/ ReadFails(s) \/ TimeOut(s) \/ Crash(s), ReadsRight(s)'
      PROVE  \A t \in Sessions : ReadsRight(t)'
  <2>1. /\ pc[s] # "idle" /\ solo \in {s, Nothing}
        /\ solo # Nothing => \A t \in Sessions \ {s} : pc[t] = "idle"
    BY <1>5, ActorIsCalled DEF Regular, Roles, Alone
  <2>2. solo' \in {solo, Nothing} /\ UNCHANGED repo
        /\ (raced' = raced \/ solo = s)
    BY <1>5 DEF Work, ReadBinding, TakeLock, GoUnlocked, WriteDocument,
       StartUpdate, ReadChanged, Barrier, CollectTree, Publish, Bind, Unlock,
       Reread, Query, OrphanEnds, ReadFails, TimeOut, Crash
  <2>3. ASSUME NEW t \in Sessions \ {s}
        PROVE  ReadsRight(t)'
    <3>1. pc'[t] = pc[t]
      BY <1>5, OthersKept
    <3>2. Undisturbed(t)' => Undisturbed(t)
      BY <2>1, <2>2, <3>1 DEF Undisturbed
    <3>3. solo' # t
      BY <2>1, <2>2
    <3> QED
      BY <1>5, <2>2, <3>2, <3>3, OthersKept, ReadsRightKept DEF Faithful
  <2> QED
    BY <1>5, <2>3
<1>6. ASSUME NEW s \in Sessions, Work(s)
      PROVE  ReadsRight(s)'
  <2>1. pc[s] # "idle" /\ solo \in {s, Nothing}
    BY <1>6, ActorIsCalled
  <2> USE DEF ReadsRight, Reads, Undisturbed
  <2>2. CASE ReadBinding(s) \/ TakeLock(s) \/ GoUnlocked(s) \/ WriteDocument(s)
    BY <2>1, <2>2
       DEF ReadBinding, TakeLock, GoUnlocked, WriteDocument, Faithful, Holds
  <2>3. CASE StartUpdate(s)
    BY <2>1, <2>3 DEF StartUpdate, Faithful, Holds
  <2>4. CASE ReadChanged(s)
    <3>1. /\ job'[s].changed = job[s].changed
          /\ job'[s].seen = [p \in job[s].changed |-> repo.tree[p]]
      BY <2>4, JobParts DEF ReadChanged, Job
    <3>2. /\ Undisturbed(s)' => Undisturbed(s)
          /\ Reads(s) /\ result[s] # "ready" /\ UNCHANGED <<repo, snap, result>>
          /\ pc'[s] = "barrier"
      BY <2>1, <2>4 DEF ReadChanged, Holds
    <3> QED
      BY <3>1, <3>2 DEF Faithful
  <2>5. CASE Barrier(s)
    BY <2>1, <2>5 DEF Barrier, Fail, Faithful, Holds
  <2>6. CASE CollectTree(s)
    BY <2>1, <2>6 DEF CollectTree, Faithful, Holds
  <2>7. CASE Publish(s)
    <3>1. Undisturbed(s)' => Right(Merged(s))
      BY <2>1, <2>7, MergedIsRight DEF Publish
    <3>2. fresh'[s] = Merged(s) /\ pc'[s] = "answered" /\ result'[s] = "ready"
      BY <2>7 DEF Publish
    <3> QED
      BY <3>1, <3>2 DEF Right
  <2>8. CASE Bind(s)
    BY <2>1, <2>8 DEF Bind, Faithful, Right
  <2>9. CASE Unlock(s)
    <3>1. CASE pc'[s] = "idle"
      BY <3>1
    <3>2. CASE pc'[s] # "idle"
      <4>1. UNCHANGED <<ghosts, repo, snap, result, fresh>>
            /\ pc[s] = "unlock" /\ pc'[s] \in {"query", "reread"}
        BY <2>9, <3>2 DEF Unlock
      <4> QED
        BY <2>1, <4>1 DEF Faithful, Right
    <3> QED
      BY <3>1, <3>2
  <2>10. CASE Reread(s)
    BY <2>1, <2>10 DEF Reread, Faithful, Holds
  <2>11. CASE Query(s) \/ OrphanEnds(s)
    BY <2>11 DEF Query, OrphanEnds
  <2> QED
    BY <1>6, <2>2, <2>3, <2>4, <2>5, <2>6, <2>7, <2>8, <2>9, <2>10, <2>11
       DEF Work
<1>7. ASSUME NEW s \in Sessions, ReadFails(s) \/ TimeOut(s) \/ Crash(s)
      PROVE  ReadsRight(s)'
  <2>1. pc[s] # "idle" /\ solo \in {s, Nothing}
    BY <1>7, ActorIsCalled
  <2> USE DEF ReadsRight, Reads, Undisturbed
  <2>2. CASE ReadFails(s)
    BY <2>1, <2>2 DEF ReadFails, Fail, Faithful, Holds
  <2>3. CASE TimeOut(s)
    BY <2>1, <2>3 DEF TimeOut
  <2>4. CASE Crash(s)
    BY <2>1, <2>4 DEF Crash, Faithful, Right
  <2> QED
    BY <1>7, <2>2, <2>3, <2>4
<1> QED
  BY <1>1, <1>2, <1>3, <1>4, <1>5, <1>6, <1>7 DEF Next

\* As long as no file has changed under any call, bindings are right.
LEMMA BoundStep ==
    ASSUME RefreshAssumption, Typed, Regular, Faithful, [Next]_vars
    PROVE  ~raced' =>
             /\ binding' \in Index => Right(binding)'
             /\ \A s \in Sessions :
                   pc'[s] # "idle" /\ bound'[s] \in Index => Right(bound'[s])
<1> USE DEF RefreshAssumption, Typed, TypeOK, Goto, End, Broker, repoVars,
    fileVars, lockVars, callVars, engineVars, ghosts
<1>1. SUFFICES ASSUME ~raced'
               PROVE  /\ binding' \in Index => Right(binding')
                      /\ \A s \in Sessions :
                            pc'[s] # "idle" /\ bound'[s] \in Index =>
                                Right(bound'[s])
  BY DEF Right
\* What is right already.
<1>2. ~raced => /\ binding \in Index => Right(binding)
                /\ \A s \in Sessions :
                      pc[s] # "idle" /\ bound[s] \in Index => Right(bound[s])
  BY DEF Faithful
<1>3. CASE User \/ Done \/ UNCHANGED vars
  BY <1>1, <1>2, <1>3 DEF User, Edit, Commit, Discard, Change, Done, vars
<1>4. ASSUME NEW s \in Sessions, BreakLock(s)
      PROVE  /\ binding' \in Index => Right(binding')
             /\ \A t \in Sessions :
                   pc'[t] # "idle" /\ bound'[t] \in Index => Right(bound'[t])
  BY <1>1, <1>2, <1>4 DEF BreakLock
\* A step of a session that keeps the binding, or makes it right.
<1>5. ASSUME NEW s \in Sessions, UNCHANGED raced,
             \/ \E o \in {"query", "build"} : Begin(s, o)
             \/ Work(s) \/ ReadFails(s) \/ TimeOut(s) \/ Crash(s),
             binding' = binding \/ Right(binding'),
             pc'[s] # "idle" /\ bound'[s] \in Index =>
                 \/ pc[s] # "idle" /\ bound'[s] = bound[s]
                 \/ Right(bound'[s])
      PROVE  /\ binding' \in Index => Right(binding')
             /\ \A t \in Sessions :
                   pc'[t] # "idle" /\ bound'[t] \in Index => Right(bound'[t])
  <2>1. \A t \in Sessions \ {s} : pc'[t] = pc[t] /\ bound'[t] = bound[t]
    BY <1>5, OthersKept
  <2> QED
    BY <1>1, <1>2, <1>5, <2>1
<1>6. ASSUME NEW s \in Sessions, NEW o \in {"query", "build"}, Begin(s, o)
      PROVE  /\ binding' \in Index => Right(binding')
             /\ \A t \in Sessions :
                   pc'[t] # "idle" /\ bound'[t] \in Index => Right(bound'[t])
  <2>1. bound'[s] = Nothing /\ UNCHANGED <<binding, raced>>
    BY <1>6 DEF Begin
  <2> QED
    BY <1>5, <1>6, <2>1
<1>7. ASSUME NEW s \in Sessions, Work(s)
      PROVE  /\ binding' \in Index => Right(binding')
             /\ \A t \in Sessions :
                   pc'[t] # "idle" /\ bound'[t] \in Index => Right(bound'[t])
  <2>1. pc[s] # "idle" /\ solo \in {s, Nothing}
    BY <1>7, ActorIsCalled
  <2>2. CASE ReadBinding(s)
    <3>1. bound'[s] = binding /\ UNCHANGED <<binding, raced>>
      BY <2>2 DEF ReadBinding
    <3> QED
      BY <1>1, <1>2, <1>5, <1>7, <3>1
  <2>3. CASE TakeLock(s) \/ GoUnlocked(s) \/ WriteDocument(s)
    <3>1. UNCHANGED <<binding, raced, bound>>
      BY <2>3 DEF TakeLock, GoUnlocked, WriteDocument
    <3> QED
      BY <1>5, <1>7, <2>1, <3>1
  <2>4. CASE StartUpdate(s) \/ ReadChanged(s) \/ Barrier(s) \/ CollectTree(s)
    <3>1. UNCHANGED <<binding, raced, bound>>
      BY <2>4 DEF StartUpdate, ReadChanged, Barrier, CollectTree
    <3> QED
      BY <1>5, <1>7, <2>1, <3>1
  <2>5. CASE Publish(s) \/ Query(s) \/ OrphanEnds(s)
    <3>1. UNCHANGED <<binding, raced, bound>>
      BY <2>5 DEF Publish, Query, OrphanEnds
    <3> QED
      BY <1>5, <1>7, <2>1, <3>1
  <2>6. CASE Bind(s)
    <3>1. CASE result[s] = "ready"
      <4>1. binding' = fresh[s] /\ bound'[s] = fresh[s] /\ UNCHANGED raced
        BY <2>6, <3>1 DEF Bind
      <4>2. Right(fresh[s])
        BY <1>1, <2>1, <3>1, <4>1 DEF Faithful, ReadsRight, Undisturbed
      <4> QED
        BY <1>5, <1>7, <4>1, <4>2
    <3>2. CASE result[s] # "ready"
      BY <1>5, <1>7, <2>1, <2>6, <3>2 DEF Bind
    <3> QED
      BY <3>1, <3>2
  <2>7. CASE Unlock(s)
    <3>1. UNCHANGED <<binding, bound>> /\ pc[s] = "unlock"
      BY <2>7 DEF Unlock
    <3>2. CASE UNCHANGED raced
      BY <1>5, <1>7, <2>1, <3>1, <3>2
    <3>3. CASE raced' # raced
      <4>1. solo = s /\ result[s] = "ready" /\ pc'[s] = "idle"
        BY <2>7, <3>3 DEF Unlock
      <4>2. Right(binding)
        BY <3>1, <4>1 DEF Faithful, ReadsRight, Undisturbed
      <4>3. \A t \in Sessions : pc'[t] = "idle"
        <5>1. \A t \in Sessions \ {s} : pc[t] = "idle" /\ pc'[t] = pc[t]
          BY <1>7, <4>1, OthersKept DEF Regular, Roles, Alone
        <5> QED
          BY <4>1, <5>1
      <4> QED
        BY <3>1, <4>2, <4>3
    <3> QED
      BY <3>2, <3>3
  <2>8. CASE Reread(s)
    <3>1. bound'[s] = binding /\ UNCHANGED <<binding, raced>>
      BY <2>8 DEF Reread
    <3> QED
      BY <1>1, <1>2, <1>5, <1>7, <3>1
  <2> QED
    BY <1>7, <2>2, <2>3, <2>4, <2>5, <2>6, <2>7, <2>8 DEF Work
<1>8. ASSUME NEW s \in Sessions, ReadFails(s) \/ TimeOut(s) \/ Crash(s)
      PROVE  /\ binding' \in Index => Right(binding')
             /\ \A t \in Sessions :
                   pc'[t] # "idle" /\ bound'[t] \in Index => Right(bound'[t])
  <2>1. pc[s] # "idle"
    BY <1>8, ActorIsCalled
  <2>2. UNCHANGED <<binding, raced, bound>>
    BY <1>8 DEF ReadFails, TimeOut, Crash
  <2> QED
    BY <1>5, <1>8, <2>1, <2>2
<1> QED
  BY <1>1, <1>3, <1>4, <1>6, <1>7, <1>8 DEF Next

\* What the indexes hold stays right.
LEMMA FaithfulStep ==
    ASSUME RefreshAssumption, Typed, Regular, Faithful, [Next]_vars
    PROVE  Faithful'
<1>1. Asked'
  BY AskedStep DEF Faithful
<1>2. \A s \in Sessions : ReadsRight(s)'
  BY ReadsRightStep
<1> QED
  BY <1>1, <1>2, BoundStep DEF Faithful, Right

-----------------------------------------------------------------------------
(* Theorems *)

\* In the beginning nothing is called, and an index there may be is right.
LEMMA InitIInv ==
    ASSUME RefreshAssumption, Init
    PROVE  IInv
<1> DEFINE first == [label |-> repo, content |-> repo.tree]
<1>1. repo \in Version /\ first \in Index
  <2>1. PICK t \in Tree : repo = [head |-> t, tree |-> t]
    BY DEF Init, RefreshAssumption, Tree
  <2> QED
    BY <2>1 DEF Version, Index
<1>2. TypeOK
  <2>1. current \in Index \cup {Nothing} /\ binding = current
    BY <1>1 DEF Init
  <2>2. job \in [Sessions -> Job] /\ snap \in [Sessions -> Version]
    BY <1>1, JobParts DEF Init
  <2>3. pc \in [Sessions -> {"idle"} \cup EngineAt \cup BrokerAt]
    BY DEF Init
  <2>4. 0 \in 0 .. MaxEdits /\ 0 \in 0 .. MaxCalls /\ 0 \in 0 .. MaxFaults
    BY DEF RefreshAssumption
  <2>5. /\ bound \in [Sessions -> Index \cup {Nothing}]
        /\ fresh \in [Sessions -> Index \cup {Nothing}]
        /\ cache \in [Sessions -> Index \cup {Nothing}]
        /\ answer \in [Sessions -> Index \cup {Nothing}]
    BY DEF Init
  <2>6. /\ op \in [Sessions -> {"query", "build"}]
        /\ result \in [Sessions -> {"none", "ready", "stale", "error", "lost"}]
        /\ attempt \in [Sessions -> 0 .. 1]
    BY DEF Init
  <2>7. /\ document = Nothing /\ lock = Nothing /\ solo = Nothing
        /\ owner = {} /\ orphan = {} /\ disturbed = FALSE /\ raced = FALSE
        /\ edits = 0 /\ calls = 0 /\ faults = 0
    BY DEF Init
  <2> QED
    BY <1>1, <2>1, <2>2, <2>3, <2>4, <2>5, <2>6, <2>7 DEF TypeOK
<1>3. Typed
  BY <1>2 DEF Typed, Holds, Based, Writing, Init
<1>4. Regular
  BY DEF Regular, Roles, Repairs, Ordered, Alone, BindingNamesCurrent, Init,
     Writing
<1>5. Faithful
  <2>1. binding \in Index => Right(binding)
    <3>1. Right(first)
      BY DEF Right
    <3>2. binding \in {Nothing, first} /\ Nothing \notin Index
      BY DEF Init, RefreshAssumption
    <3> QED
      BY <3>1, <3>2
  <2>2. \A s \in Sessions : pc[s] = "idle"
    BY DEF Init
  <2>3. Asked
    BY <2>2 DEF Asked, Init
  <2> QED
    BY <2>1, <2>2, <2>3 DEF Faithful, ReadsRight, Undisturbed
<1> QED
  BY <1>3, <1>4, <1>5 DEF IInv

\* The types, the order of the calls and the content of the indexes are kept
\* by every step of every session, by changes of the repository and by faults.
THEOREM Inductive == Spec => []IInv
<1>1. Init => IInv
  BY InitIInv, RefreshAssumption
<1>2. IInv /\ [Next]_vars => IInv'
  <2> SUFFICES ASSUME IInv, [Next]_vars
               PROVE  IInv'
    OBVIOUS
  <2>1. TypeOK' /\ \A t \in Sessions : Holds(t)'
    BY TypeStep, HoldsStep, RefreshAssumption DEF IInv
  <2>2. Regular'
    BY RegularStep, RefreshAssumption DEF IInv
  <2>3. Faithful'
    BY FaithfulStep, RefreshAssumption DEF IInv
  <2> QED
    BY <2>1, <2>2, <2>3 DEF IInv, Typed
<1> QED
  BY <1>1, <1>2, PTL DEF Spec

\* Every variable has its type, whatever the number of sessions and files.
THEOREM TypeCorrect == Spec => []TypeOK
<1>1. IInv => TypeOK
  BY DEF IInv, Typed
<1> QED
  BY <1>1, Inductive, PTL

\* While no fault, no broken or bypassed lock and no overlapping build has come
\* between, the binding file names the index CURRENT names, but for a call that
\* is about to write it; a build that runs alone makes them agree again.
THEOREM BindingFollowsCurrent == Spec => []BindingNamesCurrent
<1>1. IInv => BindingNamesCurrent
  BY DEF IInv, Regular
<1> QED
  BY <1>1, Inductive, PTL

\* A query is answered from an index of the snapshot of its call, which holds
\* the working tree of that snapshot unless a file has changed under a call
\* that was still to read it: the shared change document, the engines'
\* memories, overlapping calls, lost locks and crashes do not spoil it.
THEOREM ExactAnswers == Spec => ExactIsCurrent
<1> DEFINE Good == \A s \in Sessions :
               answer'[s] \notin {Nothing, answer[s]} =>
                   /\ answer'[s].label = snap[s]
                   /\ raced \/ answer'[s].content = snap[s].tree
<1>1. IInv /\ [Next]_vars => [Good]_vars
  <2> SUFFICES ASSUME IInv, [Next]_vars, NEW t \in Sessions,
                      answer'[t] \notin {Nothing, answer[t]}
               PROVE  /\ answer'[t].label = snap[t]
                      /\ raced \/ answer'[t].content = snap[t].tree
    OBVIOUS
  <2> USE DEF IInv, Typed, TypeOK, callVars, engineVars, lockVars
  <2>1. PICK s \in Sessions : Query(s)
    <3>1. User \/ Done \/ UNCHANGED vars => UNCHANGED answer
      BY DEF User, Edit, Commit, Discard, Change, Done, vars
    <3>2. \A s \in Sessions, o \in {"query", "build"} :
              Begin(s, o) => answer'[t] \in {Nothing, answer[t]}
      BY DEF Begin
    <3>3. \A s \in Sessions : Work(s) => Query(s) \/ UNCHANGED answer
      BY DEF Work, ReadBinding, TakeLock, GoUnlocked, WriteDocument,
         StartUpdate, ReadChanged, Barrier, CollectTree, Publish, Bind, Unlock,
         Reread, OrphanEnds
    <3>4. \A s \in Sessions :
              BreakLock(s) \/ ReadFails(s) \/ TimeOut(s) \/ Crash(s) =>
                  UNCHANGED answer
      BY DEF BreakLock, ReadFails, TimeOut, Crash
    <3> QED
      BY <3>1, <3>2, <3>3, <3>4 DEF Next
  <2>2. /\ s = t /\ pc[t] = "query"
        /\ answer'[t] = bound[t] /\ bound[t] # Nothing
        /\ bound[t].label = snap[t]
    BY <2>1 DEF Query, Exact, Broker
  <2>3. bound[t] \in Index
    BY <2>2
  <2>4. raced \/ Right(bound[t])
    BY <2>2, <2>3 DEF Faithful
  <2> QED
    BY <2>2, <2>4 DEF Right
<1> QED
  BY <1>1, Inductive, PTL DEF Spec, ExactIsCurrent

=============================================================================
