# A TLA+ model of the Agentic Fieldbook's context index

The Agentic Fieldbook gives a coding agent an index of the repository it works
in. A Go engine (`tools/taf-context-native`) builds and queries the index; a
Python broker (`tools/taf-context`) starts the engine, decides when the index
is stale, refreshes it, answers over a command line and over MCP, and removes
old generations of the index. This directory holds TLA+ models of the parts of
the system where order, failure and time decide whether it is right, the TLC
configurations that check them and the theorems TLAPS has proved about them.

`PROJECT.json` lists the components, the runs, the mutated definitions every
property is tried against, the source lines each definition stands for, the
findings, the hazards and the theorems.

## 1. The system

### Components

| Component | State it keeps | Operations | Hard behaviour | What makes it correct |
|---|---|---|---|---|
| Index store, publication (`internal/store/store.go`, `atomic.go`) | `generations/<token>` directories, the file `CURRENT`, a process-wide mutex | build, update (a build that trusts a loaded generation), load | kills and power losses between renames and syncs; two engines on one store; rollback after a rename | whatever `CURRENT` names is complete; a reported publication is durable; an update replaces only what it was computed from |
| Retention (`state_lifecycle.py`, parts of `context_operations.py`) | directory ages, the age of `CURRENT` | prune after refresh, query, build; `gc` | planned first, carried out later, in part without a lock | the selected generation stays; a load keeps its files; old generations go away |
| Refresh lock, change document (`refresh.py`) | `.refresh.lock`, `.taf-update.json` | acquire with stale take-over, release, write and remove the document | take-over by path; waiting is given up after 5 s | one refresh at a time; an engine reads its own document |
| Broker operations (`context_operations.py`) | none of its own | inspect, build, query, refresh with two attempts | ordering around the engine's calls | every answer belongs to the binding it is reported for |
| Engine operations (`internal/engine`) | one cached snapshot per served engine | build, update, query, snippets, peek | cached snapshot against `CURRENT`; files changing under an update | no answer from a superseded generation; an update equals a clean build; what is missing from an answer is said |
| Engine session (`engine_session.py`) | the child process, its response queue, the idle timer | exchange, close, interrupt, idle close, one retry | timers, reader threads and signals around one child | an answer belongs to its request; a write is sent once |
| Impact hook (`impact_hook.py`) | the run's session, an abandoned flag | commit hook with a deadline | abandoning a worker between two steps | the commit goes on, no engine is left |
| MCP server (`mcp_server.py`) | one session per engine binary | sequential JSON-RPC loop | signals | none beyond its session's |
| Inventory, boundary (`internal/inventory`, `internal/boundary`) | the listings of one walk | walk, classify, check again | a tree that changes under the walk; rules that must be read before what they are about | a complete inventory is one moment of the tree |
| Store format (`internal/store/format.go`, `query_index.go`) | none | encode, decode, validate, foresee the size, materialize | three copies of the same orders; nobody reads back what is published | readers accept what is written and nothing else; memory and disk answer alike |
| Query (`internal/query`) | none, one work budget per query | search, map, changed, overview, related | budgets that stop half-way; two walks for one question | what is not `partial` is what a full scan gives |
| Rendering (`internal/render`) | none | fold, drop, fit | the size changes with what is rewritten | the answer fits, adds up, and loses no more than it must |
| Extraction, wire, engine process | none (functions of their input) | parse, encode, serve one line after another | none shared | outside the model, see section 6 |
| Git snapshot, freshness, recovery, branch handoff, packaging, CLI | none | run git, compare, print | none shared | outside the model, see section 6 |

### How they interact

A **session** (a CLI call, an MCP server or a commit hook) calls the broker.
The broker compares the repository with the binding the index was built for.
When they differ it takes `.refresh.lock`, writes the change document, sends
`update-index` to the engine, prunes superseded generations, releases the
lock and sends the query. When they agree it sends the query at once and prunes
afterwards if `CURRENT` has been quiet for the grace period. `build-index` goes
to the engine without the lock. The engine publishes by renaming: a staged
directory to `generations/<token>`, then a temporary file over `CURRENT`. All
sessions and all engines of one repository share these files and nothing else;
inside one engine the builds also share a mutex.

Inside the engine a build walks the tree, classifies and parses its files,
and encodes records, postings and map into one file; an update does so for the
declared paths and carries the rest over. A query loads the file, or uses the
snapshot in memory, spends a budget of records and terms on it, and fits what
it found to the size the caller asked for.

Two questions run through all models. In which order are the shared files
touched: the engine's publication (module `GenerationStore`), the broker's
removals around it (`Retention`), the exchange with the engine child
(`EngineSession`, `ImpactHook`), the way from an edited file to an answer
(`Refresh`). And do the places agree that compute one thing twice: update and
build (`IncrementalUpdate`), the walk and its second look (`Walk`), encoder,
decoder, validator and memory (`IndexFormat`), a query and a scan (`Search`,
`Overview`), an edge and its reverse (`Related`), an answer before and after it
was cut (`Rendering`).

## 2. The modules

| Module | What it models |
|---|---|
| `IndexPointer` | The promise of the store: one pointer to a stored generation, publications one at a time, withdrawal of an unsettled one, power loss. |
| `GenerationStore` | The publication protocol step by step, for any number of builds in any number of engine processes, with errors, cancellations, kills and power losses. |
| `Retention` | Publications as the broker sees them, loads, the four kinds of pruning, ages and the refresh lock. |
| `EngineSession` | The broker's side of a served engine: exchange, retry, timeout, idle timer, interrupt, the child and its pipes. |
| `Refresh` | Broker and engine together: snapshot, binding, lock file, change document, update, build, second attempt, query, beside a repository that changes. |
| `ImpactHook` | The commit hook around an engine session: worker, deadline, the two kills, the end of the process. |
| `Classification` | What a build makes of a file tree, and what an update makes of one declared path. |
| `IncrementalUpdate` | A sequence of edits and updates; the index they leave against that of a clean build. |
| `Walk` | The walk of the working tree while others change it, with its second look. |
| `IndexFormat` | The index file: encoder, decoder, raw validator, size computed in advance, and the snapshot in memory. |
| `Search` | Search, repository map with its filter plan, and changed symbols, under their budgets. |
| `Overview` | Counting under a root, the directory table, the choice of files. |
| `Related` | Callers, callees, importers, imports: how names are resolved. |
| `Rendering` | Fitting an answer to its budgets; the bounded list of warnings. |
| `MCEngine` | The last eight in one instance for TLC, and the properties that compare them. |
| `MCGenerationStore`, `MCRetention`, `MCEngineSession`, `MCRefresh`, `MCIncrementalUpdate`, `MCIndexFormat`, `MCSearch`, `MCOverview`, `MCRelated`, `MCRendering` | Values for the constants, for TLC: small sets of sessions and files, small indexes, requests and answers. |
| `GenerationStore_proofs`, `EngineSession_proofs` (the hook too), `Retention_proofs`, `Refresh_proofs`, `IncrementalUpdate_proofs`, `IndexFormat_proofs`, `Rendering_proofs`, `Engine_proofs` (the walk and the run) | The theorems of section 5. |

### GenerationStore

The state is the file system in two layers and the builds in flight.
`current` and `generation` are what every process sees; `currentOnDisk` (the
*set* of values `CURRENT` may have after a power loss) and `generationOnDisk`
are what has been synced. A `rename` changes the first layer at once and only
*may* be on disk until the directory that holds it is synced; a directory
renamed into place before its own files were synced is `fragile` and comes back
from a power loss `torn`. Each build has a program counter, its token
(`target`), the generation it trusts (`expected`, for an update), what it read
under the mutex (`previous`), its staging directory and its result.

The actions follow `buildWithFilesystemObservedContextBarrierTrusted`:
`Begin`, the look at the selected generation (`FindSelected`,
`RefuseMismatch`, `AcceptPrevious`), staging (`WriteStage`, `SyncStage`),
`Install` or `ReuseInstalled`, `SyncGenerations`; then `publishCurrent` under
the mutex (`CheckCurrent`, `RefuseUnderLock`, `BarrierRefuses`,
`ReplaceCurrent`, `SyncState`), the read-back (`RereadCurrent`), `Finish`, and
the rollback (`FailPublication`, `RollBack`, `SyncRollBack`, `RollBackFails`).
A build that finds its generation selected goes through
`validateSelectedCurrent` (`CheckSelected`, `RefuseSelected`,
`ReturnSelected`). `Crash` kills one engine; `PowerLoss` stops the machine and
chooses, rename by rename, what survived.

Abstractions. A token stands for the content and the binding it is derived
from. `index.bin`, `manifest.json` and `READY` are one unit: complete, or not.
Error returns before the mutex share one action (`Abandon`), also those that
need somebody to delete files from outside. The identity check of the renamed
pointer file is one of the ways into `FailPublication`. The entries of the
directory `generations` itself are assumed to reach the disk no later than what
they contain. What a kill leaves under `.stage-*` is litter no later step looks
up and is not tracked. A build that reuses the selected generation reports
`reused`, and the model claims no durability for that result.

### Retention

Sessions run operations: a refresh, a build, a query, `gc`. Time is kept as
ages in ticks, capped one above the grace period, since the code compares ages
with the grace period and nothing else. `currentAge` is the mtime of `CURRENT`:
it is the time the temporary pointer file was *written*, so a slow publication
selects a pointer that is already old (`stopwatch`). `age` is the mtime of each
generation directory: it counts from its creation and is not renewed when an
update reuses the directory. Removal is two-phase, as in the code: a plan
(`PlanPrune`, `StartCollection`), its validation (`ValidatePlan`), then one
removal per step (`Remove`), which may stop half-way (`EndPrune`). A prune
after an idle query or a build passes a gate first: `CURRENT` must be older than
the grace period (`PassGate`), and then it is read a second time, for the
generation to spare (`Protect`).

Loading re-reads `CURRENT` at its end (`Answer`, `RefuseLoad`), as
`loadContextObserved` does. The publication is reduced to the steps retention
can tell apart (`Install`, `Publish`, `Verify`, `RollBack`); it leaves out
power losses, which `GenerationStore` has.

Abstractions. The lock excludes here what it is meant to exclude; the lock
file's own protocol is in `Refresh`. The binding is left out:
a refresh always moves to a generation other than the current one, because the
binding is part of a generation's identity, and a query whose binding does not
match is refused before it loads. A plan reads `CURRENT` and lists the
directory in one step.

### EngineSession

The caller's program counter follows `SessionTransport.exchange` around
`Level1Session.exchange`: `Enter` (lock, cancel the timer), `ReuseChild` or
`Spawn`, `Adopt`, `BecomeReady`, `Write`, `ReceiveAnswer`, `Leave` (arm the
timer, unlock). A request may be longer than a pipe holds (it may have 262 144
bytes), and the write has no deadline: it may be over at once (`Write`) or block
(`WriteBlocks`) until the child has read on (`ReadOn`) or is dead. Between these
steps are the failures `SpawnFails`, `NotReady`, `WriteFails`, `ReceiveEnd` and
`Timeout`, and at the end `Retry`. A child has a pipe and a reader thread of its
own that moves lines into the queue it was given, so an answer can be late in
three places: the engine, the pipe, the queue. `Spawn` and `Adopt` are two steps because a signal may come between
them. An idle timer first expires (`Fire`) and then waits for the lock; a
cancelled timer may be past cancelling. `Shutdown` is the signal handler or the
end of the input, on the caller's own thread at any point of an exchange;
`Killed` is the end without either.

Abstractions. The caller is one thread, as in the MCP server, the CLI and the
hook. What a failure says (the stderr tail) is
left out; `_last_stderr_line` waits without a deadline for a child it has killed
and for the end of its error stream, and the model takes it that a killed
process group ends. A signal handler that closes a stream in the middle of a
blocked write raises, is caught, and closes it again as the write unwinds: one
`Shutdown`. A deadline may pass at any moment. The engine is external code for
this module: it answers each request with one line, in its serve loop.

### ImpactHook

A behaviour is that of a broker (`watch = "off"`) or that of a hook. The hook's
`Worker` makes exchanges through a session of its own, never sent again, and
closes it at the end (`HookExchange`, `HookClose`). The main thread waits with
a deadline that may pass at any moment. `Abandon` sets the flag under the run's
own lock, so that no further exchange begins; `Interrupt` kills the child the
session has, without the session's lock; then the worker gets a last interval,
and both happen again before the process ends (`Return`).

Abstractions. `interrupt` reads `_process` and kills it in one step: nothing
between the two could give the session another child without the old one being
dead. The idle timer of a hook never expires (600 s against a hook of a few
seconds).

A worker that is past the check of the flag, or inside `Popen`, at both kills can
start a child that outlives the hook until it sees its input end; it may even
be executing the request by then. The docstring of `interrupt` says that nothing
outlives the caller. `ChildrenEnd` shows what does hold: the child ends.

### Classification and IncrementalUpdate

`Classification` has the two texts side by side. A path is a sequence of names;
a `Tree` is what lies on disk, in the Git index, in HEAD, and the ignored
paths. `BuiltCatalogue` is what `Collect` and the build make of it: paths with
their content, exclusions with their reasons, warnings, records, coverage.
`UpdatedCatalogue` is what `update` makes of an older catalogue and the
declared paths: it drops what overlaps them (`Retired`), classifies each
(`Declared`) and recounts the coverage from the entries
(`CatalogueCoverage`). `IncrementalUpdate` adds the user (write, delete, stage,
untrack, commit, change the ignore rules), the broker's view of them
(`Dirty`, `Label`, `Delta`) and `Update` and `Build` as steps.

Abstractions. How ignore rules match and how Git quotes a path are given. An
update is one step, since `Refresh` has the files that change under it.
Submodules are left out: the broker refreshes no repository that has one. No
path is a file in one tree and a directory in another (the last conjunct of
`ClassificationAssumption`): replacing a file by a directory of its name between
two updates is outside the model.

Where the two texts differ, and no property claims otherwise: an update counts
an ignored directory as one excluded file; when one file is forced into an
ignored directory the directory's entry goes and the siblings get none; a build
asks the ignore rules before it looks for generated names, an update after; an
update enters a file whose own name is that of an excluded directory; and it
does not check the ceiling on the sum of the records. These change exclusions
and coverage, not what is indexed, which is why `IndexesLike` and
`IsReadyLike` speak of paths, records, warnings and readiness.

### Walk

`fs` is the tree, with a clock as the modification time; a directory's listing
is taken entry by entry (`Observe`) and must not have changed when it is over
(`Enter`). `frames` is the recursion: for every directory entered, the entries
still to visit, of which the first in the order of `repositoryEntryLess` is
`Due`. Each entry is looked at again before it is read or entered
(`Visit`, `Descend`, `Read`). At the end every directory is listed once more and
compared (`Revisit`, `Compare`). `Others` creates, rewrites, deletes and
replaces at any point. The budget of observations covers both rounds.

Abstractions. An entry is what `lstat` tells (kind, identity, size, time);
content follows the time. The clock never stands still over a change.
Symbolic links, devices and the checks of ownership are left out.

### IndexFormat

A file is a record with the sections of `index.bin`: records in the order of
their identities, postings by term, query keys with runs of ordinals, the order
of paths, the groups of the map, the catalogue. `Encode` derives them;
`Decodes` is the reader that derives them again and compares; `Validates` the
one that works on the bytes, counts, and has its own copies of the orders
(`RawPathOrder`, `RawPreference`); `Foreseen` the size computed before
encoding, `Size` the size written. `Published` and `Materialized` are the
snapshot a served engine keeps after it has built one; `Loaded` is what a load
of the file gives.

Abstractions. A text has a rank, a length and a lower case; tokens of a name
are given; compression, the layout of numbers and the JSON of the catalogue are
left out, as are the ceilings on bytes.

The foreseen size keeps the smallest 4096 paths in byte order, while the map has
the first 4096 in lower-case order; beyond that number only what runs save
covers the difference, so the property ends there.

### Search, Overview, Related

They work on the snapshot of `IndexFormat`. `Find` spends one budget: the names,
then word by word the exact terms, those a word begins, those that hold it,
the near misses. `Frontier` and `Planned` are the two ways to the repository
map: all groups in turn, or the smallest category of the filter driving the
walk. `Touched` takes the symbols a list of line ranges touches.
`OverviewOf` finds the root, counts its paths, splits dominant directories into
a table and chooses files in rounds. `Related` resolves a name from the file
it is written in: what the file and its module define, what it imports, then
the name alone, with the evidence each gives.

Abstractions. The budget of related records is left out: a scan it cuts short
makes an answer partial. What splits and matches texts (`postings.go`) is data
of the instance.

What the code does and a reader may not expect: a truncated window of
substrings uses up the terms of the query, so nothing is left for near misses;
`imports` and `importers` agree only for a name that nothing in its own module
defines, no other import binds, and that is not the module's own name;
"verified before inferred" holds among the edges that were selected; files
at the root have the directory `""`, which restricts nothing, so that for them
a neighbouring import may be anywhere.

### Rendering

`Fit` is the loop: it measures, folds rows of the table when the bytes are too
many (`FoldEstimate`, `FoldTail`), drops the last finding when nothing is left
to fold (`Shrink`), and ends with an answer, an error, or a refusal.
`AppendBoundedWarnings` is the list of warnings with its mark.

Abstractions. Characters and bytes are sizes of the instance; of the fields
that change only the numbers change size. That a counter stays below 2^31 is
taken for granted: the counts of a joined row add up those of the rows it stands
for, which are parts of the counts of one index. Rows are folded for bytes even when
findings will be dropped for characters later, and an uneven table can lose a
row more than it had to; the claim about rows is made for rows of one size, as
the comment in the code says "of a kind". Sums by language are not claimed,
because the merged list is cut to the limit of a collection. An answer is
"unrenderable" when no finding is left and no row can be folded to save bytes
(`AnswerAddsUp`).

### Refresh

Here files have content, so that an answer can be compared with the tree it
claims to describe. `repo` is the committed and the working tree; an index is
the content it was built from and the version it is labelled with, and stands
for its own identity, as the token of a generation is a digest of both. The
shared files are `current`, `binding` (`binding.json`), `document`
(`.taf-update.json`) and `lock` (`.refresh.lock`, with the session that created
the file that is there; `owner` is who believes to hold it).

A call is `Begin` (the snapshot) and then, for a query, `ReadBinding`, and if
the binding is of another version `TakeLock`, `WriteDocument`, the engine's
`StartUpdate`, `ReadChanged`, `Barrier` and `Publish`, the broker's `Bind` and
`Unlock`, and `Query`. A refusal (`stale`) ends the call; an error is tried once
more from the binding as it is by then (`Reread`). A build is `CollectTree` and
`Publish`, without the lock. A session that finds the lock taken waits,
unlinks it because it looks old (`BreakLock`) or goes on without it
(`GoUnlocked`). `TimeOut`, `ReadFails` and `Crash` are the failures; a broker
that dies can leave an engine at work, which may still publish and then ends
(`OrphanEnds`). The engine's memory of its last snapshot (`cache`) is used for a
query without a look at `CURRENT`, as `query` does.

`Edit`, `Commit` and `Discard` are the user. The three last variables of the
state serve the properties only: `disturbed`, `raced` and `solo` record what
has happened since a build last ran alone.

Abstractions. A publication is one step (`GenerationStore` shows that it may
be taken for one) and every generation is kept (`Retention` is about the
others). The two reads of a witness are one, because the pass that follows
compares with what was read. The document carries the paths; its size limit,
and a delta git cannot compute, are the choice to query the old index. Which
records a path yields is its content. The engine's other queries (snippets,
peek) check their index as `query` does and are not separate.

## 3. What is checked

| Run | Instance | What it shows |
|---|---|---|
| `store_one_process` | 2 builds, 1 process, 2 tokens | type correctness; readers always find a complete generation (`SelectedIsIntact`), also after a power loss at any instant (`SurvivesPowerLoss`); no build ends with the mutex (`MutexReleased`); a reported publication is durable (`PublishedIsDurable`); updates compare and swap (`CompareAndSwap`); a rollback takes back only the build's own publication (`RollBackUndoesOwn`); the protocol implements `IndexPointer` (`ImplementsPointer`) |
| `store_compare_and_swap` | 2 builds, 2 processes, 3 tokens | *violation*: across processes the comparison and the rename are two steps |
| `retention_refresh` | 3 sessions, 3 tokens, grace 1, kills, content may return | refreshes alone: `CURRENT` never dangles, a load overtaken once keeps its generation |
| `retention_unlocked` | 2 sessions, 3 tokens, grace 3, span 1, kills, content does not return | with idle queries and builds pruning without the lock `CURRENT` never dangles, beside refreshes and builds |
| `retention_converges` | 2 sessions, 3 tokens, queries and `gc`, fair | a repository that is only queried ends with one generation |
| `retention_idle_prune` | 2 sessions, 2 tokens | *violation*: an idle prune planned before a refresh deletes the generation that refresh has selected again |
| `refresh_sessions` | 2 sessions, 2 files of 2 contents, 2 calls, 2 edits, 1 fault, fair | an answer carries the label of its call and, unless files changed under a refresh, the content a clean build would have (`ExactIsCurrent`); the binding names what `CURRENT` names unless a fault or an overlap came between (`BindingNamesCurrent`); every call returns, also beside a dead session's lock file (`CallsReturn`) |
| `refresh_race` | same, no faults | *violation*: a file that changes after the snapshot and back after it was read leaves an `exact` index with other content |
| `refresh_waiter` | same, no faults | *violation*: a session that waited for another's refresh is refused where the code means it to retry |
| `session_exchange` | 2 calls, 2 children, broker or hook, ends at any point, fair | an exchange returns the answer to its own request (`AnswersOwnRequest`); no engine runs that the session does not know (`NoOrphan`); a write is begun at most once (`WritesServedOnce`); a retry runs in a fresh child; an idle child has a timer; an expired timer closes nothing after a later exchange (`StaleTimerSpares`); every exchange returns if the engine reads what it is written (`RequestsAreRead`), and a hook returns at its deadline, whatever its worker and its engine do (`CallsEnd`); a child that is no longer used ends, also after the broker (`ChildrenEnd`) |
| `engine` | 3 files, 3 edits; 5 nodes, 2 changes; some thousand indexes, files, requests and answers | the thirteen comparisons below |
| `update_coverage` | 2 files, 3 edits | *violation*: an update counts an exclusion that a clean build does not know |

The run `engine` has three parts that share no state. In the first,
`IncrementalUpdate` runs: after any three changes and any updates between them an
index the broker calls exact has the paths, records and warnings of a clean
build (failed and incomplete extractions) and is ready when that is
(`UpdateIsLikeBuild`), and no path is indexed and excluded at once
(`CatalogueAgrees`). In the second, `Walk` runs: a walk that completes has seen
one moment of the tree (`CompleteIsOneMoment`), and the rules of a directory
before anything they could be about (`RulesComeFirst`). In the third a question is put to a function and the
answer compared:

* `FileKeepsIndex`: both readers accept what the encoder writes, for all records
  the instance can build; the foreseen size is enough.
* `FileHasOneReading`: both readers accept the same files among those that
  differ from a written one in one place, and of these only what the encoder
  writes for the records in it.
* `MemorySnapshotIsDisk`: the snapshot an update makes and keeps is what a load
  would give.
* `SearchIsScan`: a search that ran out of nothing has the best of the records a
  scan finds; one that did has none that a scan would not find.
* `ViewsAreScans`: the same for the map, whichever filter drives it, and for the
  changed symbols.
* `OverviewIsSound`: counts under a root, the table as the one cut of the tree,
  and files that take turns among directories.
* `RelationsMirror`: callers against callees, imports against importers. An index
  has one reference record, with the range of the symbol that holds it: several
  references to one record, and a reference whose range was widened so that no
  symbol has it, are not tried. Imports are compared for names that are free.
* `AnswersFit`: what `Fit` returns is valid, fits, adds up to what was given, and
  one more finding would not have fitted.
* `WarningsAreBounded`: warnings added in steps, in any order, are those added at
  once; the mark is there exactly when one is missing.

Every property of a passing run is also tried against a mutated definition (a
lost sync, a dropped comparison, an early unlock, ...), which must break it;
the mutants stand directly before the definition they mutate.

### The bounds, and why they are enough

*Store.* The conflicts of the protocol are pairwise: a build against the build
whose pointer it overwrites, waits for or rolls back over. Two builds, each of
which can start again and again, give every such pair; two tokens let them
publish the same generation or different ones, and the violation run needs the
third. The theorems of section 5 hold for any number.

*Retention.* `Grace` and `MaxSpan` are in ticks. `MaxSpan` bounds the time
between writing the temporary pointer file and settling it, and between passing
the gate and planning; `Tick` stops the clock for a session that has used it
up. The passing run with an unlocked prune needs four assumptions on the
environment that are not facts of the code, and TLC finds a violation without
any of them: `2 * MaxSpan < Grace` (the grace period is 60 s and an engine
request may take 120 s), content that does not return to an earlier generation
(`Revert = FALSE`, tracked with `seen`), nobody building while another session
refreshes (`Apart`), and no change of `CURRENT` between the two reads of one
gate (`Prompt`). What this run shows is therefore conditional, and it is only
model-checked: two of the assumptions exclude the interleavings of
`retention_idle_prune` and of a build beside a refresh (section 4), in which
`CURRENT` does dangle. `retention_refresh` needs none of them (its `MaxSpan` exceeds its
`Grace`). Three sessions let one load while two others
publish; three tokens are the selected generation, the one that follows it and
the one the prune is about.

*Session.* Two calls with a retry each make up to four attempts. A late answer is
mistaken between a child and its successor, so two children (and starts that
fail, when both are used up) have every such case. The hook needs one child for
each of its two kills.

*Refresh.* Two files let an update keep one record and read the other, two
contents let a file change and change back, and two edits suffice for that and
for a file that is dirty in the bound index and clean now (the mutant of
`Delta`). Two calls overlap in every way, in two sessions or one after the
other in one; what a call inherits from earlier ones is the shared files and
one engine's memory, and the calls start with nothing built or with an index
of the clean repository. One fault at any step leaves every kind of
remainder (a lock file, a document, a publication without its binding, an
orphan engine) to the other call. `ReadFails` counts as a fault, so at most one
attempt fails by itself; the second attempt of a call can also fail because its
files change.

*Engine.* `MaxEdits = 3`: a path is staged or forced in, its directory ignored,
and changed again; a fourth change repeats one of these for another path, and
an update looks at its paths one by one except where a directory relates two,
which two files in one directory have. `MaxChanges = 2` in `Walk`: one change
hidden by a second is what a second look could miss; `Observations = 5` is more
than a small tree needs and less than the whole one does. Indexes have up to
three records: an order that ties two, and a third between or beside them.
Budgets are taken around the point where they run out. Tables have up to six
rows, so that one estimate may fold several.

### Fairness

`Retention!Fairness`: a session that has begun goes on, queries keep arriving
(WF on `StartQuery`, the premise of "only ever queried"), time passes, and
removing an entry does not fail for ever (SF on `Remove`). SF on `Tick`, not
WF, because its guard is a modelling bound and may open and close.

`ImpactHook!HookFairness`: the broker's threads run and a timer expires, each
(WF on `CallerStep`, `TimerStep`, `ReaderStep`, `Fire`). The first half of
`CallsEnd`, the end of an exchange, rests on the deadlines of the ready wait and
the response wait, and on one assumption about the engine, which is its premise:
`RequestsAreRead` (WF on `ReadOn`), that an engine which waits for a request
reads all of it. Without it TLC finds an exchange that never returns, blocked in
`process.stdin.write` and holding the lock: the code sets that call no deadline.
The second half, the return of a hook, assumes nothing of the engine: the
interrupt kills the child, which ends the write. Of a hook only the main thread
is known to run (WF on `Watchdog`): its worker may be held up in a file system
for as long as it likes. `ChildrenEnd` adds `EngineFairness`: an engine that is left alone finishes
the request it is in and sees its input end; without it, a hanging engine whose
broker was killed would stay.

`Refresh!FairSpec`: a session that has been called goes on (WF on `Work`).
Nothing is assumed of the user, of failures, or of a lock looking old: a waiter
leaves the queue because its own wait of 5 s ends (`GoUnlocked`).

## 4. What the checks found

1. **Updates are not compare-and-swap across engines** (`store_compare_and_swap`).
   `publishCurrent` compares `CURRENT` and renames over it under a mutex that
   only the builds of one process share, so another engine's publication can be
   lost. The comment on the publication order speaks of compare-and-swap without
   that restriction. Readers are not harmed (`SelectedStaysIntact`, proved for any
   number of processes).
2. **An idle prune can delete the selected generation** (`retention_idle_prune`).
   It plans without the lock; a refresh back to an earlier state of the
   repository reuses the directory with its old mtime and selects it; then the
   planned removal happens. Nothing repairs a dangling `CURRENT`: `build-index`
   refuses to validate the previous generation.
3. **`exact` can be wrong about content** (`refresh_race`). The index is
   labelled with the snapshot the broker took before the engine read the files.
   Nothing compares them afterwards: a build reads once, and an update compares
   only its own readings. When the file is changed back, or the repository
   returns to the labelled version later, the label fits and the content does
   not. A build that runs alone repairs it.
4. **A waiting session is refused instead of retried** (`refresh_waiter`). It
   read the binding before it waited; the holder has moved `CURRENT`, the engine
   answers `stale`, and the broker raises before the second attempt whose
   comment describes this case.
5. **The coverage of an update is not that of a build** (`update_coverage`). A
   deleted file that is excluded by its name or its directory is entered among
   the exclusions before anybody looks whether it is there. The counters drift
   apart in other ways, too: a file that becomes ignored is not reported by Git
   and not entered, and a symbolic link that a build excludes is counted as a
   file by an update (`catalogExclusionIsRegular`) and not by the build. None of
   this reaches the paths, the records or the readiness (`UpdateIsLikeBuild`).

`gc` removes what it has listed in the way of 2, with no grace period at all;
this is the same interleaving and has no run of its own.

A reader can lose its generation: the grace period is counted from the creation
of a generation, so one that is long selected is old at the moment it is
superseded. The refresh spares the generation it superseded; the next refresh
does not. Two publications within one load delete what is being loaded, and the
query is then refused, not answered wrongly. `OvertakenOnceKeepsLoading` is what
does hold.

A session that dies between the publication and the binding, or goes on
without the lock beside another, leaves a binding `CURRENT` does not agree
with. Queries of that binding are then refused, never answered wrongly
(`ExactIsCurrent` holds in these runs), until somebody builds; no refresh
repairs it.

A build beside a refresh has one more way to make `CURRENT` dangle, which
`Apart` excludes: the rollback of a build restores a
generation that the refresh, in another process, has superseded and pruned.
`Prompt` excludes another: the gate of a query sees `CURRENT` old, a publication
replaces it, the query takes the new generation for the one to spare and removes
the old one, and then the publication fails and puts the old one back.

## 5. What is proved

The theorems about the store hold for every set of builders, processes and
tokens that satisfies `StoreAssumption` (a builder runs in one process; the
three marker values are not tokens or builders); those about a session for every
number of calls and of children (`SessionAssumption`: they are numbers); those
about retention for every set of sessions and generations and every grace
period (`RetentionAssumption`), those about safety when every operation is a
refresh;
those about refreshes for every finite set of sessions, every set of files and
contents and every bound on edits, calls and faults (`RefreshAssumption`: there
is a content, and the value for "none" is neither a session nor an index). Those
about updates hold for every finite set of files, every table of languages,
excluded directories and generated names, and every number of changes
(`ClassificationAssumption`: paths are made of the names the tables are about, a
name that excludes a directory is no name of a source file, and no path is both
a file's and a directory's). Those about the walk hold for every finite set of
paths closed under directories, whatever is pruned, every budget and every
number of changes under it (`WalkAssumption`: a path's directory may be a
directory, `Order` has every path, a directory has one file of rules). Those
about the index file hold for every list of records, every catalogue and every
file, over any alphabet (`AlphabetAssumption`; for the run also
`TextsAssumption`, that its texts are in it, and `SomeFilesAssumption`, that its
files have the shape of files). Those
about answers and warnings hold for every list of findings, every table, all
limits, every number of codes and every bound (`AlphabetAssumption`,
`RenderingAssumption`: texts and codes are listed once each, in byte order, the
mark of an overflow is a code, and what never changes takes a number of
characters and bytes). That an answer is fitted in the best way is proved of
every valid result and every legal request: `Unfitted` says that identities are
distinct, that a row's languages are sorted and bounded, that no row is a joined
one, and that there are no more warnings than a list may have; `FitLimits` that
no more findings are asked for than a list may have, and that two rows may be
sent. For the run, `SomeAnswersAssumption` says that its questions are such
(TLC evaluates it, with the others).

* `GenerationStore_proofs`: `Inductive` (`Spec => []IInv`), and from it
  `TypeCorrect`, `SelectedStaysIntact`, `PointerSurvives` and
  `MutexNeverLeaks`. Neither of the
  two middle ones is inductive. A build that is about to rename must know that its
  token is on disk, and a build that may roll back must know the same of the
  pointer it read; that pointer was on disk when it was read, and
  `generationOnDisk` only grows (also over a power loss). `IInv` says exactly
  this, for each place in the program, next to the two facts about the files
  that make it true: everything installed was synced first, and `CURRENT`
  itself is always one of the values that may be on disk. The mutex is free or
  held by a build that is inside; that no build outside holds it is inductive
  by itself.
* The same module, for builds of one process (`OneProcess`): `Exclusive`
  (`[]ExclusiveInv`: the holder of the mutex sees `CURRENT` as it left it), and
  from it the action properties `NoLostUpdate` (`CompareAndSwap`),
  `RollBackIsLocal` (`RollBackUndoesOwn`) and `PublicationIsDurable`
  (`PublishedIsDurable`). `AloneInside`, mutual exclusion, is the lemma they
  all use.
* Under the same assumption `StoreRefinesPointer`
  (`ImplementsPointer`). The refinement maps `undo` to the pointer that the one
  unsettled publication would restore; `UnsettledAlone` shows there is at most
  one such publication, which makes the `CHOOSE` in `Undo` determined.
* `EngineSession_proofs`: `Inductive` (`Spec => []IInv`), and from it `TypeCorrect`
  and the safety of a session: `NobodyOrphaned`, `IdleChildrenAreTimed`,
  `AnswersMatch`, `WritesOnce`, `RetriesAreFresh`, and the action property
  `StaleTimersSpare`. The argument for `AnswersMatch` is the longest. `Numbering`:
  children are started in order, and one that is not has neither request nor
  line nor reader; so `Adopt` gives a silent child the fresh queue of its own
  number. `Attempts`: an exchange that fails forgets its child, so that
  what is late in a pipe or a queue belongs to a child nobody asks any more.
  `Lines`: the child the session keeps has nothing on its way before a request
  is written (`Clean`), then the request and nothing else (`Unanswered`), then one
  line that answers it, in the pipe or in the queue (`Answered`); an end of
  output may follow it, and then the child is dead. `WritesOnce` rests on `Once`:
  what an engine has begun or been written has a call number up to the present
  one, and a write of the present call is written once because its attempt is
  the first and past its writing. `StaleTimersSpare` rests on `Timers`: a timer
  is stale when none is armed or a later one is. `Control` ties the lock, the
  caller's place and `process` together, and every other part uses it.
* The same module, for the hook: `HookIsASession` (`HookSpec => Spec`). `Interrupt` kills a
  child without the lock; that this is the death of a running child, or nothing,
  needs `Numbering`, and the death of a child at any point is a step of
  `EngineSession` already. All the safety theorems follow for the hook
  (`HookIsSafe`, `HookTimersSpare`), with `HookTypeCorrect`.
* `Retention_proofs`: `TypeCorrect` for all operations; and when refreshes alone
  touch the store (`Operations = {"refresh"}`), `RefreshInductive`, and from it
  `RefreshesKeepCurrent` and `RefreshesSpareLoads`. That `CURRENT` is on disk is
  not inductive: a removal must know that it spares `CURRENT`, and `CURRENT` may
  have moved since the removal was planned. `Locked` says that whoever is inside
  a refresh has the lock, so it has not; `Knows` says, place by place, what the
  holder knows of `CURRENT` (the protected generation is `CURRENT` until it
  publishes, then neither is in its plan). For the second theorem, `Loads`:
  a load not overtaken reads what `CURRENT` names, one overtaken once reads
  what the refresh that overtook it protects. The lock is essential to both,
  and the run `retention_idle_prune` shows what pruning without it can do. No
  theorem is stated about prunes outside the lock: what makes them safe in
  `retention_unlocked` are assumptions the code does not keep.
* `Refresh_proofs`: `Inductive`, and from it `TypeCorrect`,
  `BindingFollowsCurrent` and `ExactAnswers`, with every operation and every
  fault of the model. The invariant has three parts. `Typed` adds to the types
  what a session holds where it is (`Holds`), so that what is published is an
  index. `Regular` is about order: who has the lock, who runs alone (`Roles`),
  that a lone build leaves the binding at `CURRENT` (`Repairs`), and, while
  nothing has disturbed it, that writers exclude one another (`Ordered`), which
  makes `BindingNamesCurrent` inductive. `Faithful` is about content: what an
  engine is asked to read is exactly what may differ between its base and its
  snapshot (`Asked`), what it reads is its snapshot (`ReadsRight`), and bindings
  hold the tree they are labelled with. The step that matters is
  `MergedIsRight`: an update of a right base that reads the paths of `Delta` is
  right, because `DeltaCovers` says the other paths are the same in both
  versions. None of it needs the lock: the comparison of the shared document
  with the request does the work, and the lock serves the binding only.
* `IncrementalUpdate_proofs`: `Invariant`, and from it `TypeCorrect`,
  `UpdatesAreBuilds` (`UpdateIsLikeBuild`) and `NothingIsBoth`
  (`CatalogueAgrees`). What an index promises is not about the present tree, of
  which it may know nothing yet, and not about the tree it was made from either,
  which may have differed in what Git does not report. `OfItsLabel` says what is
  inductive: *some* tree with the label of the index is described by it, in its
  paths, records and warnings and in the counts that decide whether it is ready. Then
  `LabelTells` (in two trees with one label the same files hold a text and are
  tracked or not ignored, and it is the same text) and `DeltaTells` (so it is with the paths outside
  `Delta` of two trees of any label) leave `UpdatedIsBuilt`: an update of an index that describes one tree, by the
  declared paths, describes the other. It needs to know exactly what either text
  does with a path: `IndexableIs` for the build, `DeclaredIs` for the update,
  `IgnoredBelow` for the directories between them. The records come out equal
  since they are a function of paths and contents, the readiness because both
  count the indexed paths and the warnings (`CoverageIs`, `BuiltIs`).
* `Engine_proofs`, about the walk: `WalkInvariant`, and from it `WalkTypeCorrect`,
  `CompleteWalkIsOneMoment` (`CompleteIsOneMoment`) and `RulesAreReadFirst`
  (`RulesComeFirst`). `FsOK`, about the tree alone, says that every change takes a
  new time, so that who finds an entry or a directory as it was has missed
  nothing (`NothingMissed`). `Kept` says of each listing taken so far what it
  still means *if* the directory is found unchanged; `ReadOK` the same of a file
  read. `SettledOK` is the core: from the moment the last file was visited
  on, each listing compared equal holds the settled tree (`Confirmed`), and the
  one being compared holds it as far as it has got (`Relisted`). `PlaceOK` is
  bookkeeping without which nothing follows: no directory is listed twice, every
  observed entry is pending in one frame or visited, every directory not pruned
  is entered. That the listed directories are all there are (`AllAreListed`)
  goes down from the root, by the shortest path that was missed: the set of
  counterexamples has a least one (`SmallestNumber`), which is how these modules do
  the inductions they need.
* `IndexFormat_proofs`: `TheReadersAgree` (for every file, whatever is in its
  sections, `Decodes` and `Validates` say the same), `AnIndexHasOneFile` (a file
  they accept is the one the encoder writes for its records and catalogue),
  `WhatIsWrittenIsRead`, `MemoryIsTheDisk` and `TheSizeIsForeseen`. The first
  two say of two readers written apart, one deriving and one counting, that
  they cannot be told apart by any file. Each section is the same argument in
  two halves. A list in a strict total order is the only list with its elements
  in order (`OrderedList`, `ListIs`), so of a section only the *set* matters.
  And where the raw reader compares no sets, it counts: each posting, each run,
  each query key holds only what belongs to it, and the totals agree
  (`AllAreFound`, `CountPairs`); then nothing is missing
  (`PostingsThatCount`, `RunsThatHold`, `QueriesThatCount`). Runs need more: two
  that neither overlap nor touch are the maximal intervals of their ordinals
  (`RunEnds`, `RunsDoNotTouch`, `RunList`). Sums (`SumUnfolds`, `SumsCompare`,
  `SumOfParts`, `CountTwice`) are reasoned about by the least set at which they
  would go wrong (`LeastSubset`, `OneByOne`). `TheSizeIsForeseen` bounds each
  section by its share of `Foreseen`, for indexes with no more paths than the
  query map may have groups (`MaximumGroups`), as `SizeIsForeseen` says.
* `Rendering_proofs`: `WarningsComeInSteps` (`WarningsInSteps` for
  all lists and bounds) and `AnswersAddUp` (`AnswerAddsUp` for what `Fit` makes
  of any answer). `ListIs`: a set listed in a total order has at each place the
  element with so many before it, so a list that is cut is a set again, the
  `Smallest` of its codes. `SmallestOfBoth` is then the whole matter of warnings: of
  the smallest of some and some others, the smallest are those of them all; and
  `OverflowOfBoth` says that the mark is lost in no order. For answers,
  `SumOfBoth`: a sum over the rows of a table is that of the first and of the
  others, whatever order `MapThenSumSet` takes them in, so the joined row has
  what it stands for (`JoiningKeepsCounts`). `Left` determines a result on
  its way through both loops by two numbers, how many findings and how many rows
  are left of those given. Folding lowers the second (`FoldRowsKeeps`, since an
  estimate is never less than a row), dropping the first (`DropLastKeeps`), and
  when neither can be done the result is `Stuck` (`FitStepKeeps`): so the loop
  has turns enough, however many findings and rows there are (`FitEnds`). The
  hypothesis that no row given is a joined one is what render.go says of its
  `*` row: only a fold makes one.
* The same module: `FittingKeepsItsWord` (`FitKeepsItsWord` for what `Fit` makes
  of any valid result). Here sizes matter. `T[k]` is the table after k folds
  (`Tables`), so what is `Reached` is again two numbers, n findings left and k
  rows folded. Three facts carry the argument. A joined row is valid: its
  languages are sorted, distinct and bounded, though summed and cut
  (`MergedList`, `JoinedIsSolid`), so whatever is reached with at most as many
  rows as may be sent is valid (`ReachedIsValid`), and an answer is never
  `invalid wire`. Joining one more row never makes the joined row smaller
  (`JoinedGrows`): the languages that are kept are the largest, and a sum has no
  fewer digits than a part (`MoreDigits`). And an estimate never overshoots for
  rows of one size (`EstimateIsLow`): after one fold less there are still too many
  bytes. The loop keeps `Good`: with one more finding the result
  would not fit, however far it were folded (`Vain`), and no row is lost of an
  even table that could have been kept (`Tight`). Dropping keeps the first
  because it happens only when nothing more can be folded or the characters,
  which folding leaves alone, are too many (`DroppingIsNotInVain`); folding
  keeps the second by the estimate (`FoldingIsNotInVain`). With `FitEnds` it
  holds of the last result (`FitEndsGood`).
* `Engine_proofs`, about the run: `EngineInvariant` joins the invariants of the
  update and of the walk with `Proper`, that what a question gives to a function
  is what the function is for, and gives `EngineTypeCorrect` (`EngineTypeOK`),
  `WarningsStayBounded` (`WarningsAreBounded`), `AnswersStayFitting`
  (`AnswersFit`), and from the theorems about the file `FileStaysReadable`
  (`FileKeepsIndex`), `MemoryStaysDisk` (`MemorySnapshotIsDisk`) and
  `FilesKeepOneReading` (`FileHasOneReading`).

Only model-checked: liveness (`Converges`, `CallsReturn`, `CallsEnd`,
`ChildrenEnd`), which needs fairness and `ENABLED`, outside the prover's reach;
prunes outside the lock (`retention_unlocked`), which need assumptions on time
and on who acts together that the code does not keep;
and the queries on an index. `SearchIsScan`, `ViewsAreScans` and `OverviewIsSound`
compare long walks over postings, trees and heaps of findings with a scan; their
proofs would be as long as the ones about fitting. `RelationsMirror` is a claim
about the indexes of the run, where nothing is cut: a list of callers that is cut
at its maximum is mirrored by none. No module uses a `RECURSIVE` operator.

## 6. What is not modelled

`PROJECT.json` lists every component with its status. Left out for good:

* extraction: parsers that turn one file into records, sequential functions of
  their input, tested as such; their result is given in `IndexFormat`;
* the wire format and its policies, except the conditions on a result that
  fitting could break (`ValidResult`);
* the serve loop of the engine and the loop of the MCP server: one request after
  another, whose effect on a session is in `EngineSession`;
* path, ownership and capability checks around the operating system;
* git, and the comparison of snapshots, whose results are inputs of `Refresh`
  and `IncrementalUpdate`;
* the command line, packaging, installing hooks;
* the work-recovery and branch-handoff skills, which read once and print once;
* snippets and peek, which check their index as a query does; `gc` of other
  litter than generations; the one-shot transport, which is an exchange with a
  child of its own.

## 7. What comes next

1. `SearchIsScan` and `ViewsAreScans` as theorems, over `ListIs` and the lemmas
   about sets in an order that the proofs about the file already use.
2. Freshness precedence (`freshness.py`) and the trimming of change queries
   (`context_operations.py`), as functions beside the others of `MCEngine`.
