-------------------------- MODULE IncrementalUpdate --------------------------
(***************************************************************************)
(* An index brought forward by updates against the index a build makes of   *)
(* the same tree (engine/update.go, engine/control.go; the broker's delta,  *)
(* refresh.py and git_snapshot.py). Between two updates the user edits,     *)
(* stages, commits and changes the ignore rules. The broker sees only what  *)
(* Git reports as dirty and what differs between two heads; the engine      *)
(* reads only those paths. An update is one step: Refresh models files that *)
(* change under it.                                                         *)
(***************************************************************************)
EXTENDS Classification

CONSTANTS Contents,  \* what the user writes into a file
          MaxEdits   \* bound: changes of the tree

ASSUME IncrementalUpdateAssumption ==
    /\ Contents \subseteq Kinds \ {"missing"}
    /\ MaxEdits \in Nat

VARIABLES
    tree,       \* the repository
    catalogue,  \* the index: source catalogue, records and coverage
    binding,    \* the label of the tree the index was bound to
    edits       \* how often the tree has changed

vars == <<tree, catalogue, binding, edits>>

Catalogues(paths, reason) ==
    [paths : paths, exclusions : reason, warnings : SUBSET Files,
     records : SUBSET (Files \X Texts), coverage : [indexed : Nat,
     excluded : Nat, reasons : [Reasons -> Nat], failures : Nat,
     incomplete : Nat, supported : Nat]]

TypeOK ==
    /\ tree \in Tree
    /\ catalogue \in Catalogues({catalogue.paths}, {catalogue.exclusions})
    /\ DOMAIN catalogue.paths \subseteq Files
    /\ \A f \in DOMAIN catalogue.paths : catalogue.paths[f] \in Texts
    /\ DOMAIN catalogue.exclusions \subseteq Files \cup Directories
    /\ edits \in 0 .. MaxEdits

-----------------------------------------------------------------------------
(* What the broker sees *)

Untracked(t) ==
    {f \in Present(t) : ~Tracked(t, f) /\ ~Ignored(t, f)}

\* dirty_paths: staged, unstaged and untracked.
Dirty(t) ==
    {f \in Files : t.index[f] # t.head[f]}
        \cup {f \in Files : Tracked(t, f) /\ t.disk[f] # t.index[f]}
        \cup Untracked(t)

Change(before, after) ==
    CASE before = after    -> " "
      [] before # after /\ before = "missing" -> "A"
      [] before # after /\ after = "missing"  -> "D"
      [] OTHER             -> "M"

\* The status flags Git prints for a dirty path.
Flags(t, f) ==
    IF f \in Untracked(t) THEN <<"?", "?">>
    ELSE <<Change(t.head[f], t.index[f]),
           IF Tracked(t, f) THEN Change(t.index[f], t.disk[f]) ELSE " ">>

\* head_sha and dirty_fingerprint, with the paths the binding keeps.
Label(t) ==
    [head  |-> t.head,
     dirty |-> [f \in Dirty(t) |-> <<Flags(t, f), t.disk[f]>>]]

\* Mutant of Delta: what was dirty before and is clean now is left out.
DeltaOfNow(b, t) ==
    Dirty(t) \cup {f \in Files : b.head[f] # t.head[f]}

\* changed_paths_between
Delta(b, t) ==
    DOMAIN b.dirty \cup Dirty(t) \cup {f \in Files : b.head[f] # t.head[f]}

-----------------------------------------------------------------------------
(* The user *)

Committed(contents) ==
    [disk |-> contents, index |-> contents, head |-> contents, ignored |-> {}]

Init ==
    /\ tree \in {Committed(c) : c \in [Files -> {"text", "broken", "missing"}]}
    /\ catalogue = BuiltCatalogue(tree)
    /\ binding = Label(tree)
    /\ edits = 0

Edit(t) ==
    /\ edits < MaxEdits
    /\ t # tree
    /\ tree' = t
    /\ edits' = edits + 1
    /\ UNCHANGED <<catalogue, binding>>

Write(f)  == \E k \in Contents : Edit([tree EXCEPT !.disk[f] = k])
Delete(f) == Edit([tree EXCEPT !.disk[f] = "missing"])
Stage(f)  == Edit([tree EXCEPT !.index[f] = tree.disk[f]])
Untrack(f) == Edit([tree EXCEPT !.index[f] = "missing"])
Commit    == Edit([tree EXCEPT !.head = tree.index])
Ignore(p) == Edit([tree EXCEPT !.ignored = @ \cup {p}])
Unignore(p) == Edit([tree EXCEPT !.ignored = @ \ {p}])

User ==
    \/ \E f \in Files : Write(f) \/ Delete(f) \/ Stage(f) \/ Untrack(f)
    \/ \E p \in Files \cup Directories : Ignore(p) \/ Unignore(p)
    \/ Commit

-----------------------------------------------------------------------------
(* The broker and the engine *)

Stale == binding # Label(tree)

\* _refresh_if_stale and update. An update that refuses a path changes nothing.
Update ==
    /\ Stale
    /\ ~Refused(tree, Delta(binding, tree))
    /\ catalogue' = UpdatedCatalogue(catalogue, tree, Delta(binding, tree))
    /\ binding' = Label(tree)
    /\ UNCHANGED <<tree, edits>>

\* The explicit rebuild.
Build ==
    /\ catalogue' = BuiltCatalogue(tree)
    /\ binding' = Label(tree)
    /\ UNCHANGED <<tree, edits>>

Next == User \/ Update \/ Build

Spec == Init /\ [][Next]_vars

-----------------------------------------------------------------------------
(* Properties *)

\* The catalogue indexes the paths of a clean build, with their content, records
\* and warnings ...
IndexesLike(clean) ==
    /\ catalogue.paths = clean.paths
    /\ catalogue.records = clean.records
    /\ catalogue.warnings = clean.warnings

\* ... and says `ready` where it would, `partial` where it would.
IsReadyLike(clean) ==
    Complete(catalogue.coverage) <=> Complete(clean.coverage)

\* An update that reports itself exact has done what a build of the same tree
\* would do: what Git does not report as dirty or committed cannot change what
\* the engine would index, whatever was staged, forced in, ignored or left behind
\* between two updates, and failed and incomplete extractions survive updates of
\* other files (update.go, control.go).
UpdateIsLikeBuild ==
    ~Stale => LET clean == BuiltCatalogue(tree)
              IN  IndexesLike(clean) /\ IsReadyLike(clean)

\* No path is both indexed and excluded, by an entry of its own or of a
\* directory above it: an update retires the entries its paths disprove.
CatalogueAgrees ==
    \A f \in DOMAIN catalogue.paths : \A p \in DOMAIN catalogue.exclusions :
        ~(p = f \/ Under(f, p))

\* engine/update_test.go:1241: "coverage after update differs from a clean
\* build" is a failure; model.go:63-65 promises "build-equivalent coverage".
UpdateCoversLikeBuild ==
    [][Update => catalogue'.coverage = BuiltCatalogue(tree).coverage]_vars

=============================================================================
