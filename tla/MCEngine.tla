------------------------------ MODULE MCEngine ------------------------------
(***************************************************************************)
(* One instance of the engine for TLC.  The catalogue an update leaves     *)
(* (IncrementalUpdate), the walk of the working tree beside a process that *)
(* changes it (Walk) and the functions of the store format and of the      *)
(* queries share no state: a behaviour is about one of the three `part`s.  *)
(* In the third a step puts a question to a function, and the invariants   *)
(* compare its answer with the definition it should agree with.            *)
(***************************************************************************)
EXTENDS IncrementalUpdate, Walk, MCRendering

\* Two files in a directory that may be ignored, one under an excluded directory.
ManyFiles == {<<"pkg", "a.go">>, <<"pkg", "b.go">>, <<"vendor", "lib.go">>}

NoteFiles == {<<"main.go">>, <<"notes.txt">>}

Names == UNION {{p[i] : i \in DOMAIN p} : p \in ManyFiles \cup NoteFiles}

LanguageOfName == [n \in Names |->
    IF n \in {"main.go", "a.go", "b.go", "lib.go"} THEN "go" ELSE ""]
ReasonOfName == [n \in Names |-> IF n = "vendor" THEN "vendored" ELSE ""]

\* A tree with a rule file that sorts after another file, a directory that is
\* entered and one that is not.
SomeOrder ==
    << <<"+page">>, <<".gitignore">>, <<"lib">>, <<"lib", "x">>, <<"tmp">> >>
SomeNodes == {SomeOrder[i] : i \in DOMAIN SomeOrder}
SomeFolders == {<<>>, <<"lib">>, <<"tmp">>}
SomeRules == {<<".gitignore">>}
SomePruned == {<<"tmp">>}

VARIABLES
    part,  \* which of the three a behaviour is about
    given  \* the question that is put to a function

None == [kind |-> "none"]

\* A question about a function is put in two steps.
Topics ==
    [kind : {"a record"}, first : RecordsNamed("i1")]
        \cup [kind : {"a file"}, of : SomeInputs]
        \cup [kind : {"an index"}, snapshot : SomeSnapshots]
        \cup [kind : {"a name"}, others : Surroundings]
        \cup [kind : {"a tree"}, tree : Trees]
        \cup [kind : {"an answer"}, answer : SomeAnswers]
        \cup WarningQuestions

RecordQuestions(first) ==
    {[kind |-> "records", input |-> <<r, q, first>>] :
        r \in RecordsNamed("i2"), q \in FewRecordsNamed("i3")}

FileQuestions(of) ==
    {[kind |-> "file", file |-> f] : f \in Changed(Encode(of, SomeCatalogue))}

EngineInit ==
    /\ Init /\ WalkInit
    /\ given = None
    /\ part \in {"update", "walk", "functions"}
    /\ part # "update" => tree = Committed([f \in Files |-> "missing"])
    /\ part # "walk" => \A p \in Nodes : ~There(p)

Ask == given = None /\ given' \in Topics

Detail ==
    \/ given.kind = "a record" /\ given' \in RecordQuestions(given.first)
    \/ given.kind = "a file" /\ given' \in FileQuestions(given.of)
    \/ given.kind = "an index" /\ given' \in SearchQuestions(given.snapshot)
    \/ given.kind = "an index" /\ given' \in OverviewQuestions(given.snapshot)
    \/ given.kind = "a name" /\ given' \in RelatedQuestions(given.others)
    \/ given.kind = "a tree" /\ given' \in TreeQuestions(given.tree)
    \/ given.kind = "an answer" /\ given' \in RenderingQuestions(given.answer)

Close == given # None /\ given.kind \notin {"a record", "a file", "an index",
             "a name", "a tree", "an answer"} /\ given' = None

EngineNext ==
    \/ part = "update" /\ Next /\ UNCHANGED <<part, given, walkVars>>
    \/ part = "walk" /\ WalkNext /\ UNCHANGED <<part, given, vars>>
    \/ part = "functions" /\ (Ask \/ Detail \/ Close)
         /\ UNCHANGED <<part, vars, walkVars>>

EngineSpec == EngineInit /\ [][EngineNext]_<<part, given, vars, walkVars>>

(* Properties *)

\* The variables of the update and of the walk have their types.
EngineTypeOK == TypeOK /\ WalkTypeOK

\* Both readers of the index file accept what the encoder writes, and the size
\* foreseen for it is enough (format.go).
FileKeepsIndex == given.kind = "records" =>
    /\ WrittenIsRead(given.input, SomeCatalogue)
    /\ SizeIsForeseen(given.input, SomeCatalogue)

\* The snapshot an update keeps in memory is the one a load would give (store.go).
MemorySnapshotIsDisk ==
    given.kind = "records" => MemoryIsDisk(given.input, SomeCatalogue)

\* The reader that decodes and the one that validates in place accept the same
\* files, and only the one file there is for each index (format.go).
FileHasOneReading ==
    given.kind = "file"
      => ReadersAgree(given.file) /\ OneFilePerIndex(given.file)

\* A search that calls itself complete gives the best records of a full scan; one
\* that ran out of budget gives none the scan would not (query.go, rank.go).
SearchIsScan == given.kind = "search" =>
    FindIsScan(given.snapshot, given.text, given.request, given.limits)

\* The repository map is the same whichever filter drives the walk, and the
\* changed symbols are those whose lines a change touches (query.go, changed.go).
ViewsAreScans ==
    /\ given.kind = "map" =>
          MapIsScan(given.snapshot, given.request, given.limits)
    /\ given.kind = "changed" =>
          ChangeIsScan(given.snapshot, given.changes, given.request,
            given.limits)

\* An overview counts what a scan of its root counts; its table cuts the tree
\* once; its files take turns among the directories (overview.go).
OverviewIsSound ==
    /\ given.kind = "overview" =>
          OverviewIsScan(given.snapshot, given.request, given.limits)
    /\ given.kind = "tree" =>
          /\ TableIsCutOfTree(given.files)
          /\ \A maximum \in {1, 3, 5, 20} : FilesAreSpread(given.files, maximum)

\* `callers` and `callees`, and `imports` and `importers`, report the same edges
\* from their two ends (related.go). An index of the run has one reference, with
\* the range of the symbol it is written in.
RelationsMirror == given.kind = "related" =>
    /\ CallersMirrorCallees(given.index, [AnyRecord EXCEPT !.maximum = 20])
    /\ ImportsMirrorImporters(given.index, [AnyRecord EXCEPT !.maximum = 20])

\* An answer is fitted by dropping no more than it must: what it returns is the
\* best of what was found and fits, and its counts still add up (render.go).
AnswersFit == given.kind = "fit" => FitKeepsItsWord(given.given, given.limits)

\* The order in which warnings are added does not show, and a list that misses
\* some says so (control.go, appendBoundedWarnings).
WarningsAreBounded ==
    given.kind = "warnings" => WarningsInSteps(given.lists, given.bound)

=============================================================================
