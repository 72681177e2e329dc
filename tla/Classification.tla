--------------------------- MODULE Classification ---------------------------
(***************************************************************************)
(* What the engine makes of one file tree: the inventory a build takes      *)
(* (internal/inventory: Collect), the decision an update takes for one      *)
(* declared path (ClassifyDeclared, captureUpdateWitness), and the coverage *)
(* each reports. The two are written apart in the code and must agree.      *)
(*                                                                         *)
(* A path is a sequence of names. What the code reads off a name, its       *)
(* extension and the directory names it excludes, are constants; so are     *)
(* the paths an ignore rule names (IgnoreRules says how rules match).       *)
(* A directory exists as long as it holds a file. Submodules are left out:  *)
(* the broker refreshes no repository that has one.                         *)
(***************************************************************************)
EXTENDS Naturals, Sequences, FiniteSets

CONSTANTS Files,            \* the paths of the repository's files
          Language,         \* names -> language, "" without one
          DirectoryReason,  \* names -> reason to exclude a component, or ""
          GeneratedNames,   \* names with a generated suffix
          BareNames         \* names without an extension

\* What a path may hold: two texts, one that does not parse, one of which an
\* extractor omits something, a binary, one over the size ceiling, a symbolic
\* link, nothing. The two texts in between carry warnings into the catalogue.
Texts  == {"text", "other", "broken", "cut"}
Faulty == {"broken", "cut"}
Kinds == Texts \cup {"binary", "big", "link", "missing"}

Reasons == {"vendored", "generated", "ignored", "unsafe-path",
            "unsupported-language", "oversized", "binary"}

Ancestors(p) == {SubSeq(p, 1, i) : i \in 1 .. Len(p) - 1}
Under(p, d)  == d \in Ancestors(p)
Directories  == UNION {Ancestors(f) : f \in Files}
Last(p)      == p[Len(p)]

\* The constants describe names of which the files' paths are made. A name that
\* makes a directory excluded has no extension a language has, and no path is
\* that of a file and of a directory, now or later.
ASSUME ClassificationAssumption ==
    /\ IsFiniteSet(Files)
    /\ Files \subseteq Seq(DOMAIN Language) \ {<<>>}
    /\ DOMAIN DirectoryReason = DOMAIN Language
    /\ \A n \in DOMAIN Language : DirectoryReason[n] # "" => Language[n] = ""
    /\ \A f, g \in Files : ~Under(f, g)

\* The working tree, the Git index and HEAD, and the ignored paths.
Tree == [disk : [Files -> Kinds], index : [Files -> Kinds],
         head : [Files -> Kinds], ignored : SUBSET (Files \cup Directories)]

Tracked(t, f)      == t.index[f] # "missing"
TrackedBelow(t, d) == \E f \in Files : Under(f, d) /\ Tracked(t, f)
Exists(t, d)       == \E f \in Files : Under(f, d) /\ t.disk[f] # "missing"
Present(t)         == {f \in Files : t.disk[f] # "missing"}

\* ignoredBy: the path or a directory above it.
Ignored(t, p) == \E q \in Ancestors(p) \cup {p} : q \in t.ignored

\* excludedDirectory: the first component that has a reason.
ExcludedDirectory(p) ==
    LET bad == {i \in DOMAIN p : DirectoryReason[p[i]] # ""}
    IN  IF bad = {} THEN ""
        ELSE DirectoryReason[p[CHOOSE i \in bad : \A j \in bad : i <= j]]

-----------------------------------------------------------------------------
(* A build: Collect *)

DirectoryExclusion(t, d) ==
    IF ExcludedDirectory(d) # "" THEN ExcludedDirectory(d)
    ELSE IF Ignored(t, d) /\ ~TrackedBelow(t, d) THEN "ignored" ELSE ""

\* Mutant of FileExclusion: a symbolic link counts as the file it points to.
FileExclusionFollowing(t, f) ==
    CASE ExcludedDirectory(f) # ""                  -> ExcludedDirectory(f)
      [] Ignored(t, f) /\ ~Tracked(t, f)            -> "ignored"
      [] Last(f) \in GeneratedNames                 -> "generated"
      [] Language[Last(f)] = ""                     -> "unsupported-language"
      [] OTHER                                      -> ""

FileExclusion(t, f) ==
    CASE t.disk[f] = "link"                         -> "unsafe-path"
      [] ExcludedDirectory(f) # ""                  -> ExcludedDirectory(f)
      [] Ignored(t, f) /\ ~Tracked(t, f)            -> "ignored"
      [] Last(f) \in GeneratedNames                 -> "generated"
      [] Language[Last(f)] = ""                     -> "unsupported-language"
      [] t.disk[f] = "big"                          -> "oversized"
      [] t.disk[f] = "binary"                       -> "binary"
      [] OTHER                                      -> ""

\* The walk does not enter an excluded directory.
Visited(t, p) == \A d \in Ancestors(p) : DirectoryExclusion(t, d) = ""

Indexable(t) ==
    {f \in Present(t) : Visited(t, f) /\ FileExclusion(t, f) = ""}

ExcludedFiles(t) ==
    {f \in Present(t) : Visited(t, f) /\ FileExclusion(t, f) # ""}

Pruned(t) ==
    {d \in Directories : /\ Exists(t, d) /\ Visited(t, d)
                         /\ DirectoryExclusion(t, d) # ""}

Count(S, P(_)) == Cardinality({x \in S : P(x)})

\* The counters of model.Coverage; the two ratios follow from them. An extraction
\* that fails to parse is also one that is incomplete (registry.go: Incomplete).
Coverage(paths, reason, regular, supported, warnings) ==
    [indexed    |-> Cardinality(DOMAIN paths),
     excluded   |-> Cardinality(regular),
     reasons    |-> [r \in Reasons |->
                        Count(DOMAIN reason, LAMBDA p : reason[p] = r)],
     failures   |-> Count(warnings, LAMBDA f : paths[f] = "broken"),
     incomplete |-> Cardinality(warnings),
     supported  |-> supported]

\* sourceCatalog, the records and the coverage of a build, which counts regular
\* files only among its exclusions.
BuiltCatalogue(t) ==
    LET paths   == [f \in Indexable(t) |-> t.disk[f]]
        reason  == [p \in ExcludedFiles(t) \cup Pruned(t) |->
                       IF p \in Pruned(t) THEN DirectoryExclusion(t, p)
                       ELSE FileExclusion(t, p)]
        regular == {f \in ExcludedFiles(t) : t.disk[f] # "link"}
        faulty  == {f \in DOMAIN paths : paths[f] \in Faulty}
    IN  [paths      |-> paths,
         exclusions |-> reason,
         warnings   |-> faulty,
         records    |-> {<<f, paths[f]>> : f \in DOMAIN paths},
         coverage   |-> Coverage(paths, reason, regular,
             Cardinality(DOMAIN paths) + Count(ExcludedFiles(t),
                 LAMBDA f : FileExclusion(t, f) \in {"oversized", "binary"}),
             faulty)]

-----------------------------------------------------------------------------
(* An update: one declared path *)

\* ClassifyDeclared: the topmost existing excluded directory, then the path's
\* own name, then the ignore rules. "" when the path has a language and stays.
Declared(t, f) ==
    LET above == {d \in Ancestors(f) :
                    ExcludedDirectory(d) # "" /\ Exists(t, d)}
        top   == CHOOSE d \in above : \A e \in above : Len(d) <= Len(e)
    IN  CASE above # {} -> [path |-> top, reason |-> ExcludedDirectory(top)]
          [] above = {} /\ Last(f) \in GeneratedNames ->
                [path |-> f, reason |-> "generated"]
          [] above = {} /\ Last(f) \notin GeneratedNames
             /\ Language[Last(f)] = "" ->
                [path |-> f, reason |-> "unsupported-language"]
          [] OTHER ->
                [path |-> f, reason |->
                    IF Ignored(t, f) /\ ~Tracked(t, f) THEN "ignored" ELSE ""]

\* captureUpdateWitness refuses a path it cannot open stably.
Refused(t, changed) == \E f \in changed : t.disk[f] = "link"

\* catalogPathsOverlap
Overlap(p, q) == p = q \/ Under(p, q) \/ Under(q, p)

\* catalogExclusionIsRegular: what counts as an excluded file. The catalogue
\* does not say which of its exclusions are directories.
RegularExclusion(p, reason) ==
    ~(reason \in {"generated", "vendored"} /\ Last(p) \in BareNames)

\* coverageForCatalog
CatalogueCoverage(paths, reason, warnings) ==
    Coverage(paths, reason,
        {p \in DOMAIN reason : RegularExclusion(p, reason[p])},
        Cardinality(DOMAIN paths) + Count(DOMAIN reason,
            LAMBDA p : reason[p] \in {"oversized", "binary"}),
        warnings)

\* Mutant of KeptWarnings: the warnings of other paths are dropped.
KeptWarningsNone(c, changed) == {}

KeptWarnings(c, changed) == c.warnings \ changed

\* Mutant of Retired: only the entries of the declared paths themselves.
RetiredThemselves(c, changed) == DOMAIN c.exclusions \cap changed

\* The exclusions that the declared paths put in question.
Retired(c, changed) ==
    {p \in DOMAIN c.exclusions : \E f \in changed : Overlap(p, f)}

\* update: the catalogue c brought to tree t by the declared paths. A declared
\* path that is excluded by name is entered whether or not it is there.
UpdatedCatalogue(c, t, changed) ==
    LET verdicts == {Declared(t, f) : f \in changed}
        named    == {v.path : v \in {w \in verdicts : w.reason # ""}}
        live     == {f \in changed : /\ t.disk[f] # "missing"
                                     /\ Declared(t, f).reason = ""}
        texts    == {f \in live : t.disk[f] \in Texts}
        paths    == [f \in (DOMAIN c.paths \ changed) \cup texts |->
                        IF f \in texts THEN t.disk[f] ELSE c.paths[f]]
        reason   == [p \in (DOMAIN c.exclusions \ Retired(c, changed))
                               \cup named \cup (live \ texts) |->
                        CASE p \in live \ texts ->
                                IF t.disk[p] = "big"
                                  THEN "oversized" ELSE "binary"
                          [] p \in named ->
                                (CHOOSE v \in verdicts : v.path = p).reason
                          [] OTHER -> c.exclusions[p]]
        faulty   == KeptWarnings(c, changed)
                        \cup {f \in texts : t.disk[f] \in Faulty}
    IN  [paths      |-> paths,
         exclusions |-> reason,
         warnings   |-> faulty,
         records    |-> {r \in c.records : r[1] \notin changed}
                            \cup {<<f, paths[f]>> : f \in texts},
         coverage   |-> CatalogueCoverage(paths, reason, faulty)]

\* completeCoverage: what makes a result `ready` and not `partial`. Three of its
\* markers are not raised here: every tree can be walked to its end (Walk), a
\* build over the limit of records publishes nothing, and there are fewer
\* warnings than their list holds (Rendering).
Complete(coverage) ==
    coverage.indexed # 0 /\ coverage.failures = 0 /\ coverage.incomplete = 0

=============================================================================
