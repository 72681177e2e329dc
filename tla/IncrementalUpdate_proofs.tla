----------------------- MODULE IncrementalUpdate_proofs -----------------------
(***************************************************************************)
(* An index that updates have brought forward is the index of a clean      *)
(* build, for every set of files, every table of languages and excluded    *)
(* directories, and any number of changes. What must be known of an index  *)
(* is that it describes the tree of its label: some tree with that label,  *)
(* which may differ from the present one in what Git does not report.      *)
(***************************************************************************)
EXTENDS IncrementalUpdate, FiniteSetTheorems, SequenceTheorems, TLAPS

(* Numbers and paths *)

\* A set of numbers has a least one.
LEMMA Least ==
    ASSUME NEW S \in SUBSET Nat, S # {}
    PROVE  \E m \in S : \A n \in S : m <= n
<1> DEFINE below == {1 .. n : n \in S}
<1>1. below \subseteq FiniteSubsetsOf(Nat)
  BY FS_Interval DEF FiniteSubsetsOf
<1>2. below # {}
  OBVIOUS
<1>3. PICK x \in below :
          \A y \in below : ~ (<<y, x>> \in StrictSubsetOrdering(Nat))
  BY <1>1, <1>2, FS_StrictSubsetOrderingWellFounded, WFMin
<1>4. PICK m \in S : x = 1 .. m
  OBVIOUS
<1>5. ASSUME NEW n \in S, n < m
      PROVE  FALSE
  <2>1. <<1 .. n, 1 .. m>> \in StrictSubsetOrdering(Nat)
    BY <1>5 DEF StrictSubsetOrdering
  <2> QED
    BY <2>1, <1>3, <1>4
<1> QED
  BY <1>5

\* What a sequence is.
LEMMA SequenceIs ==
    ASSUME NEW S, NEW p \in Seq(S)
    PROVE  /\ Len(p) \in Nat /\ DOMAIN p = 1 .. Len(p)
           /\ p = [i \in 1 .. Len(p) |-> p[i]]
           /\ \A i \in 1 .. Len(p) : p[i] \in S
           /\ p # <<>> => Len(p) > 0
  OBVIOUS

\* The directories above a path, and above those.
LEMMA AncestorParts ==
    ASSUME NEW S, NEW p \in Seq(S)
    PROVE  /\ \A d \in Ancestors(p) :
                 /\ d \in Seq(S) /\ Len(d) \in 1 .. Len(p) - 1 /\ Len(d) \in Nat
                 /\ d = SubSeq(p, 1, Len(d))
                 /\ \A i \in 1 .. Len(d) : d[i] = p[i]
                 /\ Ancestors(d) \subseteq Ancestors(p)
           /\ \A i \in 1 .. Len(p) - 1 : SubSeq(p, 1, i) \in Ancestors(p)
           /\ IsFiniteSet(Ancestors(p))
<1>1. ASSUME NEW i \in 1 .. Len(p) - 1
      PROVE  /\ SubSeq(p, 1, i) \in Seq(S) /\ Len(SubSeq(p, 1, i)) = i
             /\ \A j \in 1 .. i : SubSeq(p, 1, i)[j] = p[j]
             /\ \A j \in 1 .. i :
                  SubSeq(SubSeq(p, 1, i), 1, j) = SubSeq(p, 1, j)
  <2>1. /\ SubSeq(p, 1, i) \in Seq(S) /\ Len(SubSeq(p, 1, i)) = i
        /\ \A j \in 1 .. i : SubSeq(p, 1, i)[j] = p[j]
    OBVIOUS
  <2>2. ASSUME NEW j \in 1 .. i
        PROVE  SubSeq(SubSeq(p, 1, i), 1, j) = SubSeq(p, 1, j)
    <3>1. \A k \in 1 .. j :
            SubSeq(SubSeq(p, 1, i), 1, j)[k] = SubSeq(p, 1, j)[k]
      BY <2>1
    <3> QED
      BY <2>1, <3>1
  <2> QED
    BY <2>1, <2>2
<1>2. IsFiniteSet(Ancestors(p))
  <2> DEFINE f == [i \in 1 .. Len(p) - 1 |-> SubSeq(p, 1, i)]
  <2>1. f \in Surjection(1 .. Len(p) - 1, Ancestors(p))
    BY DEF Surjection, Ancestors
  <2>2. IsFiniteSet(1 .. Len(p) - 1)
    BY FS_Interval
  <2> QED
    BY <2>1, <2>2, FS_Surjection
<1>3. ASSUME NEW d \in Ancestors(p)
      PROVE  /\ d \in Seq(S) /\ Len(d) \in 1 .. Len(p) - 1 /\ Len(d) \in Nat
             /\ d = SubSeq(p, 1, Len(d))
             /\ \A i \in 1 .. Len(d) : d[i] = p[i]
             /\ Ancestors(d) \subseteq Ancestors(p)
  <2>1. PICK i \in 1 .. Len(p) - 1 : d = SubSeq(p, 1, i)
    BY DEF Ancestors
  <2>2. Ancestors(d) \subseteq Ancestors(p)
    BY <1>1, <2>1 DEF Ancestors
  <2> QED
    BY <1>1, <2>1, <2>2
<1> QED
  BY <1>2, <1>3 DEF Ancestors

\* A path is excluded when one of its names is.
LEMMA ExcludedIs ==
    ASSUME NEW p \in Seq(DOMAIN Language)
    PROVE  ExcludedDirectory(p) # "" <=>
              \E i \in DOMAIN p : DirectoryReason[p[i]] # ""
<1> DEFINE bad == {i \in DOMAIN p : DirectoryReason[p[i]] # ""}
<1>1. CASE bad = {}
  BY <1>1 DEF ExcludedDirectory
<1>2. CASE bad # {}
  <2>1. bad \subseteq Nat
    <3>1. DOMAIN p = 1 .. Len(p) /\ Len(p) \in Nat
      BY SequenceIs
    <3>2. \A i \in 1 .. Len(p) : i \in Nat
      BY <3>1
    <3>3. bad \subseteq 1 .. Len(p)
      BY <3>1
    <3> QED
      BY <3>2, <3>3
  <2>2. \E i \in bad : \A j \in bad : i <= j
    BY <1>2, <2>1, Least
  <2>3. (CHOOSE i \in bad : \A j \in bad : i <= j) \in bad
    BY <2>2
  <2> QED
    BY <1>2, <2>3 DEF ExcludedDirectory
<1> QED
  BY <1>1, <1>2

-----------------------------------------------------------------------------
(* What a tree says of a file *)

\* The name of a file admits it: nothing above it is excluded, it is not
\* generated, and it has a language.
NameAdmits(f) ==
    /\ \A d \in Ancestors(f) : ExcludedDirectory(d) = ""
    /\ Last(f) \notin GeneratedNames /\ Language[Last(f)] # ""

\* So does what it is in the tree.
Eligible(t, f) == t.disk[f] \in Texts /\ (Tracked(t, f) \/ ~Ignored(t, f))

\* What the constants say of a file's path.
LEMMA FileIs ==
    ASSUME NEW f \in Files
    PROVE  /\ f \in Seq(DOMAIN Language)
           /\ Len(f) \in Nat \ {0} /\ DOMAIN f = 1 .. Len(f)
           /\ \A i \in 1 .. Len(f) : f[i] \in DOMAIN Language
           /\ \A d \in Ancestors(f) : d \in Seq(DOMAIN Language)
<1>1. f \in Seq(DOMAIN Language) /\ f # <<>>
  BY ClassificationAssumption
<1>2. /\ Len(f) \in Nat /\ DOMAIN f = 1 .. Len(f) /\ Len(f) > 0
      /\ \A i \in 1 .. Len(f) : f[i] \in DOMAIN Language
  BY <1>1, SequenceIs
<1>3. Len(f) \in Nat \ {0}
  BY <1>2
<1> QED
  BY <1>1, <1>2, <1>3, AncestorParts

\* A file with a language has no excluded name of its own.
LEMMA AdmittedIsNotExcluded ==
    ASSUME NEW f \in Files, NameAdmits(f)
    PROVE  ExcludedDirectory(f) = ""
<1>1. /\ f \in Seq(DOMAIN Language)
      /\ Len(f) \in Nat \ {0} /\ DOMAIN f = 1 .. Len(f)
      /\ \A i \in 1 .. Len(f) : f[i] \in DOMAIN Language
      /\ \A d \in Ancestors(f) : d \in Seq(DOMAIN Language)
  BY FileIs
<1>2. SUFFICES ASSUME NEW i \in 1 .. Len(f), DirectoryReason[f[i]] # ""
               PROVE  FALSE
  BY <1>1, ExcludedIs
<1>3. CASE i = Len(f)
  <2>1. f[i] \in DOMAIN Language
    BY <1>1
  <2>2. Language[f[i]] = ""
    BY <1>2, <2>1, ClassificationAssumption
  <2> QED
    BY <1>3, <2>2 DEF NameAdmits, Last
<1>4. CASE i \in 1 .. Len(f) - 1
  <2> DEFINE d == SubSeq(f, 1, i)
  <2>1. d \in Ancestors(f)
    BY <1>4 DEF Ancestors
  <2>2. d \in Seq(DOMAIN Language) /\ Len(d) = i /\ d[i] = f[i]
    BY <1>1, <1>4
  <2>3. i \in DOMAIN d
    BY <1>4, <2>2, SequenceIs
  <2>4. ExcludedDirectory(d) # ""
    BY <1>2, <2>2, <2>3, ExcludedIs
  <2> QED
    BY <2>1, <2>4 DEF NameAdmits
<1>5. Len(f) \in Nat
  BY <1>1
<1>6. i = Len(f) \/ i \in 1 .. Len(f) - 1
  BY <1>5
<1> QED
  BY <1>3, <1>4, <1>6

\* Who ignores a directory ignores what is below it.
LEMMA IgnoredBelow ==
    ASSUME NEW t, NEW f \in Files,
           NEW d \in Ancestors(f), Ignored(t, d)
    PROVE  Ignored(t, f)
<1>1. Ancestors(d) \cup {d} \subseteq Ancestors(f) \cup {f}
  BY FileIs, AncestorParts
<1> QED
  BY <1>1 DEF Ignored

\* What a build indexes: the directories it does not enter for their ignore
\* rules hold nothing it would index.
LEMMA IndexableIs ==
    ASSUME NEW t \in Tree, NEW f \in Files
    PROVE  f \in Indexable(t) <=> NameAdmits(f) /\ Eligible(t, f)
<1>1. t.disk[f] \in Kinds
  BY DEF Tree
<1>2. ASSUME f \in Indexable(t)
      PROVE  NameAdmits(f) /\ Eligible(t, f)
  <2>1. /\ f \in Present(t) /\ Visited(t, f) /\ FileExclusion(t, f) = ""
    BY <1>2 DEF Indexable
  <2>2. \A d \in Ancestors(f) : ExcludedDirectory(d) = ""
    BY <2>1 DEF Visited, DirectoryExclusion
  <2>3. /\ t.disk[f] # "link" /\ t.disk[f] # "big" /\ t.disk[f] # "binary"
        /\ ~ (Ignored(t, f) /\ ~Tracked(t, f))
        /\ Last(f) \notin GeneratedNames /\ Language[Last(f)] # ""
    BY <2>1 DEF FileExclusion
  <2> QED
    BY <1>1, <2>1, <2>2, <2>3 DEF NameAdmits, Eligible, Present, Kinds, Texts
<1>3. ASSUME NameAdmits(f), Eligible(t, f)
      PROVE  f \in Indexable(t)
  <2>1. f \in Present(t)
    BY <1>3 DEF Eligible, Present, Texts
  <2>2. FileExclusion(t, f) = ""
    BY <1>3, AdmittedIsNotExcluded
       DEF FileExclusion, NameAdmits, Eligible, Texts
  <2>3. ASSUME NEW d \in Ancestors(f)
        PROVE  DirectoryExclusion(t, d) = ""
    <3>1. ExcludedDirectory(d) = ""
      BY <1>3 DEF NameAdmits
    <3>2. Ignored(t, d) => TrackedBelow(t, d)
      BY <1>3, IgnoredBelow DEF Eligible, TrackedBelow, Under
    <3> QED
      BY <3>1, <3>2 DEF DirectoryExclusion
  <2> QED
    BY <2>1, <2>2, <2>3 DEF Indexable, Visited
<1> QED
  BY <1>2, <1>3

\* What an update decides of a path that is there: the same.
LEMMA DeclaredIs ==
    ASSUME NEW t \in Tree, NEW f \in Files
    PROVE  /\ Declared(t, f).path \in Ancestors(f) \cup {f}
           /\ Declared(t, f).path # f =>
                 ExcludedDirectory(Declared(t, f).path) # ""
           /\ t.disk[f] # "missing" =>
                 (Declared(t, f).reason = "" <=>
                     NameAdmits(f) /\ (Tracked(t, f) \/ ~Ignored(t, f)))
<1> DEFINE above == {d \in Ancestors(f) :
                        ExcludedDirectory(d) # "" /\ Exists(t, d)}
           top == CHOOSE d \in above : \A e \in above : Len(d) <= Len(e)
<1>1. t.disk[f] # "missing" => \A d \in Ancestors(f) : Exists(t, d)
  BY DEF Exists, Under
<1>2. CASE above = {}
  <2>1. Declared(t, f).path = f
    BY <1>2 DEF Declared
  <2>2. Declared(t, f).reason = "" <=>
           /\ Last(f) \notin GeneratedNames /\ Language[Last(f)] # ""
           /\ Tracked(t, f) \/ ~Ignored(t, f)
    BY <1>2 DEF Declared
  <2> QED
    BY <1>1, <1>2, <2>1, <2>2 DEF NameAdmits
<1>3. CASE above # {}
  <2> DEFINE lengths == {Len(d) : d \in above}
  <2>1. lengths \subseteq Nat
    <3>1. \A d \in Ancestors(f) : Len(d) \in Nat
      <4>1. f \in Seq(DOMAIN Language)
        BY FileIs
      <4> QED
        BY <4>1, AncestorParts
    <3> QED
      BY <3>1
  <2>a. lengths # {}
    BY <1>3
  <2>2. PICK m \in lengths : \A n \in lengths : m <= n
    BY <2>1, <2>a, Least
  <2>3. \E d \in above : \A e \in above : Len(d) <= Len(e)
    BY <2>2
  <2>4. top \in above
    BY <2>3
  <2>5. Declared(t, f) = [path |-> top, reason |-> ExcludedDirectory(top)]
    BY <1>3 DEF Declared
  <2>6. top \in Ancestors(f) /\ ExcludedDirectory(top) # ""
    BY <2>4
  <2> HIDE DEF above, top
  <2>b. /\ Declared(t, f).path = top
        /\ Declared(t, f).reason = ExcludedDirectory(top)
    BY <2>5
  <2>7. Declared(t, f).path = top /\ Declared(t, f).reason # ""
    BY <2>6, <2>b
  <2>8. ~NameAdmits(f)
    BY <2>6 DEF NameAdmits
  <2> QED
    BY <2>6, <2>7, <2>8
<1> QED
  BY <1>2, <1>3

-----------------------------------------------------------------------------
(* What Git reports *)

\* A file Git does not report is what HEAD says, if it is to be known at all.
LEMMA CleanIs ==
    ASSUME NEW t \in Tree, NEW f \in Files, f \notin Dirty(t)
    PROVE  /\ Eligible(t, f) <=> t.head[f] \in Texts
           /\ Eligible(t, f) => t.disk[f] = t.head[f]
<1>1. t.index[f] = t.head[f] /\ (Tracked(t, f) => t.disk[f] = t.index[f])
  BY DEF Dirty
<1>2. ~Tracked(t, f) => t.disk[f] = "missing" \/ Ignored(t, f)
  BY DEF Dirty, Untracked, Present
<1>3. "missing" \notin Texts
  BY DEF Texts
<1> QED
  BY <1>1, <1>2, <1>3 DEF Eligible, Tracked

\* Of a file it does report, the flags and HEAD say whether it is tracked or
\* seen.
Shows(flags, head) ==
    flags[1] \in {"?", "A", "M"} \/ (flags[1] = " " /\ head # "missing")

LEMMA DirtyIs ==
    ASSUME NEW t \in Tree, NEW f \in Files, f \in Dirty(t)
    PROVE  Eligible(t, f)
             <=> t.disk[f] \in Texts /\ Shows(Flags(t, f), t.head[f])
<1>1. "missing" \notin Texts
  BY DEF Texts
<1>2. CASE f \in Untracked(t)
  <2>1. Flags(t, f)[1] = "?"
    BY <1>2 DEF Flags
  <2> QED
    BY <1>2, <2>1 DEF Untracked, Eligible, Shows
<1>3. CASE f \notin Untracked(t)
  <2>1. Flags(t, f)[1] = Change(t.head[f], t.index[f])
    BY <1>3 DEF Flags
  <2>2. CASE Tracked(t, f)
    <3>1. Shows(Flags(t, f), t.head[f])
      BY <2>1, <2>2 DEF Change, Shows, Tracked
    <3> QED
      BY <2>2, <3>1 DEF Eligible
  <2>3. CASE ~Tracked(t, f)
    <3>1. ~Shows(Flags(t, f), t.head[f])
      BY <2>1, <2>3 DEF Change, Shows, Tracked
    <3>2. t.disk[f] = "missing" \/ Ignored(t, f)
      BY <1>3, <2>3 DEF Untracked, Present
    <3> QED
      BY <1>1, <2>3, <3>1, <3>2 DEF Eligible
  <2> QED
    BY <2>2, <2>3
<1> QED
  BY <1>2, <1>3

\* Two trees of one label hold the same files that an index may hold.
LEMMA LabelTells ==
    ASSUME NEW t \in Tree, NEW u \in Tree, Label(t) = Label(u), NEW f \in Files
    PROVE  /\ Eligible(t, f) <=> Eligible(u, f)
           /\ Eligible(t, f) => t.disk[f] = u.disk[f]
<1>1. t.head = u.head
  BY DEF Label
<1>2. [g \in Dirty(t) |-> <<Flags(t, g), t.disk[g]>>]
         = [g \in Dirty(u) |-> <<Flags(u, g), u.disk[g]>>]
  BY DEF Label
<1>3. Dirty(t) = Dirty(u)
  BY <1>2
<1>4. CASE f \in Dirty(t)
  <2>1. <<Flags(t, f), t.disk[f]>> = <<Flags(u, f), u.disk[f]>>
    BY <1>2, <1>3, <1>4
  <2>2. Flags(t, f) = Flags(u, f) /\ t.disk[f] = u.disk[f]
    BY <2>1
  <2> QED
    BY <1>1, <1>3, <1>4, <2>2, DirtyIs
<1>5. CASE f \notin Dirty(t)
  BY <1>1, <1>3, <1>5, CleanIs
<1> QED
  BY <1>4, <1>5

\* A file outside the delta is as it was in the tree of the label.
LEMMA DeltaTells ==
    ASSUME NEW t \in Tree, NEW u \in Tree,
           NEW f \in Files, f \notin Delta(Label(t), u)
    PROVE  /\ Eligible(t, f) <=> Eligible(u, f)
           /\ Eligible(t, f) => t.disk[f] = u.disk[f]
<1>1. DOMAIN Label(t).dirty = Dirty(t) /\ Label(t).head = t.head
  BY DEF Label
<1>2. f \notin Dirty(t) /\ f \notin Dirty(u) /\ t.head[f] = u.head[f]
  BY <1>1 DEF Delta
<1> QED
  BY <1>2, CleanIs

-----------------------------------------------------------------------------
(* Catalogues *)

\* There are finitely many paths, so what is counted of them is a number.
LEMMA PathsAreFinite == IsFiniteSet(Files \cup Directories)
<1> DEFINE parts == {Ancestors(f) : f \in Files}
<1>1. IsFiniteSet(Files)
  BY ClassificationAssumption
<1>2. [f \in Files |-> Ancestors(f)] \in Surjection(Files, parts)
  BY DEF Surjection
<1>3. IsFiniteSet(parts)
  BY <1>1, <1>2, FS_Surjection
<1>4. \A part \in parts : IsFiniteSet(part)
  BY FileIs, AncestorParts
<1>5. IsFiniteSet(UNION parts)
  BY <1>3, <1>4, FS_UNION
<1> QED
  BY <1>1, <1>5, FS_Union DEF Directories

\* What the catalogue c says follows from what it indexes: paths.
Describes(c, paths) ==
    /\ c.paths = paths
    /\ c.records = {<<f, paths[f]>> : f \in DOMAIN paths}
    /\ c.warnings = {f \in DOMAIN paths : paths[f] \in Faulty}
    /\ c.coverage.indexed = Cardinality(DOMAIN paths)
    /\ c.coverage.failures
          = Cardinality({f \in c.warnings : paths[f] = "broken"})
    /\ c.coverage.incomplete = Cardinality(c.warnings)

PathsOf(t) == [f \in Indexable(t) |-> t.disk[f]]

Agrees(c) ==
    \A f \in DOMAIN c.paths : \A p \in DOMAIN c.exclusions :
        ~(p = f \/ Under(f, p))

Typed(c) ==
    /\ c \in Catalogues({c.paths}, {c.exclusions})
    /\ DOMAIN c.paths \subseteq Files
    /\ \A f \in DOMAIN c.paths : c.paths[f] \in Texts
    /\ DOMAIN c.exclusions \subseteq Files \cup Directories

LEMMA IndexableIsText ==
    ASSUME NEW t \in Tree
    PROVE  /\ Indexable(t) \subseteq Files
           /\ \A f \in Indexable(t) : t.disk[f] \in Texts
  BY IndexableIs DEF Indexable, Present, Eligible

\* No path of a file is that of a directory.
LEMMA NotAbove ==
    ASSUME NEW f \in Files, NEW g \in Files
    PROVE  f \notin Ancestors(g)
  BY ClassificationAssumption DEF Under

\* What is counted in a catalogue.
CountsMatch(coverage, paths, warnings) ==
    /\ coverage \in [indexed : Nat, excluded : Nat, reasons : [Reasons -> Nat],
                    failures : Nat, incomplete : Nat, supported : Nat]
    /\ coverage.indexed = Cardinality(DOMAIN paths)
    /\ coverage.failures
          = Cardinality({f \in warnings : paths[f] = "broken"})
    /\ coverage.incomplete = Cardinality(warnings)

LEMMA CoverageIs ==
    ASSUME NEW paths, NEW reason, NEW regular, NEW supported \in Nat,
           NEW warnings, DOMAIN paths \subseteq Files, warnings \subseteq Files,
           regular \subseteq Files \cup Directories,
           DOMAIN reason \subseteq Files \cup Directories
    PROVE  CountsMatch(Coverage(paths, reason, regular, supported, warnings),
                   paths, warnings)
<1>1. \A S \in SUBSET (Files \cup Directories) : Cardinality(S) \in Nat
  BY PathsAreFinite, FS_Subset, FS_CardinalityType
<1>2. /\ Cardinality(DOMAIN paths) \in Nat /\ Cardinality(regular) \in Nat
      /\ Cardinality(warnings) \in Nat
      /\ Cardinality({f \in warnings : paths[f] = "broken"}) \in Nat
  BY <1>1
<1>3. \A r \in Reasons :
        Cardinality({p \in DOMAIN reason : reason[p] = r}) \in Nat
  BY <1>1
<1> QED
  BY <1>2, <1>3 DEF Coverage, Count, CountsMatch

\* The catalogue of a build.
LEMMA BuiltIs ==
    ASSUME NEW t \in Tree
    PROVE  /\ Describes(BuiltCatalogue(t), PathsOf(t))
           /\ Typed(BuiltCatalogue(t))
           /\ Agrees(BuiltCatalogue(t))
<1> DEFINE c == BuiltCatalogue(t)
           faulty == {f \in DOMAIN PathsOf(t) : PathsOf(t)[f] \in Faulty}
           regular == {f \in ExcludedFiles(t) : t.disk[f] # "link"}
           known == {f \in ExcludedFiles(t) :
                        FileExclusion(t, f) \in {"oversized", "binary"}}
           supported == Cardinality(DOMAIN PathsOf(t)) + Cardinality(known)
<1>1. /\ c.paths = PathsOf(t)
      /\ c.records = {<<f, PathsOf(t)[f]>> : f \in DOMAIN PathsOf(t)}
      /\ c.warnings = faulty
      /\ DOMAIN c.exclusions = ExcludedFiles(t) \cup Pruned(t)
      /\ c.coverage = Coverage(PathsOf(t), c.exclusions, regular, supported,
                               faulty)
      /\ c = [paths |-> c.paths, exclusions |-> c.exclusions,
              warnings |-> c.warnings, records |-> c.records,
              coverage |-> c.coverage]
  BY DEF BuiltCatalogue, PathsOf, Count
<1>2. /\ DOMAIN PathsOf(t) = Indexable(t) /\ Indexable(t) \subseteq Files
      /\ \A f \in Indexable(t) : PathsOf(t)[f] \in Texts
  BY IndexableIsText DEF PathsOf
<1>3. ExcludedFiles(t) \subseteq Files /\ Pruned(t) \subseteq Directories
  BY DEF ExcludedFiles, Present, Pruned
<1> HIDE DEF c, faulty, regular
<1>4. supported \in Nat
  <2>1. IsFiniteSet(DOMAIN PathsOf(t)) /\ IsFiniteSet(known)
    BY <1>2, <1>3, PathsAreFinite, FS_Subset
  <2> QED
    BY <2>1, FS_CardinalityType
<1>5. faulty \subseteq Files /\ regular \subseteq Files
  BY <1>2, <1>3 DEF faulty, regular
<1> HIDE DEF supported
<1>6. CountsMatch(c.coverage, PathsOf(t), faulty)
  <2>1. /\ DOMAIN PathsOf(t) \subseteq Files
        /\ regular \subseteq Files \cup Directories
        /\ DOMAIN c.exclusions \subseteq Files \cup Directories
    BY <1>1, <1>2, <1>3, <1>5
  <2>2. c.coverage = Coverage(PathsOf(t), c.exclusions, regular, supported,
                              faulty)
    BY <1>1
  <2> QED
    BY <1>4, <1>5, <2>1, <2>2, CoverageIs
<1>7. Describes(c, PathsOf(t))
  BY <1>1, <1>6 DEF Describes, CountsMatch, faulty
<1>8. Typed(c)
  <2>1. c.records \subseteq Files \X Texts
    BY <1>1, <1>2
  <2> QED
    BY <1>1, <1>2, <1>3, <1>5, <1>6, <2>1 DEF Typed, Catalogues, CountsMatch
<1>9. Agrees(c)
  <2> SUFFICES ASSUME NEW f \in Indexable(t),
                      NEW p \in ExcludedFiles(t) \cup Pruned(t),
                      p = f \/ Under(f, p)
               PROVE  FALSE
    BY <1>1, <1>2 DEF Agrees
  <2>1. CASE p \in ExcludedFiles(t)
    BY <1>2, <1>3, <2>1, NotAbove DEF ExcludedFiles, Indexable, Under
  <2>2. CASE p \in Pruned(t)
    <3>1. p # f
      BY <1>2, <1>3, <2>2, NotAbove DEF Directories
    <3> QED
      BY <2>2, <3>1 DEF Pruned, Indexable, Visited, Under
  <2> QED
    BY <2>1, <2>2
<1> QED
  BY <1>7, <1>8, <1>9 DEF c

\* What an update takes from the declared paths: the files it indexes, those it
\* can say more of than their names do, and the paths that are excluded by name.
Live(t, changed) ==
    {f \in changed : t.disk[f] # "missing" /\ Declared(t, f).reason = ""}

Taken(t, changed) == {f \in Live(t, changed) : t.disk[f] \in Texts}

Named(t, changed) ==
    {v.path : v \in {w \in {Declared(t, f) : f \in changed} : w.reason # ""}}

LEMMA NamedIs ==
    ASSUME NEW t, NEW changed, NEW p \in Named(t, changed)
    PROVE  \E f \in changed :
             Declared(t, f).path = p /\ Declared(t, f).reason # ""
  BY DEF Named

\* It indexes of them what a build would.
LEMMA TakenIs ==
    ASSUME NEW t \in Tree, NEW changed \in SUBSET Files
    PROVE  Taken(t, changed) = Indexable(t) \cap changed
<1>1. \A f \in changed : t.disk[f] \in Texts => t.disk[f] # "missing"
  BY DEF Texts
<1> QED
  BY <1>1, DeclaredIs, IndexableIs, IndexableIsText DEF Taken, Live, Eligible

\* The catalogue of an update, read field by field.
IsUpdate(u, c, t, changed) ==
    /\ u.paths = [f \in (DOMAIN c.paths \ changed) \cup Taken(t, changed) |->
                     IF f \in Taken(t, changed) THEN t.disk[f] ELSE c.paths[f]]
    /\ DOMAIN u.exclusions =
          (DOMAIN c.exclusions \ Retired(c, changed)) \cup Named(t, changed)
              \cup (Live(t, changed) \ Taken(t, changed))
    /\ u.warnings = (c.warnings \ changed)
                        \cup {f \in Taken(t, changed) : t.disk[f] \in Faulty}
    /\ u.records = {r \in c.records : r[1] \notin changed}
                       \cup {<<f, u.paths[f]>> : f \in Taken(t, changed)}
    /\ u.coverage = CatalogueCoverage(u.paths, u.exclusions, u.warnings)
    /\ u = [paths |-> u.paths, exclusions |-> u.exclusions,
            warnings |-> u.warnings, records |-> u.records,
            coverage |-> u.coverage]

LEMMA UpdatedIs ==
    ASSUME NEW c, NEW t, NEW changed
    PROVE  IsUpdate(UpdatedCatalogue(c, t, changed), c, t, changed)
  BY DEF UpdatedCatalogue, KeptWarnings, Taken, Live, Named, IsUpdate

\* An update by the delta makes of the catalogue of one tree that of the other.
LEMMA UpdatedIsBuilt ==
    ASSUME NEW c, NEW t \in Tree, NEW v \in Tree,
           Describes(c, PathsOf(t)), Typed(c), Agrees(c)
    PROVE  LET u == UpdatedCatalogue(c, v, Delta(Label(t), v))
           IN  Describes(u, PathsOf(v)) /\ Typed(u) /\ Agrees(u)
<1> DEFINE changed == Delta(Label(t), v)
           u == UpdatedCatalogue(c, v, changed)
           taken == Taken(v, changed)
           held == Live(v, changed) \ taken
           named == Named(v, changed)
           faulty == (c.warnings \ changed)
                         \cup {f \in taken : v.disk[f] \in Faulty}
<1>1. changed \subseteq Files
  BY DEF Delta, Label, Dirty, Untracked, Present
<1>2. ASSUME NEW f \in Files, f \notin changed
      PROVE  /\ f \in Indexable(t) <=> f \in Indexable(v)
             /\ f \in Indexable(t) => t.disk[f] = v.disk[f]
  BY <1>2, DeltaTells, IndexableIs
<1> HIDE DEF changed
<1>3. taken = Indexable(v) \cap changed
  BY <1>1, TakenIs
<1>4. /\ u.paths = [f \in (DOMAIN c.paths \ changed) \cup taken |->
                       IF f \in taken THEN v.disk[f] ELSE c.paths[f]]
      /\ DOMAIN u.exclusions = (DOMAIN c.exclusions \ Retired(c, changed))
                                   \cup named \cup held
      /\ u.warnings = faulty
      /\ u.records = {r \in c.records : r[1] \notin changed}
                         \cup {<<f, u.paths[f]>> : f \in taken}
      /\ u.coverage = CatalogueCoverage(u.paths, u.exclusions, faulty)
      /\ u = [paths |-> u.paths, exclusions |-> u.exclusions,
              warnings |-> u.warnings, records |-> u.records,
              coverage |-> u.coverage]
  <2>1. IsUpdate(u, c, v, changed)
    BY UpdatedIs
  <2> HIDE DEF u
  <2> QED
    BY <2>1 DEF IsUpdate
<1> HIDE DEF u, taken, named
<1>5. /\ Indexable(t) \subseteq Files /\ Indexable(v) \subseteq Files
      /\ \A f \in Indexable(v) : v.disk[f] \in Texts
  BY IndexableIsText
<1>6. /\ DOMAIN PathsOf(t) = Indexable(t) /\ DOMAIN PathsOf(v) = Indexable(v)
      /\ \A f \in Indexable(t) : PathsOf(t)[f] = t.disk[f]
      /\ \A f \in Indexable(v) : PathsOf(v)[f] = v.disk[f]
  BY DEF PathsOf
<1>7. u.paths = PathsOf(v)
  <2>1. c.paths = PathsOf(t)
    BY DEF Describes
  <2>2. (DOMAIN c.paths \ changed) \cup taken = Indexable(v)
    BY <1>2, <1>3, <1>5, <1>6, <2>1
  <2>3. \A f \in Indexable(v) :
            (IF f \in taken THEN v.disk[f] ELSE c.paths[f]) = v.disk[f]
    BY <1>2, <1>3, <1>5, <1>6, <2>1
  <2> QED
    BY <1>4, <2>2, <2>3 DEF PathsOf
<1>8. u.records = {<<f, PathsOf(v)[f]>> : f \in Indexable(v)}
  <2>1. c.records = {<<f, PathsOf(t)[f]>> : f \in Indexable(t)}
    BY <1>6 DEF Describes
  <2>2. {r \in c.records : r[1] \notin changed}
            = {<<f, PathsOf(v)[f]>> : f \in Indexable(v) \ changed}
    <3>1. \A f \in Files \ changed :
              /\ f \in Indexable(t) <=> f \in Indexable(v)
              /\ f \in Indexable(t) => PathsOf(t)[f] = PathsOf(v)[f]
      BY <1>2, <1>6
    <3> QED
      BY <1>5, <2>1, <3>1
  <2> QED
    BY <1>3, <1>4, <1>7, <2>2
<1>9. faulty = {f \in Indexable(v) : PathsOf(v)[f] \in Faulty}
  <2>1. c.warnings = {f \in Indexable(t) : PathsOf(t)[f] \in Faulty}
    BY <1>6 DEF Describes
  <2> QED
    BY <1>2, <1>3, <1>5, <1>6, <2>1
<1>10. named \subseteq Files \cup Directories
  <2> SUFFICES ASSUME NEW p \in named
               PROVE  p \in Files \cup Directories
    OBVIOUS
  <2>1. PICK f \in changed : Declared(v, f).path = p
    BY NamedIs DEF named
  <2>2. f \in Files /\ p \in Ancestors(f) \cup {f}
    BY <1>1, <2>1, DeclaredIs
  <2> QED
    BY <2>2 DEF Directories
<1>11. held \subseteq Files
  BY <1>1 DEF Live
<1>12. DOMAIN u.exclusions \subseteq Files \cup Directories
  BY <1>4, <1>10, <1>11 DEF Typed
<1>13. CountsMatch(u.coverage, PathsOf(v), faulty)
  <2> DEFINE reason == u.exclusions
             regular == {p \in DOMAIN reason : RegularExclusion(p, reason[p])}
             known == {p \in DOMAIN reason :
                          reason[p] \in {"oversized", "binary"}}
             supported == Cardinality(Indexable(v)) + Cardinality(known)
  <2>1. u.coverage = Coverage(PathsOf(v), reason, regular, supported, faulty)
    BY <1>4, <1>6, <1>7 DEF CatalogueCoverage, Count
  <2>2. faulty \subseteq Files
    BY <1>5, <1>9
  <2>3. regular \subseteq Files \cup Directories
    BY <1>12
  <2>4. supported \in Nat
    <3>1. IsFiniteSet(Indexable(v)) /\ IsFiniteSet(known)
      BY <1>5, <1>12, PathsAreFinite, FS_Subset
    <3> QED
      BY <3>1, FS_CardinalityType
  <2> HIDE DEF supported, regular, reason, faulty
  <2>5. DOMAIN reason \subseteq Files \cup Directories
    BY <1>12 DEF reason
  <2> QED
    BY <1>5, <1>6, <2>1, <2>2, <2>3, <2>4, <2>5, CoverageIs
<1>14. Describes(u, PathsOf(v))
  BY <1>4, <1>6, <1>7, <1>8, <1>9, <1>13 DEF Describes, CountsMatch
<1>15. Typed(u)
  <2>1. u.records \subseteq Files \X Texts
    BY <1>5, <1>6, <1>8
  <2>2. faulty \subseteq Files
    BY <1>5, <1>9
  <2> HIDE DEF faulty
  <2> QED
    BY <1>4, <1>5, <1>6, <1>7, <1>12, <1>13, <2>1, <2>2
    DEF Typed, Catalogues, CountsMatch
<1>16. Agrees(u)
  <2> SUFFICES ASSUME NEW f \in Indexable(v),
                      NEW p \in DOMAIN u.exclusions,
                      p = f \/ Under(f, p)
               PROVE  FALSE
    BY <1>6, <1>7 DEF Agrees
  <2>1. f \in Files /\ NameAdmits(f) /\ Eligible(v, f)
    BY <1>5, IndexableIs
  <2>2. CASE p \in named
    <3>1. PICK g \in changed :
              Declared(v, g).path = p /\ Declared(v, g).reason # ""
      BY <2>2, NamedIs DEF named
    <3>2. g \in Files /\ p \in Ancestors(g) \cup {g}
      BY <1>1, <3>1, DeclaredIs
    <3>3. CASE p = g
      <4>1. p = f
        BY <2>1, <3>2, <3>3, NotAbove DEF Under
      <4>2. v.disk[f] # "missing"
        BY <2>1 DEF Eligible, Texts
      <4>3. Declared(v, f).reason = ""
        BY <2>1, <4>2, DeclaredIs DEF Eligible
      <4> QED
        BY <3>1, <3>3, <4>1, <4>3
    <3>4. CASE p # g
      <4>1. ExcludedDirectory(p) # ""
        BY <3>1, <3>2, <3>4, DeclaredIs
      <4>2. p # f
        BY <2>1, <3>2, <3>4, NotAbove
      <4> QED
        BY <2>1, <4>1, <4>2 DEF Under, NameAdmits
    <3> QED
      BY <3>3, <3>4
  <2>3. CASE p \in held
    <3>1. p \in Files /\ p = f
      BY <1>11, <2>1, <2>3, NotAbove DEF Under
    <3>2. p \in taken
      BY <1>1, <1>3, <2>3, <3>1 DEF Live
    <3> QED
      BY <2>3, <3>2
  <2>4. CASE p \in DOMAIN c.exclusions \ Retired(c, changed)
    <3>1. f \notin changed
      BY <2>4 DEF Retired, Overlap
    <3>2. f \in DOMAIN c.paths
      BY <1>2, <1>6, <2>1, <3>1 DEF Describes
    <3> QED
      BY <2>4, <3>2 DEF Agrees
  <2> QED
    BY <1>4, <2>2, <2>3, <2>4
<1> QED
  BY <1>14, <1>15, <1>16 DEF u, changed

-----------------------------------------------------------------------------
(* The index and its label *)

\* The index describes some tree that has its label.
OfItsLabel ==
    \E t \in Tree : binding = Label(t) /\ Describes(catalogue, PathsOf(t))

IInv == TypeOK /\ OfItsLabel /\ CatalogueAgrees

LEMMA TypeIs ==
    TypeOK <=> tree \in Tree /\ Typed(catalogue) /\ edits \in 0 .. MaxEdits
  BY DEF TypeOK, Typed

LEMMA AgreesIs == CatalogueAgrees <=> Agrees(catalogue)
  BY DEF CatalogueAgrees, Agrees

\* What a user does to a tree makes a tree of it.
LEMMA UserKeepsTree ==
    ASSUME IInv, User
    PROVE  /\ tree' \in Tree /\ edits' \in 0 .. MaxEdits
           /\ UNCHANGED <<catalogue, binding>>
<1>1. tree \in Tree /\ edits \in 0 .. MaxEdits /\ MaxEdits \in Nat
  BY IncrementalUpdateAssumption DEF IInv, TypeOK
<1>2. ASSUME NEW t \in Tree, Edit(t)
      PROVE  /\ tree' \in Tree /\ edits' \in 0 .. MaxEdits
             /\ UNCHANGED <<catalogue, binding>>
  BY <1>1, <1>2 DEF Edit
<1>3. ASSUME NEW f \in Files, Write(f) \/ Delete(f) \/ Stage(f) \/ Untrack(f)
      PROVE  \E t \in Tree : Edit(t)
  <2>1. \A k \in Kinds : [tree EXCEPT !.disk[f] = k] \in Tree
    BY <1>1 DEF Tree
  <2>2. [tree EXCEPT !.index[f] = tree.disk[f]] \in Tree
    BY <1>1 DEF Tree
  <2>3. [tree EXCEPT !.index[f] = "missing"] \in Tree
    BY <1>1 DEF Tree, Kinds
  <2>4. Contents \subseteq Kinds /\ "missing" \in Kinds
    BY IncrementalUpdateAssumption DEF Kinds
  <2> QED
    BY <1>3, <2>1, <2>2, <2>3, <2>4 DEF Write, Delete, Stage, Untrack
<1>4. ASSUME NEW p \in Files \cup Directories, Ignore(p) \/ Unignore(p)
      PROVE  \E t \in Tree : Edit(t)
  <2>1. /\ [tree EXCEPT !.ignored = @ \cup {p}] \in Tree
        /\ [tree EXCEPT !.ignored = @ \ {p}] \in Tree
    BY <1>1 DEF Tree
  <2> QED
    BY <1>4, <2>1 DEF Ignore, Unignore
<1>5. ASSUME Commit
      PROVE  \E t \in Tree : Edit(t)
  <2>1. [tree EXCEPT !.head = tree.index] \in Tree
    BY <1>1 DEF Tree
  <2> QED
    BY <1>5, <2>1 DEF Commit
<1> QED
  BY <1>2, <1>3, <1>4, <1>5 DEF User

\* The invariant holds at first.
LEMMA InitHolds == Init => IInv
<1> SUFFICES ASSUME Init
             PROVE  IInv
  OBVIOUS
<1>1. tree \in Tree
  <2>1. PICK c \in [Files -> {"text", "broken", "missing"}] :
          tree = Committed(c)
    BY DEF Init
  <2>2. c \in [Files -> Kinds]
    BY <2>1 DEF Kinds, Texts
  <2> QED
    BY <2>1, <2>2 DEF Committed, Tree
<1>2. edits \in 0 .. MaxEdits
  BY IncrementalUpdateAssumption DEF Init
<1> QED
  BY <1>1, <1>2, BuiltIs, TypeIs, AgreesIs DEF Init, IInv, OfItsLabel

\* Every step keeps it.
LEMMA StepKeeps == IInv /\ [Next]_vars => IInv'
<1> SUFFICES ASSUME IInv, [Next]_vars
             PROVE  IInv'
  OBVIOUS
<1>1. tree \in Tree /\ Typed(catalogue) /\ Agrees(catalogue)
  BY TypeIs, AgreesIs DEF IInv
<1>2. CASE User
  <2>1. /\ tree' \in Tree /\ edits' \in 0 .. MaxEdits
        /\ catalogue' = catalogue /\ binding' = binding
    BY <1>2, UserKeepsTree
  <2> QED
    BY <1>1, <2>1 DEF IInv, OfItsLabel, TypeOK, Typed, CatalogueAgrees
<1>3. CASE Update
  <2>1. PICK t \in Tree :
            binding = Label(t) /\ Describes(catalogue, PathsOf(t))
    BY DEF IInv, OfItsLabel
  <2>2. /\ catalogue' = UpdatedCatalogue(catalogue, tree, Delta(Label(t), tree))
        /\ binding' = Label(tree) /\ tree' = tree /\ edits' = edits
    BY <1>3, <2>1 DEF Update
  <2>3. /\ Describes(catalogue', PathsOf(tree)) /\ Typed(catalogue')
        /\ Agrees(catalogue')
    BY <1>1, <2>1, <2>2, UpdatedIsBuilt
  <2> QED
    BY <1>1, <2>2, <2>3
    DEF IInv, OfItsLabel, TypeOK, Typed, CatalogueAgrees, Agrees
<1>4. CASE Build
  <2>1. /\ catalogue' = BuiltCatalogue(tree) /\ binding' = Label(tree)
        /\ tree' = tree /\ edits' = edits
    BY <1>4 DEF Build
  <2>2. /\ Describes(catalogue', PathsOf(tree)) /\ Typed(catalogue')
        /\ Agrees(catalogue')
    BY <1>1, <2>1, BuiltIs
  <2> QED
    BY <1>1, <2>1, <2>2
    DEF IInv, OfItsLabel, TypeOK, Typed, CatalogueAgrees, Agrees
<1>5. CASE UNCHANGED vars
  BY <1>5 DEF vars, IInv, OfItsLabel, TypeOK, CatalogueAgrees
<1> QED
  BY <1>2, <1>3, <1>4, <1>5 DEF Next

\* Two trees of one label make one index.
LEMMA LabelIsIndex ==
    ASSUME NEW t \in Tree, NEW v \in Tree, Label(t) = Label(v)
    PROVE  PathsOf(t) = PathsOf(v)
<1>1. /\ Indexable(t) \subseteq Files /\ Indexable(v) \subseteq Files
  BY IndexableIsText
<1>2. Indexable(t) = Indexable(v)
  BY <1>1, IndexableIs, LabelTells
<1>3. \A f \in Indexable(t) : t.disk[f] = v.disk[f]
  BY <1>1, IndexableIs, LabelTells
<1> QED
  BY <1>2, <1>3 DEF PathsOf

\* An index with the present label is that of a build.
LEMMA ExactIsBuilt == IInv => UpdateIsLikeBuild
<1> DEFINE clean == BuiltCatalogue(tree)
<1> SUFFICES ASSUME IInv, ~Stale
             PROVE  /\ catalogue.paths = clean.paths
                    /\ catalogue.records = clean.records
                    /\ catalogue.warnings = clean.warnings
                    /\ catalogue.coverage.indexed = clean.coverage.indexed
                    /\ catalogue.coverage.failures = clean.coverage.failures
                    /\ catalogue.coverage.incomplete = clean.coverage.incomplete
  BY DEF UpdateIsLikeBuild, IndexesLike, IsReadyLike, Complete
<1>1. tree \in Tree
  BY TypeIs DEF IInv
<1>2. PICK t \in Tree : binding = Label(t) /\ Describes(catalogue, PathsOf(t))
  BY DEF IInv, OfItsLabel
<1>3. PathsOf(t) = PathsOf(tree)
  BY <1>1, <1>2, LabelIsIndex DEF Stale
<1>4. Describes(clean, PathsOf(tree))
  BY <1>1, BuiltIs
<1> QED
  BY <1>2, <1>3, <1>4 DEF Describes

\* The invariant of every behaviour: an index describes a tree of its label, and
\* no path of it is indexed and excluded.
THEOREM Invariant == Spec => []IInv
<1>1. Init => IInv
  BY InitHolds
<1>2. IInv /\ [Next]_vars => IInv'
  BY StepKeeps
<1> QED
  BY <1>1, <1>2, PTL DEF Spec

\* The variables keep their types (TypeOK).
THEOREM TypeCorrect == Spec => []TypeOK
<1>1. IInv => TypeOK
  BY DEF IInv
<1> QED
  BY <1>1, Invariant, PTL

\* However the tree has changed since, an index that updates have brought to the
\* label of the present tree indexes what a build of that tree would, with the
\* same records and warnings, and is complete when that is (engine/update.go).
THEOREM UpdatesAreBuilds == Spec => []UpdateIsLikeBuild
<1>1. IInv => UpdateIsLikeBuild
  BY ExactIsBuilt
<1> QED
  BY <1>1, Invariant, PTL

\* No path is indexed and excluded at once (engine/update.go).
THEOREM NothingIsBoth == Spec => []CatalogueAgrees
<1>1. IInv => CatalogueAgrees
  BY DEF IInv
<1> QED
  BY <1>1, Invariant, PTL

=============================================================================
