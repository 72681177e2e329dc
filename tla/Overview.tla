------------------------------ MODULE Overview ------------------------------
(***************************************************************************)
(* The overview of a repository (internal/query/overview.go): a table of   *)
(* directory groups, split while one of them dominates, and a layer of     *)
(* files spread over the groups. Paths are taken apart by Segments; the     *)
(* order of prefixes is the order of their segments, which is the order of  *)
(* the texts as long as no name has a character before the separator.       *)
(***************************************************************************)
EXTENDS Search

CONSTANTS Segments,      \* paths and prefixes -> sequences of names
          EntryNames,    \* wellKnownEntryNames, but main.go
          Readmes,       \* the base names of a README
          SplitRatio,    \* <<overviewSplitNumerator, overviewSplitDenominator>>
          MaximumDepth   \* maximumOverviewDepth

StartsWith(path, prefix) ==
    Len(prefix) <= Len(path) /\ SubSeq(path, 1, Len(prefix)) = prefix

LiesUnder(path, directory) ==
    Len(directory) < Len(path) /\ StartsWith(path, directory)

Below(path, prefix) == SubSeq(path, Len(prefix) + 1, Len(path))

\* The order of texts, name by name: what has ended comes first.
PrefixLess(p, q) ==
    \/ p # q /\ StartsWith(q, p)
    \/ \E i \in (DOMAIN p) \cap (DOMAIN q) :
           Rank(p[i]) < Rank(q[i]) /\ \A j \in 1 .. i - 1 : p[j] = q[j]

-----------------------------------------------------------------------------
(* The files *)

\* overviewRoot: the first prefix, without the segments that name nothing.
Root(request) ==
    IF request.prefixes = {} THEN <<>>
    ELSE SelectSeq(Segments[Sorted(request.prefixes, TextLess)[1]],
                   LAMBDA s : s \notin {"", "."})

WellKnown(path) ==
    LET base == path[Len(path)]
    IN  \/ base \in EntryNames
        \/ base = "main.go" /\ \E i \in 1 .. Len(path) - 1 : path[i] = "cmd"

Counted(records, Holds(_)) ==
    Cardinality({i \in DOMAIN records : Holds(records[i])})

\* dominantLanguage
Dominant(records) ==
    LET named == {records[i].language : i \in DOMAIN records} \ {""}
        count(l) == Counted(records, LAMBDA r : r.language = l)
    IN  IF named = {} THEN ""
        ELSE CHOOSE l \in named : \A m \in named \ {l} :
                 \/ count(l) > count(m)
                 \/ count(l) = count(m) /\ TextLess(l, m)

EntryPointFile(f) == f.entryPoints > 0 \/ f.wellKnown

\* overviewTier
Tier(f, structural) ==
    CASE EntryPointFile(f)                             -> <<0, 0>>
      [] ~EntryPointFile(f) /\ structural > 0          -> <<1, 0>>
      [] OTHER ->
            CASE f.document /\ f.base \in Readmes      -> <<2, 0>>
              [] f.document /\ f.base \notin Readmes   -> <<2, 1>>
              [] ~f.document /\ f.configuration        -> <<3, 0>>
              [] OTHER                                 -> <<4, 0>>

\* overviewFileFacts, for the records of one path that are permitted.
Facts(path, root, records) ==
    LET counted(kinds) == Counted(records, LAMBDA r : r.kind \in kinds)
        segments == Segments[path]
        facts == [path |-> path, relative |-> Below(segments, root),
                  base |-> segments[Len(segments)],
                  language |-> Dominant(records),
                  definitions |-> counted({"definition"}),
                  entryPoints |-> counted({"entrypoint"}),
                  document |->
                      counted({"heading", "document-chunk"}) = Len(records),
                  configuration |-> counted({"configuration"}) = Len(records),
                  wellKnown |-> WellKnown(segments),
                  representative |-> CHOOSE r \in Image(records) :
                      \A q \in Image(records) \ {r} :
                          LexLess(Preference(r), Preference(q))]
    IN  [facts |-> facts,
         tier  |-> Tier(facts, counted({"module", "definition", "entrypoint"}))]

\* The symbol filters and the prefixes are dropped; the root narrows instead.
Admissible(request) ==
    [request EXCEPT !.kinds = {}, !.sources = {}, !.prefixes = {}]

\* Mutant of OverviewFiles: a path counts as reached only when it is counted.
OverviewFilesRootedByCount(snapshot, request, limits) ==
    LET root   == Root(request)
        own(p) == SelectSeq(
            [i \in DOMAIN snapshot.byPath |-> snapshot.records[snapshot.byPath[i]]],
            LAMBDA r : r.path = p /\ Permits(r, Admissible(request)))
        under  == SelectSeq([i \in DOMAIN snapshot.groups |->
                      snapshot.groups[i].path],
                      LAMBDA p : LiesUnder(Segments[p], root))
        shown  == SelectSeq(under, LAMBDA p : own(p) # <<>>)
    IN  [files   |-> [i \in DOMAIN shown |->
                         Facts(shown[i], root, own(shown[i]))],
         partial |-> snapshot.partial, rooted |-> shown # <<>>]

\* overviewFiles: each path of the map costs the records that lie near it.
OverviewFiles(snapshot, request, limits) ==
    LET root   == Root(request)
        inPathOrder == [i \in DOMAIN snapshot.byPath |->
                           snapshot.records[snapshot.byPath[i]]]
        near(p) == SelectSeq(inPathOrder, LAMBDA r : Lower[r.path] = Lower[p])
        own(p)  == SelectSeq(near(p), LAMBDA r :
                       r.path = p /\ Permits(r, Admissible(request)))
        under   == SelectSeq([i \in DOMAIN snapshot.groups |->
                       snapshot.groups[i].path],
                       LAMBDA p : LiesUnder(Segments[p], root))
        cost[i \in 0 .. Len(under)] ==
            IF i = 0 THEN 0 ELSE cost[i - 1] + Len(near(under[i]))
        walked  == {i \in DOMAIN under : cost[i] <= Maximum(snapshot, limits)}
        shown   == SelectSeq(SubSeq(under, 1, Cardinality(walked)),
                             LAMBDA p : own(p) # <<>>)
    IN  [files   |-> [i \in DOMAIN shown |->
                         Facts(shown[i], root, own(shown[i]))],
         partial |-> snapshot.partial \/ Cardinality(walked) < Len(under),
         rooted  |-> under # <<>>]

-----------------------------------------------------------------------------
(* The table *)

\* A group: a directory, or with "." the files that lie directly in one.
Group(prefix, depth, files) ==
    [prefix |-> prefix, depth |-> depth, files |-> files]

Directory(group) == group.prefix[Len(group.prefix)] # "."

\* childOverviewGroups: the files of a group by their next segment.
Children(parent, depth, members, files) ==
    LET rest(i) == Below(files[i].facts.relative, parent)
        next(i) == IF Len(rest(i)) = 1 THEN "." ELSE rest(i)[1]
    IN  {Group(Append(parent, n), IF n = "." THEN depth ELSE depth + 1,
               {i \in members : next(i) = n}) : n \in {next(i) : i \in members}}

ChildrenOf(group, files) ==
    Children(group.prefix, group.depth, group.files, files)

\* splittableOverviewGroup
Splittable(group, counted) ==
    /\ Directory(group) /\ group.depth < MaximumDepth
    /\ Cardinality(group.files) * SplitRatio[2] > counted * SplitRatio[1]

\* Two children, or one directory to descend into.
WorthSplitting(group, files) ==
    LET children == ChildrenOf(group, files)
    IN  Cardinality(children) >= 2 \/ \A c \in children : Directory(c)

LargestOf(groups) ==
    CHOOSE g \in groups : \A h \in groups \ {g} :
        \/ Cardinality(g.files) > Cardinality(h.files)
        \/ Cardinality(g.files) = Cardinality(h.files)
           /\ PrefixLess(g.prefix, h.prefix)

\* Mutant of SplitOnce: only the largest group is asked for its children.
SplitLargest(groups, files) ==
    LET large == {g \in groups : Splittable(g, Len(files))}
    IN  IF large = {} \/ ~WorthSplitting(LargestOf(large), files) THEN groups
        ELSE (groups \ {LargestOf(large)})
                 \cup ChildrenOf(LargestOf(large), files)

\* One round of the loop: the largest group that may be split gives way to its
\* children.
SplitOnce(groups, files) ==
    LET chosen == {g \in groups : /\ Splittable(g, Len(files))
                                  /\ WorthSplitting(g, files)}
    IN  IF chosen = {} THEN groups
        ELSE (groups \ {LargestOf(chosen)})
                 \cup ChildrenOf(LargestOf(chosen), files)

\* overviewDirectoryGroups: each round adds depth below one group, so rounds
\* enough for every file to go down to the greatest depth are enough.
DirectoryGroups(files) ==
    LET after[n \in 0 .. Len(files) * (MaximumDepth + 1)] ==
            IF n = 0 THEN Children(<<>>, 0, DOMAIN files, files)
            ELSE SplitOnce(after[n - 1], files)
    IN  after[Len(files) * (MaximumDepth + 1)]

\* compareFileFacts
FileLess(files, i, j) ==
    LET value(f) == <<f.tier[1], f.tier[2], 100 - f.facts.definitions,
                      Rank(f.facts.path)>>
    IN  LexLess(value(files[i]), value(files[j]))

Among(members, files, Holds(_)) ==
    Cardinality({i \in members : Holds(files[i].facts)})

\* countOverviewGroup, overviewLanguages and overviewRow.
Row(root, group, files, items) ==
    LET named == {files[i].facts.language : i \in group.files} \ {""}
        count(l) == Among(group.files, files, LAMBDA f : f.language = l)
        languages == Sorted(named, LAMBDA l, m :
            \/ count(l) > count(m)
            \/ count(l) = count(m) /\ TextLess(l, m))
        ranked == Sorted(group.files, LAMBDA i, j : FileLess(files, i, j))
    IN  [prefix |-> root \o group.prefix, depth |-> group.depth,
         files |-> Cardinality(group.files),
         definitions |->
             Total(group.files, LAMBDA i : files[i].facts.definitions),
         entryPoints |-> Among(group.files, files, LAMBDA f : EntryPointFile(f)),
         documents |-> Among(group.files, files, LAMBDA f : f.document),
         configurations |->
             Among(group.files, files, LAMBDA f : f.configuration),
         languages |-> Shorter([i \in DOMAIN languages |->
             <<languages[i], count(languages[i])>>], items),
         ranked |-> ranked,
         representative |-> files[ranked[1]].facts.representative]

\* compareOverviewGroup
Table(root, files, items) ==
    LET rows == {Row(root, g, files, items) : g \in DirectoryGroups(files)}
    IN  Sorted(rows, LAMBDA a, b :
            \/ a.definitions > b.definitions
            \/ a.definitions = b.definitions
               /\ \/ a.files > b.files
                  \/ a.files = b.files /\ PrefixLess(a.prefix, b.prefix))

-----------------------------------------------------------------------------
(* The file layer *)

EntryPoints(row, files) ==
    SelectSeq(row.ranked, LAMBDA i : files[i].tier[1] = 0)

Turn(ranked, n) == IF n \in DOMAIN ranked THEN <<ranked[n]>> ELSE <<>>

\* Mutant of LaterRounds: the rounds do not start after the entry points.
LaterRoundsFromStart(table, files) ==
    Joined([n \in 1 .. Len(files) |->
        Joined([g \in DOMAIN table |-> Turn(table[g].ranked, n)])])

\* Round n takes from each group the n-th file after its entry points.
LaterRounds(table, files) ==
    Joined([n \in 1 .. Len(files) |->
        Joined([g \in DOMAIN table |->
            Turn(table[g].ranked, Len(EntryPoints(table[g], files)) + n)])])

\* selectOverviewFiles: the entry points in table order, then the rounds.
SelectedFiles(table, files, maximum) ==
    Shorter(Joined([g \in DOMAIN table |-> EntryPoints(table[g], files)])
                \o LaterRounds(table, files), maximum)

\* Overview
OverviewOf(snapshot, request, limits) ==
    LET root  == Root(request)
        shown == Maximum(snapshot, limits) >= 1
        answer(walk, table, files) ==
            [records   |-> [i \in DOMAIN files |->
                               walk.files[files[i]].facts.representative],
             omitted   |-> Len(walk.files) - Len(files),
             partial   |-> shown /\ walk.partial,
             table     |-> table, counted |-> Len(walk.files),
             extra     |-> Cardinality(request.prefixes) > 1,
             unmatched |-> root # <<>> /\ ~(shown /\ walk.rooted)
                               /\ ~(shown /\ walk.partial)]
        selected(walk, table) ==
            answer(walk, table,
                   SelectedFiles(table, walk.files, request.maximum))
        counted(walk) == selected(walk, Table(root, walk.files, limits.items))
    IN  counted(OverviewFiles(snapshot, request, limits))

-----------------------------------------------------------------------------
(* What an overview is, read off the files *)

\* A directory of the tree is replaced by what it holds when it and all above it
\* dominate and are worth it. The splits of the loop, whatever their order, end
\* in the table the tree alone decides, and each file is in one row.
TableIsCutOfTree(files) ==
    LET under(d) == {i \in DOMAIN files : LiesUnder(files[i].facts.relative, d)}
        dirs == UNION {{SubSeq(files[i].facts.relative, 1, n) :
                    n \in 1 .. Len(files[i].facts.relative) - 1} : i \in DOMAIN files}
        direct(d) == {i \in under(d) : Len(files[i].facts.relative) = Len(d) + 1}
        opened(d) ==
            /\ Len(d) < MaximumDepth
            /\ Cardinality(under(d)) * SplitRatio[2] > Len(files) * SplitRatio[1]
            /\ direct(d) # under(d)
        reached(d) == \A n \in 1 .. Len(d) - 1 : opened(SubSeq(d, 1, n))
        whole == {<<d, under(d)>> : d \in {e \in dirs : reached(e) /\ ~opened(e)}}
        loose == {<<Append(d, "."), direct(d)>> :
                     d \in {e \in dirs \cup {<<>>} :
                         /\ e = <<>> \/ (reached(e) /\ opened(e))
                         /\ direct(e) # {}}}
        cuts(table) ==
            /\ {<<r.prefix, Image(r.ranked)>> : r \in Image(table)}
                   = whole \cup loose
            /\ Total(DOMAIN table, LAMBDA g : table[g].files) = Len(files)
    IN  cuts(Table(<<>>, files, 2))

\* The layer offers each file once, as many as it may; no other file comes before
\* an entry point is offered, and no group gets two turns ahead of another that
\* still has files.
FilesAreSpread(files, maximum) ==
    LET entries  == {i \in DOMAIN files : files[i].tier[1] = 0}
        spread(table, selected) ==
            LET plain(g) == Image(table[g].ranked) \ entries
                taken(g) == Cardinality(plain(g) \cap Image(selected))
            IN  /\ Cardinality(Image(selected)) = Len(selected)
                /\ Len(selected) =
                       IF maximum < Len(files) THEN maximum ELSE Len(files)
                /\ \/ Image(selected) \subseteq entries
                   \/ entries \subseteq Image(selected)
                /\ \A g, h \in DOMAIN table :
                      taken(g) > taken(h) + 1 =>
                          taken(h) = Cardinality(plain(h))
        offered(table) == spread(table, SelectedFiles(table, files, maximum))
    IN  offered(Table(<<>>, files, 2))

\* An overview that is not partial counts the paths under the root that have an
\* admissible record, and says the root is unmatched only when no structural
\* record lies under it.
OverviewIsScan(snapshot, request, limits) ==
    LET under  == {r \in Image(snapshot.records) :
                      Structural(r) /\ LiesUnder(Segments[r.path], Root(request))}
        counted == {r.path : r \in {q \in under :
                       /\ request.inferred \/ q.evidence = "verified"
                       /\ MatchesOne(request.languages, q.language)}}
        agrees(got) ==
            /\ ~got.partial => got.counted = Cardinality(counted)
            /\ got.unmatched => under = {}
            /\ (~got.partial /\ Root(request) # <<>> /\ under = {}) =>
                   got.unmatched
            /\ Len(got.records) + got.omitted = got.counted
    IN  agrees(OverviewOf(snapshot, request, limits))

=============================================================================
