------------------------------- MODULE Related -------------------------------
(***************************************************************************)
(* The relationship queries (internal/query/related.go): who uses a symbol, *)
(* what it uses, who imports it, what its file imports. An edge is resolved *)
(* when it is asked for, from the file the use is written in. A name is a   *)
(* sequence of segments; a reference record lists the names used in one     *)
(* scope; of an import the module it names, the name it binds and whether   *)
(* it points into its own directory are given. The work budget is left out: *)
(* a scan it cuts short makes an answer partial and an edge inferred.       *)
(***************************************************************************)
EXTENDS Search

CONSTANTS DirectoryOf,        \* paths -> directories
          MacroOf,          \* names -> the name of the macro, or itself
          TestFiles,        \* the paths of tests
          MaximumInferred   \* maximumInferredCandidates

LastOf(name)  == name[Len(name)]
ScopeOf(name) == SubSeq(name, 1, Len(name) - 1)
EndsWith(name, tail) ==
    /\ Len(tail) <= Len(name)
    /\ SubSeq(name, Len(name) - Len(tail) + 1, Len(name)) = tail
BeginsWith(name, head) ==
    Len(head) <= Len(name) /\ SubSeq(name, 1, Len(head)) = head

DefinitionRecord(r)   == r.kind \in {"definition", "entrypoint"}
RelationshipAnchor(r) == DefinitionRecord(r) \/ r.kind = "module"

\* compareRelatedRecord; within one path the canonical order of the file, as long
\* as no two records of different kinds begin on one line.
InPathOrder(S) ==
    Sorted(S, LAMBDA q, r :
        LexLess(<<Rank(Lower[q.path]), Rank(q.path), q.start, Rank(q.identity)>>,
                <<Rank(Lower[r.path]), Rank(r.path), r.start, Rank(r.identity)>>))

\* The order of postings: records are numbered in the order of their identities.
InOrdinalOrder(S) == Sorted(S, IdentityLess)

-----------------------------------------------------------------------------
(* Files and modules *)

Module(r)  == r.kind = "module"
InFile(index, path, Holds(_)) ==
    InPathOrder({r \in index : r.path = path /\ Holds(r)})

Definitions(index, path) == InFile(index, path, DefinitionRecord)
References(index, path)  == InFile(index, path, LAMBDA r : r.kind = "reference")
Imports(index, path)     == InFile(index, path, LAMBDA r : r.kind = "import")
Modules(index, path)     == InFile(index, path, Module)

LanguageOf(index, path)  == InFile(index, path, LAMBDA r : TRUE)[1].language

\* qualifyingModuleName, recordModuleName
Qualifier(name)     == IF Len(name) < 2 THEN "" ELSE name[1]
RecordModule(r)     == IF Module(r) THEN LastOf(r.name) ELSE Qualifier(r.name)

\* readFileModuleName: the module record, or what the names begin with.
FileModule(index, path) ==
    LET module == Modules(index, path)
        named  == Definitions(index, path) \o References(index, path)
        first(s) == IF s = <<>> THEN "" ELSE s[1].name[1]
    IN  IF module # <<>> THEN LastOf(module[1].name)
        ELSE first(SelectSeq(named, LAMBDA r :
                 \/ Qualifier(r.name) # ""
                 \/ r.kind = "reference" /\ r.name # <<>>))

\* anchorModuleName
AnchorModule(index, anchor) ==
    LET module == Modules(index, anchor.path)
    IN  IF ~Module(anchor) /\ module # <<>> THEN LastOf(module[1].name)
        ELSE RecordModule(anchor)

\* moduleNamed and packageRepresentative: one directory, its first file that is
\* not a test; {} when there is none, or more than one directory.
ModuleNamed(index, module, language) ==
    LET first(named, plain) ==
            IF Cardinality({DirectoryOf[r.path] : r \in Image(named)}) # 1
            THEN {} ELSE IF plain # <<>> THEN {plain[1]} ELSE {named[1]}
        found(named) == first(named, SelectSeq(named,
                            LAMBDA r : r.path \notin TestFiles))
    IN  found(InPathOrder({r \in index :
            /\ Module(r) /\ LastOf(r.name) = module
            /\ language \in {"", r.language}}))

-----------------------------------------------------------------------------
(* What a name means *)

\* matchesTargetName
MatchesTarget(r, target) ==
    /\ LastOf(r.name) \in {LastOf(target), MacroOf[LastOf(target)]}
    /\ Len(target) > 1 => EndsWith(r.name, target)

DefinitionsNamed(index, target, language) ==
    {r \in index : /\ DefinitionRecord(r) /\ MatchesTarget(r, target)
                   /\ language \in {"", r.language}}

\* restrictDefinitions; "" restricts nothing.
Restricted(S, module, directory) ==
    {r \in S : /\ module \in {"", RecordModule(r)}
               /\ directory \in {"", DirectoryOf[r.path]}}

\* A neighbouring import is looked for next to the file, then everywhere.
InModule(S, module, directory) ==
    LET near == Restricted(S, module, directory)
    IN  IF near = {} THEN Restricted(S, module, "") ELSE near

ImportDirectory(import) ==
    IF import.neighbour THEN DirectoryOf[import.path] ELSE ""

\* importedModuleOf: the first import that binds the name's first segment, or
\* else the only wildcard for a bare name; {} when there is none.
ImportFor(index, path, target) ==
    LET chosen(bound, wild) ==
            IF bound # <<>> THEN {bound[1]}
            ELSE IF Len(wild) = 1 /\ Len(target) = 1 THEN {wild[1]} ELSE {}
        among(known) ==
            chosen(SelectSeq(known, LAMBDA i : i.bound = target[1] /\ i.bound # "*"),
                   SelectSeq(known, LAMBDA i : i.bound = "*"))
    IN  among(SelectSeq(Imports(index, path), LAMBDA i : i.module # ""))

\* visibleAtScope
Visible(name, module, enclosing) ==
    \/ ScopeOf(name) = <<>> \/ ScopeOf(name) = <<module>>
    \/ BeginsWith(enclosing, ScopeOf(name))

\* candidatesFor: what the file and its module define, and what it imports.
Scope(index, path, enclosing, target) ==
    LET seen(named, module) ==
            {r \in named :
                /\ \/ r.path = path
                   \/ /\ module # ""
                      /\ r \in Restricted(named, module, DirectoryOf[path])
                /\ Len(target) > 1 \/ Visible(r.name, module, enclosing)}
    IN  seen(DefinitionsNamed(index, target, LanguageOf(index, path)),
             FileModule(index, path))

Imported(index, path, target) ==
    UNION {InModule(DefinitionsNamed(index, target, LanguageOf(index, path)),
                    import.module, ImportDirectory(import)) :
              import \in ImportFor(index, path, target)}

Inferred(S) ==
    [candidates |-> Shorter(InPathOrder(S), MaximumInferred),
     evidence |-> "inferred"]
Verifiable(S) ==
    [candidates |-> InPathOrder(S),
     evidence |-> IF S = {} THEN "none" ELSE "verified"]

\* resolve: the names in scope, then the imports, then the name alone.
Resolve(index, path, enclosing, target) ==
    LET meant(scope, imported, named) ==
            CASE Cardinality(scope \cup imported) = 1
                     /\ {} \in {scope, imported} ->
                   Verifiable(scope \cup imported)
              [] scope \cup imported = {} /\ named = {} -> Verifiable({})
              [] scope \cup imported = {} /\ named # {} -> Inferred(named)
              [] OTHER -> Inferred(scope \cup imported)
    IN  meant(Scope(index, path, enclosing, target),
              Imported(index, path, target),
              DefinitionsNamed(index, target, LanguageOf(index, path)))

-----------------------------------------------------------------------------
(* Edges *)

Edge(record, relation, evidence, line, count) ==
    [record |-> record, relation |-> relation, evidence |-> evidence,
     line |-> line, count |-> count]

\* betterRelatedEdge
Better(e, f) == IF e.evidence # f.evidence THEN e.evidence = "verified"
                ELSE e.line < f.line

\* The first of the best edges of a list.
BestOf(edges) ==
    edges[CHOOSE i \in DOMAIN edges :
              /\ \A j \in DOMAIN edges : ~Better(edges[j], edges[i])
              /\ \A j \in 1 .. i - 1 : Better(edges[i], edges[j])]

\* callerRecord: the definition with the reference's name and range, else the
\* first with its name unless the file's module has it, else a module of its own.
CallerRecord(index, reference, line) ==
    LET module == Shorter(Modules(index, reference.path), 1)
        host(hosts) ==
            IF hosts # <<>> THEN hosts[1]
            ELSE [reference EXCEPT !.kind = "module", !.start = line,
                                   !.end = line, !.entries = <<>>]
        named(same) ==
            host(SelectSeq(same, LAMBDA r : /\ r.start = reference.start
                                            /\ r.end = reference.end)
                 \o SelectSeq(module, LAMBDA r : r.name = reference.name)
                 \o same)
    IN  named(SelectSeq(Definitions(index, reference.path),
                        LAMBDA r : r.name = reference.name))

\* The name uses are written with: a macro is called without its mark.
Written(name) ==
    LET macros == {n \in DOMAIN MacroOf : MacroOf[n] = name /\ n # name}
    IN  IF macros = {} THEN name ELSE CHOOSE n \in macros : TRUE

\* A use as an edge to the anchor, with evidence "none" if it means another.
UseOf(anchor, meant, use) ==
    Edge(anchor, "call",
         IF anchor \in Image(meant.candidates) THEN meant.evidence ELSE "none",
         use.line, use.count)

\* Mutant of UsesOf: the scope a use is written in is forgotten.
UsesOfUnscoped(index, anchor, reference) ==
    LET uses == SelectSeq(reference.entries, LAMBDA e :
                    LastOf(e.name) = Written(LastOf(anchor.name)))
    IN  SelectSeq([i \in DOMAIN uses |-> UseOf(anchor,
            Resolve(index, reference.path, <<>>, uses[i].name), uses[i])],
            LAMBDA e : e.evidence # "none")

\* The uses in a reference that mean the anchor.
UsesOf(index, anchor, reference) ==
    LET uses == SelectSeq(reference.entries, LAMBDA e :
                    LastOf(e.name) = Written(LastOf(anchor.name)))
    IN  SelectSeq([i \in DOMAIN uses |-> UseOf(anchor,
            Resolve(index, reference.path, reference.name, uses[i].name), uses[i])],
            LAMBDA e : e.evidence # "none")

\* callerEdge: the best of them.
CallerEdges(index, anchor, reference) ==
    LET called(best) ==
            <<[best EXCEPT !.record = CallerRecord(index, reference, best.line)]>>
        among(edges) == IF edges = <<>> THEN <<>> ELSE called(BestOf(edges))
    IN  among(UsesOf(index, anchor, reference))

Callers(index, anchor) ==
    LET references == InOrdinalOrder({r \in index : r.kind = "reference"})
    IN  Joined([i \in DOMAIN references |->
                   CallerEdges(index, anchor, references[i])])

\* referenceHostedBy
HostedBy(reference, anchor) ==
    /\ reference.name = anchor.name
    /\ ~Module(anchor) =>
           reference.start = anchor.start /\ reference.end = anchor.end

Callees(index, anchor) ==
    LET meant(reference, e) ==
            Resolve(index, anchor.path, reference.name, e.name)
        edges(m, e) == [i \in DOMAIN m.candidates |->
            Edge(m.candidates[i], "call", m.evidence, e.line, e.count)]
        uses(r) == Joined([j \in DOMAIN r.entries |->
            edges(meant(r, r.entries[j]), r.entries[j])])
        among(hosted) == Joined([i \in DOMAIN hosted |-> uses(hosted[i])])
    IN  among(SelectSeq(References(index, anchor.path),
                        LAMBDA r : HostedBy(r, anchor)))

\* The evidence that an import brings in the anchor, "none" if it does not.
ImporterEvidence(index, anchor, module, import) ==
    LET within(hosts) ==
            IF \E h \in hosts : DirectoryOf[h.path] = DirectoryOf[anchor.path]
            THEN "verified" ELSE "inferred"
        named(meant) ==
            IF /\ import.bound = LastOf(anchor.name)
               /\ anchor \in Image(meant.candidates)
            THEN meant.evidence ELSE "none"
    IN  CASE Module(anchor) ->
               within(ModuleNamed(index, module, anchor.language))
          [] ~Module(anchor) /\ import.bound = "*" -> "inferred"
          [] OTHER ->
               named(Resolve(index, import.path, <<>>, <<import.bound>>))

Importers(index, anchor) ==
    LET among(module) == InOrdinalOrder({r \in index :
            /\ module # "" /\ r.kind = "import" /\ r.module = module
            /\ r.language = anchor.language})
        edge(module, i) == Edge(i, "import",
            ImporterEvidence(index, anchor, module, i), i.start, 1)
        edges(module, imports) ==
            SelectSeq([n \in DOMAIN imports |-> edge(module, imports[n])],
                      LAMBDA e : e.evidence # "none")
        of(module) == edges(module, among(module))
    IN  of(AnchorModule(index, anchor))

\* Mutant of ImportEdges: a neighbouring import is looked for everywhere.
ImportEdgesAnywhere(index, path, import) ==
    LET language == LanguageOf(index, path)
        edges(meant) == [i \in DOMAIN meant.candidates |->
            Edge(meant.candidates[i], "import", meant.evidence, import.start, 1)]
        named(found) ==
            edges(IF Cardinality(found) = 1 THEN Verifiable(found)
                  ELSE IF found # {} THEN Inferred(found)
                  ELSE Verifiable(ModuleNamed(index, import.module, language)))
    IN  named(IF import.bound \in {"*", import.module} THEN {}
              ELSE InModule(DefinitionsNamed(index, <<import.bound>>, language),
                            import.module, ""))

\* imports, for one import of the file: the definition it binds, or the module.
ImportEdges(index, path, import) ==
    LET language == LanguageOf(index, path)
        edges(meant) == [i \in DOMAIN meant.candidates |->
            Edge(meant.candidates[i], "import", meant.evidence, import.start, 1)]
        named(found) ==
            edges(IF Cardinality(found) = 1 THEN Verifiable(found)
                  ELSE IF found # {} THEN Inferred(found)
                  ELSE Verifiable(ModuleNamed(index, import.module, language)))
    IN  named(IF import.bound \in {"*", import.module} THEN {}
              ELSE InModule(DefinitionsNamed(index, <<import.bound>>, language),
                            import.module, ImportDirectory(import)))

ImportsOf(index, anchor) ==
    LET known == SelectSeq(Imports(index, anchor.path), LAMBDA i : i.module # "")
    IN  Joined([i \in DOMAIN known |-> ImportEdges(index, anchor.path, known[i])])

-----------------------------------------------------------------------------
(* The answer *)

EdgesOf(index, anchor, direction) ==
    CASE direction = "callers"   -> Callers(index, anchor)
      [] direction = "callees"   -> Callees(index, anchor)
      [] direction = "importers" -> Importers(index, anchor)
      [] OTHER                   -> ImportsOf(index, anchor)

\* permits: the record and the resolution are both verified, unless asked for.
PermitsEdge(edge, request) ==
    /\ \/ request.inferred
       \/ edge.evidence = "verified" /\ edge.record.evidence = "verified"
    /\ MatchesPrefix(request.prefixes, edge.record.path)
    /\ MatchesOne(request.languages, edge.record.language)
    /\ MatchesOne(request.kinds, edge.record.kind)
    /\ MatchesOne(request.sources, edge.record.source)

EdgePlace(edge) ==
    LET r == edge.record
    IN  <<IF edge.evidence = "verified" THEN 0 ELSE 1, KindClass(r.kind),
          EvidenceTier(r.evidence), Rank(Lower[r.path]), r.start, Rank(r.kind),
          Rank(r.identity)>>

\* relatedCollector: a record is ranked with its first edge, and reported with
\* its best; the reported ones are put in order again.
Collected(edges, request) ==
    LET sorted(set) == Sorted(set, LAMBDA e, f : LexLess(EdgePlace(e), EdgePlace(f)))
        firsts(permitted) ==
            {permitted[i] : i \in {j \in DOMAIN permitted : \A k \in 1 .. j - 1 :
                permitted[k].record.identity # permitted[j].record.identity}}
        best(e, permitted) ==
            [BestOf(SelectSeq(permitted, LAMBDA f :
                 f.record.identity = e.record.identity)) EXCEPT !.record = e.record]
        answer(permitted, ranked) ==
            [findings |-> sorted({best(e, permitted) :
                             e \in Image(Shorter(ranked, request.maximum))}),
             omitted  |-> Bigger(0, Len(ranked) - request.maximum),
             unknown  |-> FALSE]
        among(permitted) == answer(permitted, sorted(firsts(permitted)))
    IN  among(SelectSeq(edges, LAMBDA e : PermitsEdge(e, request)))

Relate(index, identities, direction, request) ==
    LET anchor(i) == CHOOSE r \in index : r.identity = identities[i]
        usable(i) == \E r \in index :
                         r.identity = identities[i] /\ RelationshipAnchor(r)
    IN  IF \A i \in DOMAIN identities : usable(i)
        THEN Collected(Joined([i \in DOMAIN identities |->
                           EdgesOf(index, anchor(i), direction)]), request)
        ELSE [findings |-> <<>>, omitted |-> 0, unknown |-> TRUE]

-----------------------------------------------------------------------------
(* The two ends of an edge *)

\* The edges of some records, as <<identity, other end, evidence, line, count>>.
Ends(index, anchors, direction, request) ==
    UNION {{<<a.identity, e.record.identity, e.evidence, e.line, e.count>> :
               e \in Image(Relate(index, <<a.identity>>, direction,
                                  request).findings)} : a \in anchors}

\* A call is reported alike from both its ends: B is a callee of A exactly when A
\* is a caller of B, with the same evidence, line and count, however the two
\* directions walk the index.
CallersMirrorCallees(index, request) ==
    LET anchors == {r \in index : RelationshipAnchor(r)}
        names   == {a.identity : a \in anchors}
        agree(ends) ==
            {<<e[2], e[1], e[3], e[4], e[5]>> :
                e \in {c \in ends["callers"] : c[2] \in names}} = ends["callees"]
    IN  agree([d \in {"callers", "callees"} |-> Ends(index, anchors, d, request)])

\* An import has the same evidence whichever direction it is asked from, for a
\* name that nothing in its own module defines, no other import binds, and that
\* is not the module's own.
ImportsMirrorImporters(index, request) ==
    LET imports == {i \in index : /\ i.kind = "import"
                                  /\ i.bound \notin {"*", i.module}}
        free == {i \in imports :
                    /\ Scope(index, i.path, <<>>, <<i.bound>>) = {}
                    /\ \A j \in imports \ {i} : j.path = i.path => j.bound # i.bound}
        defined(i) == {r \in index : DefinitionRecord(r) /\ LastOf(r.name) = i.bound}
        from(i) == {r \in index : r.path = i.path /\ RelationshipAnchor(r)}
        names(S) == {r.identity : r \in S}
        ends(i) == [d \in {"imports", "importers"} |->
            Ends(index, IF d = "imports" THEN from(i) ELSE defined(i), d, request)]
        agree(i, e) == \A a \in from(i) :
            {<<n[2], n[3]>> : n \in {m \in e["imports"] :
                m[1] = a.identity /\ m[2] \in names(defined(i))}}
            = {<<n[1], n[3]>> : n \in {m \in e["importers"] : m[2] = i.identity}}
    IN  \A i \in free : agree(i, ends(i))

=============================================================================
