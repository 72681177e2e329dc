----------------------------- MODULE IndexFormat -----------------------------
(***************************************************************************)
(* The index file (internal/store: format.go, query_index.go): the records, *)
(* and the sections an encoder derives from them. Two readers check a file: *)
(* the decoder derives the sections again and compares; the raw validator   *)
(* reads the bytes, counts, and derives only the map groups, with its own   *)
(* copy of the orders. What was just encoded is published without being     *)
(* read back, so encoder and readers must agree for every input.            *)
(*                                                                         *)
(* Texts have a place in Alphabet (the byte order), a length, and a lower   *)
(* case. How a name splits into tokens is given. Ordinals count from 1. The *)
(* length prefixes of strings and sections are left out: a section is a     *)
(* sequence. Compression and the ceilings on bytes are left out.            *)
(***************************************************************************)
EXTENDS Naturals, Sequences, FiniteSetsExt

CONSTANTS Alphabet,      \* every text, in byte order
          Lower,         \* NormalizeQueryText: texts -> texts
          Tokens,        \* QueryTokens: texts -> sets of texts
          ShortName,     \* QueryShortName: texts -> texts
          Dotted,        \* the texts that hold a dot
          Length,        \* texts -> bytes
          MaximumGroups  \* policy: MaximumLexicalCandidates

Image(s) == {s[i] : i \in DOMAIN s}

Strings == Image(Alphabet)

\* The texts that keys are made of, besides those of a record.
KeyTexts == {"", "s", "q", "t", "f", "kind", "language", "source", "evidence",
             "operation", "symbols", "docs", "reference"}

ASSUME AlphabetAssumption ==
    /\ Alphabet \in Seq(Strings)
    /\ \A i, j \in DOMAIN Alphabet : Alphabet[i] = Alphabet[j] => i = j

\* The functions on texts are total, and have texts as values.
ASSUME TextsAssumption ==
    /\ KeyTexts \subseteq Strings
    /\ Lower \in [Strings -> Strings] /\ ShortName \in [Strings -> Strings]
    /\ Tokens \in [Strings -> SUBSET Strings]
    /\ Length \in [Strings -> Nat]
    /\ MaximumGroups \in Nat

Ranks   == [t \in Strings |-> CHOOSE i \in DOMAIN Alphabet : Alphabet[i] = t]
Rank(t) == Ranks[t]

LexLess(a, b) ==
    \E i \in DOMAIN a : a[i] < b[i] /\ \A j \in 1 .. i - 1 : a[j] = b[j]

Increasing(s, Less(_, _)) == \A i \in 1 .. Len(s) - 1 : Less(s[i], s[i + 1])

\* A set as a sequence, in the order of a set of pairs.
InOrder(S, before) ==
    LET place == {<<Cardinality({v \in S : <<v, w>> \in before}) + 1, w>> :
                     w \in S}
    IN  [n \in 1 .. Cardinality(S) |-> (CHOOSE p \in place : p[1] = n)[2]]

Sorted(S, Less(_, _)) == InOrder(S, {p \in S \X S : Less(p[1], p[2])})

TextLess(a, b) == Rank(a) < Rank(b)
NatLess(m, n)  == m < n
IdentityLess(a, b) == TextLess(a.identity, b.identity)
TermLess(a, b)     == TextLess(a.term, b.term)

Total(S, F(_)) == SumFunctionOnSet([x \in S |-> F(x)], S)

-----------------------------------------------------------------------------
(* What is derived from the records *)

\* model.Record, as far as the format and the queries need it.
Records ==
    [identity : Strings, path : Strings, start : Nat, end : Nat,
     language : Strings, kind : Strings, source : Strings, name : Strings,
     evidence : Strings, terms : Seq(Strings), count : Nat]

Structural(r) == r.kind # "reference"

Symbol(r) == /\ Structural(r) /\ r.source # "document"
             /\ r.kind \notin {"heading", "document-chunk"}

\* The keys a record is found by. A key is <<prefix, facet, value>>.
ShortKeys(names) ==
    {<<"s", "", ShortName[n]>> : n \in {m \in names : ShortName[m] # ""}}

ReferenceKeys(r) ==
    {<<"q", "", Lower[t]>> : t \in {u \in Image(r.terms) : Lower[u] \in Dotted}}
        \cup ShortKeys(Image(r.terms)) \cup {<<"f", "kind", "reference">>}

FacetKeys(r) ==
    {<<"f", "language", r.language>>, <<"f", "kind", r.kind>>,
     <<"f", "source", r.source>>, <<"f", "evidence", r.evidence>>,
     <<"f", "operation", IF Symbol(r) THEN "symbols" ELSE "docs">>}

Keys(r) ==
    IF ~Structural(r) THEN ReferenceKeys(r)
    ELSE {<<"q", "", Lower[r.name]>>} \cup ShortKeys({r.name})
             \cup {<<"t", "", Lower[t]>> :
                      t \in {r.name} \cup Tokens[r.name] \cup Image(r.terms)}
             \cup FacetKeys(r)

KeyLess(k, l) == \E i \in 1 .. 3 : /\ Rank(k[i]) < Rank(l[i])
                                  /\ \A j \in 1 .. i - 1 : k[j] = l[j]

QueryLess(a, b) == KeyLess(a.key, b.key)

\* compareCanonicalPathOrdinal
PathOrder(r) == <<Rank(Lower[r.path]), Rank(r.path), r.start, Rank(r.kind),
                  Rank(Lower[r.name]), Rank(r.identity)>>

EvidenceTier(e) == CASE e = "verified" -> 0 [] e = "inferred" -> 1 [] OTHER -> 2
SourceTier(s) == CASE s = "source" -> 0 [] s = "document" -> 1 [] OTHER -> 2

MapKindTier(k) ==
    CASE k = "module"                        -> 0
      [] k \in {"definition", "entrypoint"}  -> 1
      [] k = "heading"                       -> 2
      [] k = "configuration"                 -> 3
      [] k = "document-chunk"                -> 4
      [] k = "import"                        -> 5
      [] OTHER                               -> 6

\* compareCanonicalMapRepresentative
Preference(r) == <<EvidenceTier(r.evidence), SourceTier(r.source),
                   MapKindTier(r.kind), r.start, Rank(Lower[r.name]),
                   Rank(r.identity)>>

\* The ordinals of S in the order of what Order makes of their records.
Earlier(S, records, Order(_)) ==
    {p \in S \X S : LexLess(Order(records[p[1]]), Order(records[p[2]]))}

\* byPath: all ordinals in path order.
ByPath(records) ==
    InOrder(DOMAIN records, Earlier(DOMAIN records, records, PathOrder))

\* One group for each path that has a structural record, in the order of the
\* paths, up to the maximum.
Groups(records, Order(_), Prefer(_)) ==
    LET of(p)  == {i \in DOMAIN records :
                      records[i].path = p /\ Structural(records[i])}
        first(S, Value(_)) ==
            CHOOSE i \in S : \A j \in S \ {i} :
                LexLess(Value(records[i]), Value(records[j]))
        \* The first structural record of each path.
        heads  == {i \in DOMAIN records : Structural(records[i])
                                          /\ i = first(of(records[i].path), Order)}
        groups(sorted) ==
            [groups  |-> [n \in 1 .. IF Len(sorted) > MaximumGroups
                                     THEN MaximumGroups ELSE Len(sorted) |->
                             [path |-> records[sorted[n]].path,
                              ordinals |-> <<first(of(records[sorted[n]].path),
                                                   Prefer)>>]],
             partial |-> Len(sorted) > MaximumGroups]
    IN  groups(InOrder(heads, Earlier(heads, records, Order)))

MapGroups(records) == Groups(records, PathOrder, Preference)

RunLess(a, b)  == a[1] < b[1]
Separate(a, b) == a[1] + a[2] < b[1]

\* A set of ordinals as runs <<start, length>>.
Runs(S) ==
    LET starts == {o \in S : o - 1 \notin S}
        end(o) == CHOOSE e \in S : /\ e >= o /\ e + 1 \notin S
                                   /\ o .. e \subseteq S
        runs   == {<<o, end(o) - o + 1>> : o \in starts}
    IN  Sorted(runs, RunLess)

KeysOf(records)   == [i \in DOMAIN records |-> Keys(records[i])]
AllKeys(records)  == UNION {Keys(records[i]) : i \in DOMAIN records}
AllTerms(records) == UNION {Image(records[i].terms) : i \in DOMAIN records}

-----------------------------------------------------------------------------
(* The encoder *)

\* validRecord: what does not concern the size or the characters of a text.
ValidRecord(r) ==
    /\ r.start >= 1 /\ r.end >= r.start
    /\ (r.kind = "reference") = (r.count >= 1)

Encodable(input) ==
    /\ \A i \in DOMAIN input :
          /\ ValidRecord(input[i])
          /\ \A j, k \in DOMAIN input[i].terms :
                input[i].terms[j] = input[i].terms[k] => j = k
    /\ \A i, j \in DOMAIN input :
          input[i].identity = input[j].identity => i = j

\* The records in the order of their identities, the terms of each in order.
Canonical(input) ==
    LET sorted == Sorted(Image(input), IdentityLess)
    IN  [i \in DOMAIN sorted |->
            [sorted[i] EXCEPT !.terms = Sorted(Image(@), TextLess)]]

Postings(records) ==
    LET terms == Sorted(AllTerms(records), TextLess)
    IN  [i \in DOMAIN terms |-> [term |-> terms[i], ordinals |->
            Sorted({o \in DOMAIN records : terms[i] \in Image(records[o].terms)},
                   NatLess)]]

Queries(records) ==
    LET keys   == Sorted(AllKeys(records), KeyLess)
        keysOf == KeysOf(records)
    IN  [i \in DOMAIN keys |->
            LET found == {o \in DOMAIN records : keys[i] \in keysOf[o]}
            IN  [key |-> keys[i], count |-> Cardinality(found),
                 runs |-> Runs(found)]]

\* The sections of a file as they are read, before anything is compared.
Catalogs ==
    [paths : Seq(Strings), exclusions : Seq(Strings), warnings : Seq(Strings),
     bytes : Nat]

IndexFiles ==
    [version : Nat, records : Seq(Records),
     postings : Seq([term : Strings, ordinals : Seq(Nat)]),
     queries : Seq([key : Strings \X Strings \X Strings, count : Nat,
                    runs : Seq((Nat \ {0}) \X Nat)]),
     byPath : Seq(Nat), groups : Seq([path : Strings, ordinals : Seq(Nat)]),
     partial : BOOLEAN, catalogue : Catalogs]

\* encodeIndex, for input that is Encodable.
Encode(input, catalogue) ==
    LET records == Canonical(input)
        map     == MapGroups(records)
    IN  [version |-> 4, records |-> records, postings |-> Postings(records),
         queries |-> Queries(records), byPath |-> ByPath(records),
         groups |-> map.groups, partial |-> map.partial,
         catalogue |-> catalogue]

KeySize(k) == 13 + (IF k[1] = "f" THEN Length[k[2]] + 1 ELSE 0) + Length[k[3]]

\* preflightEncodeIndexCatalogContext: bytes foreseen. It keeps the smallest
\* paths, as many as there may be groups, and counts every ordinal as a run.
SmallestPaths(records) ==
    LET paths == {records[i].path : i \in DOMAIN records}
    IN  {p \in paths :
            Cardinality({q \in paths : TextLess(q, p)}) < MaximumGroups}

RecordSize(r) ==
    16 + Total({"identity", "path", "language", "kind", "source", "name",
                "evidence"}, LAMBDA field : 4 + Length[r[field]])
       + Total(Image(r.terms), LAMBDA t : 4 + Length[t])

\* Mutant of Foreseen: the count of a posting is forgotten.
ForeseenWithoutCounts(records, catalogue) ==
    22 + 16 + catalogue.bytes + 4 * Len(records)
       + Total(DOMAIN records, LAMBDA i : RecordSize(records[i])
                   + 4 * Len(records[i].terms) + 8 * Cardinality(Keys(records[i])))
       + Total(AllTerms(records), LAMBDA t : 4 + Length[t])
       + Total(AllKeys(records), LAMBDA k : 4 + KeySize(k))
       + Total(SmallestPaths(records), LAMBDA p : 12 + Length[p])

Foreseen(records, catalogue) ==
    22 + 16 + catalogue.bytes + 4 * Len(records)
       + Total(DOMAIN records, LAMBDA i : RecordSize(records[i])
                   + 4 * Len(records[i].terms) + 8 * Cardinality(Keys(records[i])))
       + Total(AllTerms(records), LAMBDA t : 8 + Length[t])
       + Total(AllKeys(records), LAMBDA k : 12 + KeySize(k))
       + Total(SmallestPaths(records), LAMBDA p : 12 + Length[p])

\* Bytes written for a file: four for a number, as many more for a text.
Size(file) ==
    LET of(s, F(_)) == 4 + Total(DOMAIN s, LAMBDA i : F(s[i]))
    IN  10 + of(file.records, RecordSize)
           + of(file.postings, LAMBDA p :
                    8 + Length[p.term] + 4 * Len(p.ordinals))
           + of(file.queries, LAMBDA q : 12 + KeySize(q.key) + 8 * Len(q.runs))
           + of(file.byPath, LAMBDA o : 4)
           + of(file.groups, LAMBDA g :
                    8 + Length[g.path] + 4 * Len(g.ordinals))
           + 8 + file.catalogue.bytes

-----------------------------------------------------------------------------
(* The decoder *)

\* readRecord, and the order of the records.
RecordsRead(records) ==
    /\ Increasing(records, IdentityLess)
    /\ \A i \in DOMAIN records :
          ValidRecord(records[i]) /\ Increasing(records[i].terms, TextLess)

OrdinalsHold(ordinals, records, P(_)) ==
    /\ ordinals # <<>>
    /\ Increasing(ordinals, NatLess)
    /\ \A i \in DOMAIN ordinals :
          ordinals[i] \in DOMAIN records /\ P(records[ordinals[i]])

\* Every posting is sound, and there are as many ordinals as terms.
PostingsRead(file) ==
    /\ Increasing(file.postings, TermLess)
    /\ \A i \in DOMAIN file.postings :
          OrdinalsHold(file.postings[i].ordinals, file.records,
              LAMBDA r : file.postings[i].term \in Image(r.terms))
    /\ Total(DOMAIN file.postings, LAMBDA i : Len(file.postings[i].ordinals))
          = Total(DOMAIN file.records, LAMBDA i : Len(file.records[i].terms))

\* Mutant of RunsRead: two runs may touch.
RunsReadTouching(query, records) ==
    /\ query.count # 0 /\ query.count <= Len(records)
    /\ query.runs # <<>> /\ Len(query.runs) <= query.count
    /\ \A i \in DOMAIN query.runs :
          /\ query.runs[i][2] # 0
          /\ query.runs[i][1] + query.runs[i][2] - 1 <= Len(records)
    /\ Increasing(query.runs, LAMBDA a, b : a[1] + a[2] <= b[1])
    /\ Total(DOMAIN query.runs, LAMBDA i : query.runs[i][2]) = query.count

\* Runs do not touch, stay within the records and make up the count.
RunsRead(query, records) ==
    /\ query.count # 0 /\ query.count <= Len(records)
    /\ query.runs # <<>> /\ Len(query.runs) <= query.count
    /\ \A i \in DOMAIN query.runs :
          /\ query.runs[i][2] # 0
          /\ query.runs[i][1] + query.runs[i][2] - 1 <= Len(records)
    /\ Increasing(query.runs, Separate)
    /\ Total(DOMAIN query.runs, LAMBDA i : query.runs[i][2]) = query.count

RunOrdinals(query) ==
    UNION {r[1] .. r[1] + r[2] - 1 : r \in Image(query.runs)}

\* The query section is compared with the one derived from the records.
QueriesRead(file) ==
    LET keysOf == KeysOf(file.records)
    IN  /\ Len(file.queries) = Cardinality(AllKeys(file.records))
        /\ Increasing(file.queries, QueryLess)
        /\ \A i \in DOMAIN file.queries :
              /\ file.queries[i].key \in AllKeys(file.records)
              /\ RunsRead(file.queries[i], file.records)
              /\ RunOrdinals(file.queries[i]) =
                    {o \in DOMAIN keysOf : file.queries[i].key \in keysOf[o]}

\* So are the path order and the map.
MapRead(file) ==
    LET map == MapGroups(file.records)
    IN  /\ file.byPath = ByPath(file.records)
        /\ file.groups = map.groups /\ file.partial = map.partial

\* preflightSourceCatalog: strictly ordered lists, warnings only about indexed
\* paths, no path both indexed and excluded.
CatalogueRead(catalogue) ==
    /\ \A s \in {catalogue.paths, catalogue.exclusions, catalogue.warnings} :
          Increasing(s, TextLess)
    /\ Image(catalogue.warnings) \subseteq Image(catalogue.paths)
    /\ Image(catalogue.paths) \cap Image(catalogue.exclusions) = {}

Decodes(file) ==
    /\ file.version = 4
    /\ RecordsRead(file.records) /\ PostingsRead(file) /\ QueriesRead(file)
    /\ MapRead(file) /\ CatalogueRead(file.catalogue)

-----------------------------------------------------------------------------
(* The raw validator *)

\* rawComparePathOrdinal
RawPathOrder(r) == <<Rank(Lower[r.path]), Rank(r.path), r.start, Rank(r.kind),
                     Rank(Lower[r.name]), Rank(r.identity)>>

\* Mutant of RawKindTier: an entry point is not a definition.
RawKindTierApart(k) ==
    CASE k = "module"           -> 0
      [] k = "definition"       -> 1
      [] k = "heading"          -> 2
      [] k = "configuration"    -> 3
      [] k = "document-chunk"   -> 4
      [] k = "import"           -> 5
      [] OTHER                  -> 6

RawKindTier(k) ==
    CASE k = "module"                        -> 0
      [] k \in {"definition", "entrypoint"}  -> 1
      [] k = "heading"                       -> 2
      [] k = "configuration"                 -> 3
      [] k = "document-chunk"                -> 4
      [] k = "import"                        -> 5
      [] OTHER                               -> 6

\* rawCompareMapRepresentative
RawPreference(r) == <<EvidenceTier(r.evidence), SourceTier(r.source),
                      RawKindTier(r.kind), r.start, Rank(Lower[r.name]),
                      Rank(r.identity)>>

RawRecordsRead(records) ==
    \A i \in DOMAIN records :
        /\ i > 1 => TextLess(records[i - 1].identity, records[i].identity)
        /\ ValidRecord(records[i])
        /\ Increasing(records[i].terms, TextLess)

RawPostingsRead(file) ==
    /\ \A i \in DOMAIN file.postings :
          /\ i > 1 => TextLess(file.postings[i - 1].term, file.postings[i].term)
          /\ OrdinalsHold(file.postings[i].ordinals, file.records,
                 LAMBDA r : file.postings[i].term \in Image(r.terms))
    /\ Total(DOMAIN file.postings, LAMBDA i : Len(file.postings[i].ordinals))
          = Total(DOMAIN file.records, LAMBDA i : Len(file.records[i].terms))

\* Mutant of RawQueriesRead: the totals are not compared.
RawQueriesReadUncounted(file) ==
    LET keysOf == KeysOf(file.records)
    IN  /\ Increasing(file.queries, QueryLess)
        /\ \A i \in DOMAIN file.queries :
              /\ RunsRead(file.queries[i], file.records)
              /\ \A o \in RunOrdinals(file.queries[i]) :
                    file.queries[i].key \in keysOf[o]

\* Nothing is derived: every ordinal has the key, and none is missing in all.
RawQueriesRead(file) ==
    LET keysOf == KeysOf(file.records)
    IN  /\ Increasing(file.queries, QueryLess)
        /\ \A i \in DOMAIN file.queries :
              /\ RunsRead(file.queries[i], file.records)
              /\ \A o \in RunOrdinals(file.queries[i]) :
                    file.queries[i].key \in keysOf[o]
        /\ Total(DOMAIN file.queries, LAMBDA i : file.queries[i].count)
              = Total(DOMAIN keysOf, LAMBDA i : Cardinality(keysOf[i]))

RawMapGroups(records) == Groups(records, RawPathOrder, RawPreference)

\* The path order is checked pair by pair, the groups are derived.
RawMapRead(file) ==
    LET map == RawMapGroups(file.records)
    IN  /\ Len(file.byPath) = Len(file.records)
        /\ Image(file.byPath) = DOMAIN file.records
        /\ Increasing(file.byPath, LAMBDA m, n :
               LexLess(RawPathOrder(file.records[m]),
                       RawPathOrder(file.records[n])))
        /\ file.groups = map.groups /\ file.partial = map.partial

Validates(file) ==
    /\ file.version = 4
    /\ RawRecordsRead(file.records) /\ RawPostingsRead(file)
    /\ RawQueriesRead(file) /\ RawMapRead(file)
    /\ CatalogueRead(file.catalogue)

-----------------------------------------------------------------------------
(* The index in memory *)

\* Mutant of Published: the records stay in the order they were extracted in.
PublishedUnsorted(input) == input

\* update: the records in the order of their identities; the extractor has put
\* the terms of each in order.
Published(input) == Sorted(Image(input), IdentityLess)

Snapshot(records, postings, queries, byPath, groups, partial) ==
    [records |-> records, postings |-> postings, queries |-> queries,
     byPath |-> byPath, groups |-> groups, partial |-> partial]

\* materializeInputSnapshot: what an update keeps, made from its records.
Materialized(records) ==
    LET keysOf == KeysOf(records)
        map    == MapGroups(records)
    IN  Snapshot(records,
            [t \in AllTerms(records) |->
                Sorted({o \in DOMAIN records : t \in Image(records[o].terms)},
                       NatLess)],
            [k \in AllKeys(records) |-> {o \in DOMAIN keysOf : k \in keysOf[o]}],
            ByPath(records), map.groups, map.partial)

\* What a reader makes of the file that was published.
Loaded(file) ==
    LET posting(t) == CHOOSE p \in Image(file.postings) : p.term = t
        query(k)   == CHOOSE q \in Image(file.queries) : q.key = k
    IN  Snapshot(file.records,
            [t \in {p.term : p \in Image(file.postings)} |-> posting(t).ordinals],
            [k \in {q.key : q \in Image(file.queries)} |->
                RunOrdinals(query(k))],
            file.byPath, file.groups, file.partial)

-----------------------------------------------------------------------------
(* What must hold of every input and of every file *)

\* Both readers accept what the encoder writes, which nobody reads back before
\* it is published: a copy of an order that differs in one tie would make every
\* load of the index fail as corrupt.
WrittenIsRead(input, catalogue) ==
    Encodable(input) /\ CatalogueRead(catalogue) =>
        LET read(file) == Decodes(file) /\ Validates(file)
        IN  read(Encode(input, catalogue))

\* The size computed before anything is allocated is enough, or the build of a
\* sound inventory fails. Beyond the maximum of groups the code keeps the
\* smallest paths in byte order, and the map the first ones in lower case; only
\* what runs save covers the difference, so the claim ends at the maximum.
SizeIsForeseen(input, catalogue) ==
    LET records == Canonical(input)
    IN  (Encodable(input)
         /\ Cardinality({r.path : r \in Image(input)}) <= MaximumGroups) =>
            Size(Encode(input, catalogue)) <= Foreseen(records, catalogue)

\* The validator that only counts and the decoder that derives everything again
\* accept the same files.
ReadersAgree(file) == Validates(file) <=> Decodes(file)

\* An index has one file: what a reader accepts is byte for byte what the
\* encoder writes for its records, so equal indexes have equal identities.
OneFilePerIndex(file) ==
    Decodes(file) => file = Encode(file.records, file.catalogue)

\* A process that has just updated the index and one that loads it answer from
\* the same snapshot: ordinals, postings and map are the same in both.
MemoryIsDisk(input, catalogue) ==
    (Encodable(input)
     /\ \A i \in DOMAIN input : Increasing(input[i].terms, TextLess)) =>
        Materialized(Published(input)) = Loaded(Encode(input, catalogue))

=============================================================================
