---------------------------- MODULE MCIndexFormat ----------------------------
(* Small indexes for IndexFormat, and the files they may be changed into. *)
EXTENDS IndexFormat

SomeAlphabet == <<"", ".", "A.go", "Load", "Loan", "Reload", "a", "a.go", "b", "b.go",
    "definition", "docs", "document", "entrypoint", "evidence", "f", "go",
    "heading", "i1", "i2", "i3", "import", "inferred", "kind", "language",
    "lo", "load", "load!", "loaf", "loan", "module", "oan", "operation", "q", "reference",
    "reload", "s", "source", "symbols", "t", "verified", "x", "x.Load",
    "x.go", "x.load">>

SomeTexts == {SomeAlphabet[i] : i \in DOMAIN SomeAlphabet}
SomeLower == [t \in SomeTexts |->
    CASE t = "A.go" -> "a.go" [] t = "Load" -> "load" [] t = "Loan" -> "loan"
      [] t = "Reload" -> "reload" [] t = "x.Load" -> "x.load" [] OTHER -> t]
SomeTokens == [n \in SomeTexts |->
    CASE n \in {"x.Load", "x.load"} -> {"x", "load"}
      [] n \in {"A.go", "a.go"} -> {"a", "go"}
      [] n = "b.go" -> {"b", "go"} [] n = "x.go" -> {"x", "go"}
      [] n = "load!" -> {"load"} [] n \in {"", "."} -> {}
      [] OTHER -> {SomeLower[n]}]
SomeShortName == [n \in SomeTexts |->
    CASE n \in {"x.Load", "x.load"} -> "load" [] n = "." -> ""
      [] n \in {"A.go", "a.go", "b.go", "x.go"} -> "go" [] OTHER -> SomeLower[n]]
SomeLength == [t \in SomeTexts |->
    CASE t = "x.load" -> 6 [] t \in {"A.go", "a.go", "b.go"} -> 4 [] OTHER -> 3]

Record(id, path, start, kind, source, name, evidence, terms) ==
    [identity |-> id, path |-> path, start |-> start, end |-> start,
     language |-> "go", kind |-> kind, source |-> source, name |-> name,
     evidence |-> evidence, terms |-> terms,
     count |-> IF kind = "reference" THEN 1 ELSE 0]

RecordsNamed(id) ==
    {Record(id, p, 1, k, "source", "x.Load", "verified", <<"x", "x.load">>) :
        p \in {"A.go", "a.go", "b.go"},
        k \in {"definition", "entrypoint", "reference"}}
      \cup {Record(id, "a.go", 2, "heading", "document", "Load", "inferred",
                   <<>>),
            Record(id, "b.go", 1, "definition", "source", "Load", "inferred",
                   <<"load">>)}

FewRecordsNamed(id) ==
    {Record(id, r[1], 1, r[2], "source", r[3], "verified", r[4]) :
        r \in {<<"b.go", "entrypoint", "x.Load", <<"x">>>>,
               <<"a.go", "reference", "Load", <<"x.load">>>>,
               <<"A.go", "definition", "Load", <<"x.load">>>>,
               <<"a.go", "entrypoint", "x.Load", <<>>>>}}

SomeCatalogue ==
    [paths |-> <<"A.go", "a.go">>, exclusions |-> <<"b.go">>,
     warnings |-> <<"a.go">>, bytes |-> 9]

Verified(id, path, kind, name, terms) ==
    Record(id, path, 1, kind, "source", name, "verified", terms)
SomeInputs ==
    {<<Verified("i1", "a.go", "definition", "Load", <<"load">>),
       Verified("i2", "A.go", k, "x.Load", <<"load", "x">>),
       Verified("i3", "b.go", "reference", "Load", <<"x">>)>> :
       k \in {"entrypoint", "reference"}}

Without(s, i) == [j \in 1 .. Len(s) - 1 |-> IF j < i THEN s[j] ELSE s[j + 1]]
Lists(S) == {<<x>> : x \in S} \cup {<<x, y>> : x \in S, y \in S}

\* One section of a file is changed.
Changed(f) ==
    {[f EXCEPT !.version = 3], [f EXCEPT !.partial = ~@]}
    \cup {[f EXCEPT !.records = Without(@, i)] : i \in DOMAIN f.records}
    \cup {[f EXCEPT !.records[i].terms = t] : i \in DOMAIN f.records,
             t \in {<<>>, <<"x">>, <<"x", "load">>, <<"load", "x">>}}
    \cup {[f EXCEPT !.records[i].identity = d] : i \in DOMAIN f.records,
             d \in {"i1", "i2", "i3"}}
    \cup {[f EXCEPT !.postings = Without(@, i)] : i \in DOMAIN f.postings}
    \cup {[f EXCEPT !.postings[i].ordinals = o] : i \in DOMAIN f.postings,
             o \in {<<>>} \cup Lists(1 .. 4)}
    \cup {[f EXCEPT !.queries = Without(@, i)] : i \in DOMAIN f.queries}
    \cup {[f EXCEPT !.queries[i] = [key |-> @.key, count |-> c, runs |-> r]] :
             i \in {j \in DOMAIN f.queries : f.queries[j].count > 1},
             c \in 1 .. 3, r \in Lists((1 .. 3) \X (0 .. 3))}
    \cup {[f EXCEPT !.byPath = p] : p \in [DOMAIN f.records -> 1 .. 4]}
    \cup {[f EXCEPT !.groups = Without(@, i)] : i \in DOMAIN f.groups}
    \cup {[f EXCEPT !.groups[i].ordinals = <<o>>] :
             i \in DOMAIN f.groups, o \in 1 .. 4}
    \cup {[f EXCEPT !.catalogue.exclusions = e] :
             e \in {<<"a.go">>, <<"b.go", "A.go">>}}

\* What is asked about has the types the readers rely on.
ASSUME SomeFilesAssumption ==
    /\ RecordsNamed("i1") \cup RecordsNamed("i2") \cup FewRecordsNamed("i3")
          \subseteq Records
    /\ SomeCatalogue \in Catalogs
    /\ \A of \in SomeInputs :
          Changed(Encode(of, SomeCatalogue)) \subseteq IndexFiles

==============================================================================
