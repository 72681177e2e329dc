----------------------------- MODULE MCRelated -----------------------------
(* Small indexes in which one function uses a name that much else may bear. *)
EXTENDS Related, MCOverview

SomeDirectory == [p \in {"A.go", "a.go", "b.go", "x.go"} |->
    IF p = "b.go" THEN "" ELSE "a"]
SomeMacroOf == [n \in {"load", "load!", "lo", "x", "b", "s"} |->
    IF n = "load" THEN "load!" ELSE n]

Item(id, path, kind, name, start) ==
    [identity |-> id, path |-> path, kind |-> kind, name |-> name,
     start |-> start, end |-> start, language |-> "go", source |-> "source",
     evidence |-> "verified", entries |-> <<>>,
     module |-> "", bound |-> "", neighbour |-> FALSE]

Caller == Item("i1", "a.go", "definition", <<"x", "lo">>, 3)
Package == Item("s", "a.go", "module", <<"x">>, 1)

Uses == {<<[name |-> n, line |-> 5, count |-> 1]>> :
             n \in {<<"load">>, <<"lo", "load">>, <<"b", "load">>}}
    \cup {<<[name |-> <<"b", "load">>, line |-> 5, count |-> 2],
            [name |-> <<"load">>, line |-> 4, count |-> 1]>>}

\* The uses in the function, or in its module.
UsedIn(host, uses) ==
    [host EXCEPT !.identity = "q", !.kind = "reference", !.entries = uses]

NamedItems ==
    {Item("i2", "a.go", "definition", <<"x", "load">>, 6),
     Item("i3", "x.go", "definition", <<"x", "load">>, 1),
     Item("a", "a.go", "definition", <<"x", "lo", "load">>, 4),
     Item("b", "a.go", "definition", <<"x", "s", "load">>, 7),
     Item("x", "b.go", "definition", <<"b", "load">>, 1),
     Item("t", "A.go", "definition", <<"b", "load">>, 1),
     Item("lo", "b.go", "entrypoint", <<"load">>, 2),
     Item("f", "x.go", "definition", <<"x", "load!">>, 2)}

Import(id, bound, neighbour) ==
    [Item(id, "a.go", "import", <<"x", bound>>, 2) EXCEPT
        !.module = "b", !.bound = bound, !.neighbour = neighbour]

Surroundings ==
    {d \cup i \cup p : d \in {e \in SUBSET NamedItems : Cardinality(e) <= 2},
        p \in {{}, {Package}},
        i \in {{}, {Import("go", "load", FALSE)}, {Import("go", "load", TRUE)},
               {Import("go", "*", FALSE)}, {Import("go", "b", FALSE)},
               {Import("go", "load", FALSE), Import("kind", "*", FALSE)}}}

RelatedQuestions(others) ==
    {[kind |-> "related", index |-> others \cup {Caller, UsedIn(h, u)}] :
        h \in {Caller, Package}, u \in Uses}
=============================================================================
