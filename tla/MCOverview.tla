----------------------------- MODULE MCOverview -----------------------------
(* Small trees of files for the table, and paths for the walk. *)
EXTENDS Overview, MCSearch

SomeSegments == [p \in {"A.go", "a.go", "b.go", "a", "x"} |->
    CASE p = "a.go" -> <<"a", "a.go">>
      [] p = "A.go" -> <<"a", "x", "A.go">>
      [] p = "b.go" -> <<"b.go">>
      [] p = "a"    -> <<".", "a">>
      [] OTHER      -> <<"x">>]

TwoFifths == <<2, 5>>

\* How many files lie directly in each directory.
Bounded(counts) == {t \in [DOMAIN counts -> 0 .. 4] :
                       \A d \in DOMAIN counts : t[d] <= counts[d]}
Trees ==
    [{<<"a">>, <<"a", "x">>, <<"b">>, <<"b", "x">>} -> 0 .. 3]
    \cup Bounded([d \in {<<>>, <<"a", "x">>, <<"a", "x", "b">>, <<"b">>} |->
        CASE d = <<"a", "x">> -> 2 [] d = <<"a", "x", "b">> -> 4 [] OTHER -> 1])

\* Their files: the last directories have entry points, some have documents.
FilesOf(tree, entries) ==
    LET places == {p \in (DOMAIN tree) \X (1 .. 4) : p[2] <= tree[p[1]]}
        order  == Sorted(places, LAMBDA p, q :
            \/ PrefixLess(p[1], q[1])
            \/ p[1] = q[1] /\ p[2] < q[2])
    IN  [i \in DOMAIN order |->
            [facts |-> [path |-> SomeAlphabet[i],
                        relative |-> Append(order[i][1], "a.go"),
                        language |-> "go", wellKnown |-> FALSE,
                        definitions |-> order[i][2] % 2,
                        entryPoints |-> IF i % entries = 0 THEN 1 ELSE 0,
                        document |-> FALSE, configuration |-> FALSE,
                        representative |-> i],
             tier |-> <<IF i % entries = 0 THEN 0 ELSE 1, 0>>]]

OverviewRequests ==
    {AnyRecord, [AnyRecord EXCEPT !.maximum = 1, !.inferred = FALSE]}
    \cup {[AnyRecord EXCEPT !.prefixes = p, !.kinds = {"heading"},
                            !.inferred = i] :
             p \in {{"a"}, {"x"}, {"a", "x"}, {"b.go"}}, i \in BOOLEAN}

TreeQuestions(tree) ==
    [kind : {"tree"}, files : {FilesOf(tree, n) : n \in {2, 3, 20}}]

OverviewQuestions(snapshot) ==
    [kind : {"overview"}, snapshot : {snapshot}, request : OverviewRequests,
     limits : FewRecords \cup {Enough}]
=============================================================================
