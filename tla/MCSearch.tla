------------------------------ MODULE MCSearch ------------------------------
(* Small indexes, requests and limits for Search. *)
EXTENDS Search, MCIndexFormat

QueryWords == {"x", "lo", "load", "oan", "loaf"}
SomeWords == [q \in QueryWords \cup {"x lo", "x.load", "loaf x"} |->
    CASE q = "x lo" -> <<"x", "lo">> [] q = "loaf x" -> <<"loaf", "x">>
      [] OTHER -> <<q>>]
BegunBy == [w \in QueryWords \cup {"x.load", "a", "b.go"} |->
    CASE w = "x"    -> {"x", "x.load", "x.Load"}
      [] w = "lo"   -> {"lo", "load", "loan", "loaf"}
      [] w = "a"    -> {"a", "a.go"}
      [] OTHER      -> {w}]
HeldBy == [w \in QueryWords \cup {"x.load"} |->
    CASE w = "lo"   -> {"lo", "load", "loan", "loaf", "reload", "x.load"}
      [] w = "load" -> {"load", "reload", "x.load"}
      [] w = "oan"  -> {"loan", "oan"}
      [] w = "x"    -> {"x", "x.load"}
      [] OTHER      -> {w}]
Edits == [w \in QueryWords \cup {"x.load"} |->
    [t \in {"load", "loan", "reload", "x", "x.load"} |->
        CASE w = t -> 0
          [] w = "loaf" /\ t \in {"load", "loan"} -> 1
          [] w = "load" /\ t = "loan" -> 1
          [] {w, t} \in {{"load", "x.load"}, {"load", "reload"}} -> 2
          [] OTHER -> 3]]
Long == {"load", "loaf", "x.load"}

\* Found by name, by token, by part, by a near miss, or not at all.
FirstRecords ==
    {Record("i1", p, 1, k, "source", n, "verified", <<>>) :
        p \in {"a.go", "b.go"}, k \in {"definition", "import"},
        n \in {"Load", "Loan"}}
      \cup {Record("i1", p, 1, "definition", "source", n, "inferred", <<"x">>) :
               p \in {"a.go", "b.go"}, n \in {"Load", "Loan"}}
SecondRecords ==
    {Record("i2", p, 1, k, "source", "x.Load", "verified", <<>>) :
        p \in {"A.go", "a.go"}, k \in {"entrypoint", "reference"}}
      \cup {Record("i2", "a.go", 2, "heading", "document", "Reload", "inferred",
                   <<>>)}
ThirdRecord == Record("i3", "a.go", 3, "definition", "source", "Loan",
                      "verified", <<"x">>)

SomeSnapshots ==
    {Materialized(Published(input)) :
        input \in {<<ThirdRecord, q, r>> : r \in FirstRecords,
                                           q \in SecondRecords}
                     \cup {<<r>> : r \in FirstRecords}}

AnyRecord == [operation |-> "map", inferred |-> TRUE, prefixes |-> {},
              languages |-> {}, kinds |-> {}, sources |-> {}, maximum |-> 3]
SomeRequests ==
    {AnyRecord, [AnyRecord EXCEPT !.maximum = 1],
     [AnyRecord EXCEPT !.operation = "symbols", !.inferred = FALSE],
     [AnyRecord EXCEPT !.kinds = {"definition", "heading"}]}
MapRequests ==
    SomeRequests \cup
    {[AnyRecord EXCEPT !.prefixes = {"a"}, !.kinds = {"definition"}],
     [AnyRecord EXCEPT !.prefixes = {"a"}, !.maximum = 1],
     [AnyRecord EXCEPT !.prefixes = {"a"}, !.languages = {"go"}],
     [AnyRecord EXCEPT !.prefixes = {"b.go"}, !.inferred = FALSE],
     [AnyRecord EXCEPT !.sources = {"source"}, !.inferred = FALSE],
     [AnyRecord EXCEPT !.sources = {"document"}, !.kinds = {"import"}]}

Limits(records, terms, perWord, distance) ==
    [records |-> records, terms |-> terms, perWord |-> perWord,
     distance |-> distance, items |-> 2]
Enough == Limits(20, 9, 9, 2)
Scarce == {Limits(r, t, p, 2) : r \in {2, 6, 20}, t \in {1, 2, 9}, p \in {1, 9}}
              \cup {Limits(20, 9, 9, 0)}
FewRecords == {Limits(r, 9, 9, 2) : r \in {2, 4, 6}}

SomeChanges ==
    {<<[path |-> p, spans |-> s]>> :
        p \in {"A.go", "a.go", "b.go"}, s \in {{}, {<<1, 1>>}, {<<2, 3>>}}}
    \cup {<<[path |-> "A.go", spans |-> {<<1, 2>>}],
            [path |-> p, spans |-> {<<0, 0>>, <<3, 4>>}]>> :
             p \in {"a.go", "b.go"}}

SearchQuestions(snapshot) ==
    [kind : {"search"}, snapshot : {snapshot}, text : DOMAIN Words,
     request : {AnyRecord}, limits : Scarce]
    \cup [kind : {"search"}, snapshot : {snapshot}, text : DOMAIN Words,
          request : SomeRequests, limits : {Enough}]
    \cup [kind : {"map"}, snapshot : {snapshot}, request : MapRequests,
          limits : FewRecords \cup {Enough}]
    \cup [kind : {"changed"}, snapshot : {snapshot}, changes : SomeChanges,
          request : {AnyRecord}, limits : FewRecords]
    \cup [kind : {"changed"}, snapshot : {snapshot}, changes : SomeChanges,
          request : SomeRequests, limits : {Enough}]
=============================================================================
