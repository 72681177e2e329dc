----------------------------- MODULE MCRendering -----------------------------
(* Small answers with more findings, rows and warnings than may be sent. *)
EXTENDS Rendering, MCRelated

SomeWarnings == <<"code-a", "code-b", "warning-limit", "x-code", "y-code">>

Finding(id, rank, text) ==
    [identity |-> id, rank |-> rank, text |-> text, bytes |-> text + 6]

FindingLists ==
    {<<>>, <<Finding("i2", 1, 9)>>,
     <<Finding("i3", 2, 5), Finding("i1", 1, 7), Finding("i2", 2, 5)>>}

TableRow(prefix, files, languages) ==
    [prefix |-> prefix, depth |-> 1, files |-> files, definitions |-> 1,
     entryPoints |-> 0, documents |-> files - 1, configurations |-> 0,
     languages |-> languages, representative |-> "i1"]

\* Rows of one size, and rows of which one or the other end is larger.
EvenTable(n) ==
    [g \in 1 .. n |-> TableRow(<<SomeAlphabet[g]>>, 2, << <<"go", 2>> >>)]

UnevenTable(n, wide) ==
    [g \in 1 .. n |->
        IF g = wide
        THEN TableRow(<<"a", "b", "f", "lo", "x", "s", "t">>, 12,
                      << <<"go", 9>>, <<"b", 1>>, <<"docs", 1>> >>)
        ELSE TableRow(<<SomeAlphabet[g]>>, 3, << <<"b", 2>>, <<"go", 1>> >>)]

SomeTables == {EvenTable(n) : n \in {0, 1, 2, 6}}
    \cup {UnevenTable(n, w) : n \in {3, 5}, w \in {1, 3}}

SomeAnswers ==
    [findings : FindingLists, omitted : {0, 9}, truncated : {FALSE},
     warnings : {<<"y-code", "code-a", "y-code">>}, table : SomeTables,
     folded : {0}]

RenderingQuestions(answer) ==
    {[kind |-> "fit", given |-> [answer EXCEPT !.truncated = t],
      limits |-> [maximum |-> m, characters |-> c, bytes |-> b, rows |-> r,
                  items |-> 3]] :
        t \in {answer.omitted > 0}, m \in {2, 3}, c \in {8, 23, 40},
        b \in {24 + 9 * k : k \in 1 .. 12}, r \in {3, 10}}

\* What is fitted is a valid result, and what it is fitted to a legal request.
ASSUME SomeAnswersAssumption ==
    \A answer \in SomeAnswers : \A q \in RenderingQuestions(answer) :
        Unfitted(q.given, q.limits) /\ q.limits \in FitLimits

SomeLists == {<<>>, <<"code-b">>, <<"y-code", "code-a">>,
              <<"x-code", "code-b">>, <<"warning-limit">>}

ASSUME SomeListsAssumption == SomeLists \subseteq Seq(Image(Warnings))

WarningQuestions ==
    [kind : {"warnings"}, lists : SomeLists \X SomeLists \X SomeLists,
     bound : 1 .. 3]

=============================================================================
