----------------------------- MODULE Rendering -----------------------------
(***************************************************************************)
(* How an answer is made to fit (internal/render/render.go, the checks of  *)
(* internal/wire on a result), and the bounded list of warnings            *)
(* (internal/engine/control.go). A finding has the characters a reader     *)
(* sees and the bytes of its encoding; a name counts as one byte; of the   *)
(* other fields only the numbers change size while an answer is fitted.    *)
(* A result without a table has an empty one: neither can be folded.       *)
(***************************************************************************)
EXTENDS Overview

CONSTANTS FrameText,    \* characters of the lines that are not findings
          FrameBytes,   \* bytes of the fields that do not change
          Warnings      \* warning codes in byte order

ASSUME RenderingAssumption ==
    /\ Warnings \in Seq(Image(Warnings))
    /\ \A i, j \in DOMAIN Warnings : Warnings[i] = Warnings[j] => i = j
    /\ "warning-limit" \in Image(Warnings)
    /\ FrameText \in Nat /\ FrameBytes \in Nat

-----------------------------------------------------------------------------
(* What is fitted *)

Findings == [identity : Strings, rank : Nat, text : Nat, bytes : Nat]

TableRows ==
    [prefix : Seq(Strings), depth : Nat, representative : Strings, files : Nat,
     definitions : Nat, entryPoints : Nat, documents : Nat,
     configurations : Nat, languages : Seq(Strings \X Nat)]

\* The fields of wire.Result that fitting reads or changes.
Results ==
    [findings : Seq(Findings), omitted : Nat, truncated : BOOLEAN,
     warnings : Seq(Image(Warnings)), table : Seq(TableRows), folded : Nat]

\* A request asks for no more findings than a result may have.
FitLimits ==
    {l \in [maximum : Nat, characters : Nat, bytes : Nat \ {0},
            rows : Nat \ {0, 1}, items : Nat] : l.maximum <= l.items}

\* The decimal digits of a counter, which the wire keeps below 2^31.
PowersOfTen ==
    {10, 100, 1000, 10000, 100000, 1000000, 10000000, 100000000, 1000000000}

Digits(n) == 1 + Cardinality({p \in PowersOfTen : p <= n})

WarningLimit == "warning-limit"

WarningLess(v, w) ==
    \E i, j \in DOMAIN Warnings : i < j /\ Warnings[i] = v /\ Warnings[j] = w

ByteOrder ==
    {p \in Image(Warnings) \X Image(Warnings) : WarningLess(p[1], p[2])}

-----------------------------------------------------------------------------
(* Warnings *)

InByteOrder(S) == InOrder(S, ByteOrder)

\* Mutant of AppendBoundedWarnings: the overflow is forgotten by the next call.
AppendForgetful(current, added, bound) ==
    LET seen   == InByteOrder((Image(current) \cup Image(added))
                                  \ {WarningLimit})
        listed == Image(Shorter(seen, bound))
    IN  InByteOrder(IF Len(seen) > bound
                    THEN listed \cup {WarningLimit} ELSE listed)

\* Mutant of AppendBoundedWarnings: the mark of an overflow takes a place.
AppendCounted(current, added, bound) ==
    LET seen == InByteOrder(Image(current) \cup Image(added))
    IN  InByteOrder(IF Len(seen) > bound
                    THEN Image(Shorter(seen, bound)) \cup {WarningLimit}
                    ELSE Image(seen))

\* appendBoundedWarnings: the smallest codes, and a mark when some are left out.
AppendBoundedWarnings(current, added, bound) ==
    LET given  == Image(current) \cup Image(added)
        seen   == InByteOrder(given \ {WarningLimit})
        listed == Image(Shorter(seen, bound))
    IN  InByteOrder(IF Len(seen) > bound \/ WarningLimit \in given
                    THEN listed \cup {WarningLimit} ELSE listed)

-----------------------------------------------------------------------------
(* The size of a result *)

\* renderedOutputCharacters
Characters(result) ==
    FrameText + Digits(Len(result.findings)) + Digits(result.omitted)
        + Digits(Len(result.warnings))
        + Total(DOMAIN result.findings, LAMBDA i : result.findings[i].text)

RowBytes(row) ==
    Len(row.prefix) + Digits(row.depth) + Digits(row.files)
        + Digits(row.definitions) + Digits(row.entryPoints)
        + Digits(row.documents) + Digits(row.configurations)
        + Total(DOMAIN row.languages, LAMBDA i : 1 + Digits(row.languages[i][2]))
        + IF row.representative = "" THEN 1 ELSE 2

\* The first value of MeasureResult.
Bytes(result) ==
    FrameBytes + Digits(Len(result.findings)) + Digits(result.omitted)
        + Digits(Characters(result)) + Digits(result.folded)
        + (IF result.truncated THEN 4 ELSE 5) + Len(result.warnings)
        + Total(DOMAIN result.findings, LAMBDA i :
              result.findings[i].bytes + Digits(result.findings[i].rank))
        + Total(DOMAIN result.table, LAMBDA g : RowBytes(result.table[g]))

\* validateOverviewGroup
ValidRow(row, items) ==
    LET list == row.languages
    IN  /\ Len(list) <= items
        /\ \A i \in 2 .. Len(list) :
              \/ list[i - 1][2] > list[i][2]
              \/ list[i - 1][2] = list[i][2]
                 /\ TextLess(list[i - 1][1], list[i][1])
        /\ row.prefix = <<"*">> => row.representative = ""

\* What Fit is called with: a valid result, but for its order and its numbers.
Unfitted(given, limits) ==
    /\ given \in Results
    /\ \A i, j \in DOMAIN given.findings : i # j =>
          given.findings[i].identity # given.findings[j].identity
    /\ Cardinality(Image(given.warnings)) <= limits.items
    /\ \A g \in DOMAIN given.table :
          given.table[g].prefix # <<"*">> /\ ValidRow(given.table[g], limits.items)

\* validateResultWithoutBudgets and validateOverview: the conditions that the
\* fitting of a result could break.
ValidResult(result, limits) ==
    /\ Len(result.findings) <= limits.items
    /\ Increasing(result.warnings, WarningLess)
    /\ Len(result.warnings) <= limits.items
    /\ result.omitted > 0 => result.truncated
    /\ \A i \in DOMAIN result.findings : result.findings[i].rank = i
    /\ \A i, j \in DOMAIN result.findings : i # j =>
          result.findings[i].identity # result.findings[j].identity
    /\ Len(result.table) <= limits.rows
    /\ \A g \in DOMAIN result.table : ValidRow(result.table[g], limits.items)

-----------------------------------------------------------------------------
(* Folding the table *)

Folded(row) == row.prefix = <<"*">>

LanguageLess(a, b) == a[2] > b[2] \/ (a[2] = b[2] /\ TextLess(a[1], b[1]))

\* mergeOverviewLanguages
MergedLanguages(rows, items) ==
    LET counts == UNION {{<<g, i>> : i \in DOMAIN rows[g].languages} :
                             g \in DOMAIN rows}
        entry(c) == rows[c[1]].languages[c[2]]
        named == {entry(c)[1] : c \in counts}
        sum(l) == Total({c \in counts : entry(c)[1] = l}, LAMBDA c : entry(c)[2])
        merged == Sorted({<<l, sum(l)>> : l \in named}, LanguageLess)
    IN  Shorter(merged, items)

Counts == {"files", "definitions", "entryPoints", "documents", "configurations"}

\* addOverviewCounts, over the rows that are joined.
CountOf(rows, field) == Total(DOMAIN rows, LAMBDA g : rows[g][field])

JoinedRow(rows, items) ==
    [prefix |-> <<"*">>, depth |-> 0, representative |-> "",
     files |-> CountOf(rows, "files"),
     definitions |-> CountOf(rows, "definitions"),
     entryPoints |-> CountOf(rows, "entryPoints"),
     documents |-> CountOf(rows, "documents"),
     configurations |-> CountOf(rows, "configurations"),
     languages |-> MergedLanguages(rows, items)]

\* The rows but the folded one, which is the last if there is one.
DirectoryRows(table) ==
    IF table # <<>> /\ Folded(table[Len(table)])
    THEN Shorter(table, Len(table) - 1) ELSE table

CanFold(table) == Len(DirectoryRows(table)) >= 2

\* Mutant of FoldTail: the folded row there was is replaced, not merged into.
FoldTailReplacing(result, items) ==
    LET rows == DirectoryRows(result.table)
        kept == Shorter(rows, Len(rows) - 1)
        gone == SubSeq(rows, Len(rows), Len(rows))
    IN  IF ~CanFold(result.table) THEN result
        ELSE [result EXCEPT !.table = Append(kept, JoinedRow(gone, items)),
                            !.folded = @ + 1]

\* foldOverviewTail: the last directory row and the folded row become one.
FoldTail(result, items) ==
    LET joined(kept) ==
            Append(Shorter(result.table, kept),
                   JoinedRow(SubSeq(result.table, kept + 1, Len(result.table)),
                             items))
    IN  IF ~CanFold(result.table) THEN result
        ELSE [result EXCEPT !.table = joined(Len(DirectoryRows(@)) - 1),
                            !.folded = @ + 1]

\* foldOverviewRows: a caller may ask for more than the table can give.
FoldRows(result, count, items) ==
    LET after[n \in 0 .. Len(result.table)] ==
            IF n = 0 THEN result
            ELSE IF n > count THEN after[n - 1]
            ELSE FoldTail(after[n - 1], items)
    IN  after[Len(result.table)]

\* Mutant of FoldEstimate: all rows that can be are folded at once.
FoldEstimateAll(result, bytes, excess) == Bigger(excess, Len(result.table))

\* overviewFoldEstimate
FoldEstimate(result, bytes, excess) ==
    Bigger(1, (excess * Len(result.table)) \div bytes)

-----------------------------------------------------------------------------
(* Fitting *)

\* rewriteRanksAndCounts
Reranked(result) ==
    [result EXCEPT
        !.findings = [i \in DOMAIN @ |-> [@[i] EXCEPT !.rank = i]],
        !.truncated = @ \/ result.omitted > 0]

InRankOrder(findings) ==
    LET place(i) == <<findings[i].rank, Rank(findings[i].identity), i>>
        before == {p \in (DOMAIN findings) \X (DOMAIN findings) :
                       LexLess(place(p[1]), place(p[2]))}
        order == InOrder(DOMAIN findings, before)
    IN  [n \in DOMAIN findings |-> findings[order[n]]]

\* normalize
Normalized(given, maximum) ==
    Reranked([given EXCEPT
        !.findings = Shorter(InRankOrder(@), maximum),
        !.omitted  = @ + Bigger(0, Len(given.findings) - maximum),
        !.warnings = InByteOrder(Image(@))])

\* What is measured first: a table of more rows than the wire admits is folded.
Prepared(given, limits) ==
    LET excess == Len(given.table) - limits.rows
    IN  FoldRows(Normalized(given, limits.maximum),
                 IF excess > 0 THEN excess + 1 ELSE 0, limits.items)

Fits(result, limits) ==
    /\ Characters(result) <= limits.characters
    /\ Bytes(result) <= limits.bytes

DropLast(result) ==
    Reranked([result EXCEPT !.findings = Shorter(@, Len(@) - 1),
                            !.omitted = @ + 1])

FoldToFit(result, bytes, limits) ==
    FoldRows(result, FoldEstimate(result, bytes, bytes - limits.bytes),
             limits.items)

\* Mutant of Shrink: a finding is dropped while a row could be folded.
ShrinkDroppingFirst(result, bytes, limits) ==
    IF result.findings # <<>> THEN DropLast(result)
    ELSE FoldToFit(result, bytes, limits)

\* Mutant of Shrink: what is dropped is not counted as omitted.
ShrinkSilently(result, bytes, limits) ==
    IF bytes > limits.bytes /\ CanFold(result.table)
    THEN FoldToFit(result, bytes, limits)
    ELSE IF result.findings = <<>> THEN result
    ELSE [DropLast(result) EXCEPT !.omitted = result.omitted]

\* A result that does not fit has rows folded when its bytes are too many, and
\* loses its last finding when none can be.
Shrink(result, bytes, limits) ==
    IF bytes > limits.bytes /\ CanFold(result.table)
    THEN FoldToFit(result, bytes, limits)
    ELSE IF result.findings = <<>> THEN result
    ELSE DropLast(result)

\* One turn of the loop of Fit; a result that fits stays as it is, and so does
\* one that is invalid, which ends the loop with an error.
FitStep(result, limits) ==
    IF Fits(result, limits) \/ ~ValidResult(result, limits) THEN result
    ELSE Shrink(result, Bytes(result), limits)

\* Fit: every turn folds a row or drops a finding.
Fit(given, limits) ==
    LET after[n \in 0 .. Len(given.findings) + Len(given.table)] ==
            IF n = 0 THEN Prepared(given, limits)
            ELSE FitStep(after[n - 1], limits)
        answer(last) ==
            [result |-> last,
             error  |-> IF ~ValidResult(last, limits) THEN "invalid wire"
                        ELSE IF Fits(last, limits) THEN "" ELSE "unrenderable"]
    IN  answer(after[Len(given.findings) + Len(given.table)])

-----------------------------------------------------------------------------
(* What fitting promises *)

Sums(table) == [field \in Counts |-> CountOf(table, field)]

Identities(findings) == [i \in DOMAIN findings |-> findings[i].identity]

\* No file is lost from the counts, no row but the last is a joined one, and
\* each row that was lost is counted.
TableStillAddsUp(given, got) ==
    LET addsUp(kept) ==
            /\ kept = Shorter(given.table, Len(kept))
            /\ Len(got.table) <= Len(kept) + 1
            /\ got.folded - given.folded = Len(given.table) - Len(kept)
            /\ kept = got.table \/ Folded(got.table[Len(got.table)])
    IN  Sums(got.table) = Sums(given.table) /\ addsUp(DirectoryRows(got.table))

\* The findings are the best of those given, and what was left out is counted.
FindingsStillAddUp(given, got) ==
    LET ranked == Identities(InRankOrder(given.findings))
    IN  /\ Identities(got.findings) = Shorter(ranked, Len(got.findings))
        /\ Len(got.findings) + got.omitted = Len(ranked) + given.omitted
        /\ got.truncated <=> given.truncated \/ got.omitted > 0

\* With one more finding the answer would not fit, however far its table were
\* folded. A table whose rows are of one size loses no row it could have kept,
\* as the comment on overviewFoldEstimate says of rows "of a kind".
NothingLostInVain(start, got, limits) ==
    LET more(n, k) == FoldRows([start EXCEPT
            !.findings = Shorter(@, n), !.omitted = @ + Len(start.findings) - n,
            !.truncated = @ \/ n < Len(start.findings)], k, limits.items)
        returned == Len(got.findings)
        lost     == got.folded - start.folded
        uniform  == start.folded = 0
            /\ \A g, h \in DOMAIN start.table :
                   RowBytes(start.table[g]) = RowBytes(start.table[h])
        better(n, k) ==
            \/ n = returned + 1 /\ k >= lost
            \/ n = returned /\ n = Len(start.findings) /\ uniform /\ k < lost
    IN  \A n \in 0 .. Len(start.findings), k \in 0 .. Len(start.table) :
            better(n, k) => ~Fits(more(n, k), limits)

\* What was given and what came of it: the counts add up, and it is refused only
\* when no finding is left and no row can be folded to save bytes.
AnswerAddsUp(given, answer, limits) ==
    LET got == answer.result
    IN  /\ TableStillAddsUp(given, got)
        /\ FindingsStillAddUp(given, got)
        /\ answer.error = "" => Fits(got, limits)
        /\ answer.error = "unrenderable" =>
              /\ got.findings = <<>>
              /\ ~(Bytes(got) > limits.bytes /\ CanFold(got.table))

\* And what was measured first.
AnswerKeepsItsWord(given, start, answer, limits) ==
    /\ answer.error # "invalid wire"
    /\ AnswerAddsUp(given, answer, limits)
    /\ answer.error = "" => NothingLostInVain(start, answer.result, limits)

\* A valid result is fitted or refused, never sent invalid; and it is refused
\* only when nothing is left to drop or to fold.
FitKeepsItsWord(given, limits) ==
    AnswerKeepsItsWord(given, Prepared(given, limits), Fit(given, limits), limits)

\* Warnings added in steps, in any order, are those added at once: at most
\* `bound` and the mark, the mark exactly when some are missing.
WarningsInSteps(lists, bound) ==
    LET given == lists[1] \o lists[2] \o lists[3]
        all   == AppendBoundedWarnings(<<>>, given, bound)
        one(s, w)  == AppendBoundedWarnings(s, w, bound)
        steps(p) == one(one(one(<<>>, lists[p[1]]), lists[p[2]]), lists[p[3]])
    IN  /\ \A p \in {q \in (1 .. 3) \X (1 .. 3) \X (1 .. 3) :
                         Cardinality(Image(q)) = 3} : steps(p) = all
        /\ Len(all) <= bound + 1 /\ Increasing(all, WarningLess)
        /\ WarningLimit \notin Image(given) =>
              (WarningLimit \in Image(all) <=> Image(all) # Image(given))

=============================================================================
