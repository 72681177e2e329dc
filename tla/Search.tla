------------------------------- MODULE Search -------------------------------
(***************************************************************************)
(* The queries that return records of a snapshot (internal/query: query.go, *)
(* rank.go, changed.go): search by name and words, the repository map, the  *)
(* symbols a change touches. Each works under a budget of records and terms *)
(* and says `partial` when the budget stopped it. The snapshot is that of   *)
(* IndexFormat. How words relate (prefix, part, edit distance) is given.    *)
(***************************************************************************)
EXTENDS IndexFormat

CONSTANTS Words,          \* the words of a query text
          StartingWith,   \* texts -> the texts that begin with them
          Containing,     \* words -> the texts that hold them
          EditDistance,   \* words -> texts -> edits
          LongWords,      \* words of at least minimumFuzzyRunes
          Multiplier      \* recordBudgetMultiplier

Shorter(s, n) == SubSeq(s, 1, IF n < Len(s) THEN n ELSE Len(s))

Joined(lists) ==
    LET upTo[i \in 0 .. Len(lists)] ==
            IF i = 0 THEN <<>> ELSE upTo[i - 1] \o lists[i]
    IN  upTo[Len(lists)]

Bigger(m, n) == IF m > n THEN m ELSE n

-----------------------------------------------------------------------------
(* Ranking: boundedRanking *)

KindClass(k) == CASE k \in {"configuration", "document-chunk"} -> 1
                  [] k = "import" -> 2
                  [] OTHER        -> 0

\* compareRankedCandidate; a map zeroes tier and kind class.
Place(r, tier, class) ==
    <<tier, class, EvidenceTier(r.evidence), Rank(Lower[r.path]), r.start,
      Rank(r.kind), Rank(Lower[r.name]), Rank(r.identity)>>

NoRanking == [items |-> <<>>, total |-> 0]

\* offerCandidate: a sorted list of at most `maximum`; the rest is counted.
Offered(ranking, record, place, maximum) ==
    LET low  == Cardinality({i \in DOMAIN ranking.items :
                                LexLess(ranking.items[i].place, place)})
        item == [record |-> record, place |-> place]
    IN  [items |-> IF low >= maximum THEN ranking.items
                   ELSE Shorter(SubSeq(ranking.items, 1, low) \o <<item>>
                        \o SubSeq(ranking.items, low + 1, Len(ranking.items)),
                        maximum),
         total |-> ranking.total + 1]

\* records
Selected(ranking, partial) ==
    [records |-> [i \in DOMAIN ranking.items |-> ranking.items[i].record],
     omitted |-> ranking.total - Len(ranking.items), partial |-> partial]

\* newWorkBudget
Maximum(snapshot, limits) ==
    Bigger(limits.records, Multiplier * Len(snapshot.records))

MatchesOne(values, actual) == values = {} \/ actual \in values
MatchesPrefix(prefixes, path) ==
    prefixes = {} \/ \E p \in prefixes : path \in StartingWith[p]

\* matchesOperation, and permits of a filterPredicate.
MatchesOperation(r, operation) ==
    /\ Structural(r)
    /\ operation = "symbols" => Symbol(r)
    /\ operation = "docs" => ~Symbol(r)

Permits(r, request) ==
    /\ MatchesOperation(r, request.operation)
    /\ request.inferred \/ r.evidence = "verified"
    /\ MatchesPrefix(request.prefixes, r.path)
    /\ MatchesOne(request.languages, r.language)
    /\ MatchesOne(request.kinds, r.kind)
    /\ MatchesOne(request.sources, r.source)

-----------------------------------------------------------------------------
(* Search *)

Found(snapshot, prefix, text) ==
    IF <<prefix, "", text>> \in DOMAIN snapshot.queries
    THEN Sorted(snapshot.queries[<<prefix, "", text>>], NatLess) ELSE <<>>

TokenTerms(snapshot) ==
    Sorted({k[3] : k \in {l \in DOMAIN snapshot.queries : l[1] = "t"}}, TextLess)

\* A search in progress: units of work used, what was admitted, the ranking.
Started(maximum) ==
    [maximum |-> maximum, used |-> 0, terms |-> 0, partial |-> FALSE,
     seen |-> {}, ranking |-> NoRanking]

\* Mutant of Admitted: a record that was admitted before is offered again.
AdmittedAgain(c, snapshot, request, ordinal, tier) ==
    LET r == snapshot.records[ordinal]
    IN  IF ~Permits(r, request) THEN c
        ELSE IF c.used >= c.maximum THEN [c EXCEPT !.partial = TRUE]
        ELSE [c EXCEPT !.used = @ + 1,
                 !.ranking = Offered(@, r, Place(r, tier, KindClass(r.kind)),
                                     request.maximum)]

\* admit: a record is offered once, at the tier it is first admitted with.
Admitted(c, snapshot, request, ordinal, tier) ==
    LET r    == snapshot.records[ordinal]
        noted == [c EXCEPT !.seen = @ \cup {ordinal}]
    IN  IF ordinal \in c.seen THEN c
        ELSE IF ~Permits(r, request) THEN noted
        ELSE IF c.used >= c.maximum THEN [noted EXCEPT !.partial = TRUE]
        ELSE [noted EXCEPT !.used = @ + 1,
                 !.ranking = Offered(@, r, Place(r, tier, KindClass(r.kind)),
                                     request.maximum)]

\* admitPosting: references are skipped before they are charged.
AdmittedPosting(c, snapshot, request, ordinals) ==
    LET next(d, o) ==
            IF ~Structural(snapshot.records[o]) THEN d
            ELSE IF d.used >= d.maximum THEN [d EXCEPT !.partial = TRUE]
            ELSE Admitted([d EXCEPT !.used = @ + 1], snapshot, request, o, 0)
        upTo[i \in 0 .. Len(ordinals)] ==
            IF i = 0 THEN c ELSE next(upTo[i - 1], ordinals[i])
    IN  upTo[Len(ordinals)]

\* The terms of a list are admitted in turn, at most perWord of them, each with
\* its postings, until the budget of records is used up.
TermsAdmitted(c, list, perWord) ==
    LET left == c.maximum - c.used
        visits == [i \in DOMAIN list |-> [j \in DOMAIN list[i].ordinals |->
                      [ordinal |-> list[i].ordinals[j], tier |-> list[i].tier]]]
        size(i) == Total(1 .. i, LAMBDA j : Len(list[j].ordinals))
    IN  [visits  |-> Shorter(Joined(Shorter(visits, perWord)), left),
         begun   |-> Cardinality({i \in DOMAIN list :
                         i - 1 <= perWord /\ size(i - 1) <= left}),
         stopped |-> Len(list) > perWord \/ size(Len(list)) > left]

\* What is known of a word after a stage: the best tier of each ordinal.
Known(stage, c, terms, stopped) ==
    [best |-> [o \in {v.ordinal : v \in Image(stage.visits)} |->
                 LET tiers == {v.tier : v \in {u \in Image(stage.visits) :
                                                   u.ordinal = o}}
                 IN  CHOOSE t \in tiers : \A u \in tiers : t <= u],
     stopped |-> stage.stopped \/ stopped,
     c |-> [c EXCEPT !.used = @ + Len(stage.visits), !.terms = @ + terms,
                     !.partial = @ \/ stage.stopped \/ stopped]]

\* What a word is looked up by: the word itself if it is a term, then the terms
\* it begins, as many as are left of those a query may look at.
TermsLookedUp(snapshot, word, prefixed, left) ==
    LET source(t, tier) == [ordinals |-> Found(snapshot, "t", t), tier |-> tier]
        paid == Shorter(prefixed, left)
    IN  (IF <<"t", "", word>> \in DOMAIN snapshot.queries
         THEN <<source(word, 1)>> ELSE <<>>)
        \o [i \in DOMAIN paid |-> source(paid[i], 2)]

\* matchWord, first part.
ExactAndPrefixed(c, snapshot, word, limits) ==
    LET left == limits.terms - c.terms
        admitted(prefixed, list) ==
            LET own  == Len(list) - Len(Shorter(prefixed, left))
                known(stage) ==
                    Known(stage, c, Bigger(stage.begun, own) - own,
                          Len(prefixed) > left)
            IN  known(TermsAdmitted(c, list, limits.perWord))
        begun(prefixed) ==
            admitted(prefixed, TermsLookedUp(snapshot, word, prefixed, left))
    IN  begun(SelectSeq(TokenTerms(snapshot),
                        LAMBDA t : t # word /\ t \in StartingWith[word]))

\* Mutant of Window: what earlier scans used is not taken off.
WindowOfAll(terms, word, used, maximum) ==
    LET position  == Cardinality({i \in DOMAIN terms : TextLess(terms[i], word)})
        first     == Bigger(0, position - maximum \div 2)
        end       == IF first + maximum < Len(terms) THEN first + maximum
                     ELSE Len(terms)
    IN  SubSeq(terms, Bigger(0, end - maximum) + 1, end)

\* scanDictionary: the terms around the word's place, as many as are left.
Window(terms, word, used, maximum) ==
    LET remaining == maximum - used
        position  == Cardinality({i \in DOMAIN terms : TextLess(terms[i], word)})
        first     == Bigger(0, position - remaining \div 2)
        end       == IF first + remaining < Len(terms) THEN first + remaining
                     ELSE Len(terms)
    IN  IF remaining <= 0 THEN <<>>
        ELSE SubSeq(terms, Bigger(0, end - remaining) + 1, end)

\* The terms of a window that match, with their tiers; others have tier 0.
Scan(known, snapshot, word, limits, Tier(_)) ==
    LET c == known.c
        terms == TokenTerms(snapshot)
        after(window, matched, stage) ==
            Known(stage, [c EXCEPT !.partial = @ \/ Len(window) < Len(terms)],
                  IF stage.stopped
                  THEN CHOOSE i \in DOMAIN window :
                           window[i] = matched[stage.begun]
                  ELSE Len(window), FALSE)
        staged(window, matched) ==
            after(window, matched, TermsAdmitted(c, [i \in DOMAIN matched |->
                [ordinals |-> Found(snapshot, "t", matched[i]),
                 tier |-> Tier(matched[i])]], limits.perWord))
        seen(window) == staged(window, SelectSeq(window, LAMBDA t : Tier(t) # 0))
    IN  seen(Window(terms, word, c.terms, limits.terms))

Unmatched(known) == ~known.stopped /\ DOMAIN known.best = {}

\* The terms that hold the word, while nothing matched.
PartsToo(known, snapshot, word, limits) ==
    IF ~Unmatched(known) THEN known
    ELSE Scan(known, snapshot, word, limits, LAMBDA t :
             IF t \in Containing[word] \ StartingWith[word] THEN 3 ELSE 0)

\* The terms a few edits away, while nothing matched.
NearMissesToo(known, snapshot, word, limits) ==
    IF ~Unmatched(known) \/ limits.distance = 0 \/ word \notin LongWords
    THEN known
    ELSE Scan(known, snapshot, word, limits, LAMBDA t :
             IF EditDistance[word][t] \in 1 .. limits.distance
             THEN 4 + EditDistance[word][t] ELSE 0)

\* matchWord
MatchWord(c, snapshot, word, limits) ==
    NearMissesToo(PartsToo(ExactAndPrefixed(c, snapshot, word, limits),
                           snapshot, word, limits), snapshot, word, limits)

\* intersectWords: what every word matches, at its worst tier.
Intersected(matches) ==
    LET common == {o \in DOMAIN matches[1] :
                      \A i \in DOMAIN matches : o \in DOMAIN matches[i]}
    IN  [o \in common |->
            LET tiers == {matches[i][o] : i \in DOMAIN matches}
            IN  CHOOSE t \in tiers : \A u \in tiers : t >= u]

\* What is known of each word, in turn under one budget, beginning after c.
KnownWords(c, snapshot, words, limits) ==
    LET upTo[i \in 0 .. Len(words)] ==
            IF i = 0 THEN <<>>
            ELSE Append(upTo[i - 1],
                     MatchWord(IF i = 1 THEN c ELSE upTo[i - 1][i - 1].c,
                               snapshot, words[i], limits))
    IN  upTo[Len(words)]

\* The records of all words, in canonical order.
HitsAdmitted(c, snapshot, request, hits) ==
    LET upTo[o \in 0 .. Len(snapshot.records)] ==
            IF o = 0 THEN c
            ELSE IF o \notin DOMAIN hits THEN upTo[o - 1]
            ELSE Admitted(upTo[o - 1], snapshot, request, o, hits[o])
    IN  upTo[Len(snapshot.records)]

\* Search: the names first, then the words.
Find(snapshot, text, request, limits) ==
    LET named(prefix, c) ==
            AdmittedPosting(c, snapshot, request, Found(snapshot, prefix, text))
        hits(known) ==
            HitsAdmitted(known[Len(known)].c, snapshot, request,
                         Intersected([i \in DOMAIN known |-> known[i].best]))
        answer(c) == Selected(c.ranking, c.partial)
        maximum   == Maximum(snapshot, limits)
    IN  IF maximum < 1 THEN Selected(NoRanking, FALSE)
        ELSE answer(hits(KnownWords(
                 named("s", named("q", Started(maximum))),
                 snapshot, Words[text], limits)))

-----------------------------------------------------------------------------
(* The repository map *)

OfferedAll(records, maximum) ==
    LET upTo[i \in 0 .. Len(records)] ==
            IF i = 0 THEN NoRanking
            ELSE Offered(upTo[i - 1], records[i], Place(records[i], 0, 0), maximum)
    IN  upTo[Len(records)]

\* repositoryMapFrontier: the group's first ordinal stands for its path. A group
\* is charged once, and once more when it is offered.
Frontier(snapshot, request, limits) ==
    LET of(g) == snapshot.records[g.ordinals[1]]
        asked(g) == request.inferred \/ of(g).evidence = "verified"
        cost[i \in 0 .. Len(snapshot.groups)] ==
            IF i = 0 THEN 0
            ELSE cost[i - 1] + IF asked(snapshot.groups[i]) THEN 2 ELSE 1
        paid  == {i \in DOMAIN snapshot.groups :
                     cost[i] <= Maximum(snapshot, limits)}
        shown == SelectSeq(SubSeq(snapshot.groups, 1, Cardinality(paid)), asked)
    IN  Selected(OfferedAll([i \in DOMAIN shown |-> of(shown[i])],
                            request.maximum),
                 snapshot.partial \/ Cardinality(paid) < Len(snapshot.groups))

\* The categories of a filter: its values and their postings.
Category(snapshot, facet, values) ==
    [facet |-> facet, values |-> values,
     sources |-> LET sorted == Sorted(values, TextLess)
                 IN  [i \in DOMAIN sorted |->
                        IF <<"f", facet, sorted[i]>> \in DOMAIN snapshot.queries
                        THEN Sorted(snapshot.queries[<<"f", facet, sorted[i]>>],
                                    NatLess)
                        ELSE <<>>]]

\* The paths that begin with a prefix lie together in the order of paths.
PathCategory(snapshot, prefixes) ==
    LET sorted == Sorted(prefixes, TextLess)
        below(p) == SelectSeq(snapshot.byPath, LAMBDA o :
            Lower[snapshot.records[o].path] \in StartingWith[Lower[p]])
    IN  [facet |-> "path", values |-> prefixes,
         sources |-> [i \in DOMAIN sorted |-> below(sorted[i])]]

\* matchesRecord
InCategory(category, r) ==
    CASE category.facet = "path"     -> MatchesPrefix(category.values, r.path)
      [] category.facet = "language" -> r.language \in category.values
      [] category.facet = "kind"     -> r.kind \in category.values
      [] category.facet = "source"   -> r.source \in category.values
      [] OTHER                       -> r.evidence \in category.values

Categories(snapshot, request) ==
    LET asked(facet, values) ==
            IF values = {} THEN <<>>
            ELSE <<Category(snapshot, facet, values)>>
    IN  asked("language", request.languages) \o asked("kind", request.kinds)
        \o asked("source", request.sources)
        \o (IF request.prefixes = {} THEN <<>>
            ELSE <<PathCategory(snapshot, request.prefixes)>>)
        \o asked("evidence", IF request.inferred THEN {} ELSE {"verified"})

CategorySize(category) == Len(Joined(category.sources))

\* Mutant of Planned: the other categories are not consulted.
PlannedByDriver(snapshot, categories) ==
    LET driver == CHOOSE c \in Image(categories) :
                      \A d \in Image(categories) :
                          CategorySize(c) <= CategorySize(d)
        entries == Joined(driver.sources)
    IN  [visits |-> Len(entries), ordinals |-> Image(entries)]

\* buildFilterPlan: the smallest category is walked, the others are looked up.
Planned(snapshot, categories) ==
    LET smallest(i) == \A j \in DOMAIN categories :
            \/ CategorySize(categories[i]) < CategorySize(categories[j])
            \/ CategorySize(categories[i]) = CategorySize(categories[j]) /\ i <= j
        driver  == CHOOSE i \in DOMAIN categories : smallest(i)
        entries == Joined(categories[driver].sources)
        kept(o) == \A i \in DOMAIN categories :
            /\ InCategory(categories[i], snapshot.records[o])
            /\ (i # driver /\ categories[i].facet # "path") =>
                   \E s \in Image(categories[i].sources) : o \in Image(s)
    IN  [visits |-> Len(entries), ordinals |-> {o \in Image(entries) : kept(o)}]

\* RepositoryMap with filters: the preferred record of each path that is left.
PreferredOf(records, ordinals) ==
    LET best(o) == \A q \in ordinals \ {o} : records[q].path = records[o].path =>
            LexLess(Preference(records[o]), Preference(records[q]))
    IN  Sorted({o \in ordinals : best(o)}, NatLess)

Filtered(snapshot, request, limits) ==
    LET offered(order) ==
            Selected(OfferedAll([i \in DOMAIN order |->
                         snapshot.records[order[i]]], request.maximum), FALSE)
        walked(plan) ==
            IF plan.visits + Cardinality(plan.ordinals)
                   > Maximum(snapshot, limits)
            THEN Selected(NoRanking, TRUE)
            ELSE offered(PreferredOf(snapshot.records,
                     {o \in plan.ordinals : Structural(snapshot.records[o])}))
        answer(categories) ==
            IF \E c \in Image(categories) : CategorySize(c) = 0
            THEN Selected(NoRanking, FALSE)
            ELSE walked(Planned(snapshot, categories))
    IN  answer(Categories(snapshot, request))

HasFilters(request) ==
    {} # UNION {request.prefixes, request.languages, request.kinds,
                request.sources}

RepositoryMap(snapshot, request, limits) ==
    IF Maximum(snapshot, limits) < 1 THEN Selected(NoRanking, FALSE)
    ELSE IF HasFilters(request) THEN Filtered(snapshot, request, limits)
    ELSE Frontier(snapshot, request, limits)

-----------------------------------------------------------------------------
(* The symbols a change touches *)

\* changedSymbolKind
ChangedSymbolKind(k) == k \in {"definition", "entrypoint", "module"}

\* Mutant of Intersects: a change of the record's last line does not count.
IntersectsBefore(r, spans) ==
    spans = {} \/ \E s \in spans : r.start <= s[2] /\ r.end > s[1]

\* intersectsChange: no spans mean the whole file.
Intersects(r, spans) ==
    spans = {} \/ \E s \in spans : r.start <= s[2] /\ r.end >= s[1]

\* Changed: the records of each path in turn; paths that differ only in case
\* lie together. changes is a sequence of [path, spans].
Touched(snapshot, changes, request, limits) ==
    LET maximum == Maximum(snapshot, limits)
        near(p) == SelectSeq(snapshot.byPath, LAMBDA o :
                       Lower[snapshot.records[o].path] = Lower[p])
        steps   == Joined([i \in DOMAIN changes |->
                       [j \in DOMAIN near(changes[i].path) |->
                          [change |-> changes[i],
                           record |-> snapshot.records[near(changes[i].path)[j]]]]])
        wanted(s) == /\ s.record.path = s.change.path
                     /\ ChangedSymbolKind(s.record.kind)
                     /\ Intersects(s.record, s.change.spans)
                     /\ Permits(s.record, request)
        cost[i \in 0 .. Len(steps)] ==
            IF i = 0 THEN 0 ELSE cost[i - 1] + IF wanted(steps[i]) THEN 2 ELSE 1
        paid    == Cardinality({i \in DOMAIN steps : cost[i] <= maximum})
        shown   == SelectSeq(SubSeq(steps, 1, paid), wanted)
        upTo[i \in 0 .. Len(shown)] ==
            IF i = 0 THEN NoRanking
            ELSE Offered(upTo[i - 1], shown[i].record,
                     Place(shown[i].record, 0, KindClass(shown[i].record.kind)),
                     request.maximum)
        behind(i) == Len(Joined([j \in 1 .. i |-> near(changes[j].path)]))
    IN  [found |-> Selected(upTo[Len(shown)], paid < Len(steps)),
         unindexed |-> maximum >= 1 /\ \E i \in DOMAIN changes :
             /\ behind(i) <= paid
             /\ \A r \in Image(snapshot.records) : r.path # changes[i].path]

-----------------------------------------------------------------------------
(* What each query answers, read off the records *)

\* The first of a set of ranked records.
FirstOf(ranked, maximum) ==
    LET sorted == Sorted(ranked, LAMBDA a, b : LexLess(a.place, b.place))
    IN  [records |-> [i \in DOMAIN Shorter(sorted, maximum) |-> sorted[i].record],
         omitted |-> Bigger(0, Len(sorted) - maximum), partial |-> FALSE]

TokensOf(r) == {k[3] : k \in {l \in Keys(r) : l[1] = "t"}}

\* The records a word matches: those with a token it begins; without one, those
\* with a token that holds it; without one, those with a token close to it.
WordMatches(records, word, limits) ==
    LET having(T) == {o \in DOMAIN records : TokensOf(records[o]) \cap T # {}}
        begun == having({word} \cup StartingWith[word])
        near(d) == {t \in DOMAIN EditDistance[word] : EditDistance[word][t] = d}
        close == UNION {having(near(d)) : d \in 1 .. limits.distance}
        edits(o) == CHOOSE d \in 1 .. limits.distance :
            o \in having(near(d)) /\ \A e \in 1 .. d - 1 : o \notin having(near(e))
    IN  CASE begun # {} ->
               [o \in begun |-> IF word \in TokensOf(records[o]) THEN 1 ELSE 2]
          [] begun = {} /\ having(Containing[word]) # {} ->
               [o \in having(Containing[word]) |-> 3]
          [] begun = {} /\ having(Containing[word]) = {} /\ word \in LongWords ->
               [o \in close |-> 4 + edits(o)]
          [] OTHER -> <<>>

\* A record matches by its name, or when every word matches it.
Matches(records, text, limits) ==
    LET words == [i \in DOMAIN Words[text] |->
                     WordMatches(records, Words[text][i], limits)]
        named == {o \in DOMAIN records : /\ Structural(records[o])
                     /\ text \in {Lower[records[o].name],
                                  ShortName[records[o].name]}}
        hits  == Intersected(words)
    IN  [o \in named \cup DOMAIN hits |-> IF o \in named THEN 0 ELSE hits[o]]

RankedMatches(records, text, request, limits) ==
    LET ranked(matches) ==
            {[record |-> records[o],
              place |-> Place(records[o], matches[o], KindClass(records[o].kind))] :
                 o \in {m \in DOMAIN matches : Permits(records[m], request)}}
    IN  ranked(Matches(records, text, limits))

\* A search that does not say `partial` returns the first of all records that
\* match, whatever the postings, the dictionary and the order of admission. One
\* that a budget stopped returns only records that match: a scan cut short does
\* not relax a word that the rest of the dictionary would have matched.
SearchAgrees(got, all, maximum) ==
    /\ ~got.partial => got = FirstOf(all, maximum)
    /\ Image(got.records) \subseteq {m.record : m \in all}
    /\ Len(got.records) + got.omitted <= Cardinality(all)

FindIsScan(snapshot, text, request, limits) ==
    SearchAgrees(Find(snapshot, text, request, limits),
                 RankedMatches(snapshot.records, text, request, limits),
                 request.maximum)

\* A map shows each path by its preferred record, with filters and without:
\* the persisted groups and the walk of the smallest category agree.
MapIsScan(snapshot, request, limits) ==
    LET shown == {r \in Image(snapshot.records) : Permits(r, request)}
        best(r) == \A q \in shown \ {r} : q.path = r.path =>
                       LexLess(Preference(r), Preference(q))
        agrees(got) == ~got.partial =>
            got = FirstOf({[record |-> r, place |-> Place(r, 0, 0)] :
                               r \in {s \in shown : best(s)}}, request.maximum)
    IN  agrees(RepositoryMap(snapshot, request, limits))

\* A change touches the symbols whose lines it meets, each once, and the warning
\* about unindexed paths is given when a changed path has no record.
ChangeIsScan(snapshot, changes, request, limits) ==
    LET met(r, c) == /\ r.path = c.path
                     /\ \/ c.spans = {}
                        \/ \E l \in r.start .. r.end, s \in c.spans :
                               l \in s[1] .. s[2]
        touched  == {r \in Image(snapshot.records) :
            /\ ChangedSymbolKind(r.kind) /\ Permits(r, request)
            /\ \E c \in Image(changes) : met(r, c)}
        agrees(got) == ~got.found.partial =>
            /\ got.found = FirstOf({[record |-> r, place |-> Place(r, 0,
                               KindClass(r.kind))] : r \in touched},
                               request.maximum)
            /\ got.unindexed <=> {c.path : c \in Image(changes)} \ {r.path :
                   r \in Image(snapshot.records)} # {}
    IN  agrees(Touched(snapshot, changes, request, limits))

=============================================================================
