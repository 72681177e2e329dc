---------------------------- MODULE Engine_proofs ----------------------------
(***************************************************************************)
(* Theorems about the walk, for every set of paths, and about the engine's *)
(* run, of which the walk is one part.                                     *)
(*                                                                         *)
(* A walk that completes has seen one moment of the tree, with any number  *)
(* of changes beside it. What makes it so is that a change always moves a  *)
(* time that the walk has observed: who looks twice and sees the same has  *)
(* missed nothing in between. That is stated of every observation,         *)
(* together with where the walk still has to go.                           *)
(*                                                                         *)
(* In the run the invariants of the update and of the walk hold, and       *)
(* whatever question it puts to the index file, to the bounded list of     *)
(* warnings or to the fitting of an answer is one that the theorems of     *)
(* IndexFormat_proofs and Rendering_proofs answer.                         *)
(***************************************************************************)
EXTENDS MCEngine, IncrementalUpdate_proofs, Rendering_proofs

(* Numbers and sequences *)

\* The parts of a sequence, and what is appended to one, replaced at its end or
\* taken off.
LEMMA SequenceParts ==
    ASSUME NEW S, NEW s \in Seq(S)
    PROVE  /\ Len(s) \in Nat /\ DOMAIN s = 1 .. Len(s)
           /\ \A i \in 1 .. Len(s) : s[i] \in S
           /\ s # <<>> <=> Len(s) # 0
  OBVIOUS

LEMMA EndIs ==
    ASSUME NEW S, NEW s \in Seq(S), s # <<>>, NEW x \in S
    PROVE  /\ [s EXCEPT ![Len(s)] = x] \in Seq(S)
           /\ Len([s EXCEPT ![Len(s)] = x]) = Len(s)
           /\ [s EXCEPT ![Len(s)] = x][Len(s)] = x
           /\ \A i \in 1 .. Len(s) - 1 : [s EXCEPT ![Len(s)] = x][i] = s[i]
<1> DEFINE n == Len(s)
<1>1. n \in Nat /\ n # 0
  BY SequenceParts
<1> HIDE DEF n
<1>2. n \in 1 .. n /\ \A i \in 1 .. n - 1 : i \in 1 .. n /\ i # n
  BY <1>1
<1> USE DEF n
<1> QED
  BY <1>2, ExceptSeq

LEMMA PopIs ==
    ASSUME NEW S, NEW s \in Seq(S), s # <<>>
    PROVE  /\ SubSeq(s, 1, Len(s) - 1) \in Seq(S)
           /\ Len(SubSeq(s, 1, Len(s) - 1)) = Len(s) - 1
           /\ \A i \in 1 .. Len(s) - 1 : SubSeq(s, 1, Len(s) - 1)[i] = s[i]
<1> DEFINE n == Len(s) - 1
<1>1. n \in Nat /\ \A i \in 1 .. n : s[i] \in S
  BY SequenceParts
<1> HIDE DEF n
<1>2. /\ SubSeq(s, 1, n) \in Seq(S) /\ Len(SubSeq(s, 1, n)) = n
      /\ \A i \in 1 .. n : SubSeq(s, 1, n)[i] = s[i]
  BY <1>1
<1> QED
  BY <1>2 DEF n

-----------------------------------------------------------------------------
(* Paths *)

\* What the constants say.
LEMMA Constants ==
    /\ Folders \subseteq Paths /\ TopDir \in Folders
    /\ PrunedFolders \subseteq Folders \ {TopDir}
    /\ RuleFiles \subseteq Nodes \ Folders
    /\ \A p, q \in RuleFiles : Parent(p) = Parent(q) => p = q
    /\ \A p \in Nodes : Parent(p) \in Folders
    /\ IsFiniteSet(Nodes)
    /\ Observations \in Nat /\ MaxChanges \in Nat
    /\ DOMAIN Order \subseteq Nat
    /\ \A p \in Nodes : \E i \in DOMAIN Order : Order[i] = p
  BY WalkAssumption DEF Paths, TopDir, Parent

\* A path is longer than that of its directory; the directories it is in are
\* that one and those above it.
LEMMA Upwards ==
    /\ \A p \in Paths : Len(p) \in Nat
    /\ \A p \in Nodes : Len(Parent(p)) < Len(p) /\ p # TopDir
    /\ Enclosing(TopDir) = {}
    /\ \A p \in Nodes :
          /\ Enclosing(p) \subseteq Enclosing(Parent(p)) \cup {Parent(p)}
          /\ Enclosing(Parent(p)) \cup {Parent(p)}
                \subseteq Enclosing(p) \cup {TopDir}
<1> DEFINE names == UNION {{p[i] : i \in DOMAIN p} : p \in Nodes}
<1>1. Nodes \subseteq Seq(names) \ {<<>>}
  BY WalkAssumption
<1> HIDE DEF names
<1>2. ASSUME NEW p \in Nodes
      PROVE  /\ Len(p) \in Nat /\ Len(p) > 0 /\ p # TopDir
             /\ Parent(p) \in Seq(names) /\ Len(Parent(p)) = Len(p) - 1
             /\ Len(p) = 1 => Parent(p) = TopDir
             /\ \A i \in 1 .. Len(p) - 1 :
                  SubSeq(Parent(p), 1, i) = SubSeq(p, 1, i)
  <2>1. p \in Seq(names) /\ p # <<>>
    BY <1>1
  <2>2. Len(p) \in Nat /\ Len(p) > 0 /\ p # TopDir
    BY <2>1 DEF TopDir
  <2>3. /\ Parent(p) \in Seq(names) /\ Len(Parent(p)) = Len(p) - 1
        /\ \A i \in 1 .. Len(p) - 1 : Parent(p)[i] = p[i]
    BY <2>1, PopIs DEF Parent
  <2>4. Len(p) = 1 => Parent(p) = TopDir
    BY <2>3 DEF TopDir
  <2>5. ASSUME NEW i \in 1 .. Len(p) - 1
        PROVE  SubSeq(Parent(p), 1, i) = SubSeq(p, 1, i)
    BY <2>1, <2>2, <2>3
  <2> QED
    BY <2>2, <2>3, <2>4, <2>5
<1>3. Len(TopDir) = 0 /\ Enclosing(TopDir) = {}
  BY DEF TopDir, Enclosing
<1>4. \A p \in Paths : Len(p) \in Nat
  BY <1>2, <1>3 DEF Paths
<1>5. ASSUME NEW p \in Nodes
      PROVE  /\ Enclosing(p) \subseteq Enclosing(Parent(p)) \cup {Parent(p)}
             /\ Enclosing(Parent(p)) \cup {Parent(p)}
                   \subseteq Enclosing(p) \cup {TopDir}
  <2>1. Enclosing(Parent(p)) = {SubSeq(p, 1, i) : i \in 1 .. Len(p) - 2}
    BY <1>2 DEF Enclosing
  <2>2. Parent(p) = SubSeq(p, 1, Len(p) - 1)
    BY DEF Parent
  <2>3. \A i \in 1 .. Len(p) - 1 : i = Len(p) - 1 \/ i \in 1 .. Len(p) - 2
    BY <1>2
  <2>4. Enclosing(p) \subseteq Enclosing(Parent(p)) \cup {Parent(p)}
    BY <2>1, <2>2, <2>3 DEF Enclosing
  <2> DEFINE n == Len(p)
  <2>a. n \in Nat /\ n > 0 /\ (n = 1 => Parent(p) = TopDir)
    BY <1>2
  <2> HIDE DEF n
  <2>5. \A i \in 1 .. n - 2 : i \in 1 .. n - 1
    BY <2>a
  <2>6. Parent(p) = TopDir \/ n - 1 \in 1 .. n - 1
    BY <2>a
  <2> QED
    BY <2>1, <2>2, <2>4, <2>5, <2>6 DEF Enclosing, n
<1> QED
  BY <1>2, <1>3, <1>4, <1>5

\* The next entry is one of those left, and a file of rules when there is one.
LEMMA FirstIs ==
    ASSUME NEW S \in SUBSET Nodes, S # {}
    PROVE  /\ First(S) \in S
           /\ S \cap RuleFiles # {} => First(S) \in RuleFiles
<1> DEFINE T == IF S \cap RuleFiles # {} THEN S \cap RuleFiles ELSE S
           positions == {Position(p) : p \in T}
<1>1. \A p \in Nodes : Position(p) \in DOMAIN Order /\ Order[Position(p)] = p
  BY Constants DEF Position
<1>2. positions \subseteq Nat /\ positions # {}
  BY <1>1, Constants
<1>3. PICK m \in positions : \A n \in positions : m <= n
  BY <1>2, SmallestNumber
<1>4. PICK p \in T : Position(p) = m
  BY <1>3
<1>5. \A q \in T \ {p} : Position(p) < Position(q)
  <2> SUFFICES ASSUME NEW q \in T \ {p}
               PROVE  Position(p) < Position(q)
    OBVIOUS
  <2>1. Position(p) <= Position(q) /\ Position(p) \in Nat /\ Position(q) \in Nat
    BY <1>2, <1>3, <1>4
  <2>2. Position(p) # Position(q)
    BY <1>1
  <2> QED
    BY <2>1, <2>2
<1>6. \A q \in S \ {p} : Before(p, q)
  BY <1>4, <1>5 DEF Before
<1>7. First(S) \in S /\ \A q \in S \ {First(S)} : Before(First(S), q)
  BY <1>4, <1>6 DEF First
<1> QED
  BY <1>7 DEF Before

-----------------------------------------------------------------------------
(* The tree and those who change it *)

Infos == [kind : {"none", "file", "folder"}, id : Nat, size : Nat, time : Nat]

KindOf(p) == IF p \in Folders THEN "folder" ELSE "file"

\* A tree: what is there is in a directory that is there.
TreeOK(t) ==
    /\ t \in [Paths -> Infos] /\ t[TopDir].kind # "none"
    /\ \A p \in Paths : t[p].kind \in {"none", KindOf(p)}
    /\ \A p \in Nodes : t[p].kind # "none" => t[Parent(p)].kind # "none"

FsOK ==
    /\ TreeOK(fs)
    /\ clock \in 0 .. MaxChanges
    /\ \A p \in Paths : fs[p].time <= clock

\* What a change does not leave as it was is gone or has a time of its own, and
\* so has the directory whose entries came or went.
Fresh(p) == fs'[p].kind = "none" \/ fs'[p].time = clock + 1

Moved ==
    /\ clock' = clock + 1
    /\ \A p \in Paths : fs'[p] = fs[p] \/ Fresh(p)
    /\ \A d \in Paths : Listed(d)' = Listed(d) \/ Fresh(d)

LEMMA NewEntry ==
    ASSUME NEW p \in Nodes, NEW id \in Nat, NEW size \in Nat, NEW time \in Nat
    PROVE  /\ Entry(p, id, size, time) \in Infos
           /\ Entry(p, id, size, time).kind = KindOf(p)
           /\ Entry(p, id, size, time).kind # "none"
           /\ Entry(p, id, size, time).time = time
  BY DEF Entry, KindOf, Infos

LEMMA AlterMoves ==
    ASSUME FsOK, NEW p \in Nodes, NEW e \in Infos, NEW within \in BOOLEAN,
           Alter(p, e, within),
           e.kind \in {"none", KindOf(p)}, e.time <= clock + 1,
           e.kind = "none" \/ e.time = clock + 1,
           within \/ (There(p) /\ e.kind # "none"),
           e.kind = "none" => Listed(p) = {},
           e.kind # "none" => There(Parent(p))
    PROVE  FsOK' /\ Moved
<1> DEFINE d == Parent(p)
<1>1. /\ TreeOK(fs) /\ clock \in Nat /\ clock < MaxChanges /\ MaxChanges \in Nat
      /\ \A q \in Paths : fs[q].time <= clock
  BY Constants DEF FsOK, Alter
<1>2. clock' = clock + 1 /\ clock' \in 0 .. MaxChanges
  BY <1>1 DEF Alter
<1>3. /\ p \in Paths /\ d \in Paths /\ d # p
      /\ \A q \in Nodes : q \in Paths /\ Parent(q) \in Paths
  BY Constants, Upwards DEF Paths
<1>4. /\ fs' = [q \in Paths |-> fs'[q]]
      /\ fs'[p] = e
      /\ \A q \in Paths \ {p} :
            fs'[q] = IF q = d /\ within THEN [fs[q] EXCEPT !.time = clock + 1]
                     ELSE fs[q]
  BY <1>2, <1>3 DEF Alter
<1> HIDE DEF d
<1>5. \A q \in Paths : fs[q] \in Infos
  BY <1>1 DEF TreeOK
<1>6. ASSUME NEW q \in Paths \ {p}
      PROVE  /\ fs'[q] \in Infos /\ fs'[q].kind = fs[q].kind
             /\ fs'[q] = fs[q] \/ (fs'[q].time = clock + 1 /\ q = d /\ within)
             /\ q = d /\ within => fs'[q].time = clock + 1
  BY <1>1, <1>4, <1>5 DEF Infos
<1>7. \A q \in Paths : fs'[q] \in Infos /\ fs'[q].kind \in {"none", KindOf(q)}
  BY <1>1, <1>4, <1>6 DEF TreeOK
<1>8. \A q \in Paths : fs'[q].time <= clock'
  BY <1>1, <1>2, <1>4, <1>5, <1>6 DEF Infos
<1>9. fs'[TopDir].kind # "none"
  BY <1>1, <1>6, Constants, Upwards DEF TreeOK
<1>10. ASSUME NEW q \in Nodes, fs'[q].kind # "none"
       PROVE  fs'[Parent(q)].kind # "none"
  <2>1. CASE q = p
    BY <1>3, <1>4, <1>6, <1>10, <2>1 DEF There, d
  <2>2. CASE q # p
    <3>1. fs[q].kind # "none" /\ fs[Parent(q)].kind # "none"
      BY <1>1, <1>3, <1>6, <1>10, <2>2 DEF TreeOK
    <3>2. CASE Parent(q) = p
      <4>1. q \in Listed(p)
        BY <3>1, <3>2 DEF Listed, Entries, There
      <4> QED
        BY <1>4, <3>2, <4>1
    <3>3. CASE Parent(q) # p
      BY <1>3, <1>6, <3>1, <3>3
    <3> QED
      BY <3>2, <3>3
  <2> QED
    BY <2>1, <2>2
<1>11. FsOK'
  BY <1>2, <1>4, <1>7, <1>8, <1>9, <1>10 DEF FsOK, TreeOK
<1>12. \A q \in Paths : fs'[q] = fs[q] \/ Fresh(q)
  BY <1>4, <1>6 DEF Fresh
<1>13. ASSUME NEW c \in Paths
       PROVE  Listed(c)' = Listed(c) \/ Fresh(c)
  <2>1. CASE c = d /\ within
    BY <1>3, <1>6, <2>1 DEF Fresh
  <2>2. CASE c = d /\ ~within
    <3>1. \A q \in Nodes : fs'[q].kind # "none" <=> fs[q].kind # "none"
      BY <1>3, <1>4, <1>6, <2>2 DEF There
    <3> QED
      BY <3>1 DEF Listed, Entries, There
  <2>3. CASE c # d
    <3>1. \A q \in Entries(c) : q \in Paths \ {p}
      BY <1>3, <2>3 DEF Entries, d
    <3>2. \A q \in Entries(c) : fs'[q].kind # "none" <=> fs[q].kind # "none"
      BY <1>6, <3>1
    <3> QED
      BY <3>2 DEF Listed, There
  <2> QED
    BY <2>1, <2>2, <2>3
<1> QED
  BY <1>2, <1>11, <1>12, <1>13 DEF Moved

LEMMA OthersMove ==
    ASSUME FsOK, Others
    PROVE  FsOK' /\ Moved /\ UNCHANGED walker /\ at # "start"
<1>1. PICK p \in Nodes : Rewrite(p) \/ Replace(p) \/ Create(p) \/ Remove(p)
  BY DEF Others
<1>2. /\ clock \in Nat /\ clock + 1 \in Nat /\ clock + 2 \in Nat
      /\ p \in Paths /\ fs[p] \in Infos /\ fs[p].id \in Nat
  BY Constants DEF FsOK, TreeOK, Paths, Infos
<1>3. There(p) => There(Parent(p))
  BY DEF FsOK, TreeOK, There
<1>4. CASE Rewrite(p)
  <2>1. PICK size \in {1, 2} :
            Alter(p, Entry(p, fs[p].id, size, clock + 1), FALSE)
    BY <1>4 DEF Rewrite
  <2> DEFINE e == Entry(p, fs[p].id, size, clock + 1)
  <2>2. e \in Infos /\ e.kind = KindOf(p) /\ e.kind # "none"
          /\ e.time = clock + 1
    BY <1>2, NewEntry
  <2>3. There(p) /\ There(Parent(p))
    BY <1>3, <1>4 DEF Rewrite
  <2>a. Alter(p, e, FALSE)
    BY <2>1
  <2> HIDE DEF e
  <2>4. e.time <= clock + 1
    BY <1>2, <2>2
  <2>5. FsOK' /\ Moved
    BY <2>2, <2>3, <2>4, <2>a, AlterMoves
  <2> QED
    BY <2>1, <2>5 DEF Alter
<1>5. CASE Replace(p) \/ Create(p)
  <2> DEFINE e == Entry(p, clock + 2, 1, clock + 1)
  <2>1. Alter(p, e, TRUE) /\ There(Parent(p))
    BY <1>3, <1>5 DEF Replace, Create
  <2>2. e \in Infos /\ e.kind = KindOf(p) /\ e.kind # "none"
          /\ e.time = clock + 1
    BY <1>2, NewEntry
  <2> HIDE DEF e
  <2>3. e.time <= clock + 1
    BY <1>2, <2>2
  <2>4. FsOK' /\ Moved
    BY <2>1, <2>2, <2>3, AlterMoves
  <2> QED
    BY <2>1, <2>4 DEF Alter
<1>6. CASE Remove(p)
  <2>1. Alter(p, NoEntry, TRUE) /\ Listed(p) = {}
    BY <1>6 DEF Remove
  <2>2. /\ NoEntry \in Infos /\ NoEntry.kind = "none"
        /\ NoEntry.time <= clock + 1
    BY <1>2 DEF NoEntry, Infos
  <2> QED
    BY <2>1, <2>2, AlterMoves DEF Alter
<1> QED
  BY <1>1, <1>4, <1>5, <1>6

-----------------------------------------------------------------------------
(* The invariant *)

Listings ==
    [dir : Folders, info : Infos, todo : SUBSET Nodes,
     got : UNION {[D -> Infos] : D \in SUBSET Nodes}]

ListedIn(t, d) == {p \in Entries(d) : t[p].kind # "none"}

\* What the listing l observed was there, at a time that is past; as long as its
\* directory is as it was, its entries are those that were observed and those
\* that still have to be.
Kept(l, t, now) ==
    /\ l.info.kind # "none" /\ l.info.time <= now
    /\ l.todo \subseteq Entries(l.dir) /\ DOMAIN l.got \subseteq Entries(l.dir)
    /\ \A p \in DOMAIN l.got : l.got[p].kind # "none" /\ l.got[p].time <= now
    /\ t[l.dir] = l.info => ListedIn(t, l.dir) = l.todo \cup DOMAIN l.got

\* What the listing l observed and the tree t still has, the settled tree s had.
Settles(l, t, s) ==
    /\ t[l.dir] = l.info => s[l.dir] = l.info
    /\ s[l.dir] = l.info => ListedIn(s, l.dir) = DOMAIN l.got
    /\ \A p \in DOMAIN l.got : t[p] = l.got[p] => s[p] = l.got[p]

\* What the listing l observed is what the settled tree s had and what was read.
Confirmed(l, s, read) ==
    /\ s[l.dir] = l.info
    /\ \A p \in DOMAIN l.got :
          s[p] = l.got[p] /\ (p \in DOMAIN read => read[p] = l.got[p])

\* The second listing m of a directory observed nothing that the first listing l
\* had not, unless the settled tree had it too.
Relisted(l, m, s, read) ==
    /\ m.dir = l.dir
    /\ m.info = l.info => s[l.dir] = l.info
    /\ \A p \in DOMAIN m.got \cap DOMAIN l.got : m.got[p] = l.got[p] =>
          s[p] = l.got[p] /\ (p \in DOMAIN read => read[p] = l.got[p])

Discovery    == {"list", "visit", "read", "descend"}
Verification == {"verify", "relist", "complete"}

ShapeOK ==
    /\ at \in {"start"} \cup Discovery \cup {"verify", "relist"} \cup Outcomes
    /\ frames \in Seq(SUBSET Nodes)
    /\ snapshots \in Seq(Listings)
    /\ \A i \in DOMAIN snapshots :
          Kept(snapshots[i], fs, clock) /\ snapshots[i].todo = {}
    /\ at \in {"list", "relist"}
         => listing \in Listings /\ Kept(listing, fs, clock)
    /\ checked \in 0 .. Len(snapshots)
    /\ budget \in 0 .. 2 * Observations

CounterOK ==
    /\ at = "start" => /\ frames = <<>> /\ snapshots = <<>>
                       /\ DOMAIN seen = {} /\ checked = 0
    /\ at \in Discovery => checked = 0
    /\ at \in {"visit", "read", "descend"} => frames # <<>>
    /\ at = "read" => Top # {} /\ Due \notin Folders
    /\ at = "descend" => Top # {} /\ Due \in Folders \ PrunedFolders
    /\ at \in Verification => frames = <<>>
    /\ at = "relist" => checked < Len(snapshots)
    /\ at = "complete" => checked = Len(snapshots)

Pending == UNION {frames[k] : k \in DOMAIN frames}
Dirs    == {snapshots[i].dir : i \in DOMAIN snapshots}
Entered == Dirs \cup (IF at = "list" THEN {listing.dir} ELSE {})

Observed(p) ==
    \E i \in DOMAIN snapshots :
        snapshots[i].dir = Parent(p) /\ p \in DOMAIN snapshots[i].got

\* No directory is listed twice; what is entered is in what was listed and not
\* pruned.
DirsOK ==
    /\ \A i, j \in DOMAIN snapshots :
         snapshots[i].dir = snapshots[j].dir => i = j
    /\ at = "list" => listing.dir \notin Dirs
    /\ \A d \in Entered : /\ d \in Nodes => Parent(d) \in Dirs
                          /\ (Enclosing(d) \cup {d}) \cap PrunedFolders = {}

\* Every entry that was observed is visited once: what is pending was observed,
\* is in one frame and not visited yet; what is not pending has been visited.
PendingOK ==
    /\ \A p \in Pending : Observed(p) /\ p \notin DOMAIN seen \cup Entered
    /\ \A k, l \in DOMAIN frames : k # l =>
          \A p \in frames[k], q \in frames[l] : Parent(p) # Parent(q)

SeenOK ==
    /\ \A p \in DOMAIN seen : p \in Nodes \ Folders /\ Observed(p)
    /\ \A p \in Nodes \ Folders : Observed(p) => p \in DOMAIN seen \cup Pending

EnteredOK ==
    at \in Discovery \cup Verification =>
        /\ TopDir \in Entered
        /\ \A p \in Folders \ PrunedFolders :
              p \in Nodes /\ Observed(p) => p \in Pending \cup Entered

\* As long as a file of rules is pending no file beside it has been visited.
RulesOK ==
    \A q \in RuleFiles \cap Pending : \A p \in DOMAIN seen :
      Parent(p) # Parent(q)

\* A file that is as it was observed was read so.
ReadOK ==
    \A i \in DOMAIN snapshots :
      \A p \in DOMAIN snapshots[i].got \cap DOMAIN seen :
        fs[p] = snapshots[i].got[p] => seen[p] = snapshots[i].got[p]

SettledOK ==
    at \in Verification =>
        /\ TreeOK(settled)
        /\ \A i \in DOMAIN snapshots : Settles(snapshots[i], fs, settled)
        /\ \A i \in 1 .. checked : Confirmed(snapshots[i], settled, seen)
        /\ at = "relist" => Relisted(Again, listing, settled, seen)

PlaceOK == DirsOK /\ PendingOK /\ SeenOK /\ EnteredOK /\ RulesOK

WInv == FsOK /\ ShapeOK /\ CounterOK /\ PlaceOK /\ ReadOK /\ SettledOK

-----------------------------------------------------------------------------
(* Changes beside the walk *)

\* Who sees after a change what was observed before it has missed nothing.
LEMMA NothingMissed ==
    ASSUME FsOK, Moved, NEW p \in Paths, NEW o \in Infos,
           o.kind # "none", o.time <= clock, fs'[p] = o
    PROVE  fs[p] = o /\ Listed(p)' = Listed(p)
<1>1. clock \in Nat
  BY Constants DEF FsOK
<1>2. o.time # clock + 1
  BY <1>1 DEF Infos
<1> QED
  BY <1>2 DEF Moved, Fresh

LEMMA KeptMoves ==
    ASSUME FsOK, Moved, NEW l \in Listings, Kept(l, fs, clock)
    PROVE  Kept(l, fs', clock')
<1>1. l.dir \in Paths /\ l.info \in Infos
  BY Constants DEF Listings
<1>2. fs'[l.dir] = l.info =>
         fs[l.dir] = l.info /\ ListedIn(fs', l.dir) = ListedIn(fs, l.dir)
  BY <1>1, NothingMissed DEF Kept, ListedIn, Listed, There
<1>3. \A p \in DOMAIN l.got : l.got[p] \in Infos
  BY DEF Listings
<1>4. /\ clock \in Nat /\ clock' = clock + 1
      /\ \A o \in Infos : o.time <= clock => o.time <= clock'
  BY Constants DEF FsOK, Moved, Infos
<1> QED
  BY <1>1, <1>2, <1>3, <1>4 DEF Kept

LEMMA SettlesMoves ==
    ASSUME FsOK, Moved, NEW l \in Listings, Kept(l, fs, clock),
           NEW s, Settles(l, fs, s)
    PROVE  Settles(l, fs', s)
<1>1. l.dir \in Paths /\ l.info \in Infos
  BY Constants DEF Listings
<1>2. fs'[l.dir] = l.info => fs[l.dir] = l.info
  BY <1>1, NothingMissed DEF Kept
<1>3. \A p \in DOMAIN l.got : l.got[p] \in Infos /\ p \in Paths
  BY DEF Listings, Paths
<1>4. \A p \in DOMAIN l.got : fs'[p] = l.got[p] => fs[p] = l.got[p]
  BY <1>3, NothingMissed DEF Kept
<1> QED
  BY <1>2, <1>4 DEF Settles

LEMMA OthersKeep ==
    ASSUME WInv, Others
    PROVE  WInv'
<1>1. /\ FsOK' /\ Moved /\ FsOK
      /\ at' = at /\ frames' = frames /\ listing' = listing
      /\ snapshots' = snapshots /\ checked' = checked /\ budget' = budget
      /\ seen' = seen /\ settled' = settled
  BY OthersMove DEF WInv, walker
<1>2. \A i \in DOMAIN snapshots :
          snapshots[i] \in Listings /\ Kept(snapshots[i], fs, clock)
  BY SequenceParts DEF WInv, ShapeOK
<1>3. ShapeOK'
  BY <1>1, <1>2, KeptMoves DEF WInv, ShapeOK
<1>4. CounterOK'
  BY <1>1 DEF WInv, CounterOK, Top, Due
<1>5. PlaceOK'
  BY <1>1 DEF WInv, PlaceOK, DirsOK, PendingOK, SeenOK, EnteredOK, RulesOK,
              Pending, Dirs, Entered, Observed
<1>6. ReadOK'
  <2> SUFFICES ASSUME NEW i \in DOMAIN snapshots,
                      NEW p \in DOMAIN snapshots[i].got \cap DOMAIN seen,
                      fs'[p] = snapshots[i].got[p]
               PROVE  seen[p] = snapshots[i].got[p]
    BY <1>1 DEF ReadOK
  <2>1. p \in Paths /\ snapshots[i].got[p] \in Infos
    BY <1>2 DEF Listings, Paths
  <2>2. fs[p] = snapshots[i].got[p]
    BY <1>1, <1>2, <2>1, NothingMissed DEF Kept
  <2> QED
    BY <2>2 DEF WInv, ReadOK
<1>7. SettledOK'
  BY <1>1, <1>2, SettlesMoves DEF WInv, SettledOK, Again
<1> QED
  BY <1>1, <1>3, <1>4, <1>5, <1>6, <1>7 DEF WInv

-----------------------------------------------------------------------------
(* Listing *)

\* Where the walk has been does not change when it only goes on listing, checks
\* or gives up.
LEMMA PlaceStays ==
    ASSUME PlaceOK, UNCHANGED <<frames, snapshots, seen>>,
           at' = "list" => at = "list" /\ listing'.dir = listing.dir,
           at' \in Discovery \cup Verification =>
              /\ at \in Discovery \cup Verification
              /\ at = "list" => at' = "list"
    PROVE  PlaceOK'
<1>1. Dirs' = Dirs /\ Pending' = Pending /\ \A p : Observed(p)' = Observed(p)
  BY DEF Dirs, Pending, Observed
<1>2. Entered' \subseteq Entered
  BY <1>1 DEF Entered
<1>3. at' \in Discovery \cup Verification => Entered' = Entered
  BY <1>1 DEF Entered
<1>4. DirsOK'
  BY <1>1, <1>2 DEF PlaceOK, DirsOK
<1>5. PendingOK' /\ SeenOK'
  BY <1>1, <1>2 DEF PlaceOK, PendingOK, SeenOK
<1>6. EnteredOK' /\ RulesOK'
  BY <1>1, <1>3 DEF PlaceOK, EnteredOK, RulesOK
<1> QED
  BY <1>4, <1>5, <1>6 DEF PlaceOK

\* Who gives up keeps what is known.
LEMMA GiveUp ==
    ASSUME WInv, at' \in {"unsafe", "limit", "changed"},
           UNCHANGED <<fs, clock, frames, listing, snapshots, checked, budget,
                       seen, settled>>
    PROVE  WInv'
<1>1. /\ fs' = fs /\ clock' = clock /\ frames' = frames /\ listing' = listing
      /\ snapshots' = snapshots /\ checked' = checked /\ budget' = budget
      /\ seen' = seen /\ settled' = settled
  OBVIOUS
<1>2. /\ at' \notin {"start", "list", "relist", "visit", "read", "descend"}
      /\ at' \notin Discovery \cup Verification /\ at' # "complete"
      /\ at' \in Outcomes
  BY DEF Discovery, Verification, Outcomes
<1>3. FsOK' /\ ReadOK' /\ SettledOK'
  BY <1>1, <1>2 DEF WInv, FsOK, ReadOK, SettledOK
<1>4. ShapeOK'
  BY <1>1, <1>2 DEF WInv, ShapeOK
<1>5. CounterOK'
  BY <1>1, <1>2 DEF WInv, CounterOK
<1>6. PlaceOK'
  BY <1>1, <1>2, PlaceStays DEF WInv
<1> QED
  BY <1>3, <1>4, <1>5, <1>6 DEF WInv

\* How a listing starts.
LEMMA ListingStarts ==
    ASSUME FsOK, NEW d \in Folders, There(d),
           NEW left \in 0 .. 2 * Observations,
           NEW label, StartListing(d, left, label)
    PROVE  \/ at' = "limit" /\ UNCHANGED <<listing, budget>>
           \/ /\ at' = label /\ budget' \in 0 .. 2 * Observations
              /\ listing' \in Listings /\ Kept(listing', fs, clock)
              /\ listing'.dir = d /\ listing'.info = fs[d]
              /\ DOMAIN listing'.got = {}
<1>1. CASE at' = "limit" /\ UNCHANGED <<listing, budget>>
  BY <1>1
<1>2. CASE /\ ~ (Cardinality(Listed(d)) >= left)
           /\ at' = label /\ budget' = left - Cardinality(Listed(d))
           /\ listing' = [dir |-> d, info |-> fs[d], todo |-> Listed(d),
                          got |-> <<>>]
  <2>1. Observations \in Nat /\ left \in Nat
    BY Constants
  <2>2. Cardinality(Listed(d)) \in Nat
    <3>1. Listed(d) \subseteq Nodes
      BY DEF Listed, Entries
    <3> QED
      BY <3>1, Constants, FS_Subset, FS_CardinalityType
  <2>3. budget' \in 0 .. 2 * Observations
    <3> DEFINE n == Cardinality(Listed(d))
    <3>1. n \in Nat /\ ~ (n >= left) /\ budget' = left - n
      BY <1>2, <2>2
    <3> HIDE DEF n
    <3> QED
      BY <2>1, <3>1
  <2>4. <<>> \in [{} -> Infos] /\ DOMAIN <<>> = {}
    OBVIOUS
  <2>5. Listed(d) \in SUBSET Nodes /\ {} \in SUBSET Nodes
    BY DEF Listed, Entries
  <2>6. d \in Paths /\ fs[d] \in Infos /\ fs[d].time <= clock
    BY Constants DEF FsOK, TreeOK
  <2> DEFINE none == <<>>
  <2>7. none \in UNION {[D -> Infos] : D \in SUBSET Nodes} /\ DOMAIN none = {}
    BY <2>4, <2>5
  <2>8. listing' = [dir |-> d, info |-> fs[d], todo |-> Listed(d), got |-> none]
    BY <1>2
  <2> HIDE DEF none
  <2>9. /\ listing' \in Listings /\ listing'.dir = d /\ listing'.info = fs[d]
        /\ listing'.todo = Listed(d) /\ DOMAIN listing'.got = {}
    BY <2>5, <2>6, <2>7, <2>8 DEF Listings
  <2>10. Kept(listing', fs, clock)
    BY <2>6, <2>9 DEF Kept, Listed, ListedIn, There
  <2> QED
    BY <1>2, <2>3, <2>9, <2>10
<1> QED
  BY <1>1, <1>2 DEF StartListing

LEMMA BeginKeeps ==
    ASSUME WInv, Begin
    PROVE  WInv'
<1>1. /\ fs' = fs /\ clock' = clock /\ frames' = frames
      /\ snapshots' = snapshots /\ checked' = checked
      /\ seen' = seen /\ settled' = settled
      /\ at = "start" /\ StartListing(TopDir, Observations, "list")
  BY DEF Begin
<1>2. FsOK /\ There(TopDir) /\ TopDir \in Folders
      /\ Observations \in 0 .. 2 * Observations
  BY Constants DEF WInv, FsOK, TreeOK, There
<1>3. CASE at' = "limit" /\ UNCHANGED <<listing, budget>>
  BY <1>1, <1>3, GiveUp
<1>4. CASE /\ at' = "list" /\ budget' \in 0 .. 2 * Observations
           /\ listing' \in Listings /\ Kept(listing', fs, clock)
           /\ listing'.dir = TopDir
  <2>1. frames = <<>> /\ snapshots = <<>> /\ DOMAIN seen = {} /\ checked = 0
    BY <1>1 DEF WInv, CounterOK
  <2>2. /\ at' \notin {"start", "relist", "visit", "read", "descend",
                         "complete"}
        /\ at' \notin Verification /\ at' \in Discovery
    BY <1>4 DEF Discovery, Verification
  <2>3. FsOK' /\ ReadOK' /\ SettledOK'
    BY <1>1, <2>1, <2>2 DEF WInv, FsOK, ReadOK, SettledOK
  <2>4. ShapeOK'
    BY <1>1, <1>4, <2>2 DEF WInv, ShapeOK
  <2>5. CounterOK'
    BY <1>1, <2>1, <2>2 DEF WInv, CounterOK
  <2>6. DOMAIN frames = {} /\ DOMAIN snapshots = {}
    BY <2>1
  <2>7. /\ Dirs' = {} /\ Pending' = {} /\ Entered' = {TopDir}
        /\ \A p : ~Observed(p)'
    BY <1>1, <1>4, <2>6 DEF Dirs, Pending, Entered, Observed
  <2>8. DirsOK'
    BY <1>1, <1>4, <2>6, <2>7, Constants, Upwards DEF DirsOK
  <2>9. PendingOK' /\ SeenOK' /\ EnteredOK' /\ RulesOK'
    BY <1>1, <2>1, <2>6, <2>7 DEF PendingOK, SeenOK, EnteredOK, RulesOK
  <2> QED
    BY <2>3, <2>4, <2>5, <2>8, <2>9 DEF WInv, PlaceOK
<1> QED
  BY <1>1, <1>2, <1>3, <1>4, ListingStarts

\* One entry more.
LEMMA ObserveKeeps ==
    ASSUME WInv, Observe
    PROVE  WInv'
<1>1. /\ fs' = fs /\ clock' = clock /\ frames' = frames
      /\ snapshots' = snapshots /\ checked' = checked /\ budget' = budget
      /\ seen' = seen /\ settled' = settled
      /\ at \in {"list", "relist"}
  BY DEF Observe
<1>2. PICK p \in listing.todo :
          IF There(p)
          THEN /\ listing' = [listing EXCEPT !.todo = @ \ {p},
                     !.got = [q \in DOMAIN @ \cup {p} |->
                                 IF q = p THEN fs[p] ELSE @[q]]]
               /\ at' = at
          ELSE /\ at' = (IF at = "list" THEN "unsafe" ELSE "changed")
               /\ UNCHANGED listing
  BY DEF Observe
<1>3. CASE ~There(p)
  BY <1>1, <1>2, <1>3, GiveUp
<1>4. CASE There(p)
  <2>1. listing \in Listings /\ Kept(listing, fs, clock)
    BY <1>1 DEF WInv, ShapeOK
  <2>2. /\ listing.dir \in Folders /\ listing.info \in Infos
        /\ listing.todo \subseteq Nodes
        /\ DOMAIN listing.got \subseteq Nodes
        /\ \A q \in DOMAIN listing.got : listing.got[q] \in Infos
    BY <2>1 DEF Listings
  <2>3. p \in Entries(listing.dir) /\ p \in Nodes /\ p \in Paths
    BY <1>2, <2>1 DEF Kept, Entries, Paths
  <2>4. fs[p] \in Infos /\ fs[p].time <= clock /\ fs[p].kind # "none"
    BY <1>4, <2>3 DEF WInv, FsOK, TreeOK, There
  <2> DEFINE got == [q \in DOMAIN listing.got \cup {p} |->
                        IF q = p THEN fs[p] ELSE listing.got[q]]
  <2>5. /\ listing'.dir = listing.dir /\ listing'.info = listing.info
        /\ listing'.todo = listing.todo \ {p} /\ listing'.got = got
        /\ listing' = [dir |-> listing.dir, info |-> listing.info,
                       todo |-> listing.todo \ {p}, got |-> got]
    BY <1>2, <1>4, <2>1 DEF Listings
  <2>6. /\ DOMAIN got = DOMAIN listing.got \cup {p} /\ got[p] = fs[p]
        /\ \A q \in DOMAIN got \ {p} : got[q] = listing.got[q]
        /\ got \in [DOMAIN listing.got \cup {p} -> Infos]
    BY <2>2, <2>4
  <2>7. DOMAIN listing.got \cup {p} \in SUBSET Nodes
    BY <2>2, <2>3
  <2> HIDE DEF got
  <2>8. listing' \in Listings
    BY <2>2, <2>5, <2>6, <2>7 DEF Listings
  <2>9. Kept(listing', fs, clock)
    BY <1>2, <2>1, <2>3, <2>4, <2>5, <2>6 DEF Kept
  <2>10. at' = at
    BY <1>2, <1>4
  <2>11. FsOK' /\ ReadOK'
    BY <1>1 DEF WInv, FsOK, ReadOK
  <2>12. ShapeOK'
    BY <1>1, <2>8, <2>9, <2>10 DEF WInv, ShapeOK
  <2>13. CounterOK'
    BY <1>1, <2>10 DEF WInv, CounterOK, Top, Due
  <2>14. PlaceOK'
    BY <1>1, <2>5, <2>10, PlaceStays DEF WInv
  <2>15. SettledOK'
    <3>1. ASSUME at = "relist"
          PROVE  Relisted(Again, listing', settled, seen)
      <4>1. /\ Relisted(Again, listing, settled, seen)
            /\ Settles(Again, fs, settled) /\ ReadOK
            /\ checked + 1 \in DOMAIN snapshots
        <5>1. checked + 1 \in DOMAIN snapshots
          <6>1. checked \in 0 .. Len(snapshots) /\ checked < Len(snapshots)
                /\ Len(snapshots) \in Nat
                /\ DOMAIN snapshots = 1 .. Len(snapshots)
            BY <3>1, SequenceParts DEF WInv, ShapeOK, CounterOK
          <6> QED
            BY <6>1
        <5> QED
          BY <3>1, <5>1 DEF WInv, SettledOK, Again, Verification
      <4>2. ASSUME p \in DOMAIN Again.got, fs[p] = Again.got[p]
            PROVE  /\ settled[p] = Again.got[p]
                   /\ p \in DOMAIN seen => seen[p] = Again.got[p]
        BY <4>1, <4>2 DEF Settles, ReadOK, Again
      <4> QED
        BY <2>5, <2>6, <4>1, <4>2 DEF Relisted
    <3>2. Again' = Again
      BY <1>1 DEF Again
    <3> QED
      BY <1>1, <2>10, <3>1, <3>2 DEF WInv, SettledOK
  <2> QED
    BY <2>11, <2>12, <2>13, <2>14, <2>15 DEF WInv
<1> QED
  BY <1>3, <1>4

-----------------------------------------------------------------------------
(* Discovery *)

\* A directory that has been listed is on top; it was in none before.
LEMMA EnterKeeps ==
    ASSUME WInv, Enter
    PROVE  WInv'
<1>1. /\ fs' = fs /\ clock' = clock /\ listing' = listing
      /\ checked' = checked /\ budget' = budget
      /\ seen' = seen /\ settled' = settled
      /\ at = "list" /\ listing.todo = {}
  BY DEF Enter
<1>2. CASE at' = "unsafe" /\ UNCHANGED <<frames, snapshots>>
  BY <1>1, <1>2, GiveUp
<1>3. CASE /\ frames' = Append(frames, DOMAIN listing.got)
           /\ snapshots' = Append(snapshots, listing)
           /\ at' = "visit"
  <2> DEFINE n == Len(snapshots)
             m == Len(frames)
             d == listing.dir
             new == DOMAIN listing.got
  <2>1. listing \in Listings /\ Kept(listing, fs, clock) /\ d \in Folders
    BY <1>1 DEF WInv, ShapeOK, Listings
  <2>2. /\ new \in SUBSET Nodes /\ \A p \in new : Parent(p) = d
    BY <2>1 DEF Kept, Entries
  <2>3. /\ frames \in Seq(SUBSET Nodes) /\ snapshots \in Seq(Listings)
    BY DEF WInv, ShapeOK
  <2>4. /\ frames' \in Seq(SUBSET Nodes) /\ Len(frames') = m + 1
        /\ frames' # <<>>
        /\ \A i \in 1 .. m : frames'[i] = frames[i]
        /\ frames'[m + 1] = new
    BY <1>3, <2>2, <2>3, AppendProperties
  <2>5. /\ snapshots' \in Seq(Listings) /\ Len(snapshots') = n + 1
        /\ \A i \in 1 .. n : snapshots'[i] = snapshots[i]
        /\ snapshots'[n + 1] = listing
    BY <1>3, <2>1, <2>3, AppendProperties
  <2>6. /\ n \in Nat /\ m \in Nat
        /\ DOMAIN frames = 1 .. m /\ DOMAIN snapshots = 1 .. n
        /\ DOMAIN frames' = 1 .. m + 1 /\ DOMAIN snapshots' = 1 .. n + 1
    BY <2>3, <2>4, <2>5, SequenceParts
  <2> HIDE DEF n, m, d, new
  <2>7. /\ DOMAIN frames' = DOMAIN frames \cup {m + 1}
        /\ DOMAIN snapshots' = DOMAIN snapshots \cup {n + 1}
        /\ m + 1 \notin DOMAIN frames /\ n + 1 \notin DOMAIN snapshots
        /\ \A i \in DOMAIN frames : frames'[i] = frames[i]
        /\ \A i \in DOMAIN snapshots : snapshots'[i] = snapshots[i]
    BY <2>4, <2>5, <2>6
  <2>8. /\ Dirs' = Dirs \cup {d} /\ Entered = Dirs \cup {d}
        /\ Entered' = Entered /\ d \notin Dirs
    <3>1. Dirs' = Dirs \cup {d}
      BY <2>5, <2>7 DEF Dirs, d
    <3>2. d \notin Dirs
      BY <1>1 DEF WInv, PlaceOK, DirsOK, d
    <3> QED
      BY <1>1, <1>3, <3>1, <3>2 DEF Entered, d
  <2>9. Pending' = Pending \cup new
    BY <2>4, <2>7 DEF Pending
  <2>10. /\ \A p : Observed(p) => Observed(p)' /\ Parent(p) \in Dirs
         /\ \A p \in new : Observed(p)'
         /\ \A p : Observed(p)' => Observed(p) \/ p \in new
    <3>1. \A p : Observed(p) => Observed(p)' /\ Parent(p) \in Dirs
      BY <2>7 DEF Observed, Dirs
    <3>2. \A p \in new : Observed(p)'
      BY <2>2, <2>5, <2>7 DEF Observed, d, new
    <3>3. \A p : Observed(p)' => Observed(p) \/ p \in new
      BY <2>5, <2>7 DEF Observed, new
    <3> QED
      BY <3>1, <3>2, <3>3
  <2>11. \A p \in new : p \notin DOMAIN seen \cup Entered
    <3> SUFFICES ASSUME NEW p \in new, p \in DOMAIN seen \cup Entered
                 PROVE  Parent(p) \in Dirs
      BY <2>2, <2>8
    <3>1. p \in DOMAIN seen => Observed(p)
      BY DEF WInv, PlaceOK, SeenOK
    <3> QED
      BY <2>2, <2>10, <3>1 DEF WInv, PlaceOK, DirsOK
  <2>12. /\ at' \notin {"start", "list", "relist", "read", "descend",
                          "complete"}
         /\ at' \notin Verification /\ at' \in Discovery /\ at \in Discovery
    BY <1>1, <1>3 DEF Discovery, Verification
  <2>13. FsOK' /\ SettledOK'
    BY <1>1, <2>12 DEF WInv, FsOK, SettledOK
  <2>14. ShapeOK'
    <3>1. checked \in 0 .. n + 1
      BY <2>6 DEF WInv, ShapeOK, n
    <3>2. \A i \in DOMAIN snapshots' :
              Kept(snapshots'[i], fs, clock) /\ snapshots'[i].todo = {}
      BY <1>1, <2>1, <2>5, <2>7 DEF WInv, ShapeOK
    <3> QED
      BY <1>1, <2>4, <2>5, <2>12, <3>1, <3>2 DEF WInv, ShapeOK
  <2>15. CounterOK'
    BY <1>1, <2>4, <2>12 DEF WInv, CounterOK
  <2>16. DirsOK'
    <3>1. \A i \in DOMAIN snapshots : snapshots[i].dir \in Dirs
      BY DEF Dirs
    <3>2. \A i, j \in DOMAIN snapshots' :
              snapshots'[i].dir = snapshots'[j].dir => i = j
      BY <2>5, <2>7, <2>8, <3>1 DEF WInv, PlaceOK, DirsOK, d
    <3> QED
      BY <2>8, <2>12, <3>2 DEF WInv, PlaceOK, DirsOK
  <2>17. PendingOK'
    <3>1. \A p \in Pending' :
            Observed(p)' /\ p \notin (DOMAIN seen \cup Entered)'
      BY <1>1, <2>8, <2>9, <2>10, <2>11 DEF WInv, PlaceOK, PendingOK
    <3>2. \A k \in DOMAIN frames : \A p \in frames[k] : Parent(p) # d
      BY <2>8, <2>10 DEF WInv, PlaceOK, PendingOK, Pending
    <3>3. \A k, l \in DOMAIN frames' : k # l =>
              \A p \in frames'[k], q \in frames'[l] : Parent(p) # Parent(q)
      BY <2>2, <2>4, <2>7, <3>2 DEF WInv, PlaceOK, PendingOK
    <3> QED
      BY <3>1, <3>3 DEF PendingOK
  <2>18. SeenOK'
    BY <1>1, <2>9, <2>10 DEF WInv, PlaceOK, SeenOK
  <2>19. EnteredOK'
    BY <2>8, <2>9, <2>10, <2>12 DEF WInv, PlaceOK, EnteredOK
  <2>20. RulesOK'
    <3>1. \A p \in DOMAIN seen : Parent(p) # d
      BY <2>8, <2>10 DEF WInv, PlaceOK, SeenOK
    <3> QED
      BY <1>1, <2>2, <2>9, <3>1 DEF WInv, PlaceOK, RulesOK
  <2>21. ReadOK'
    BY <1>1, <2>5, <2>7, <2>11 DEF WInv, ReadOK, new
  <2> QED
    BY <2>13, <2>14, <2>15, <2>16, <2>17, <2>18, <2>19, <2>20, <2>21
    DEF WInv, PlaceOK
<1> QED
  BY <1>2, <1>3 DEF Enter

\* The entry that is due is in the topmost frame and in no other.
LEMMA Popped ==
    ASSUME WInv, frames # <<>>, Top # {}, frames' = Rest
    PROVE  /\ Due \in Top /\ Due \in Nodes /\ Due \in Pending
           /\ Top \cap RuleFiles # {} => Due \in RuleFiles
           /\ frames' \in Seq(SUBSET Nodes) /\ frames' # <<>>
           /\ Pending' = Pending \ {Due}
           /\ DOMAIN frames' = DOMAIN frames
           /\ \A k \in DOMAIN frames : frames'[k] \subseteq frames[k]
           /\ \A q \in Pending : Parent(q) = Parent(Due) => q \in Top
<1> DEFINE n == Len(frames)
<1>1. /\ frames \in Seq(SUBSET Nodes) /\ n \in Nat /\ n # 0
      /\ DOMAIN frames = 1 .. n /\ Top \in SUBSET Nodes
  <2>1. frames \in Seq(SUBSET Nodes)
    BY DEF WInv, ShapeOK
  <2>2. n \in Nat /\ n # 0 /\ DOMAIN frames = 1 .. n
    BY <2>1, SequenceParts
  <2>3. n \in 1 .. n
    BY <2>2
  <2> QED
    BY <2>1, <2>2, <2>3, SequenceParts DEF Top
<1>2. /\ Due \in Top /\ Due \in Nodes
      /\ Top \cap RuleFiles # {} => Due \in RuleFiles
  BY <1>1, FirstIs DEF Due
<1>3. /\ frames' \in Seq(SUBSET Nodes) /\ Len(frames') = n
      /\ frames'[n] = Top \ {Due}
      /\ \A i \in 1 .. n - 1 : frames'[i] = frames[i]
  <2> DEFINE left == Top \ {Due}
  <2>1. left \in SUBSET Nodes
    BY <1>1
  <2>2. frames' = [frames EXCEPT ![Len(frames)] = left]
    BY DEF Rest, Top
  <2> HIDE DEF left
  <2> DEFINE popped == [frames EXCEPT ![Len(frames)] = left]
  <2>3. /\ popped \in Seq(SUBSET Nodes) /\ Len(popped) = Len(frames)
        /\ popped[Len(frames)] = left
        /\ \A i \in 1 .. Len(frames) - 1 : popped[i] = frames[i]
    <3>1. frames \in Seq(SUBSET Nodes) /\ frames # <<>>
      BY <1>1
    <3> QED
      BY <2>1, <3>1, EndIs
  <2>4. frames' = popped
    BY <2>2
  <2> HIDE DEF popped
  <2> QED
    BY <2>3, <2>4 DEF left
<1>4. DOMAIN frames' = 1 .. n /\ frames' # <<>>
  BY <1>1, <1>3, SequenceParts
<1> HIDE DEF n
<1>5. n \in DOMAIN frames /\ Top = frames[n]
      /\ \A k \in DOMAIN frames : k = n \/ k \in 1 .. n - 1
  BY <1>1 DEF Top, n
<1>6. ASSUME NEW k \in DOMAIN frames, NEW q \in frames[k],
        Parent(q) = Parent(Due)
      PROVE  k = n
  BY <1>2, <1>5, <1>6 DEF WInv, PlaceOK, PendingOK
<1>7. \A k \in DOMAIN frames : frames'[k] = frames[k] \ {Due}
  BY <1>3, <1>5, <1>6
<1>8. Pending' = Pending \ {Due}
  BY <1>1, <1>4, <1>7 DEF Pending
<1>9. \A q \in Pending : Parent(q) = Parent(Due) => q \in Top
  BY <1>5, <1>6 DEF Pending
<1> QED
  BY <1>1, <1>2, <1>3, <1>4, <1>5, <1>7, <1>8, <1>9 DEF Pending

\* Lstat again; a directory that is pruned is passed over.
LEMMA VisitKeeps ==
    ASSUME WInv, Visit
    PROVE  WInv'
<1>1. /\ fs' = fs /\ clock' = clock /\ listing' = listing
      /\ snapshots' = snapshots /\ checked' = checked /\ budget' = budget
      /\ seen' = seen /\ settled' = settled
      /\ at = "visit" /\ Top # {}
  BY DEF Visit
<1>2. frames # <<>> /\ checked = 0
  BY <1>1 DEF WInv, CounterOK, Discovery
<1>3. FsOK' /\ ReadOK'
  BY <1>1 DEF WInv, FsOK, ReadOK
<1>4. CASE at' = "unsafe" /\ UNCHANGED frames
  BY <1>1, <1>4, GiveUp
<1>5. CASE Due \in PrunedFolders /\ at' = "visit" /\ frames' = Rest
  <2>1. /\ frames' \in Seq(SUBSET Nodes) /\ frames' # <<>>
        /\ Pending' = Pending \ {Due}
        /\ DOMAIN frames' = DOMAIN frames
        /\ \A k \in DOMAIN frames : frames'[k] \subseteq frames[k]
    BY <1>1, <1>2, <1>5, Popped
  <2>2. /\ at' \notin {"start", "list", "relist", "read", "descend", "complete"}
        /\ at' \notin Verification /\ at' \in Discovery /\ at \in Discovery
    BY <1>1, <1>5 DEF Discovery, Verification
  <2>3. Dirs' = Dirs /\ Entered' = Entered /\ \A p : Observed(p)' = Observed(p)
    BY <1>1, <1>5 DEF Dirs, Entered, Observed
  <2>4. ShapeOK' /\ SettledOK'
    BY <1>1, <2>1, <2>2 DEF WInv, ShapeOK, SettledOK
  <2>5. CounterOK'
    BY <1>1, <1>2, <2>1, <2>2 DEF WInv, CounterOK
  <2>6. DirsOK' /\ RulesOK'
    BY <1>1, <2>1, <2>2, <2>3 DEF WInv, PlaceOK, DirsOK, RulesOK
  <2>7. PendingOK'
    BY <1>1, <2>1, <2>3 DEF WInv, PlaceOK, PendingOK
  <2>8. SeenOK' /\ EnteredOK'
    <3>1. Due \in Folders /\ Due \notin Folders \ PrunedFolders
      BY <1>5, Constants
    <3> QED
      BY <1>1, <2>1, <2>2, <2>3, <3>1 DEF WInv, PlaceOK, SeenOK, EnteredOK
  <2> QED
    BY <1>3, <2>4, <2>5, <2>6, <2>7, <2>8 DEF WInv, PlaceOK
<1>6. CASE /\ Due \notin PrunedFolders /\ UNCHANGED frames
           /\ at' = IF Due \in Folders THEN "descend" ELSE "read"
  <2>1. /\ at' \in {"descend", "read"}
        /\ at' \notin {"start", "list", "relist", "visit", "complete"}
        /\ at' \notin Verification /\ at' \in Discovery /\ at \in Discovery
    BY <1>1, <1>6 DEF Discovery, Verification
  <2>2. ShapeOK' /\ SettledOK'
    BY <1>1, <1>6, <2>1 DEF WInv, ShapeOK, SettledOK
  <2>3. Top' = Top /\ Due' = Due
    BY <1>6 DEF Top, Due
  <2>4. CounterOK'
    BY <1>1, <1>2, <1>6, <2>1, <2>3 DEF CounterOK
  <2>5. PlaceOK'
    BY <1>1, <1>6, <2>1, PlaceStays DEF WInv
  <2> QED
    BY <1>3, <2>2, <2>4, <2>5 DEF WInv
<1> QED
  BY <1>4, <1>5, <1>6 DEF Visit

\* The file that is due is read.
LEMMA ReadKeeps ==
    ASSUME WInv, Read
    PROVE  WInv'
<1>1. /\ fs' = fs /\ clock' = clock /\ listing' = listing
      /\ snapshots' = snapshots /\ checked' = checked /\ budget' = budget
      /\ settled' = settled
      /\ at = "read" /\ at' = "visit" /\ frames' = Rest
  BY DEF Read
<1>2. frames # <<>> /\ checked = 0 /\ Top # {} /\ Due \notin Folders
  BY <1>1 DEF WInv, CounterOK, Discovery
<1>3. /\ Due \in Top /\ Due \in Nodes /\ Due \in Pending
      /\ Top \cap RuleFiles # {} => Due \in RuleFiles
      /\ frames' \in Seq(SUBSET Nodes) /\ frames' # <<>>
      /\ Pending' = Pending \ {Due}
      /\ DOMAIN frames' = DOMAIN frames
      /\ \A k \in DOMAIN frames : frames'[k] \subseteq frames[k]
      /\ \A q \in Pending : Parent(q) = Parent(Due) => q \in Top
  BY <1>1, <1>2, Popped
<1>4. /\ DOMAIN seen' = DOMAIN seen \cup {Due}
      /\ \A q \in DOMAIN seen \ {Due} : seen'[q] = seen[q]
      /\ seen'[Due] = IF There(Due) /\ fs[Due].size = Info(Due).size
                      THEN fs[Due] ELSE NoEntry
  BY DEF Read
<1>5. Observed(Due) /\ Due \notin DOMAIN seen
  BY <1>3 DEF WInv, PlaceOK, PendingOK
<1>6. /\ at' \notin {"start", "list", "relist", "read", "descend", "complete"}
      /\ at' \notin Verification /\ at' \in Discovery /\ at \in Discovery
  BY <1>1 DEF Discovery, Verification
<1>7. Dirs' = Dirs /\ Entered' = Entered /\ \A p : Observed(p)' = Observed(p)
  BY <1>1 DEF Dirs, Entered, Observed
<1>8. FsOK' /\ ShapeOK' /\ SettledOK'
  BY <1>1, <1>3, <1>6 DEF WInv, FsOK, ShapeOK, SettledOK
<1>9. CounterOK'
  BY <1>1, <1>2, <1>3, <1>6 DEF WInv, CounterOK
<1>10. DirsOK' /\ EnteredOK'
  BY <1>1, <1>2, <1>3, <1>6, <1>7 DEF WInv, PlaceOK, DirsOK, EnteredOK
<1>11. PendingOK'
  BY <1>3, <1>4, <1>7 DEF WInv, PlaceOK, PendingOK
<1>12. SeenOK'
  BY <1>2, <1>3, <1>4, <1>5, <1>7 DEF WInv, PlaceOK, SeenOK
<1>13. RulesOK'
  <2> SUFFICES ASSUME NEW q \in RuleFiles, q \in Pending, q # Due,
                      Parent(q) = Parent(Due)
               PROVE  FALSE
    BY <1>3, <1>4 DEF WInv, PlaceOK, RulesOK
  <2>1. Due \in RuleFiles
    BY <1>3
  <2> QED
    BY <2>1, Constants
<1>14. ReadOK'
  <2> SUFFICES ASSUME NEW i \in DOMAIN snapshots,
                      NEW p \in DOMAIN snapshots[i].got, p \in DOMAIN seen',
                      fs[p] = snapshots[i].got[p]
               PROVE  seen'[p] = snapshots[i].got[p]
    BY <1>1 DEF ReadOK
  <2>1. CASE p # Due
    BY <1>4, <2>1 DEF WInv, ReadOK
  <2>2. CASE p = Due
    <3>1. Kept(snapshots[i], fs, clock)
      BY DEF WInv, ShapeOK
    <3>2. snapshots[i].dir = Parent(p) /\ There(p)
      BY <3>1 DEF Kept, Entries, There
    <3>3. Reported(p) = i
      BY <3>2 DEF Reported, WInv, PlaceOK, DirsOK
    <3> QED
      BY <1>4, <2>2, <3>2, <3>3 DEF Info
  <2> QED
    BY <2>1, <2>2
<1> QED
  BY <1>8, <1>9, <1>10, <1>11, <1>12, <1>13, <1>14 DEF WInv, PlaceOK

\* The directory that is due is listed.
LEMMA DescendKeeps ==
    ASSUME WInv, Descend
    PROVE  WInv'
<1>1. /\ fs' = fs /\ clock' = clock
      /\ snapshots' = snapshots /\ checked' = checked
      /\ seen' = seen /\ settled' = settled
      /\ at = "descend"
  BY DEF Descend
<1>2. frames # <<>> /\ checked = 0 /\ Top # {}
        /\ Due \in Folders \ PrunedFolders
  BY <1>1 DEF WInv, CounterOK, Discovery
<1>3. FsOK' /\ ReadOK'
  BY <1>1 DEF WInv, FsOK, ReadOK
<1>4. CASE at' = "unsafe" /\ UNCHANGED <<frames, listing, budget>>
  BY <1>1, <1>4, GiveUp
<1>5. CASE /\ SameIdentity(Info(Due), fs[Due])
           /\ StartListing(Due, budget, "list") /\ frames' = Rest
  <2>1. /\ Due \in Top /\ Due \in Nodes /\ Due \in Pending
        /\ frames' \in Seq(SUBSET Nodes) /\ frames' # <<>>
        /\ Pending' = Pending \ {Due}
        /\ DOMAIN frames' = DOMAIN frames
        /\ \A k \in DOMAIN frames : frames'[k] \subseteq frames[k]
    BY <1>2, <1>5, Popped
  <2>2. Observed(Due) /\ Due \notin Entered
    BY <2>1 DEF WInv, PlaceOK, PendingOK
  <2>3. PICK i \in DOMAIN snapshots :
            snapshots[i].dir = Parent(Due) /\ Due \in DOMAIN snapshots[i].got
    BY <2>2 DEF Observed
  <2>4. Reported(Due) = i
    BY <2>3 DEF Reported, WInv, PlaceOK, DirsOK
  <2>5. There(Due)
    <3>1. snapshots[i].got[Due].kind # "none"
      BY <2>3 DEF WInv, ShapeOK, Kept
    <3> QED
      BY <1>5, <2>4, <3>1 DEF Info, SameIdentity, There
  <2>6. \/ at' = "limit" /\ UNCHANGED <<listing, budget>>
        \/ /\ at' = "list" /\ budget' \in 0 .. 2 * Observations
           /\ listing' \in Listings /\ Kept(listing', fs, clock)
           /\ listing'.dir = Due
    <3>1. FsOK /\ budget \in 0 .. 2 * Observations
      BY DEF WInv, ShapeOK
    <3> QED
      BY <1>2, <1>5, <2>5, <3>1, ListingStarts
  <2>7. /\ at' \notin {"start", "relist", "visit", "read", "descend",
                         "complete"}
        /\ at' \notin Verification /\ at \in Discovery
        /\ at' \in Discovery \cup Outcomes
    BY <1>1, <2>6 DEF Discovery, Verification, Outcomes
  <2>8. /\ Dirs' = Dirs /\ Entered = Dirs /\ \A p : Observed(p)' = Observed(p)
        /\ Entered' \subseteq Dirs \cup {Due}
        /\ at' \in Discovery => Entered' = Dirs \cup {Due}
    <3>1. Dirs' = Dirs /\ Entered = Dirs /\ \A p : Observed(p)' = Observed(p)
      BY <1>1 DEF Dirs, Entered, Observed
    <3>2. CASE at' = "limit"
      BY <3>1, <3>2 DEF Entered, Discovery
    <3>3. CASE at' = "list" /\ listing'.dir = Due
      BY <3>1, <3>3 DEF Entered
    <3> QED
      BY <2>6, <3>1, <3>2, <3>3
  <2>9. ShapeOK' /\ SettledOK'
    BY <1>1, <2>1, <2>6, <2>7 DEF WInv, ShapeOK, SettledOK
  <2>10. CounterOK'
    BY <1>1, <1>2, <2>7 DEF CounterOK
  <2>11. DirsOK'
    <3>1. Parent(Due) \in Dirs /\ Parent(Due) \in Entered
      BY <2>3, <2>8 DEF Dirs
    <3>2. (Enclosing(Due) \cup {Due}) \cap PrunedFolders = {}
      <4>1. (Enclosing(Parent(Due)) \cup {Parent(Due)}) \cap PrunedFolders = {}
        BY <3>1 DEF WInv, PlaceOK, DirsOK
      <4> QED
        BY <1>2, <2>1, <4>1, Upwards
    <3>3. at' = "list" => listing'.dir = Due
      BY <2>6
    <3> QED
      BY <1>1, <2>2, <2>8, <3>1, <3>2, <3>3 DEF WInv, PlaceOK, DirsOK
  <2>12. PendingOK'
    <3>1. \A p \in Pending' :
            Observed(p)' /\ p \notin (DOMAIN seen \cup Entered)'
      BY <1>1, <2>1, <2>8 DEF WInv, PlaceOK, PendingOK
    <3> QED
      BY <2>1, <3>1 DEF WInv, PlaceOK, PendingOK
  <2>13. SeenOK'
    BY <1>1, <1>2, <2>1, <2>8 DEF WInv, PlaceOK, SeenOK
  <2>14. EnteredOK'
    <3>1. at' \in Discovery \cup Verification => at' \in Discovery
      BY <2>7
    <3> QED
      BY <2>1, <2>7, <2>8, <3>1 DEF WInv, PlaceOK, EnteredOK
  <2>15. RulesOK'
    BY <1>1, <2>1 DEF WInv, PlaceOK, RulesOK
  <2> QED
    BY <1>3, <2>9, <2>10, <2>11, <2>12, <2>13, <2>14, <2>15 DEF WInv, PlaceOK
<1> QED
  BY <1>4, <1>5 DEF Descend

\* A directory is left; with the topmost one the tree is settled.
LEMMA LeaveKeeps ==
    ASSUME WInv, Leave
    PROVE  WInv'
<1>1. /\ fs' = fs /\ clock' = clock /\ listing' = listing
      /\ snapshots' = snapshots /\ checked' = checked
      /\ seen' = seen
      /\ at = "visit" /\ Top = {}
      /\ frames' = SubSeq(frames, 1, Len(frames) - 1)
      /\ IF Len(frames) > 1
         THEN at' = "visit" /\ UNCHANGED <<budget, settled>>
         ELSE at' = "verify" /\ budget' = 2 * Observations /\ settled' = fs
  BY DEF Leave
<1>2. frames # <<>> /\ checked = 0 /\ frames \in Seq(SUBSET Nodes)
  BY <1>1 DEF WInv, CounterOK, ShapeOK, Discovery
<1> DEFINE n == Len(frames)
<1>3. /\ n \in Nat /\ n # 0 /\ DOMAIN frames = 1 .. n
      /\ frames' \in Seq(SUBSET Nodes) /\ Len(frames') = n - 1
      /\ \A k \in 1 .. n - 1 : frames'[k] = frames[k]
      /\ DOMAIN frames' = 1 .. n - 1
  <2>1. n \in Nat /\ n # 0 /\ DOMAIN frames = 1 .. n
    BY <1>2, SequenceParts
  <2>2. /\ frames' \in Seq(SUBSET Nodes) /\ Len(frames') = n - 1
        /\ \A k \in 1 .. n - 1 : frames'[k] = frames[k]
    BY <1>1, <1>2, PopIs
  <2> QED
    BY <2>1, <2>2, SequenceParts
<1>4. frames' # <<>> <=> n - 1 # 0
  BY <1>3, SequenceParts
<1>5. Top = frames[n]
  BY DEF Top
<1> HIDE DEF n
<1>6. /\ DOMAIN frames = DOMAIN frames' \cup {n}
      /\ \A k \in DOMAIN frames' : frames'[k] = frames[k]
  BY <1>3
<1>7. Pending' = Pending
  <2>1. frames[n] = {}
    BY <1>1, <1>5
  <2>2. UNION {frames[k] : k \in DOMAIN frames}
            = UNION {frames[k] : k \in DOMAIN frames'}
    BY <1>6, <2>1
  <2> QED
    BY <1>6, <2>2 DEF Pending
<1>8. Dirs' = Dirs /\ Entered' = Entered /\ \A p : Observed(p)' = Observed(p)
  BY <1>1 DEF Dirs, Entered, Observed
<1>9. /\ at' \notin {"start", "list", "relist", "read", "descend", "complete"}
      /\ at' \in {"visit", "verify"}
      /\ at' \in Discovery \cup Verification /\ at \in Discovery
  BY <1>1 DEF Discovery, Verification
<1>10. FsOK' /\ ReadOK'
  BY <1>1 DEF WInv, FsOK, ReadOK
<1>11. ShapeOK'
  <2>1. budget' \in 0 .. 2 * Observations
    BY <1>1, Constants DEF WInv, ShapeOK
  <2> QED
    BY <1>1, <1>3, <1>9, <2>1 DEF WInv, ShapeOK
<1>12. CounterOK'
  <2>1. at' = "visit" => frames' # <<>>
    BY <1>1, <1>3, <1>4 DEF n
  <2>2. at' = "verify" => frames' = <<>>
    BY <1>1, <1>3, <1>4 DEF n
  <2>3. at' \in Verification => at' = "verify"
    BY <1>9 DEF Verification
  <2> QED
    BY <1>1, <1>2, <1>9, <2>1, <2>2, <2>3 DEF CounterOK
<1>13. PlaceOK'
  <2>1. DirsOK' /\ RulesOK' /\ SeenOK' /\ EnteredOK'
    BY <1>1, <1>7, <1>8, <1>9
    DEF WInv, PlaceOK, DirsOK, RulesOK, SeenOK, EnteredOK
  <2>2. PendingOK'
    BY <1>1, <1>6, <1>7, <1>8 DEF WInv, PlaceOK, PendingOK
  <2> QED
    BY <2>1, <2>2 DEF PlaceOK
<1>14. SettledOK'
  <2>1. CASE at' = "visit"
    BY <2>1 DEF SettledOK, Verification
  <2>2. CASE at' = "verify"
    <3>1. settled' = fs
      BY <1>1, <2>2
    <3>2. TreeOK(fs)
      BY DEF WInv, FsOK
    <3>3. \A i \in DOMAIN snapshots : Settles(snapshots[i], fs, fs)
      BY DEF WInv, ShapeOK, Kept, Settles
    <3>4. 1 .. checked = {}
      BY <1>2
    <3> QED
      BY <1>1, <1>9, <3>1, <3>2, <3>3, <3>4 DEF SettledOK
  <2> QED
    BY <1>9, <2>1, <2>2
<1> QED
  BY <1>10, <1>11, <1>12, <1>13, <1>14 DEF WInv

-----------------------------------------------------------------------------
(* Verification *)

\* The listing that is checked next.
LEMMA AgainIs ==
    ASSUME WInv, checked < Len(snapshots)
    PROVE  /\ checked + 1 \in DOMAIN snapshots
           /\ checked + 1 \in 0 .. Len(snapshots)
           /\ checked \in Nat /\ Again = snapshots[checked + 1]
           /\ Again \in Listings /\ Kept(Again, fs, clock)
<1>1. snapshots \in Seq(Listings) /\ checked \in 0 .. Len(snapshots)
  BY DEF WInv, ShapeOK
<1>2. Len(snapshots) \in Nat /\ DOMAIN snapshots = 1 .. Len(snapshots)
      /\ \A i \in DOMAIN snapshots : snapshots[i] \in Listings
  BY <1>1, SequenceParts
<1>3. checked + 1 \in DOMAIN snapshots /\ checked + 1 \in 0 .. Len(snapshots)
      /\ checked \in Nat
  BY <1>1, <1>2
<1> QED
  BY <1>2, <1>3 DEF WInv, ShapeOK, Again

LEMMA RevisitKeeps ==
    ASSUME WInv, Revisit
    PROVE  WInv'
<1>1. /\ fs' = fs /\ clock' = clock /\ frames' = frames
      /\ snapshots' = snapshots /\ checked' = checked
      /\ seen' = seen /\ settled' = settled
      /\ at = "verify" /\ checked < Len(snapshots)
  BY DEF Revisit
<1>2. /\ checked + 1 \in DOMAIN snapshots /\ Again = snapshots[checked + 1]
      /\ Again \in Listings
  BY <1>1, AgainIs
<1>3. CASE at' = "changed" /\ UNCHANGED <<listing, budget>>
  BY <1>1, <1>3, GiveUp
<1>4. CASE /\ There(Again.dir)
           /\ StartListing(Again.dir, IF Len(Again.dir) > budget THEN 0
                                      ELSE budget - Len(Again.dir), "relist")
  <2> DEFINE d == Again.dir
             left == IF Len(d) > budget THEN 0 ELSE budget - Len(d)
  <2>1. d \in Folders /\ Len(d) \in Nat
    BY <1>2, Constants, Upwards DEF Listings
  <2>2. left \in 0 .. 2 * Observations
    BY <2>1, Constants DEF WInv, ShapeOK
  <2>3. There(d) /\ StartListing(d, left, "relist")
    BY <1>4
  <2> HIDE DEF left
  <2>4. \/ at' = "limit" /\ UNCHANGED <<listing, budget>>
        \/ /\ at' = "relist" /\ budget' \in 0 .. 2 * Observations
           /\ listing' \in Listings /\ Kept(listing', fs, clock)
           /\ listing'.dir = d /\ listing'.info = fs[d]
           /\ DOMAIN listing'.got = {}
    BY <2>1, <2>2, <2>3, ListingStarts DEF WInv
  <2>5. CASE at' = "limit" /\ UNCHANGED <<listing, budget>>
    BY <1>1, <2>5, GiveUp
  <2>6. CASE /\ at' = "relist" /\ budget' \in 0 .. 2 * Observations
             /\ listing' \in Listings /\ Kept(listing', fs, clock)
             /\ listing'.dir = d /\ listing'.info = fs[d]
             /\ DOMAIN listing'.got = {}
    <3>1. /\ at' \notin {"start", "list", "visit", "read", "descend",
                           "complete"}
          /\ at' \notin Discovery /\ at' \in Verification /\ at \in Verification
      BY <1>1, <2>6 DEF Discovery, Verification
    <3>2. FsOK' /\ ReadOK' /\ ShapeOK'
      BY <1>1, <2>6, <3>1 DEF WInv, FsOK, ReadOK, ShapeOK
    <3>3. CounterOK'
      BY <1>1, <3>1 DEF WInv, CounterOK
    <3>4. PlaceOK'
      BY <1>1, <3>1, PlaceStays DEF WInv
    <3>5. Relisted(Again, listing', settled, seen)
      <4>1. Settles(Again, fs, settled)
        BY <1>2, <3>1 DEF WInv, SettledOK
      <4> QED
        BY <2>6, <4>1 DEF Relisted, Settles
    <3>6. SettledOK'
      BY <1>1, <3>1, <3>5 DEF WInv, SettledOK, Again
    <3> QED
      BY <3>2, <3>3, <3>4, <3>6 DEF WInv
  <2> QED
    BY <2>4, <2>5, <2>6
<1> QED
  BY <1>3, <1>4 DEF Revisit

\* A listing that has not changed confirms the first.
LEMMA CompareKeeps ==
    ASSUME WInv, Compare
    PROVE  WInv'
<1>1. /\ fs' = fs /\ clock' = clock /\ frames' = frames /\ listing' = listing
      /\ snapshots' = snapshots /\ budget' = budget
      /\ seen' = seen /\ settled' = settled
      /\ at = "relist" /\ listing.todo = {}
  BY DEF Compare
<1>2. CASE at' = "changed" /\ UNCHANGED checked
  BY <1>1, <1>2, GiveUp
<1>3. CASE /\ SameListing(Again, listing)
           /\ at' = "verify" /\ checked' = checked + 1
  <2>1. checked < Len(snapshots) /\ at \in Verification
    BY <1>1 DEF WInv, CounterOK, Verification
  <2>2. /\ checked + 1 \in DOMAIN snapshots
        /\ checked + 1 \in 0 .. Len(snapshots)
        /\ checked \in Nat /\ Again = snapshots[checked + 1]
        /\ Again \in Listings
    BY <2>1, AgainIs
  <2>3. listing \in Listings
    BY <1>1 DEF WInv, ShapeOK
  <2>4. \A a, b \in Infos : SameSnapshot(a, b) => a = b
    BY DEF SameSnapshot, SameIdentity, Infos
  <2>5. /\ Again.info = listing.info /\ DOMAIN Again.got = DOMAIN listing.got
        /\ \A p \in DOMAIN Again.got : Again.got[p] = listing.got[p]
    <3>1. /\ Again.info \in Infos /\ listing.info \in Infos
          /\ \A p \in DOMAIN Again.got : Again.got[p] \in Infos
          /\ \A p \in DOMAIN listing.got : listing.got[p] \in Infos
      BY <2>2, <2>3 DEF Listings
    <3> QED
      BY <1>3, <2>4, <3>1 DEF SameListing
  <2>6. Relisted(Again, listing, settled, seen)
    BY <1>1, <2>1 DEF WInv, SettledOK
  <2>7. Confirmed(Again, settled, seen)
    BY <2>5, <2>6 DEF Confirmed, Relisted
  <2>8. \A i \in 1 .. checked' : i \in 1 .. checked \/ i = checked + 1
    BY <1>3, <2>2
  <2>9. /\ at' \notin {"start", "list", "relist", "visit", "read", "descend",
                      "complete"}
        /\ at' \notin Discovery /\ at' \in Verification
    BY <1>3 DEF Discovery, Verification
  <2>10. FsOK' /\ ReadOK'
    BY <1>1 DEF WInv, FsOK, ReadOK
  <2>11. ShapeOK'
    BY <1>1, <1>3, <2>2, <2>9 DEF WInv, ShapeOK
  <2>12. CounterOK'
    BY <1>1, <2>1, <2>9 DEF WInv, CounterOK
  <2>13. PlaceOK'
    BY <1>1, <2>1, <2>9, PlaceStays DEF WInv
  <2>14. SettledOK'
    BY <1>1, <2>1, <2>2, <2>7, <2>8, <2>9 DEF WInv, SettledOK
  <2> QED
    BY <2>10, <2>11, <2>12, <2>13, <2>14 DEF WInv
<1> QED
  BY <1>2, <1>3 DEF Compare

LEMMA FinishKeeps ==
    ASSUME WInv, Finish
    PROVE  WInv'
<1>1. /\ fs' = fs /\ clock' = clock /\ frames' = frames /\ listing' = listing
      /\ snapshots' = snapshots /\ checked' = checked /\ budget' = budget
      /\ seen' = seen /\ settled' = settled
      /\ at = "verify" /\ checked = Len(snapshots) /\ at' = "complete"
  BY DEF Finish
<1>2. /\ at' \notin {"start", "list", "relist", "visit", "read", "descend"}
      /\ at' \notin Discovery /\ at' \in Verification /\ at \in Verification
      /\ at' \in Outcomes
  BY <1>1 DEF Discovery, Verification, Outcomes
<1>3. FsOK' /\ ReadOK' /\ ShapeOK'
  BY <1>1, <1>2 DEF WInv, FsOK, ReadOK, ShapeOK
<1>4. CounterOK'
  BY <1>1, <1>2 DEF WInv, CounterOK
<1>5. PlaceOK'
  BY <1>1, <1>2, PlaceStays DEF WInv
<1>6. SettledOK'
  BY <1>1, <1>2 DEF WInv, SettledOK
<1> QED
  BY <1>3, <1>4, <1>5, <1>6 DEF WInv

-----------------------------------------------------------------------------
(* The whole walk *)

LEMMA WalkInitHolds == WalkInit => WInv
<1> SUFFICES ASSUME WalkInit
             PROVE  WInv
  OBVIOUS
<1>1. /\ clock = 0 /\ at = "start" /\ frames = <<>> /\ snapshots = <<>>
      /\ checked = 0 /\ budget = 0 /\ seen = <<>>
  BY DEF WalkInit
<1>2. /\ DOMAIN frames = {} /\ DOMAIN snapshots = {} /\ DOMAIN seen = {}
      /\ Len(snapshots) = 0
      /\ frames \in Seq(SUBSET Nodes) /\ snapshots \in Seq(Listings)
  BY <1>1
<1>3. /\ at \notin Discovery \cup Verification
      /\ at \notin {"list", "relist", "visit", "read", "descend", "complete"}
  BY <1>1 DEF Discovery, Verification
<1>4. FsOK
  <2>1. \A p \in Paths : fs[p] \in Infos /\ fs[p].time = 0
    BY DEF WalkInit, Infos, NoEntry
  <2>2. fs = [p \in Paths |-> fs[p]]
    BY DEF WalkInit
  <2>3. /\ fs[TopDir].kind # "none"
        /\ \A p \in Paths : fs[p].kind \in {"none", KindOf(p)}
        /\ \A p \in Nodes : fs[p].kind # "none" => fs[Parent(p)].kind # "none"
    BY Upwards DEF WalkInit, There, KindOf, Paths
  <2>4. TreeOK(fs)
    BY <2>1, <2>2, <2>3 DEF TreeOK
  <2> QED
    BY <1>1, <2>1, <2>4, Constants DEF FsOK
<1>5. ShapeOK
  BY <1>1, <1>2, <1>3, Constants DEF ShapeOK
<1>6. CounterOK
  BY <1>1, <1>2, <1>3 DEF CounterOK
<1>7. PlaceOK
  BY <1>2, <1>3 DEF PlaceOK, DirsOK, PendingOK, SeenOK, EnteredOK, RulesOK,
                   Pending, Dirs, Entered, Observed
<1> QED
  BY <1>2, <1>3, <1>4, <1>5, <1>6, <1>7 DEF WInv, ReadOK, SettledOK

LEMMA WalkStepKeeps == WInv /\ [WalkNext]_walkVars => WInv'
<1> SUFFICES ASSUME WInv, [WalkNext]_walkVars
             PROVE  WInv'
  OBVIOUS
<1>1. CASE UNCHANGED walkVars
  <2>1. /\ fs' = fs /\ clock' = clock /\ at' = at /\ frames' = frames
        /\ listing' = listing /\ snapshots' = snapshots /\ checked' = checked
        /\ budget' = budget /\ seen' = seen /\ settled' = settled
    BY <1>1 DEF walkVars, walker
  <2>2. FsOK' /\ ShapeOK' /\ ReadOK'
    BY <2>1 DEF WInv, FsOK, ShapeOK, ReadOK
  <2>3. CounterOK' /\ SettledOK'
    BY <2>1 DEF WInv, CounterOK, SettledOK, Top, Due, Again
  <2>4. PlaceOK'
    BY <2>1, PlaceStays DEF WInv
  <2> QED
    BY <2>2, <2>3, <2>4 DEF WInv
<1>2. CASE Ended
  BY <1>1, <1>2 DEF Ended
<1> QED
  BY <1>1, <1>2, OthersKeep, BeginKeeps, ObserveKeeps, EnterKeeps, VisitKeeps,
     ReadKeeps, DescendKeeps, LeaveKeeps, RevisitKeeps, CompareKeeps,
     FinishKeeps
  DEF WalkNext

\* A file of rules beside a file that was visited is pending or visited, and
\* pending it cannot be.
LEMMA RulesAreFirst == WInv => RulesComeFirst
<1> SUFFICES ASSUME WInv, NEW p \in DOMAIN seen, NEW q \in RuleFiles,
                    Parent(q) = Parent(p),
                    q \in DOMAIN snapshots[Reported(p)].got
             PROVE  q \in DOMAIN seen
  BY DEF RulesComeFirst
<1>1. PICK i \in DOMAIN snapshots : snapshots[i].dir = Parent(p)
  BY DEF WInv, PlaceOK, SeenOK, Observed
<1>2. Reported(p) = i
  BY <1>1 DEF Reported, WInv, PlaceOK, DirsOK
<1>3. Observed(q) /\ q \in Nodes \ Folders
  BY <1>1, <1>2, Constants DEF Observed
<1>4. q \in DOMAIN seen \cup Pending
  BY <1>3 DEF WInv, PlaceOK, SeenOK
<1> QED
  BY <1>4 DEF WInv, PlaceOK, RulesOK

\* When the walk is complete every directory of the settled tree that it should
\* have entered has been listed: the shortest that has not been would be an
\* entry of one that has.
LEMMA AllAreListed ==
    ASSUME WInv, at = "complete", NEW d \in Folders, settled[d].kind # "none",
           (Enclosing(d) \cup {d}) \cap PrunedFolders = {}
    PROVE  d \in Dirs
<1> DEFINE Missed(c) == /\ settled[c].kind # "none" /\ c \notin Dirs
                        /\ (Enclosing(c) \cup {c}) \cap PrunedFolders = {}
           lengths == {Len(c) : c \in {b \in Folders : Missed(b)}}
<1>1. /\ at \in Verification /\ Entered = Dirs /\ Pending = {}
      /\ checked = Len(snapshots)
  <2>1. frames = <<>> /\ checked = Len(snapshots)
    BY DEF WInv, CounterOK, Verification
  <2>2. DOMAIN frames = {}
    BY <2>1
  <2> QED
    BY <2>1, <2>2 DEF Entered, Pending, Verification
<1>2. /\ TreeOK(settled)
      /\ \A i \in DOMAIN snapshots :
            /\ Settles(snapshots[i], fs, settled)
            /\ Confirmed(snapshots[i], settled, seen)
  <2>1. DOMAIN snapshots = 1 .. Len(snapshots)
    BY SequenceParts DEF WInv, ShapeOK
  <2> QED
    BY <1>1, <2>1 DEF WInv, SettledOK
<1>3. SUFFICES ASSUME d \notin Dirs
               PROVE  FALSE
  OBVIOUS
<1>4. lengths \subseteq Nat /\ lengths # {}
  <2>1. \A c \in Folders : Len(c) \in Nat
    BY Constants, Upwards
  <2>2. Missed(d)
    BY <1>3
  <2>3. d \in {b \in Folders : Missed(b)}
    BY <2>2
  <2> HIDE DEF Missed
  <2> QED
    BY <2>1, <2>3
<1>5. PICK m \in lengths : \A n \in lengths : m <= n
  BY <1>4, SmallestNumber
<1>6. PICK c \in Folders : Missed(c) /\ Len(c) = m
  BY <1>5
<1>7. \A b \in Folders : Missed(b) => Len(c) <= Len(b)
  BY <1>5, <1>6
<1> HIDE DEF lengths
<1>8. c \in Nodes
  BY <1>1, <1>6, Constants DEF Paths, WInv, PlaceOK, EnteredOK
<1>9. /\ Parent(c) \in Folders /\ Len(Parent(c)) < Len(c)
      /\ settled[Parent(c)].kind # "none"
      /\ (Enclosing(Parent(c)) \cup {Parent(c)}) \cap PrunedFolders = {}
  BY <1>2, <1>6, <1>8, Constants, Upwards DEF TreeOK
<1>10. Len(c) \in Nat /\ Len(Parent(c)) \in Nat
  BY <1>8, <1>9, Constants, Upwards DEF Paths
<1>11. Parent(c) \in Dirs
  <2>1. Len(Parent(c)) < Len(c) => ~ (Len(c) <= Len(Parent(c)))
    BY <1>10
  <2> QED
    BY <1>7, <1>9, <2>1
<1>12. PICK i \in DOMAIN snapshots : snapshots[i].dir = Parent(c)
  BY <1>11 DEF Dirs
<1>13. c \in DOMAIN snapshots[i].got
  BY <1>2, <1>6, <1>8, <1>12 DEF Settles, Confirmed, ListedIn, Entries
<1>14. Observed(c) /\ c \in Folders \ PrunedFolders
  BY <1>6, <1>12, <1>13 DEF Observed
<1> QED
  BY <1>1, <1>6, <1>8, <1>14 DEF WInv, PlaceOK, EnteredOK

\* A complete walk has seen the settled tree.
LEMMA CompleteIsSettled == WInv => CompleteIsOneMoment
<1> SUFFICES ASSUME WInv, at = "complete"
             PROVE  /\ DOMAIN seen = Reachable(settled)
                    /\ \A p \in DOMAIN seen : seen[p] = settled[p]
  BY DEF CompleteIsOneMoment
<1>1. /\ at \in Verification /\ Pending = {} /\ checked = Len(snapshots)
      /\ Dirs \subseteq Entered
  <2>1. frames = <<>> /\ checked = Len(snapshots)
    BY DEF WInv, CounterOK, Verification
  <2>2. DOMAIN frames = {}
    BY <2>1
  <2> QED
    BY <2>1, <2>2 DEF Entered, Pending, Verification
<1>2. /\ TreeOK(settled)
      /\ \A i \in DOMAIN snapshots :
            /\ Settles(snapshots[i], fs, settled)
            /\ Confirmed(snapshots[i], settled, seen)
            /\ Kept(snapshots[i], fs, clock)
  <2>1. DOMAIN snapshots = 1 .. Len(snapshots)
    BY SequenceParts DEF WInv, ShapeOK
  <2> QED
    BY <1>1, <2>1 DEF WInv, SettledOK, ShapeOK
<1>3. ASSUME NEW p \in DOMAIN seen
      PROVE  p \in Reachable(settled) /\ seen[p] = settled[p]
  <2>1. p \in Nodes \ Folders /\ Observed(p)
    BY DEF WInv, PlaceOK, SeenOK
  <2>2. PICK i \in DOMAIN snapshots :
            snapshots[i].dir = Parent(p) /\ p \in DOMAIN snapshots[i].got
    BY <2>1 DEF Observed
  <2>3. seen[p] = settled[p] /\ settled[p].kind # "none"
    BY <1>2, <2>2 DEF Confirmed, Kept
  <2>4. (Enclosing(Parent(p)) \cup {Parent(p)}) \cap PrunedFolders = {}
    BY <1>1, <2>2 DEF WInv, PlaceOK, DirsOK, Dirs
  <2>5. Enclosing(p) \cap PrunedFolders = {}
    BY <2>1, <2>4, Upwards
  <2> QED
    BY <2>1, <2>3, <2>5 DEF Reachable
<1>4. ASSUME NEW p \in Reachable(settled)
      PROVE  p \in DOMAIN seen
  <2>1. /\ p \in Nodes \ Folders /\ settled[p].kind # "none"
        /\ Enclosing(p) \cap PrunedFolders = {}
    BY DEF Reachable
  <2>2. /\ Parent(p) \in Folders /\ settled[Parent(p)].kind # "none"
        /\ (Enclosing(Parent(p)) \cup {Parent(p)}) \cap PrunedFolders = {}
    BY <1>2, <2>1, Constants, Upwards DEF TreeOK
  <2>3. PICK i \in DOMAIN snapshots : snapshots[i].dir = Parent(p)
    BY <2>2, AllAreListed DEF Dirs
  <2>4. p \in DOMAIN snapshots[i].got
    BY <1>2, <2>1, <2>3 DEF Settles, Confirmed, ListedIn, Entries
  <2>5. Observed(p)
    BY <2>3, <2>4 DEF Observed
  <2> QED
    BY <1>1, <2>1, <2>5 DEF WInv, PlaceOK, SeenOK
<1> QED
  BY <1>3, <1>4

\* The types of the walk's variables follow.
LEMMA ShapeIsType == WInv => WalkTypeOK
<1> SUFFICES ASSUME WInv
             PROVE  WalkTypeOK
  OBVIOUS
<1>1. \A i \in DOMAIN frames : frames[i] \subseteq Nodes
  BY SequenceParts DEF WInv, ShapeOK
<1>2. \A i \in DOMAIN snapshots : snapshots[i].dir \in Folders
  <2>1. snapshots \in Seq(Listings)
    BY DEF WInv, ShapeOK
  <2>2. \A i \in DOMAIN snapshots : snapshots[i] \in Listings
    BY <2>1, SequenceParts
  <2> QED
    BY <2>2 DEF Listings
<1>3. at \in {"start", "list", "visit", "read", "descend", "verify", "relist"}
             \cup Outcomes
  BY DEF WInv, ShapeOK, Discovery
<1> QED
  BY <1>1, <1>2, <1>3 DEF WInv, ShapeOK, FsOK, PlaceOK, SeenOK, WalkTypeOK

-----------------------------------------------------------------------------
(* Theorems about the walk *)

\* The invariant of every walk.
THEOREM WalkInvariant == WalkSpec => []WInv
<1> QED
  BY WalkInitHolds, WalkStepKeeps, PTL DEF WalkSpec

\* The variables keep their types, and no budget is overdrawn (WalkTypeOK).
THEOREM WalkTypeCorrect == WalkSpec => []WalkTypeOK
<1> QED
  BY WalkInvariant, ShapeIsType, PTL

\* An inventory that is not marked partial is one moment of the tree, however
\* many changes there were beside the walk (boundary/walk.go).
THEOREM CompleteWalkIsOneMoment == WalkSpec => []CompleteIsOneMoment
<1> QED
  BY WalkInvariant, CompleteIsSettled, PTL

\* The rules of a directory are read before its other files (walk.go,
\* repositoryEntryLess).
THEOREM RulesAreReadFirst == WalkSpec => []RulesComeFirst
<1> QED
  BY WalkInvariant, RulesAreFirst, PTL

-----------------------------------------------------------------------------
(* The run *)

\* What a question puts to a function is what the function is made for.
Proper(q) ==
    /\ q.kind = "warnings" =>
          q.lists \in Seq(Codes) \X Seq(Codes) \X Seq(Codes) /\ q.bound \in Nat
    /\ q.kind = "a record" => q.first \in RecordsNamed("i1")
    /\ q.kind = "records" => q.input \in Seq(Records)
    /\ q.kind = "a file" => q.of \in SomeInputs
    /\ q.kind = "file" => q.file \in IndexFiles
    /\ q.kind = "an answer" => q.answer \in SomeAnswers
    /\ q.kind = "fit" =>
          Unfitted(q.given, q.limits) /\ q.limits \in FitLimits

\* Questions of these kinds have nothing in them that Proper is about.
Plain == {"none", "map", "changed", "search", "overview", "tree", "related",
          "an index", "a name", "a tree"}

\* What holds of every behaviour, whichever part it is about.
EInv == IInv /\ WInv /\ Proper(given)

\* Other questions are proper.
LEMMA PlainIsProper ==
    ASSUME NEW q, q.kind \in Plain
    PROVE  Proper(q)
  BY DEF Plain, Proper

\* The lists that are asked about are lists of codes.
LEMMA WarningQuestionsAreProper ==
    ASSUME NEW q \in WarningQuestions
    PROVE  Proper(q)
<1>1. SomeLists \subseteq Seq(Codes)
  BY SomeListsAssumption DEF Codes
<1>2. q.lists \in SomeLists \X SomeLists \X SomeLists /\ q.bound \in 1 .. 3
  BY DEF WarningQuestions
<1>3. q.kind = "warnings"
  BY DEF WarningQuestions
<1> QED
  BY <1>1, <1>2, <1>3 DEF Proper

\* The records that are asked about are records, in a list of three.
LEMMA RecordQuestionsAreProper ==
    ASSUME NEW first \in RecordsNamed("i1"), NEW q \in RecordQuestions(first)
    PROVE  Proper(q)
<1>1. PICK r \in RecordsNamed("i2"), p \in FewRecordsNamed("i3") :
        q = [kind |-> "records", input |-> <<r, p, first>>]
  BY DEF RecordQuestions
<1>2. r \in Records /\ p \in Records /\ first \in Records
  BY SomeFilesAssumption
<1>3. <<r, p, first>> \in Seq(Records)
  BY <1>2
<1>4. q.kind = "records" /\ q.input = <<r, p, first>>
  BY <1>1
<1> QED
  BY <1>3, <1>4 DEF Proper

\* The files that are asked about can be read.
LEMMA FileQuestionsAreProper ==
    ASSUME NEW of \in SomeInputs, NEW q \in FileQuestions(of)
    PROVE  Proper(q)
<1>1. PICK f \in Changed(Encode(of, SomeCatalogue)) :
        q = [kind |-> "file", file |-> f]
  BY DEF FileQuestions
<1>2. f \in IndexFiles
  BY SomeFilesAssumption
<1>3. q.kind = "file" /\ q.file = f
  BY <1>1
<1> QED
  BY <1>2, <1>3 DEF Proper

\* The answers that are asked about are valid results.
LEMMA RenderingQuestionsAreProper ==
    ASSUME NEW answer \in SomeAnswers, NEW q \in RenderingQuestions(answer)
    PROVE  Proper(q)
<1>1. Unfitted(q.given, q.limits) /\ q.limits \in FitLimits
  BY SomeAnswersAssumption
<1>2. q.kind = "fit"
  BY DEF RenderingQuestions
<1> QED
  BY <1>1, <1>2 DEF Proper

\* It holds at first.
LEMMA EngineInitHolds == EngineInit => EInv
<1> SUFFICES ASSUME EngineInit PROVE EInv
  OBVIOUS
<1>1. IInv
  BY InitHolds DEF EngineInit
<1>2. WInv
  BY WalkInitHolds DEF EngineInit
<1>3. Proper(given)
  <2>1. given.kind \in Plain
    BY DEF EngineInit, None, Plain
  <2> QED
    BY <2>1, PlainIsProper
<1> QED
  BY <1>1, <1>2, <1>3 DEF EInv

\* The first of two questions is proper,
LEMMA AskKeeps == Ask => Proper(given')
<1> SUFFICES ASSUME NEW q \in Topics PROVE Proper(q)
  BY DEF Ask
<1>1. CASE q.kind = "a record"
  <2>1. q.first \in RecordsNamed("i1")
    BY <1>1 DEF Topics, WarningQuestions
  <2> QED
    BY <1>1, <2>1 DEF Proper
<1>2. CASE q.kind = "a file"
  <2>1. q.of \in SomeInputs
    BY <1>2 DEF Topics, WarningQuestions
  <2> QED
    BY <1>2, <2>1 DEF Proper
<1>3. CASE q.kind \in {"an index", "a name", "a tree"}
  <2>1. q.kind \in Plain
    BY <1>3 DEF Plain
  <2> QED
    BY <2>1, PlainIsProper
<1>4. CASE q \in WarningQuestions
  BY <1>4, WarningQuestionsAreProper
<1>5. CASE q.kind = "an answer"
  <2>1. q.answer \in SomeAnswers
    BY <1>5 DEF Topics, WarningQuestions
  <2> QED
    BY <1>5, <2>1 DEF Proper
<1> QED
  BY <1>1, <1>2, <1>3, <1>4, <1>5 DEF Topics

\* and so is the second, which is about what the first one names.
LEMMA DetailKeeps == Proper(given) /\ Detail => Proper(given')
<1> DEFINE plain(Q) == \A q \in Q : q.kind \in Plain
<1> SUFFICES ASSUME Proper(given), Detail PROVE Proper(given')
  OBVIOUS
<1>1. CASE given.kind = "a record" /\ given' \in RecordQuestions(given.first)
  BY <1>1, RecordQuestionsAreProper DEF Proper
<1>2. CASE given.kind = "a file" /\ given' \in FileQuestions(given.of)
  BY <1>2, FileQuestionsAreProper DEF Proper
<1>3. \A snapshot : plain(SearchQuestions(snapshot))
  BY DEF SearchQuestions, Plain
<1>4. \A snapshot : plain(OverviewQuestions(snapshot))
  BY DEF OverviewQuestions, Plain
<1>5. \A others : plain(RelatedQuestions(others))
  <2> SUFFICES ASSUME NEW others, NEW q \in RelatedQuestions(others)
               PROVE  q.kind \in Plain
    OBVIOUS
  <2>1. q.kind = "related"
    BY DEF RelatedQuestions
  <2> QED
    BY <2>1 DEF Plain
<1>6. \A t : plain(TreeQuestions(t))
  BY DEF TreeQuestions, Plain
<1>7. CASE /\ given.kind = "an answer"
           /\ given' \in RenderingQuestions(given.answer)
  BY <1>7, RenderingQuestionsAreProper DEF Proper
<1> HIDE DEF Detail
<1>8. CASE given'.kind \in Plain
  BY <1>8, PlainIsProper
<1> QED
  BY <1>1, <1>2, <1>3, <1>4, <1>5, <1>6, <1>7, <1>8 DEF Detail

\* After it there is no question.
LEMMA CloseKeeps == Close => Proper(given')
<1> SUFFICES ASSUME given' = None PROVE given'.kind \in Plain
  BY PlainIsProper DEF Close
<1> QED
  BY DEF None, Plain

\* A step keeps it: each part changes its own variables.
LEMMA EngineStepKeeps ==
    EInv /\ [EngineNext]_<<part, given, vars, walkVars>> => EInv'
<1> SUFFICES ASSUME EInv, [EngineNext]_<<part, given, vars, walkVars>>
             PROVE  EInv'
  OBVIOUS
<1>1. [Next]_vars /\ [WalkNext]_walkVars
  BY DEF EngineNext
<1>2. IInv' /\ WInv'
  BY <1>1, StepKeeps, WalkStepKeeps DEF EInv
<1>3. Proper(given')
  <2>1. CASE given' = given
    BY <2>1 DEF EInv
  <2>2. CASE Ask \/ Detail \/ Close
    BY <2>2, AskKeeps, DetailKeeps, CloseKeeps DEF EInv
  <2> QED
    BY <2>1, <2>2 DEF EngineNext
<1> QED
  BY <1>2, <1>3 DEF EInv

\* The invariant of the run.
THEOREM EngineInvariant == EngineSpec => []EInv
<1> QED
  BY EngineInitHolds, EngineStepKeeps, PTL DEF EngineSpec

\* The variables of the update and of the walk have their types (EngineTypeOK).
THEOREM EngineTypeCorrect == EngineSpec => []EngineTypeOK
<1>1. EInv => EngineTypeOK
  <2>1. WInv => WalkTypeOK
    BY ShapeIsType
  <2> QED
    BY <2>1 DEF EInv, IInv, EngineTypeOK
<1> QED
  BY <1>1, EngineInvariant, PTL

\* Both readers of the index file accept what the encoder writes, and the size
\* foreseen for it is enough (format.go).
THEOREM FileStaysReadable == EngineSpec => []FileKeepsIndex
<1>1. EInv => FileKeepsIndex
  <2> SUFFICES ASSUME EInv, given.kind = "records"
               PROVE  /\ WrittenIsRead(given.input, SomeCatalogue)
                      /\ SizeIsForeseen(given.input, SomeCatalogue)
    BY DEF FileKeepsIndex
  <2>1. given.input \in Seq(Records)
    BY DEF EInv, Proper
  <2>2. SomeCatalogue \in Catalogs
    BY SomeFilesAssumption
  <2> QED
    BY <2>1, <2>2, WhatIsWrittenIsRead, TheSizeIsForeseen
<1> QED
  BY <1>1, EngineInvariant, PTL

\* The snapshot an update keeps in memory is the one a load would give (store.go).
THEOREM MemoryStaysDisk == EngineSpec => []MemorySnapshotIsDisk
<1>1. EInv => MemorySnapshotIsDisk
  BY MemoryIsTheDisk DEF EInv, Proper, MemorySnapshotIsDisk
<1> QED
  BY <1>1, EngineInvariant, PTL

\* The reader that decodes and the one that validates in place accept the same
\* files, and only the one file there is for each index (format.go).
THEOREM FilesKeepOneReading == EngineSpec => []FileHasOneReading
<1>1. EInv => FileHasOneReading
  BY TheReadersAgree, AnIndexHasOneFile DEF EInv, Proper, FileHasOneReading
<1> QED
  BY <1>1, EngineInvariant, PTL

\* An answer is fitted by dropping no more than it must: what it returns is the
\* best of what was found and fits, and its counts still add up (render.go).
THEOREM AnswersStayFitting == EngineSpec => []AnswersFit
<1>1. EInv => AnswersFit
  BY FittingKeepsItsWord DEF EInv, Proper, AnswersFit
<1> QED
  BY <1>1, EngineInvariant, PTL

\* The order in which warnings are added does not show, and a list that misses
\* some says so (control.go, appendBoundedWarnings).
THEOREM WarningsStayBounded == EngineSpec => []WarningsAreBounded
<1>1. EInv => WarningsAreBounded
  BY WarningsComeInSteps DEF EInv, Proper, WarningsAreBounded
<1> QED
  BY <1>1, EngineInvariant, PTL

=============================================================================
