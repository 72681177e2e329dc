-------------------------------- MODULE Walk --------------------------------
(***************************************************************************)
(* The repository walk of a build (internal/boundary: walk.go, and the      *)
(* visit of internal/inventory: Collect) while somebody edits the tree.     *)
(* Every directory is listed once, its entries are visited in order, files  *)
(* are read, directories are entered; when the walk is over every directory *)
(* is opened and listed again, and one difference makes the inventory       *)
(* partial. Nothing is locked.                                              *)
(*                                                                         *)
(* What Lstat reports is a kind, an identity (the inode), a size and a time *)
(* of modification; every change of a file or of a directory's entries      *)
(* moves that time. Reading one file is one step here: StableRead.          *)
(***************************************************************************)
EXTENDS Naturals, Sequences, FiniteSets

CONSTANTS Nodes,         \* the paths there may be below the root
          Folders,       \* those that are directories when they are there
          Order,         \* Nodes as a sequence, in the order of their names
          RuleFiles,     \* those named .gitignore
          PrunedFolders, \* directories the visit does not enter
          Observations,  \* maximumObservations
          MaxChanges     \* bound: changes under the walk

\* A path is a sequence of names, and what it is in is a directory. Order has
\* every node; a directory has at most one file of rules.
ASSUME WalkAssumption ==
    LET names == UNION {{p[i] : i \in DOMAIN p} : p \in Nodes}
    IN  /\ IsFiniteSet(Nodes) /\ Nodes \subseteq Seq(names) \ {<<>>}
        /\ Folders \subseteq Nodes \cup {<<>>} /\ <<>> \in Folders
        /\ \A p \in Nodes : SubSeq(p, 1, Len(p) - 1) \in Folders
        /\ DOMAIN Order \subseteq Nat
        /\ \A p \in Nodes : \E i \in DOMAIN Order : Order[i] = p
        /\ RuleFiles \subseteq Nodes \ Folders
        /\ \A p, q \in RuleFiles :
              SubSeq(p, 1, Len(p) - 1) = SubSeq(q, 1, Len(q) - 1) => p = q
        /\ PrunedFolders \subseteq Folders \ {<<>>}
        /\ Observations \in Nat /\ MaxChanges \in Nat

VARIABLES
    fs,       \* what is there: path -> what Lstat reports, or NoEntry
    clock,    \* changes so far: the time of the latest one
    at,       \* where the walk is
    frames,   \* the directories entered, each with the entries still to visit
    listing,  \* the directory being listed: its entries so far
    snapshots,\* the directories listed so far, in order
    checked,  \* how many of them have been listed again
    budget,   \* observations left
    seen,     \* the files visited, with what was read
    settled   \* history: the tree when the last file had been visited

walker == <<at, frames, listing, snapshots, checked, budget, seen, settled>>
walkVars == <<fs, clock, walker>>

TopDir    == <<>>
NoEntry == [kind |-> "none", id |-> 0, size |-> 0, time |-> 0]
Paths   == Nodes \cup {TopDir}
Parent(p)   == SubSeq(p, 1, Len(p) - 1)
Entries(d) == {p \in Nodes : Parent(p) = d}
There(p)    == fs[p].kind # "none"
Listed(d)   == {p \in Entries(d) : There(p)}
NoListing   == [dir |-> TopDir, info |-> NoEntry, todo |-> {}, got |-> <<>>]

Position(p) == CHOOSE i \in DOMAIN Order : Order[i] = p

\* Mutant of Before: plain name order.
BeforeByName(p, q) == Position(p) < Position(q)

\* repositoryEntryLess: .gitignore first, then by name.
Before(p, q) ==
    IF (p \in RuleFiles) # (q \in RuleFiles) THEN p \in RuleFiles
    ELSE Position(p) < Position(q)

\* sameIdentity and sameSnapshot
SameIdentity(a, b) == a.kind = b.kind /\ a.id = b.id

\* Mutant of SameSnapshot: times of modification are not compared.
SameSnapshotUntimed(a, b) == SameIdentity(a, b) /\ a.size = b.size

SameSnapshot(a, b) == SameIdentity(a, b) /\ a.size = b.size /\ a.time = b.time

\* The entries of a directory are sorted and visited in that order: the next one
\* is the first of those left.
First(S) == CHOOSE p \in S : \A q \in S \ {p} : Before(p, q)

WalkInit ==
    /\ fs \in [Paths -> {NoEntry} \cup
          [kind : {"file", "folder"}, id : {1}, size : {1}, time : {0}]]
    /\ There(TopDir)
    /\ \A p \in Paths : There(p) =>
          /\ fs[p].kind = IF p \in Folders THEN "folder" ELSE "file"
          /\ p # TopDir => There(Parent(p))
    /\ clock = 0
    /\ at = "start" /\ frames = <<>> /\ listing = NoListing
    /\ snapshots = <<>> /\ checked = 0 /\ budget = 0
    /\ seen = <<>> /\ settled = fs

-----------------------------------------------------------------------------
(* Somebody else *)

Entry(p, id, size, time) ==
    [kind |-> IF p \in Folders THEN "folder" ELSE "file",
     id |-> id, size |-> size, time |-> time]

\* A change at path p; when entries come or go, the directory's time moves.
Alter(p, entry, within) ==
    /\ at # "start" /\ clock < MaxChanges
    /\ clock' = clock + 1
    /\ fs' = [q \in Paths |->
          CASE q = p -> entry
            [] q = Parent(p) /\ within -> [fs[q] EXCEPT !.time = clock']
            [] OTHER -> fs[q]]
    /\ UNCHANGED walker

Rewrite(p) == /\ There(p) /\ p \notin Folders
              /\ \E size \in {1, 2} :
                    Alter(p, Entry(p, fs[p].id, size, clock + 1), FALSE)
Replace(p) == /\ There(p) /\ Listed(p) = {}
              /\ Alter(p, Entry(p, clock + 2, 1, clock + 1), TRUE)
Create(p)  == /\ ~There(p) /\ There(Parent(p))
              /\ Alter(p, Entry(p, clock + 2, 1, clock + 1), TRUE)
Remove(p)  == /\ There(p) /\ Listed(p) = {}
              /\ Alter(p, NoEntry, TRUE)

Others == \E p \in Nodes : Rewrite(p) \/ Replace(p) \/ Create(p) \/ Remove(p)

-----------------------------------------------------------------------------
(* Listing a directory: readRootDirectory *)

\* Names first, within what is left of the budget; the end of a directory is
\* only seen with budget left.
StartListing(d, left, label) ==
    IF Cardinality(Listed(d)) >= left
    THEN at' = "limit" /\ UNCHANGED <<listing, budget>>
    ELSE /\ at' = label
         /\ budget' = left - Cardinality(Listed(d))
         /\ listing' = [dir |-> d, info |-> fs[d], todo |-> Listed(d),
                        got |-> <<>>]

\* Then Lstat of each name, in any order.
Observe ==
    /\ at \in {"list", "relist"}
    /\ \E p \in listing.todo :
          IF There(p)
          THEN /\ listing' = [listing EXCEPT !.todo = @ \ {p},
                     !.got = [q \in DOMAIN @ \cup {p} |->
                                 IF q = p THEN fs[p] ELSE @[q]]]
               /\ at' = at
          ELSE /\ at' = (IF at = "list" THEN "unsafe" ELSE "changed")
               /\ UNCHANGED listing
    /\ UNCHANGED <<fs, clock, frames, snapshots, checked, budget, seen,
                   settled>>

\* The directory must not have changed while it was listed.
Undisturbed == SameSnapshot(listing.info, fs[listing.dir])

-----------------------------------------------------------------------------
(* Discovery: walkRepositoryDirectory *)

Begin ==
    /\ at = "start"
    /\ StartListing(TopDir, Observations, "list")
    /\ UNCHANGED <<fs, clock, frames, snapshots, checked, seen, settled>>

Enter ==
    /\ at = "list" /\ listing.todo = {}
    /\ IF Undisturbed
       THEN /\ frames' = Append(frames, DOMAIN listing.got)
            /\ snapshots' = Append(snapshots, listing)
            /\ at' = "visit"
       ELSE at' = "unsafe" /\ UNCHANGED <<frames, snapshots>>
    /\ UNCHANGED <<fs, clock, listing, checked, budget, seen, settled>>

Top  == frames[Len(frames)]
Due == First(Top)
Rest == [frames EXCEPT ![Len(frames)] = @ \ {Due}]

\* What the listing of its directory reported about an entry.
Reported(p) ==
    (CHOOSE i \in DOMAIN snapshots : snapshots[i].dir = Parent(p))

Info(p) == snapshots[Reported(p)].got[p]

\* Mutant of Visit: a directory that is pruned is taken for a file.
VisitPruned ==
    /\ at = "visit" /\ Top # {}
    /\ LET p == Due
       IN  IF ~SameSnapshot(Info(p), fs[p])
             THEN at' = "unsafe" /\ UNCHANGED frames
           ELSE at' = (IF p \in Folders \ PrunedFolders
                        THEN "descend" ELSE "read")
                /\ UNCHANGED frames
    /\ UNCHANGED <<fs, clock, listing, snapshots, checked, budget, seen,
                   settled>>

\* Lstat again before the visit.
Visit ==
    /\ at = "visit" /\ Top # {}
    /\ LET p == Due
       IN  IF ~SameSnapshot(Info(p), fs[p])
             THEN at' = "unsafe" /\ UNCHANGED frames
           ELSE IF p \in PrunedFolders THEN at' = "visit" /\ frames' = Rest
           ELSE at' = (IF p \in Folders THEN "descend" ELSE "read")
                /\ UNCHANGED frames
    /\ UNCHANGED <<fs, clock, listing, snapshots, checked, budget, seen,
                   settled>>

\* The prefix or body; a file that is gone or has another size is excluded.
Read ==
    /\ at = "read"
    /\ LET p == Due
       IN  seen' = [q \in DOMAIN seen \cup {p} |->
               IF q # p THEN seen[q]
               ELSE IF There(p) /\ fs[p].size = Info(p).size THEN fs[p]
               ELSE NoEntry]
    /\ frames' = Rest
    /\ at' = "visit"
    /\ UNCHANGED <<fs, clock, listing, snapshots, checked, budget, settled>>

\* OpenRoot, Stat and Lstat: only the identity counts here.
Descend ==
    /\ at = "descend"
    /\ LET p == Due
       IN  IF ~SameIdentity(Info(p), fs[p])
           THEN at' = "unsafe" /\ UNCHANGED <<frames, listing, budget>>
           ELSE StartListing(p, budget, "list") /\ frames' = Rest
    /\ UNCHANGED <<fs, clock, snapshots, checked, seen, settled>>

Leave ==
    /\ at = "visit" /\ Top = {}
    /\ frames' = SubSeq(frames, 1, Len(frames) - 1)
    /\ IF Len(frames) > 1
       THEN at' = "visit" /\ UNCHANGED <<budget, settled>>
       ELSE at' = "verify" /\ budget' = 2 * Observations /\ settled' = fs
    /\ UNCHANGED <<fs, clock, listing, snapshots, checked, seen>>

-----------------------------------------------------------------------------
(* Verification: validateRepositorySnapshots *)

Again == snapshots[checked + 1]

\* Each directory is reached from the root again: that costs its depth.
Revisit ==
    /\ at = "verify" /\ checked < Len(snapshots)
    /\ IF There(Again.dir)
       THEN StartListing(Again.dir, IF Len(Again.dir) > budget THEN 0
                                    ELSE budget - Len(Again.dir), "relist")
       ELSE at' = "changed" /\ UNCHANGED <<listing, budget>>
    /\ UNCHANGED <<fs, clock, frames, snapshots, checked, seen, settled>>

\* sameRepositorySnapshot
SameListing(a, b) ==
    /\ SameSnapshot(a.info, b.info)
    /\ DOMAIN a.got = DOMAIN b.got
    /\ \A p \in DOMAIN a.got : SameSnapshot(a.got[p], b.got[p])

Compare ==
    /\ at = "relist" /\ listing.todo = {}
    /\ IF Undisturbed /\ SameListing(Again, listing)
       THEN at' = "verify" /\ checked' = checked + 1
       ELSE at' = "changed" /\ UNCHANGED checked
    /\ UNCHANGED <<fs, clock, frames, listing, snapshots, budget, seen,
                   settled>>

Finish ==
    /\ at = "verify" /\ checked = Len(snapshots)
    /\ at' = "complete"
    /\ UNCHANGED <<fs, clock, frames, listing, snapshots, checked, budget,
                   seen, settled>>

Outcomes == {"complete", "changed", "unsafe", "limit"}

Ended == at \in Outcomes /\ UNCHANGED walkVars

WalkNext ==
    \/ Begin \/ Observe \/ Enter \/ Visit \/ Read \/ Descend \/ Leave
    \/ Revisit \/ Compare \/ Finish \/ Others \/ Ended

WalkSpec == WalkInit /\ [][WalkNext]_walkVars

-----------------------------------------------------------------------------
(* Properties *)

\* The types of the variables: the program counter, what is entered and what is
\* still to visit, and the budget, which no path overdraws.
WalkTypeOK ==
    /\ at \in {"start", "list", "visit", "read", "descend", "verify", "relist"}
               \cup Outcomes
    /\ clock \in 0 .. MaxChanges
    /\ budget \in 0 .. 2 * Observations
    /\ \A i \in DOMAIN frames : frames[i] \subseteq Nodes
    /\ \A i \in DOMAIN snapshots : snapshots[i].dir \in Folders
    /\ checked \in 0 .. Len(snapshots)
    /\ DOMAIN seen \subseteq Nodes \ Folders

\* The paths a walk of the tree t visits: no directory they are in is pruned.
Enclosing(p) == {SubSeq(p, 1, i) : i \in 1 .. Len(p) - 1}
Reachable(t) ==
    {p \in Nodes \ Folders : /\ t[p].kind # "none"
                             /\ Enclosing(p) \cap PrunedFolders = {}}

\* An inventory that is not marked partial is one moment of the tree, the
\* moment the last file had been visited, although files were read at different
\* times, directories were listed entry by entry, and nothing was locked.
CompleteIsOneMoment ==
    at = "complete" =>
        /\ DOMAIN seen = Reachable(settled)
        /\ \A p \in DOMAIN seen : seen[p] = settled[p]

\* When a file is classified, the rules of the .gitignore beside it have been
\* read, whatever the two are named.
RulesComeFirst ==
    \A p \in DOMAIN seen : \A q \in RuleFiles :
        (/\ Parent(q) = Parent(p)
         /\ q \in DOMAIN snapshots[Reported(p)].got) => q \in DOMAIN seen

=============================================================================
