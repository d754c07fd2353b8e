--------------------------- MODULE PlaylistFolders ---------------------------
(***************************************************************************)
(* A user's own arrangement of playlists (organize in                      *)
(* playlists/collaboration/organization.rs): nested folders, the place of  *)
(* every playlist in them, and the bar of pinned playlists.                *)
(*                                                                         *)
(* A call first writes the revision row, so calls run one after another,   *)
(* and one that names an old revision is refused and changes nothing: the  *)
(* actions are the calls that name the current one.  Folders get random    *)
(* ids: the order of ids, which breaks ties of positions, is arbitrary.    *)
(***************************************************************************)
EXTENDS Integers, FiniteSets

CONSTANTS
  FolderIds,     \* ids of folders, ordered as the strings are
  Lists,         \* playlists, ordered by name and id
  MaxDepth,      \* MAX_FOLDER_DEPTH, 16 in the code
  Shift,         \* 100000 in the code: puts what moves up behind the siblings
  MaxPosition    \* bound: positions of folders and placements

ASSUME FolderBoundsAssumption ==
  /\ FolderIds \subseteq Nat \ {0} /\ Lists \subseteq Nat
  /\ IsFiniteSet(FolderIds) /\ IsFiniteSet(Lists)
  /\ MaxDepth \in Nat \ {0} /\ Shift \in Nat /\ MaxPosition \in Nat
  /\ {Cardinality(FolderIds), Cardinality(Lists)} \subseteq 0..MaxPosition

Root == 0          \* parent_folder_id or folder_id NULL
Gone == -1         \* no such folder
NoPlace == [in |-> Root, at |-> MaxPosition + 1, pinned |-> FALSE, bar |-> MaxPosition + 1]

VARIABLES
  parent, at,   \* playlist_folders: parent_folder_id and position
  place,        \* playlist_placements; no row reads as NoPlace
  visible       \* playlists that are readable and not in the Trash

folderVars == <<parent, at, place, visible>>

Folders == {f \in FolderIds : parent[f] # Gone}

FoldersTypeOK ==
  /\ parent \in [FolderIds -> FolderIds \cup {Root, Gone}]
  /\ at \in [FolderIds -> 0..MaxPosition]
  /\ place \in [Lists -> [in : FolderIds \cup {Root}, at : 0..(MaxPosition + 1),
                          pinned : BOOLEAN, bar : 0..(MaxPosition + 1)]]
  /\ visible \subseteq Lists

FoldersInit ==
  /\ parent = [f \in FolderIds |-> Gone] /\ at = [f \in FolderIds |-> 0]
  /\ place = [l \in Lists |-> NoPlace]
  /\ visible = Lists

-----------------------------------------------------------------------------
(* check_parent_folder.                                                    *)

\* Sets of folders that hold the parent of each of their folders.
Upward == {S \in SUBSET Folders : \A g \in S : parent[g] \in Folders => parent[g] \in S}

\* The folders from f to the root: what the walk along the parents visits.
Chain(f) == {g \in Folders : f \in Folders /\ \A S \in Upward : f \in S => g \in S}
Level(f) == Cardinality(Chain(f))

\* The subtree of f.
Below(f) == {g \in Folders : f \in Chain(g)}

AcceptsNew(p) == p \in Folders \cup {Root} /\ Level(p) < MaxDepth

\* A check that forgets the folders which move along.
AcceptsAlone(f, p) == AcceptsNew(p) /\ f \notin Chain(p)

Accepts(f, p) ==
  /\ AcceptsNew(p)
  /\ f \notin Chain(p)
  /\ \A g \in Below(f) : Level(p) + (Level(g) - Level(f) + 1) <= MaxDepth

-----------------------------------------------------------------------------
(* Positions among siblings.                                               *)

FolderBefore(f, g) == at[f] < at[g] \/ (at[f] = at[g] /\ f < g)
ListBefore(l, m) == place[l].at < place[m].at \/ (place[l].at = place[m].at /\ l < m)
PinBefore(l, m) == place[l].bar < place[m].bar \/ (place[l].bar = place[m].bar /\ l < m)

Least(a, b) == IF a < b THEN a ELSE b

\* The place of an element that has rank r among the others, when another one is
\* inserted at t.
Shifted(r, t) == IF r < t THEN r ELSE r + 1

FolderRank(g, others) == Cardinality({h \in others : FolderBefore(h, g)})
PinRank(l, others) == Cardinality({m \in others : PinBefore(m, l)})

\* Ranks of rows that were read without their order.
RankById(l, others) == Cardinality({m \in others : m < l})
ListRank(l, others) == Cardinality({m \in others : ListBefore(m, l)})

CreateFolder(f, p) ==
  /\ parent[f] = Gone /\ AcceptsNew(p)
  /\ LET siblings == {g \in Folders : parent[g] = p} IN
       \E next \in 0..MaxPosition :
         /\ \A g \in siblings : at[g] < next
         /\ next = 0 \/ \E g \in siblings : at[g] + 1 = next
         /\ at' = [at EXCEPT ![f] = next]
  /\ parent' = [parent EXCEPT ![f] = p]
  /\ UNCHANGED <<place, visible>>

\* Folder: another parent, another position (or none named), or a pin.
MoveFolder(f, p) ==
  /\ f \in Folders /\ Accepts(f, p)
  /\ LET others == {g \in Folders \ {f} : parent[g] = p}
         rest == IF p = parent[f] THEN FolderRank(f, others) ELSE Cardinality(others)
     IN \E position \in {rest} \cup 0..Cardinality(FolderIds) :
          LET target == Least(position, Cardinality(others))
          IN at' = [g \in FolderIds |->
                      IF g = f THEN target
                      ELSE IF g \in others THEN Shifted(FolderRank(g, others), target)
                      ELSE at[g]]
  /\ parent' = [parent EXCEPT ![f] = p]
  /\ UNCHANGED <<place, visible>>

\* What lies in the folder moves up, playlists that are not visible too.
DeleteFolder(f) ==
  /\ f \in Folders
  /\ \A g \in Folders : parent[g] = f => at[g] + Shift <= MaxPosition
  /\ \A l \in Lists : place[l].in = f => place[l].at + Shift <= MaxPosition
  /\ parent' = [g \in FolderIds |-> IF g = f THEN Gone
                                    ELSE IF parent[g] = f THEN parent[f] ELSE parent[g]]
  /\ at' = [g \in FolderIds |-> IF g = f THEN 0
                                ELSE IF parent[g] = f THEN at[g] + Shift ELSE at[g]]
  /\ place' = [l \in Lists |-> IF place[l].in = f
                                 THEN [place[l] EXCEPT !.in = parent[f], !.at = @ + Shift]
                                 ELSE place[l]]
  /\ UNCHANGED visible

\* Playlist: the rows of its siblings in the target folder are written anew.
PlacePlaylist(l, f, pin) ==
  /\ l \in visible /\ f \in Folders \cup {Root}
  /\ LET siblings == {m \in visible : place[m].in = f}
         others == siblings \ {l}
         rest == IF place[l].in = f THEN ListRank(l, siblings) ELSE Cardinality(others)
     IN \E position \in {rest} \cup 0..Cardinality(Lists) :
          LET target == Least(position, Cardinality(others))
          IN place' = [m \in Lists |->
               IF m = l
                 THEN [in |-> f, at |-> target, pinned |-> pin,
                       bar |-> IF pin THEN place[l].bar ELSE NoPlace.bar]
               ELSE IF m \in others
                 THEN [place[m] EXCEPT !.at = Shifted(ListRank(m, others), target)]
               ELSE place[m]]
  /\ UNCHANGED <<parent, at, visible>>

Pins == {l \in visible : place[l].pinned}

PinOrder(l, position) ==
  /\ l \in Pins
  /\ LET others == Pins \ {l}
         target == Least(position, Cardinality(others))
     IN place' = [m \in Lists |->
          IF m = l THEN [place[m] EXCEPT !.bar = target]
          ELSE IF m \in others
            THEN [place[m] EXCEPT !.bar = Shifted(PinRank(m, others), target)]
          ELSE place[m]]
  /\ UNCHANGED <<parent, at, visible>>

\* The owner trashes or restores a playlist, or changes its sharing.
VisibilityChanges(l) ==
  /\ visible' = IF l \in visible THEN visible \ {l} ELSE visible \cup {l}
  /\ UNCHANGED <<parent, at, place>>

FoldersNext ==
  \/ \E f \in FolderIds :
       \/ \E p \in FolderIds \cup {Root} : CreateFolder(f, p) \/ MoveFolder(f, p)
       \/ DeleteFolder(f)
  \/ \E l \in Lists :
       \/ \E f \in FolderIds \cup {Root}, pin \in BOOLEAN : PlacePlaylist(l, f, pin)
       \/ \E n \in 0..Cardinality(Lists) : PinOrder(l, n)
       \/ VisibilityChanges(l)

FoldersSpec == FoldersInit /\ [][FoldersNext]_folderVars

-----------------------------------------------------------------------------
(* Properties                                                              *)

\* The folders form trees of at most MaxDepth levels and every playlist lies in one
\* that exists, whatever the order of moves and deletions (check_parent_folder,
\* DeleteFolder): a folder that left the tree could not be reached any more.
FoldersFormTree ==
  /\ \A f \in Folders :
       /\ parent[f] \in Folders \cup {Root}
       /\ \E g \in Chain(f) : parent[g] = Root
       /\ Level(f) <= MaxDepth
  /\ \A l \in Lists : place[l].in \in Folders \cup {Root}

\* A call changes the place of one folder or playlist: every two others that were
\* siblings and still are keep their order, also among equal positions and when
\* some of them are hidden meanwhile (organize).
OthersKeepOrder ==
  [][\E f \in FolderIds \cup {Gone}, l \in Lists \cup {Gone} :
       /\ \A g, h \in (Folders \cap Folders') \ {f} :
            parent[g] = parent[h] /\ parent'[g] = parent'[h] =>
              (FolderBefore(g, h) <=> FolderBefore(g, h)')
       /\ \A m, n \in (visible \cap visible') \ {l} :
            place[m].in = place[n].in /\ place'[m].in = place'[n].in =>
              (ListBefore(m, n) <=> ListBefore(m, n)')
       /\ \A m, n \in (Pins \cap Pins') \ {l} :
            (PinBefore(m, n) <=> PinBefore(m, n)')]_folderVars
=============================================================================
