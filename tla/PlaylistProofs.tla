------------------------ MODULE PlaylistProofs ------------------------
(***************************************************************************)
(* Playlists, for every number of folders, playlists and entries, and for  *)
(* every limit of depth and of the history.                                *)
(*                                                                         *)
(* Their arrangement: the folders form trees within the limit, and a call  *)
(* leaves the others in their order.  The first part is about walks along  *)
(* the parents: Chain(f) is the least set that holds f and the parents of  *)
(* its folders, and each action says what becomes of it.  The second is    *)
(* about ranks: renumbering by rank keeps a strict order.                  *)
(*                                                                         *)
(* Their editing: undoing a command gives back what it changed.  What is   *)
(* written for a list is the rank of each entry, so a removal and its      *)
(* inserts undo each other if the inserts meet the ranks from below: the   *)
(* recursion of Inserted is unfolded by taking its least counterexample.   *)
(* The invariant says of each command in the history that it leads from    *)
(* what was before to what was after, and its inverse back (Reversible).   *)
(*                                                                         *)
(* At the end, the parts of MCListening together.                          *)
(***************************************************************************)
EXTENDS MCListening, ListeningProofs, RemotePlaybackProofs, FiniteSetTheorems, SequenceTheorems,
        WellFoundedInduction, TLAPS

\* Every parent is a folder that exists or the root.
ParentsExist == \A f \in Folders : parent[f] \in Folders \cup {Root}

\* Every walk ends at the root.
Rooted == \A f \in Folders : \E g \in Chain(f) : parent[g] = Root

Shallow == \A f \in Folders : Level(f) <= MaxDepth

ListsPlaced == \A l \in Lists : place[l].in \in Folders \cup {Root}

FoldersInv == FoldersTypeOK /\ ParentsExist /\ Rooted /\ Shallow /\ ListsPlaced

-----------------------------------------------------------------------------
(* Walks along the parents.                                                *)

\* A chain is the least upward set with its folder.
LEMMA ChainLeast ==
  ASSUME NEW f \in Folders
  PROVE  /\ f \in Chain(f) /\ Chain(f) \in Upward
         /\ \A S \in Upward : f \in S => Chain(f) \subseteq S
<1>1. f \in Chain(f) /\ Chain(f) \subseteq Folders
  BY DEF Chain
<1>2. \A S \in Upward : f \in S => Chain(f) \subseteq S
  BY DEF Chain
<1>3. ASSUME NEW g \in Chain(f), parent[g] \in Folders PROVE parent[g] \in Chain(f)
  <2>1. ASSUME NEW S \in Upward, f \in S PROVE parent[g] \in S
    <3>1. g \in S
      BY <1>2, <2>1
    <3>. QED
      BY <1>3, <3>1 DEF Upward
  <2>. QED
    BY <1>3, <2>1 DEF Chain
<1>4. Chain(f) \in Upward
  BY <1>1, <1>3 DEF Upward
<1>. QED
  BY <1>1, <1>2, <1>4

\* There is no walk from the root, or from what does not exist.
LEMMA NoChain == \A f : f \notin Folders => Chain(f) = {}
BY DEF Chain

\* The chain of what a walk visits is a part of it.
LEMMA ChainOfVisited ==
  ASSUME NEW f \in Folders, NEW g \in Chain(f) PROVE g \in Folders /\ Chain(g) \subseteq Chain(f)
<1>1. g \in Folders
  BY DEF Chain
<1>. QED
  BY <1>1, ChainLeast

\* The walk from a folder goes on from its parent.
LEMMA ChainUnfolds ==
  ASSUME ParentsExist, NEW f \in Folders PROVE Chain(f) = {f} \cup Chain(parent[f])
<1>1. Chain(parent[f]) \subseteq Chain(f)
  <2>1. CASE parent[f] \in Folders
    <3>1. parent[f] \in Chain(f)
      BY <2>1, ChainLeast DEF Upward
    <3>. QED
      BY <3>1, ChainOfVisited
  <2>2. CASE parent[f] \notin Folders
    BY <2>2, NoChain
  <2>. QED
    BY <2>1, <2>2
<1>2. {f} \cup Chain(parent[f]) \in Upward
  <2>1. {f} \cup Chain(parent[f]) \subseteq Folders
    BY DEF Chain
  <2>2. ASSUME NEW g \in {f} \cup Chain(parent[f]), parent[g] \in Folders
        PROVE  parent[g] \in {f} \cup Chain(parent[f])
    <3>1. CASE g = f
      BY <2>2, <3>1, ChainLeast
    <3>2. CASE g # f
      <4>1. parent[f] \in Folders
        BY <3>2, NoChain
      <4>. QED
        BY <2>2, <3>2, <4>1, ChainLeast DEF Upward
    <3>. QED
      BY <3>1, <3>2
  <2>. QED
    BY <2>1, <2>2 DEF Upward
<1>3. Chain(f) \subseteq {f} \cup Chain(parent[f])
  BY <1>2, ChainLeast
<1>. QED
  BY <1>1, <1>3, ChainLeast

\* No folder lies in itself.
LEMMA NoCycle ==
  ASSUME ParentsExist, Rooted, NEW f \in Folders PROVE f \notin Chain(parent[f])
<1> SUFFICES ASSUME f \in Chain(parent[f]) PROVE FALSE
  OBVIOUS
<1> DEFINE S == {h \in Chain(f) : f \in Chain(h)}
<1>1. f \in S
  BY ChainLeast
<1>2. S \in Upward
  <2>1. ASSUME NEW h \in S, parent[h] \in Folders PROVE parent[h] \in S
    <3>1. h \in Folders /\ parent[h] \in Chain(f)
      BY <2>1, ChainLeast, ChainOfVisited DEF Upward
    <3>2. f \in {h} \cup Chain(parent[h])
      BY <3>1, ChainUnfolds
    <3>. QED
      BY <3>1, <3>2
  <2>2. S \subseteq Folders
    BY DEF Chain
  <2>. HIDE DEF S
  <2>. QED
    BY <2>1, <2>2 DEF Upward
<1>3. Chain(f) \subseteq S
  BY <1>1, <1>2, ChainLeast
<1>4. PICK g \in Chain(f) : parent[g] = Root
  BY DEF Rooted
<1>5. g \in Folders /\ f \in Chain(g)
  BY <1>3, ChainOfVisited
<1>6. Root \notin Folders
  BY FolderBoundsAssumption DEF Folders, Root
<1>7. Chain(g) = {g}
  BY <1>4, <1>5, <1>6, ChainUnfolds, NoChain
<1>8. parent[f] = Root
  BY <1>4, <1>5, <1>7
<1>. QED
  BY <1>6, <1>8, NoChain

\* Two folders that lie in each other are one.
LEMMA OneInTheOther ==
  ASSUME ParentsExist, Rooted, NEW f \in Folders, NEW g \in Chain(f), f \in Chain(g) PROVE f = g
<1> SUFFICES ASSUME f # g PROVE FALSE
  OBVIOUS
<1>1. g \in Chain(parent[f])
  BY ChainUnfolds
<1>2. parent[f] \in Folders
  BY <1>1, NoChain
<1>3. f \in Chain(parent[f])
  BY <1>1, <1>2, ChainOfVisited
<1>. QED
  BY <1>3, NoCycle

\* Chains are finite; levels count from the root.
LEMMA Levels ==
  \A f : IsFiniteSet(Chain(f)) /\ Level(f) \in Nat
<1>1. \A f : Chain(f) \subseteq FolderIds
  BY DEF Chain, Folders
<1>. QED
  BY <1>1, FS_Subset, FS_CardinalityType, FolderBoundsAssumption DEF Level

LEMMA LevelUnfolds ==
  ASSUME ParentsExist, Rooted, NEW f \in Folders PROVE Level(f) = Level(parent[f]) + 1
<1>1. Chain(f) = Chain(parent[f]) \cup {f} /\ f \notin Chain(parent[f])
  BY ChainUnfolds, NoCycle
<1>. QED
  BY <1>1, Levels, FS_AddElement DEF Level

\* The same of the next state.
ChainsWalk ==
  /\ \A f \in Folders : /\ f \in Chain(f) /\ Chain(f) \in Upward
                        /\ \A S \in Upward : f \in S => Chain(f) \subseteq S
                        /\ \A g \in Chain(f) : g \in Folders /\ Chain(g) \subseteq Chain(f)
  /\ \A f : f \notin Folders => Chain(f) = {}
  /\ ParentsExist => \A f \in Folders : Chain(f) = {f} \cup Chain(parent[f])
  /\ \A f : IsFiniteSet(Chain(f)) /\ Level(f) \in Nat

LEMMA ChainsWalkNow == ChainsWalk
BY ChainLeast, ChainOfVisited, NoChain, ChainUnfolds, Levels DEF ChainsWalk

LEMMA ChainsWalkNext == ChainsWalk'
BY ChainsWalkNow, PTL
-----------------------------------------------------------------------------
(* What the actions make of chains and levels.                             *)

\* A new folder changes no walk of the others.
LEMMA CreateKeepsTree ==
  ASSUME FoldersInv, NEW f \in FolderIds, NEW p \in FolderIds \cup {Root}, CreateFolder(f, p)
  PROVE  ParentsExist' /\ Rooted' /\ Shallow'
<1>1. /\ parent \in [FolderIds -> FolderIds \cup {Root, Gone}] /\ parent[f] = Gone
      /\ parent' = [parent EXCEPT ![f] = p] /\ p \in Folders \cup {Root} /\ Level(p) < MaxDepth
  BY DEF CreateFolder, AcceptsNew, FoldersInv, FoldersTypeOK
<1>2. p # Gone /\ f # Root /\ Root # Gone /\ Root \notin Folders /\ Root \notin Folders'
  BY <1>1, FolderBoundsAssumption DEF Folders, Root, Gone
<1>3. Folders' = Folders \cup {f} /\ f \notin Folders
  BY <1>1, <1>2 DEF Folders
<1>4. \A g \in Folders : parent'[g] = parent[g] /\ parent[g] # f /\ parent[g] \in Folders \cup {Root}
  BY <1>1, <1>2, <1>3 DEF FoldersInv, ParentsExist, Folders
<1>5. parent'[f] = p /\ ParentsExist'
  BY <1>1, <1>3, <1>4 DEF ParentsExist
<1>6. ASSUME NEW g \in Folders PROVE Chain(g)' = Chain(g)
  <2>1. Chain(g) \in Upward /\ g \in Chain(g) /\ Chain(g) \subseteq Folders
    BY ChainLeast DEF Chain
  <2>2. Chain(g) \in Upward'
    BY <1>3, <1>4, <2>1 DEF Upward
  <2>3. Chain(g)' \subseteq Chain(g)
    BY <1>3, <2>1, <2>2, ChainsWalkNext DEF ChainsWalk
  <2>4. g \in Chain(g)' /\ Chain(g)' \in Upward'
    BY <1>3, ChainsWalkNext DEF ChainsWalk
  <2>5. Chain(g)' \in Upward
    BY <1>3, <1>4, <2>1, <2>3, <2>4 DEF Upward
  <2>6. Chain(g) \subseteq Chain(g)'
    BY <2>4, <2>5, ChainLeast
  <2>. QED
    BY <2>3, <2>6
<1>7. Chain(f)' = {f} \cup Chain(p)' /\ f \notin Chain(p)
  BY <1>3, <1>5, ChainsWalkNext DEF ChainsWalk, Chain
<1>8. Chain(p)' = Chain(p)
  <2>1. CASE p \in Folders
    BY <1>6, <2>1
  <2>2. CASE p = Root
    BY <1>2, <2>2, NoChain, ChainsWalkNext DEF ChainsWalk
  <2>. QED
    BY <1>1, <2>1, <2>2
<1>9. Level(f)' <= MaxDepth
  <2>1. Level(f)' = Level(p) + 1
    BY <1>7, <1>8, Levels, FS_AddElement DEF Level
  <2>. QED
    BY <1>1, <2>1, Levels, FolderBoundsAssumption
<1>10. \E g \in Chain(f)' : parent'[g] = Root
  <2>1. CASE p = Root
    BY <1>5, <1>7, <2>1
  <2>2. CASE p \in Folders
    <3>1. PICK g \in Chain(p) : parent[g] = Root
      BY <2>2 DEF FoldersInv, Rooted
    <3>2. g \in Folders
      BY DEF Chain
    <3>. QED
      BY <1>4, <1>7, <1>8, <3>1, <3>2
  <2>. QED
    BY <1>1, <2>1, <2>2
<1>11. \A g \in Folders : Level(g)' <= MaxDepth
  BY <1>6 DEF Level, FoldersInv, Shallow
<1>12. \A g \in Folders : \E h \in Chain(g)' : parent'[h] = Root
  <2> SUFFICES ASSUME NEW g \in Folders PROVE \E h \in Chain(g)' : parent'[h] = Root
    OBVIOUS
  <2>1. PICK h \in Chain(g) : parent[h] = Root
    BY DEF FoldersInv, Rooted
  <2>2. h \in Folders
    BY DEF Chain
  <2>. QED
    BY <1>4, <1>6, <2>1, <2>2
<1>. QED
  BY <1>3, <1>5, <1>9, <1>10, <1>11, <1>12 DEF Rooted, Shallow

\* When f moves below p, the walks that do not visit f stay; one that does goes on from
\* p: it visits what lay between it and f, and the chain of p.
LEMMA MoveKeepsTree ==
  ASSUME FoldersInv, NEW f \in FolderIds, NEW p \in FolderIds \cup {Root}, MoveFolder(f, p)
  PROVE  ParentsExist' /\ Rooted' /\ Shallow'
<1>1. /\ parent \in [FolderIds -> FolderIds \cup {Root, Gone}] /\ f \in Folders
      /\ parent' = [parent EXCEPT ![f] = p] /\ p \in Folders \cup {Root}
      /\ f \notin Chain(p) /\ \A g \in Below(f) : Level(p) + (Level(g) - Level(f) + 1) <= MaxDepth
  BY DEF MoveFolder, Accepts, AcceptsNew, FoldersInv, FoldersTypeOK
<1>2. p # Gone /\ Root # Gone /\ Root \notin Folders
  BY <1>1, FolderBoundsAssumption DEF Folders, Root, Gone
<1>3. Folders' = Folders
  BY <1>1, <1>2 DEF Folders
<1>4. parent'[f] = p /\ \A g \in Folders \ {f} : parent'[g] = parent[g]
  BY <1>1 DEF Folders
<1>0. ParentsExist /\ Rooted /\ Shallow
  BY DEF FoldersInv
<1>5. ParentsExist'
  BY <1>0, <1>1, <1>3, <1>4 DEF ParentsExist
<1>6. ASSUME NEW g \in Folders, f \notin Chain(g) PROVE Chain(g)' = Chain(g)
  <2>1. Chain(g) \in Upward /\ g \in Chain(g) /\ Chain(g) \subseteq Folders
    BY ChainLeast DEF Chain
  <2>2. Chain(g) \in Upward'
    BY <1>3, <1>4, <1>6, <2>1 DEF Upward
  <2>3. Chain(g)' \subseteq Chain(g)
    BY <1>3, <2>1, <2>2, ChainsWalkNext DEF ChainsWalk
  <2>4. g \in Chain(g)' /\ Chain(g)' \in Upward'
    BY <1>3, ChainsWalkNext DEF ChainsWalk
  <2>5. Chain(g)' \in Upward
    BY <1>3, <1>4, <1>6, <2>1, <2>3, <2>4 DEF Upward
  <2>6. Chain(g) \subseteq Chain(g)'
    BY <2>4, <2>5, ChainLeast
  <2>. QED
    BY <2>3, <2>6
<1>7. Chain(p)' = Chain(p)
  <2>1. CASE p \in Folders
    BY <1>1, <1>6, <2>1
  <2>2. CASE p = Root
    BY <1>2, <1>3, <2>2, NoChain, ChainsWalkNext DEF ChainsWalk
  <2>. QED
    BY <1>1, <2>1, <2>2
<1>8. ASSUME NEW g \in Folders, f \in Chain(g) PROVE Level(g)' <= MaxDepth /\ f \in Chain(g)'
  <2> DEFINE A == {h \in Chain(g) : f \in Chain(h)}
  <2>1. A \subseteq Folders /\ g \in A /\ f \in A /\ A \subseteq Chain(g)
    BY <1>1, <1>8, ChainLeast DEF Chain
  <2>2. A \cup Chain(p) \in Upward'
    <3>1. ASSUME NEW h \in A, parent'[h] \in Folders PROVE parent'[h] \in A \cup Chain(p)
      <4>1. CASE h = f
        BY <1>4, <3>1, <4>1, ChainLeast
      <4>2. CASE h # f
        <5>1. h \in Folders /\ parent'[h] = parent[h] /\ parent[h] \in Chain(g)
          BY <1>4, <2>1, <3>1, <4>2, ChainLeast DEF Upward
        <5>2. f \in Chain(parent[h])
          BY <1>0, <4>2, <5>1, ChainUnfolds
        <5>. QED
          BY <5>1, <5>2
      <4>. QED
        BY <4>1, <4>2
    <3>2. ASSUME NEW h \in Chain(p), parent'[h] \in Folders PROVE parent'[h] \in Chain(p)
      <4>1. p \in Folders /\ h \in Folders
        BY NoChain DEF Chain
      <4>. QED
        BY <1>1, <1>4, <3>2, <4>1, ChainLeast DEF Upward
    <3>3. A \cup Chain(p) \subseteq Folders
      BY <2>1 DEF Chain
    <3>. HIDE DEF A
    <3>. QED
      BY <1>3, <3>1, <3>2, <3>3 DEF Upward
  <2>3. Chain(g)' \subseteq A \cup Chain(p)
    BY <1>3, <2>1, <2>2, ChainsWalkNext DEF ChainsWalk
  <2>4. A \cap Chain(f) = {f} /\ A \cup Chain(f) \subseteq Chain(g)
    <3>1. \A h \in A \cap Chain(f) : h = f
      BY <1>0, <1>1, OneInTheOther
    <3>2. f \in A \cap Chain(f)
      BY <1>1, <2>1, ChainLeast
    <3>3. Chain(f) \subseteq Chain(g)
      BY <1>8, ChainOfVisited
    <3>. QED
      BY <3>1, <3>2, <3>3
  <2>. HIDE DEF A
  <2>5. IsFiniteSet(A) /\ Cardinality(A) \in Nat /\ Cardinality(A) + Level(f) - 1 <= Level(g)
    <3>1. IsFiniteSet(A) /\ IsFiniteSet(Chain(f)) /\ IsFiniteSet(Chain(g))
      BY <2>1, Levels, FS_Subset
    <3>2. Cardinality(A \cup Chain(f)) = Cardinality(A) + Cardinality(Chain(f)) - Cardinality({f})
      BY <2>4, <3>1, FS_Union
    <3>3. Cardinality({f}) = 1
      BY FS_Singleton
    <3>4. Cardinality(A \cup Chain(f)) <= Cardinality(Chain(g))
      BY <2>4, <3>1, FS_Subset
    <3>5. {Cardinality(A), Cardinality(Chain(f)), Cardinality(Chain(g))} \subseteq Nat
      BY <3>1, FS_CardinalityType
    <3>. QED
      BY <3>1, <3>2, <3>3, <3>4, <3>5 DEF Level
  <2>6. Level(g)' <= Cardinality(A) + Level(p)
    <3>1. IsFiniteSet(Chain(p)) /\ IsFiniteSet(A \cup Chain(p))
      BY <2>5, Levels, FS_Union
    <3>2. Cardinality(A \cup Chain(p)) = Cardinality(A) + Cardinality(Chain(p)) - Cardinality(A \cap Chain(p))
      BY <2>5, <3>1, FS_Union
    <3>3. IsFiniteSet(A \cap Chain(p))
      BY <2>5, FS_Subset
    <3>4. {Cardinality(A), Cardinality(Chain(p)), Cardinality(A \cap Chain(p)), Cardinality(A \cup Chain(p))} \subseteq Nat
      BY <2>5, <3>1, <3>3, FS_CardinalityType
    <3>5. Cardinality(Chain(g)') <= Cardinality(A \cup Chain(p))
      BY <2>3, <3>1, FS_Subset
    <3>6. Level(g)' = Cardinality(Chain(g)') /\ Level(g)' \in Nat
      BY ChainsWalkNext DEF ChainsWalk, Level
    <3>. QED
      BY <3>2, <3>4, <3>5, <3>6 DEF Level
  <2>7. g \in Below(f)
    BY <1>8 DEF Below
  <2>8. Level(g)' <= MaxDepth
    <3>1. {Level(g), Level(f), Level(p)} \subseteq Nat /\ Level(g)' \in Nat
      BY Levels, ChainsWalkNext DEF ChainsWalk
    <3>. QED
      BY <1>1, <2>5, <2>6, <2>7, <3>1, FolderBoundsAssumption
  <2>9. f \in Chain(g)'
    <3> SUFFICES ASSUME f \notin Chain(g)' PROVE FALSE
      OBVIOUS
    <3>1. g \in Chain(g)' /\ Chain(g)' \in Upward'
      BY <1>3, ChainsWalkNext DEF ChainsWalk
    <3>2. Chain(g)' \in Upward
      BY <1>3, <1>4, <3>1 DEF Upward
    <3>. QED
      BY <1>8, <3>1, <3>2, ChainLeast
  <2>. QED
    BY <2>8, <2>9
<1>9. PICK r \in Chain(f)' : parent'[r] = Root
  <2>1. Chain(f)' = {f} \cup Chain(p)
    BY <1>1, <1>3, <1>4, <1>5, <1>7, ChainsWalkNext DEF ChainsWalk
  <2>2. CASE p = Root
    BY <1>4, <2>1, <2>2
  <2>3. CASE p \in Folders
    <3>1. PICK g \in Chain(p) : parent[g] = Root
      BY <1>0, <2>3 DEF Rooted
    <3>2. g \in Folders \ {f}
      BY <1>1, <3>1 DEF Chain
    <3>. QED
      BY <1>4, <2>1, <3>1, <3>2
  <2>. QED
    BY <1>1, <2>2, <2>3
<1>10. Shallow'
  BY <1>0, <1>3, <1>6, <1>8 DEF Shallow, Level
<1>11. Rooted'
  <2> SUFFICES ASSUME NEW g \in Folders PROVE \E h \in Chain(g)' : parent'[h] = Root
    BY <1>3 DEF Rooted
  <2>1. CASE f \in Chain(g)
    <3>1. Chain(f)' \subseteq Chain(g)'
      BY <1>3, <1>8, <2>1, ChainsWalkNext DEF ChainsWalk
    <3>. QED
      BY <1>9, <3>1
  <2>2. CASE f \notin Chain(g)
    <3>1. PICK h \in Chain(g) : parent[h] = Root
      BY <1>0 DEF Rooted
    <3>2. h \in Folders \ {f}
      BY <2>2, <3>1 DEF Chain
    <3>. QED
      BY <1>4, <1>6, <2>2, <3>1, <3>2
  <2>. QED
    BY <2>1, <2>2
<1>. QED
  BY <1>5, <1>10, <1>11

\* What lay in f moves up: f drops out of every chain.
LEMMA DeleteKeepsTree ==
  ASSUME FoldersInv, NEW f \in FolderIds, DeleteFolder(f)
  PROVE  ParentsExist' /\ Rooted' /\ Shallow' /\ ListsPlaced'
<1>0. ParentsExist /\ Rooted /\ Shallow /\ ListsPlaced
  BY DEF FoldersInv
<1>1. /\ parent \in [FolderIds -> FolderIds \cup {Root, Gone}] /\ f \in Folders
      /\ parent' = [g \in FolderIds |-> IF g = f THEN Gone
                                        ELSE IF parent[g] = f THEN parent[f] ELSE parent[g]]
      /\ \A l \in Lists : place'[l] = IF place[l].in = f
                                        THEN [place[l] EXCEPT !.in = parent[f], !.at = @ + Shift]
                                        ELSE place[l]
  BY DEF DeleteFolder, FoldersInv, FoldersTypeOK
<1>2. Root # Gone /\ Root \notin Folders
  BY FolderBoundsAssumption DEF Folders, Root, Gone
<1>3. parent[f] \in (Folders \ {f}) \cup {Root}
  <2>1. parent[f] # f
    BY <1>0, <1>1, NoCycle, ChainLeast
  <2>. QED
    BY <1>0, <1>1, <2>1 DEF ParentsExist
<1>4. Folders' = Folders \ {f}
  <2>1. Gone \notin FolderIds \cup {Root}
    BY FolderBoundsAssumption DEF Gone, Root
  <2>2. parent[f] # Gone
    BY <1>3, <2>1 DEF Folders
  <2>3. \A g \in FolderIds : parent'[g] # Gone <=> g # f /\ parent[g] # Gone
    BY <1>1, <2>1, <2>2
  <2>. QED
    BY <2>3 DEF Folders
<1>5. \A g \in Folders \ {f} : parent'[g] = IF parent[g] = f THEN parent[f] ELSE parent[g]
  BY <1>1 DEF Folders
<1>6. ParentsExist'
  BY <1>0, <1>3, <1>4, <1>5 DEF ParentsExist
<1>7. ListsPlaced'
  <2> SUFFICES ASSUME NEW l \in Lists PROVE place'[l].in \in Folders' \cup {Root}
    BY DEF ListsPlaced
  <2>1. place[l] \in [in : FolderIds \cup {Root}, at : 0..(MaxPosition + 1),
                      pinned : BOOLEAN, bar : 0..(MaxPosition + 1)]
    BY DEF FoldersInv, FoldersTypeOK
  <2>2. place[l].in \in Folders \cup {Root}
    BY <1>0 DEF ListsPlaced
  <2>3. place'[l].in = IF place[l].in = f THEN parent[f] ELSE place[l].in
    BY <1>1, <2>1
  <2>. QED
    BY <1>3, <1>4, <2>2, <2>3
<1>8. ASSUME NEW g \in Folders \ {f}
      PROVE  Chain(g)' = Chain(g) \ {f} /\ \E h \in Chain(g)' : parent'[h] = Root
  <2>1. Chain(g) \in Upward /\ g \in Chain(g) /\ Chain(g) \subseteq Folders
    BY ChainLeast DEF Chain
  <2>2. Chain(g) \ {f} \in Upward'
    <3>1. ASSUME NEW h \in Chain(g) \ {f}, parent'[h] \in Folders' PROVE parent'[h] \in Chain(g) \ {f}
      <4>1. CASE parent[h] = f
        <5>1. f \in Chain(g)
          BY <1>1, <2>1, <4>1 DEF Upward
        <5>2. parent'[h] = parent[f] /\ parent[f] \in Folders \ {f}
          BY <1>4, <1>5, <2>1, <3>1, <4>1
        <5>. QED
          BY <2>1, <5>1, <5>2 DEF Upward
      <4>2. CASE parent[h] # f
        BY <1>4, <1>5, <2>1, <3>1, <4>2 DEF Upward
      <4>. QED
        BY <4>1, <4>2
    <3>. QED
      BY <1>4, <2>1, <3>1 DEF Upward
  <2>3. Chain(g)' \subseteq Chain(g) \ {f}
    BY <1>4, <2>1, <2>2, ChainsWalkNext DEF ChainsWalk
  <2>4. Chain(g)' \in Upward' /\ g \in Chain(g)'
    BY <1>4, ChainsWalkNext DEF ChainsWalk
  <2>5. Chain(g) \subseteq Chain(g)' \cup {f}
    <3>1. CASE \E h \in Chain(g)' : parent[h] = f
      <4>1. ASSUME parent[f] \in Folders PROVE parent[f] \in Chain(g)'
        <5>1. PICK h \in Chain(g)' : parent[h] = f
          BY <3>1
        <5>2. parent'[h] = parent[f] /\ parent[f] \in Folders'
          BY <1>3, <1>4, <1>5, <2>1, <2>3, <4>1, <5>1, <1>2
        <5>. QED
          BY <2>4, <5>1, <5>2 DEF Upward
      <4>2. ASSUME NEW h \in Chain(g)', parent[h] \in Folders PROVE parent[h] \in Chain(g)' \cup {f}
        BY <1>4, <1>5, <2>1, <2>3, <2>4, <4>2 DEF Upward
      <4>3. Chain(g)' \cup {f} \in Upward
        BY <1>1, <2>1, <2>3, <4>1, <4>2 DEF Upward
      <4>. QED
        BY <2>4, <4>3, ChainLeast
    <3>2. CASE \A h \in Chain(g)' : parent[h] # f
      <4>1. Chain(g)' \in Upward
        BY <1>4, <1>5, <2>1, <2>3, <2>4, <3>2 DEF Upward
      <4>. QED
        BY <2>4, <4>1, ChainLeast
    <3>. QED
      BY <3>1, <3>2
  <2>6. Chain(g)' = Chain(g) \ {f}
    BY <2>3, <2>5
  <2>7. PICK r \in Chain(g) : parent[r] = Root
    BY <1>0 DEF Rooted
  <2>8. \E h \in Chain(g)' : parent'[h] = Root
    <3>1. CASE r # f
      <4>1. parent'[r] = Root
        BY <1>1, <1>2, <1>5, <2>1, <2>7, <3>1
      <4>. QED
        BY <2>6, <2>7, <3>1, <4>1
    <3>2. CASE r = f
      <4>1. \E h \in Chain(g) \ {f} : parent[h] = f
        <5> SUFFICES ASSUME \A h \in Chain(g) \ {f} : parent[h] # f PROVE FALSE
          OBVIOUS
        <5>1. Chain(g) \ {f} \in Upward
          BY <2>1 DEF Upward
        <5>. QED
          BY <2>1, <2>7, <3>2, <5>1, ChainLeast
      <4>. QED
        BY <1>5, <2>1, <2>6, <2>7, <3>2, <4>1
    <3>. QED
      BY <3>1, <3>2
  <2>. QED
    BY <2>6, <2>8
<1>9. Shallow'
  <2> SUFFICES ASSUME NEW g \in Folders \ {f} PROVE Level(g)' <= MaxDepth
    BY <1>4 DEF Shallow
  <2>1. Cardinality(Chain(g)') <= Cardinality(Chain(g))
    BY <1>8, Levels, FS_Subset
  <2>2. Level(g) <= MaxDepth /\ Level(g) \in Nat /\ Level(g)' \in Nat
    BY <1>0, Levels, ChainsWalkNext DEF Shallow, ChainsWalk
  <2>. QED
    BY <2>1, <2>2, FolderBoundsAssumption DEF Level
<1>10. Rooted'
  BY <1>4, <1>8 DEF Rooted
<1>. QED
  BY <1>6, <1>7, <1>9, <1>10
-----------------------------------------------------------------------------
(* Ranks.                                                                  *)

Earlier(key, a, b) == key[a] < key[b] \/ (key[a] = key[b] /\ a < b)
Rank(key, S, a) == Cardinality({x \in S : Earlier(key, x, a)})

\* Of two elements the earlier one has the lower rank, and ranks count the others.
LEMMA RanksKeepOrder ==
  ASSUME NEW S, IsFiniteSet(S), S \subseteq Int, NEW key, \A x \in S : key[x] \in Int
  PROVE  /\ \A a \in S : Rank(key, S, a) \in Nat /\ Rank(key, S, a) < Cardinality(S)
         /\ \A a, b \in S : Earlier(key, a, b) => Rank(key, S, a) < Rank(key, S, b)
         /\ \A a, b \in S : Earlier(key, a, b) <=> a # b /\ ~Earlier(key, b, a)
<1>1. \A a, b \in S : Earlier(key, a, b) <=> a # b /\ ~Earlier(key, b, a)
  BY DEF Earlier
<1>2. \A a, b, c \in S : Earlier(key, a, b) /\ Earlier(key, b, c) => Earlier(key, a, c)
  BY DEF Earlier
<1>3. \A a \in S : /\ IsFiniteSet({x \in S : Earlier(key, x, a)})
                   /\ Rank(key, S, a) \in Nat /\ Rank(key, S, a) < Cardinality(S)
  <2> TAKE a \in S
  <2> DEFINE T == {x \in S : Earlier(key, x, a)}
  <2>1. T \subseteq S /\ a \notin T
    BY <1>1
  <2>. HIDE DEF T
  <2>2. IsFiniteSet(T) /\ Cardinality(T) <= Cardinality(S) /\ (Cardinality(S) = Cardinality(T) => S = T)
    BY <2>1, FS_Subset
  <2>3. Cardinality(T) \in Nat /\ Cardinality(S) \in Nat
    BY <2>2, FS_CardinalityType
  <2>4. Cardinality(T) < Cardinality(S)
    BY <2>1, <2>2, <2>3
  <2>. QED
    BY <2>2, <2>3, <2>4 DEF T, Rank
<1>4. ASSUME NEW a \in S, NEW b \in S, Earlier(key, a, b) PROVE Rank(key, S, a) < Rank(key, S, b)
  <2> DEFINE A == {x \in S : Earlier(key, x, a)}
             B == {x \in S : Earlier(key, x, b)}
  <2>1. A \subseteq B /\ a \in B /\ a \notin A
    BY <1>1, <1>2, <1>4
  <2>2. IsFiniteSet(B)
    BY <1>3
  <2>. HIDE DEF A, B
  <2>3. Cardinality(A) <= Cardinality(B) /\ Cardinality(A) # Cardinality(B)
        /\ Cardinality(A) \in Nat /\ Cardinality(B) \in Nat
    BY <2>1, <2>2, FS_Subset, FS_CardinalityType
  <2>4. Cardinality(A) < Cardinality(B)
    BY <2>3
  <2>. QED
    BY <2>4 DEF A, B, Rank
<1>. QED
  BY <1>1, <1>3, <1>4

\* Renumbering by rank around a place keeps the order.
LEMMA ShiftedKeepsOrder ==
  ASSUME NEW S, IsFiniteSet(S), S \subseteq Int, NEW key, \A x \in S : key[x] \in Int,
         NEW t \in Nat, NEW a \in S, NEW b \in S
  PROVE  Earlier(key, a, b) <=> Shifted(Rank(key, S, a), t) < Shifted(Rank(key, S, b), t)
                                \/ (Shifted(Rank(key, S, a), t) = Shifted(Rank(key, S, b), t) /\ a < b)
<1>1. /\ Rank(key, S, a) \in Nat /\ Rank(key, S, b) \in Nat
      /\ Earlier(key, a, b) => Rank(key, S, a) < Rank(key, S, b)
      /\ Earlier(key, b, a) => Rank(key, S, b) < Rank(key, S, a)
      /\ Earlier(key, a, b) <=> a # b /\ ~Earlier(key, b, a)
  BY RanksKeepOrder
<1>2. a \in Int /\ b \in Int
  OBVIOUS
<1>. QED
  BY <1>1, <1>2 DEF Shifted

\* Where an element is put, and where that leaves the others, is within their number.
LEMMA PlacesFit ==
  ASSUME NEW n \in Nat, NEW r \in Nat, NEW t \in Nat
  PROVE  /\ Least(t, n) \in 0..n
         /\ r < n => Shifted(r, Least(t, n)) \in 0..n
BY DEF Least, Shifted

\* The orders of the three kinds of rows are of this kind.
LEMMA OrdersAreEarlier ==
  /\ \A g, h : FolderBefore(g, h) <=> Earlier(at, g, h)
  /\ \A S, g : FolderRank(g, S) = Rank(at, S, g)
  /\ \A S \in SUBSET Lists : \A l, m \in S :
       /\ ListBefore(l, m) <=> Earlier([x \in Lists |-> place[x].at], l, m)
       /\ PinBefore(l, m) <=> Earlier([x \in Lists |-> place[x].bar], l, m)
  /\ \A S \in SUBSET Lists : \A l \in Lists :
       /\ ListRank(l, S) = Rank([x \in Lists |-> place[x].at], S, l)
       /\ PinRank(l, S) = Rank([x \in Lists |-> place[x].bar], S, l)
<1>1. /\ \A g, h : FolderBefore(g, h) <=> Earlier(at, g, h)
      /\ \A S, g : FolderRank(g, S) = Rank(at, S, g)
  BY DEF FolderBefore, Earlier, FolderRank, Rank
<1>2. \A l, m \in Lists :
        /\ ListBefore(l, m) <=> Earlier([x \in Lists |-> place[x].at], l, m)
        /\ PinBefore(l, m) <=> Earlier([x \in Lists |-> place[x].bar], l, m)
  BY DEF ListBefore, PinBefore, Earlier
<1>3. ASSUME NEW S \in SUBSET Lists, NEW l \in Lists
      PROVE  /\ ListRank(l, S) = Rank([x \in Lists |-> place[x].at], S, l)
             /\ PinRank(l, S) = Rank([x \in Lists |-> place[x].bar], S, l)
  <2>1. /\ {m \in S : ListBefore(m, l)} = {m \in S : Earlier([x \in Lists |-> place[x].at], m, l)}
        /\ {m \in S : PinBefore(m, l)} = {m \in S : Earlier([x \in Lists |-> place[x].bar], m, l)}
    BY <1>2
  <2>. QED
    BY <2>1 DEF ListRank, PinRank, Rank
<1>. QED
  BY <1>1, <1>2, <1>3
-----------------------------------------------------------------------------
(* What the actions write.                                                 *)

Row == [in : FolderIds \cup {Root}, at : 0..(MaxPosition + 1), pinned : BOOLEAN, bar : 0..(MaxPosition + 1)]

\* A part of the folders or of the playlists is finite and fits the positions.
LEMMA SiblingsFit ==
  /\ \A S \in SUBSET FolderIds : IsFiniteSet(S) /\ Cardinality(S) \in 0..MaxPosition
  /\ \A S \in SUBSET Lists : IsFiniteSet(S) /\ Cardinality(S) \in 0..MaxPosition
<1>1. ASSUME NEW T, IsFiniteSet(T), Cardinality(T) \in 0..MaxPosition, NEW S \in SUBSET T
      PROVE  IsFiniteSet(S) /\ Cardinality(S) \in 0..MaxPosition
  <2>1. IsFiniteSet(S) /\ Cardinality(S) <= Cardinality(T) /\ Cardinality(S) \in Nat
    BY <1>1, FS_Subset, FS_CardinalityType
  <2>. QED
    BY <1>1, <2>1, FolderBoundsAssumption
<1>. QED
  BY <1>1, FolderBoundsAssumption

\* How many come before one, in any of the orders.
LEMMA CountsFit ==
  /\ \A S \in SUBSET FolderIds : \A g : FolderRank(g, S) \in Nat
  /\ \A S \in SUBSET Lists : \A l : ListRank(l, S) \in Nat /\ PinRank(l, S) \in Nat
<1>1. ASSUME NEW S \in SUBSET FolderIds, NEW g PROVE FolderRank(g, S) \in Nat
  <2>1. {h \in S : FolderBefore(h, g)} \in SUBSET FolderIds
    OBVIOUS
  <2>. QED
    BY <2>1, SiblingsFit DEF FolderRank
<1>2. ASSUME NEW S \in SUBSET Lists, NEW l PROVE ListRank(l, S) \in Nat /\ PinRank(l, S) \in Nat
  <2>1. {m \in S : ListBefore(m, l)} \in SUBSET Lists /\ {m \in S : PinBefore(m, l)} \in SUBSET Lists
    OBVIOUS
  <2>. QED
    BY <2>1, SiblingsFit DEF ListRank, PinRank
<1>. QED
  BY <1>1, <1>2

LEMMA MoveFolderWrites ==
  ASSUME FoldersTypeOK, NEW f \in FolderIds, NEW p \in FolderIds \cup {Root}, MoveFolder(f, p)
  PROVE  LET others == {g \in Folders \ {f} : parent[g] = p} IN
         /\ \A g \in FolderIds : at'[g] \in 0..MaxPosition
         /\ at' \in [FolderIds -> 0..MaxPosition]
         /\ \A g \in FolderIds \ ({f} \cup others) : at'[g] = at[g]
         /\ \A g, h \in others : FolderBefore(g, h)' <=> FolderBefore(g, h)
<1> DEFINE others == {g \in Folders \ {f} : parent[g] = p}
           n == Cardinality(others)
<1>1. others \in SUBSET FolderIds
  BY DEF Folders
<1>. HIDE DEF others
<1>2. IsFiniteSet(others) /\ n \in 0..MaxPosition /\ n \in Nat
  BY <1>1, SiblingsFit
<1>3. PICK position \in Nat :
        at' = [g \in FolderIds |-> IF g = f THEN Least(position, n)
                                   ELSE IF g \in others THEN Shifted(FolderRank(g, others), Least(position, n))
                                   ELSE at[g]]
  <2> DEFINE rest == IF p = parent[f] THEN FolderRank(f, others) ELSE n
  <2>1. rest \in Nat
    BY <1>1, <1>2, CountsFit
  <2>2. 0..Cardinality(FolderIds) \subseteq Nat
    OBVIOUS
  <2>3. \E position \in {rest} \cup 0..Cardinality(FolderIds) :
          at' = [g \in FolderIds |-> IF g = f THEN Least(position, n)
                                     ELSE IF g \in others THEN Shifted(FolderRank(g, others), Least(position, n))
                                     ELSE at[g]]
    BY DEF MoveFolder, others
  <2>. QED
    BY <2>1, <2>2, <2>3
<1> DEFINE t == Least(position, n)
<1>4. t \in 0..n
  BY <1>2, PlacesFit
<1>5. \A g \in others : at'[g] = Shifted(Rank(at, others, g), t)
  <2>1. f \notin others
    BY DEF others
  <2>. QED
    BY <1>1, <1>3, <2>1, OrdersAreEarlier
<1>6. \A g \in others : Rank(at, others, g) \in Nat /\ Rank(at, others, g) < n
  <2>1. others \subseteq Int /\ \A x \in others : at[x] \in Int
    BY <1>1, FolderBoundsAssumption DEF FoldersTypeOK
  <2>. QED
    BY <1>2, <2>1, RanksKeepOrder
<1>7. \A g \in others : at'[g] \in 0..n
  BY <1>2, <1>5, <1>6, PlacesFit
<1>. HIDE DEF n
<1>8. at'[f] = t /\ \A g \in FolderIds \ ({f} \cup others) : at'[g] = at[g]
  BY <1>3
<1>. HIDE DEF t
<1>9. \A g \in FolderIds : at'[g] \in 0..MaxPosition
  BY <1>2, <1>4, <1>7, <1>8, FolderBoundsAssumption DEF FoldersTypeOK
<1>10. at' \in [FolderIds -> 0..MaxPosition]
  BY <1>3, <1>9
<1>11. ASSUME NEW g \in others, NEW h \in others PROVE FolderBefore(g, h)' <=> FolderBefore(g, h)
  <2>1. Earlier(at, g, h) <=> Shifted(Rank(at, others, g), t) < Shifted(Rank(at, others, h), t)
                              \/ (Shifted(Rank(at, others, g), t) = Shifted(Rank(at, others, h), t) /\ g < h)
    <3>1. others \subseteq Int /\ (\A x \in others : at[x] \in Int) /\ t \in Nat
      BY <1>1, <1>2, <1>4, FolderBoundsAssumption DEF FoldersTypeOK
    <3>. QED
      BY <1>2, <3>1, ShiftedKeepsOrder
  <2>. QED
    BY <1>5, <2>1, OrdersAreEarlier DEF FolderBefore
<1>. QED
  BY <1>8, <1>9, <1>10, <1>11 DEF others

LEMMA PlacePlaylistWrites ==
  ASSUME FoldersTypeOK, NEW l \in Lists, NEW f \in FolderIds \cup {Root}, NEW pin \in BOOLEAN,
         PlacePlaylist(l, f, pin)
  PROVE  LET others == {m \in visible : place[m].in = f} \ {l} IN
         /\ place' \in [Lists -> Row] /\ place'[l].in = f
         /\ \A m \in Lists \ {l} : /\ place'[m].in = place[m].in /\ place'[m].pinned = place[m].pinned
                                   /\ place'[m].bar = place[m].bar
                                   /\ m \notin others => place'[m] = place[m]
         /\ \A m, k \in others : ListBefore(m, k)' <=> ListBefore(m, k)
<1> DEFINE siblings == {m \in visible : place[m].in = f}
           others == siblings \ {l}
           n == Cardinality(others)
           key == [x \in Lists |-> place[x].at]
<1>0. place \in [Lists -> Row] /\ visible \subseteq Lists
  BY DEF FoldersTypeOK, Row
<1>1. others \in SUBSET Lists /\ siblings \in SUBSET Lists /\ l \notin others
  BY <1>0
<1>. HIDE DEF siblings
<1>2. IsFiniteSet(others) /\ n \in 0..MaxPosition /\ n \in Nat
  BY <1>1, SiblingsFit
<1>3. PICK position \in Nat :
        place' = [m \in Lists |->
               IF m = l
                 THEN [in |-> f, at |-> Least(position, n), pinned |-> pin,
                       bar |-> IF pin THEN place[l].bar ELSE NoPlace.bar]
               ELSE IF m \in others
                 THEN [place[m] EXCEPT !.at = Shifted(ListRank(m, others), Least(position, n))]
               ELSE place[m]]
  <2> DEFINE rest == IF place[l].in = f THEN ListRank(l, siblings) ELSE n
  <2>1. rest \in Nat
    BY <1>1, <1>2, CountsFit
  <2>2. 0..Cardinality(Lists) \subseteq Nat
    OBVIOUS
  <2>3. \E position \in {rest} \cup 0..Cardinality(Lists) :
          place' = [m \in Lists |->
               IF m = l
                 THEN [in |-> f, at |-> Least(position, n), pinned |-> pin,
                       bar |-> IF pin THEN place[l].bar ELSE NoPlace.bar]
               ELSE IF m \in others
                 THEN [place[m] EXCEPT !.at = Shifted(ListRank(m, others), Least(position, n))]
               ELSE place[m]]
    BY DEF PlacePlaylist, siblings
  <2>. QED
    BY <2>1, <2>2, <2>3
<1> DEFINE t == Least(position, n)
<1>4. t \in 0..n
  BY <1>2, PlacesFit
<1>. HIDE DEF others, n, t
<1>5. ASSUME NEW m \in others
      PROVE  /\ ListRank(m, others) = Rank(key, others, m)
             /\ Rank(key, others, m) \in Nat /\ Rank(key, others, m) < n
             /\ Shifted(ListRank(m, others), t) \in 0..n
  <2>1. ListRank(m, others) = Rank(key, others, m)
    BY <1>1, OrdersAreEarlier
  <2>2. others \subseteq Int /\ \A x \in others : key[x] \in Int
    BY <1>0, <1>1, FolderBoundsAssumption DEF Row
  <2>. HIDE DEF key
  <2>3. Rank(key, others, m) \in Nat /\ Rank(key, others, m) < n
    BY <1>2, <2>2, RanksKeepOrder DEF n
  <2>4. Shifted(ListRank(m, others), t) \in 0..n
    BY <1>2, <2>1, <2>3, PlacesFit DEF t
  <2>. QED
    BY <2>1, <2>3, <2>4
<1>6. place'[l] = [in |-> f, at |-> t, pinned |-> pin, bar |-> IF pin THEN place[l].bar ELSE NoPlace.bar]
  BY <1>3 DEF t
<1>7. \A m \in others : place'[m] = [place[m] EXCEPT !.at = Shifted(ListRank(m, others), t)]
  BY <1>1, <1>3 DEF t
<1>8. \A m \in Lists \ ({l} \cup others) : place'[m] = place[m]
  BY <1>3
<1>9. place'[l] \in Row
  <2>1. NoPlace.bar \in 0..(MaxPosition + 1) /\ t \in 0..(MaxPosition + 1)
    BY <1>2, <1>4, FolderBoundsAssumption DEF NoPlace
  <2>2. place[l] \in Row
    BY <1>0
  <2>. QED
    BY <1>6, <2>1, <2>2 DEF Row
<1>10. \A m \in others : /\ place'[m] \in Row /\ place'[m].in = place[m].in /\ place'[m].pinned = place[m].pinned
                         /\ place'[m].bar = place[m].bar /\ place'[m].at = Shifted(ListRank(m, others), t)
  <2> TAKE m \in others
  <2>1. Shifted(ListRank(m, others), t) \in 0..(MaxPosition + 1)
    <3>1. Shifted(ListRank(m, others), t) \in 0..n
      BY <1>5
    <3>. QED
      BY <1>2, <3>1, FolderBoundsAssumption
  <2>2. place[m] \in Row
    BY <1>0, <1>1
  <2>. QED
    BY <1>7, <2>1, <2>2 DEF Row
<1>11. place' \in [Lists -> Row]
  <2>1. \A m \in Lists : place'[m] \in Row
    BY <1>0, <1>8, <1>9, <1>10
  <2>. QED
    BY <1>3, <2>1
<1>12. ASSUME NEW m \in others, NEW k \in others PROVE ListBefore(m, k)' <=> ListBefore(m, k)
  <2>1. others \subseteq Int /\ (\A x \in others : key[x] \in Int) /\ t \in Nat
    BY <1>0, <1>1, <1>2, <1>4, FolderBoundsAssumption DEF Row
  <2>2. ListBefore(m, k) <=> Earlier(key, m, k)
    BY <1>1, OrdersAreEarlier
  <2>. HIDE DEF key
  <2>3. Earlier(key, m, k) <=> Shifted(Rank(key, others, m), t) < Shifted(Rank(key, others, k), t)
                              \/ (Shifted(Rank(key, others, m), t) = Shifted(Rank(key, others, k), t) /\ m < k)
    BY <1>2, <2>1, ShiftedKeepsOrder
  <2>. QED
    BY <1>5, <1>10, <2>2, <2>3 DEF ListBefore
<1>13. place'[l].in = f
  BY <1>6
<1>14. \A m \in Lists \ {l} : /\ place'[m].in = place[m].in /\ place'[m].pinned = place[m].pinned
                              /\ place'[m].bar = place[m].bar
                              /\ m \notin others => place'[m] = place[m]
  BY <1>8, <1>10
<1>. QED
  BY <1>11, <1>12, <1>13, <1>14 DEF others, siblings

LEMMA PinOrderWrites ==
  ASSUME FoldersTypeOK, NEW l \in Lists, NEW position \in 0..Cardinality(Lists), PinOrder(l, position)
  PROVE  LET others == Pins \ {l} IN
         /\ place' \in [Lists -> Row]
         /\ \A m \in Lists : /\ place'[m].in = place[m].in /\ place'[m].pinned = place[m].pinned
                             /\ place'[m].at = place[m].at
         /\ \A m, k \in others : PinBefore(m, k)' <=> PinBefore(m, k)
<1> DEFINE others == Pins \ {l}
           n == Cardinality(others)
           t == Least(position, n)
           key == [x \in Lists |-> place[x].bar]
<1>0. place \in [Lists -> Row] /\ Pins \subseteq Lists
  BY DEF FoldersTypeOK, Row, Pins
<1>1. others \in SUBSET Lists /\ l \notin others
  BY <1>0
<1>2. IsFiniteSet(others) /\ n \in 0..MaxPosition /\ n \in Nat
  BY <1>1, SiblingsFit
<1>3. place' = [m \in Lists |->
          IF m = l THEN [place[m] EXCEPT !.bar = t]
          ELSE IF m \in others THEN [place[m] EXCEPT !.bar = Shifted(PinRank(m, others), t)]
          ELSE place[m]]
  BY DEF PinOrder
<1>4. t \in 0..n
  BY <1>2, PlacesFit
<1>. HIDE DEF others, n, t
<1>5. ASSUME NEW m \in others
      PROVE  /\ PinRank(m, others) = Rank(key, others, m)
             /\ Shifted(PinRank(m, others), t) \in 0..n
  <2>1. PinRank(m, others) = Rank(key, others, m)
    BY <1>1, OrdersAreEarlier
  <2>2. others \subseteq Int /\ \A x \in others : key[x] \in Int
    BY <1>0, <1>1, FolderBoundsAssumption DEF Row
  <2>. HIDE DEF key
  <2>3. Rank(key, others, m) \in Nat /\ Rank(key, others, m) < n
    BY <1>2, <2>2, RanksKeepOrder DEF n
  <2>4. Shifted(PinRank(m, others), t) \in 0..n
    BY <1>2, <2>1, <2>3, PlacesFit DEF t
  <2>. QED
    BY <2>1, <2>4
<1>6. \A m \in Lists : \/ place'[m] = place[m]
                       \/ \E b \in 0..n : place'[m] = [place[m] EXCEPT !.bar = b]
  BY <1>3, <1>4, <1>5
<1>7. \A m \in Lists : /\ place'[m] \in Row
                       /\ place'[m].in = place[m].in /\ place'[m].pinned = place[m].pinned
                       /\ place'[m].at = place[m].at
  <2> TAKE m \in Lists
  <2>1. place[m] \in Row /\ 0..n \subseteq 0..(MaxPosition + 1)
    BY <1>0, <1>2, FolderBoundsAssumption
  <2>. QED
    BY <1>6, <2>1 DEF Row
<1>8. place' \in [Lists -> Row]
  BY <1>3, <1>7
<1>9. \A m \in others : place'[m].bar = Shifted(PinRank(m, others), t)
  <2> TAKE m \in others
  <2>1. place[m] \in Row /\ place'[m] = [place[m] EXCEPT !.bar = Shifted(PinRank(m, others), t)]
    BY <1>0, <1>1, <1>3
  <2>. QED
    BY <2>1 DEF Row
<1>10. ASSUME NEW m \in others, NEW k \in others PROVE PinBefore(m, k)' <=> PinBefore(m, k)
  <2>1. others \subseteq Int /\ (\A x \in others : key[x] \in Int) /\ t \in Nat
    BY <1>0, <1>1, <1>2, <1>4, FolderBoundsAssumption DEF Row
  <2>2. PinBefore(m, k) <=> Earlier(key, m, k)
    BY <1>1, OrdersAreEarlier
  <2>. HIDE DEF key
  <2>3. Earlier(key, m, k) <=> Shifted(Rank(key, others, m), t) < Shifted(Rank(key, others, k), t)
                              \/ (Shifted(Rank(key, others, m), t) = Shifted(Rank(key, others, k), t) /\ m < k)
    BY <1>2, <2>1, ShiftedKeepsOrder
  <2>. QED
    BY <1>5, <1>9, <2>2, <2>3 DEF PinBefore
<1>. QED
  BY <1>7, <1>8, <1>10 DEF others
-----------------------------------------------------------------------------
(* The invariant.                                                          *)

LEMMA FoldersInitially == FoldersInit => FoldersInv
<1> SUFFICES ASSUME FoldersInit PROVE FoldersInv
  OBVIOUS
<1>1. Folders = {}
  BY DEF FoldersInit, Folders
<1>2. NoPlace \in Row /\ NoPlace.in = Root
  BY FolderBoundsAssumption DEF NoPlace, Row
<1>3. FoldersTypeOK
  BY <1>2, FolderBoundsAssumption DEF FoldersInit, FoldersTypeOK, Row
<1>4. ListsPlaced
  BY <1>2 DEF FoldersInit, ListsPlaced
<1>. QED
  BY <1>1, <1>3, <1>4 DEF FoldersInv, ParentsExist, Rooted, Shallow

\* What is about the folders alone stays while the folders do.
LEMMA TreeStays ==
  ASSUME FoldersInv, parent' = parent PROVE Folders' = Folders /\ ParentsExist' /\ Rooted' /\ Shallow'
<1>1. Folders' = Folders
  BY DEF Folders
<1>2. Upward' = Upward
  BY <1>1 DEF Upward
<1>3. \A f : Chain(f)' = Chain(f)
  BY <1>1, <1>2 DEF Chain
<1>. QED
  BY <1>1, <1>3 DEF FoldersInv, ParentsExist, Rooted, Shallow, Level

\* Every call keeps the invariant.
LEMMA FoldersInductive == FoldersInv /\ [FoldersNext]_folderVars => FoldersInv'
<1> SUFFICES ASSUME FoldersInv, [FoldersNext]_folderVars PROVE FoldersInv'
  OBVIOUS
<1>0. /\ FoldersTypeOK /\ ListsPlaced /\ MaxPosition \in Nat /\ Root \notin Folders
      /\ parent \in [FolderIds -> FolderIds \cup {Root, Gone}] /\ at \in [FolderIds -> 0..MaxPosition]
      /\ place \in [Lists -> Row] /\ visible \subseteq Lists
  BY FolderBoundsAssumption DEF FoldersInv, FoldersTypeOK, Row, Folders, Root
<1>1. ASSUME NEW f \in FolderIds, NEW p \in FolderIds \cup {Root}, CreateFolder(f, p) PROVE FoldersInv'
  <2>1. FoldersTypeOK'
    BY <1>0, <1>1 DEF CreateFolder, FoldersTypeOK
  <2>2. Folders \subseteq Folders'
    <3>1. p # Gone
      BY FolderBoundsAssumption DEF Root, Gone
    <3>. QED
      BY <1>0, <1>1, <3>1 DEF CreateFolder, Folders
  <2>3. ListsPlaced'
    BY <1>0, <1>1, <2>2 DEF CreateFolder, ListsPlaced
  <2>. QED
    BY <1>1, <2>1, <2>3, CreateKeepsTree DEF FoldersInv
<1>2. ASSUME NEW f \in FolderIds, NEW p \in FolderIds \cup {Root}, MoveFolder(f, p) PROVE FoldersInv'
  <2>1. FoldersTypeOK'
    BY <1>0, <1>2, MoveFolderWrites DEF MoveFolder, FoldersTypeOK
  <2>2. Folders \subseteq Folders'
    <3>1. p # Gone
      BY FolderBoundsAssumption DEF Root, Gone
    <3>. QED
      BY <1>0, <1>2, <3>1 DEF MoveFolder, Folders
  <2>3. ListsPlaced'
    BY <1>0, <1>2, <2>2 DEF MoveFolder, ListsPlaced
  <2>. QED
    BY <1>2, <2>1, <2>3, MoveKeepsTree DEF FoldersInv
<1>3. ASSUME NEW f \in FolderIds, DeleteFolder(f) PROVE FoldersInv'
  <2>1. parent[f] \in FolderIds \cup {Root}
    BY <1>0, <1>3 DEF DeleteFolder, Folders
  <2>2. parent' \in [FolderIds -> FolderIds \cup {Root, Gone}]
    BY <1>0, <1>3, <2>1 DEF DeleteFolder
  <2>3. at' \in [FolderIds -> 0..MaxPosition]
    <3>1. at' = [g \in FolderIds |-> IF g = f THEN 0 ELSE IF parent[g] = f THEN at[g] + Shift ELSE at[g]]
          /\ \A g \in Folders : parent[g] = f => at[g] + Shift <= MaxPosition
      BY <1>3 DEF DeleteFolder
    <3>2. \A g \in FolderIds : parent[g] = f => g \in Folders
      BY FolderBoundsAssumption DEF Folders, Gone
    <3>3. \A g \in FolderIds : parent[g] = f => at[g] + Shift \in 0..MaxPosition
      BY <1>0, <3>1, <3>2, FolderBoundsAssumption
    <3>. QED
      BY <1>0, <3>1, <3>3
  <2>4. place' \in [Lists -> Row]
    <3>1. /\ place' = [l \in Lists |-> IF place[l].in = f
                                 THEN [place[l] EXCEPT !.in = parent[f], !.at = @ + Shift] ELSE place[l]]
          /\ \A l \in Lists : place[l].in = f => place[l].at + Shift <= MaxPosition
      BY <1>3 DEF DeleteFolder
    <3>2. ASSUME NEW l \in Lists, place[l].in = f
          PROVE  [place[l] EXCEPT !.in = parent[f], !.at = @ + Shift] \in Row
      <4>1. place[l] \in Row
        BY <1>0
      <4>2. place[l].at + Shift \in 0..(MaxPosition + 1)
        <5>1. place[l].at \in 0..(MaxPosition + 1) /\ Shift \in Nat
          BY <4>1, FolderBoundsAssumption DEF Row
        <5>2. place[l].at + Shift <= MaxPosition
          BY <3>1, <3>2
        <5>. QED
          BY <1>0, <5>1, <5>2
      <4>. QED
        BY <2>1, <4>1, <4>2 DEF Row
    <3>. QED
      BY <1>0, <3>1, <3>2
  <2>5. FoldersTypeOK'
    BY <1>0, <1>3, <2>2, <2>3, <2>4 DEF DeleteFolder, FoldersTypeOK, Row
  <2>. QED
    BY <1>3, <2>5, DeleteKeepsTree DEF FoldersInv
<1>4. ASSUME NEW l \in Lists, NEW f \in FolderIds \cup {Root}, NEW pin \in BOOLEAN, PlacePlaylist(l, f, pin)
      PROVE  FoldersInv'
  <2>1. UNCHANGED <<parent, at, visible>> /\ f \in Folders \cup {Root}
    BY <1>4 DEF PlacePlaylist
  <2>2. /\ place' \in [Lists -> Row] /\ place'[l].in = f
        /\ \A m \in Lists \ {l} : place'[m].in = place[m].in
    BY <1>0, <1>4, PlacePlaylistWrites
  <2>3. Folders' = Folders /\ ParentsExist' /\ Rooted' /\ Shallow'
    BY <2>1, TreeStays
  <2>4. FoldersTypeOK' /\ ListsPlaced'
    BY <1>0, <2>1, <2>2, <2>3 DEF FoldersTypeOK, Row, ListsPlaced
  <2>. QED
    BY <2>3, <2>4 DEF FoldersInv
<1>5. ASSUME NEW l \in Lists, NEW n \in 0..Cardinality(Lists), PinOrder(l, n) PROVE FoldersInv'
  <2>1. UNCHANGED <<parent, at, visible>>
    BY <1>5 DEF PinOrder
  <2>2. place' \in [Lists -> Row] /\ \A m \in Lists : place'[m].in = place[m].in
    BY <1>0, <1>5, PinOrderWrites
  <2>3. Folders' = Folders /\ ParentsExist' /\ Rooted' /\ Shallow'
    BY <2>1, TreeStays
  <2>4. FoldersTypeOK' /\ ListsPlaced'
    BY <1>0, <2>1, <2>2, <2>3 DEF FoldersTypeOK, Row, ListsPlaced
  <2>. QED
    BY <2>3, <2>4 DEF FoldersInv
<1>6. ASSUME UNCHANGED <<parent, at, place>>, visible' \subseteq Lists PROVE FoldersInv'
  <2>1. Folders' = Folders /\ ParentsExist' /\ Rooted' /\ Shallow'
    BY <1>6, TreeStays
  <2>2. FoldersTypeOK' /\ ListsPlaced'
    BY <1>0, <1>6, <2>1 DEF FoldersTypeOK, ListsPlaced
  <2>. QED
    BY <2>1, <2>2 DEF FoldersInv
<1>7. ASSUME NEW l \in Lists, VisibilityChanges(l) PROVE FoldersInv'
  BY <1>0, <1>6, <1>7 DEF VisibilityChanges
<1>8. CASE UNCHANGED folderVars
  BY <1>0, <1>6, <1>8 DEF folderVars
<1>. QED
  BY <1>1, <1>2, <1>3, <1>4, <1>5, <1>7, <1>8 DEF FoldersNext

LEMMA FoldersInvariant == FoldersSpec => []FoldersInv
  BY FoldersInitially, FoldersInductive, PTL DEF FoldersSpec

\* Every variable of the arrangement keeps its type; positions stay within their bound
\* (organize).
THEOREM FoldersTyped == FoldersSpec => []FoldersTypeOK
<1>1. FoldersInv => FoldersTypeOK
  BY DEF FoldersInv
<1>. QED
  BY <1>1, FoldersInvariant, PTL

\* For every number of folders, every limit of their depth and every order of moves and
\* deletions, the folders form trees within the limit and every playlist lies in one of
\* them (check_parent_folder, DeleteFolder).
THEOREM TreesStayTrees == FoldersSpec => []FoldersFormTree
<1>1. FoldersInv => FoldersFormTree
  BY DEF FoldersInv, ParentsExist, Rooted, Shallow, ListsPlaced, FoldersFormTree
<1>. QED
  BY <1>1, FoldersInvariant, PTL

-----------------------------------------------------------------------------
(* The order of the others.                                                *)

\* What a call may do to the order of two others, when it moves f or l.
KeepsFolders(f) ==
  \A g, h \in (Folders \cap Folders') \ {f} :
    parent[g] = parent[h] /\ parent'[g] = parent'[h] => (FolderBefore(g, h) <=> FolderBefore(g, h)')

KeepsLists(l) ==
  /\ \A m, n \in (visible \cap visible') \ {l} :
       place[m].in = place[n].in /\ place'[m].in = place'[n].in => (ListBefore(m, n) <=> ListBefore(m, n)')
  /\ \A m, n \in (Pins \cap Pins') \ {l} : PinBefore(m, n) <=> PinBefore(m, n)'

LEMMA CallKeepsOrder ==
  ASSUME FoldersInv, [FoldersNext]_folderVars
  PROVE  \E f \in FolderIds \cup {Gone}, l \in Lists \cup {Gone} : KeepsFolders(f) /\ KeepsLists(l)
<1>0. /\ FoldersTypeOK /\ place \in [Lists -> Row] /\ visible \subseteq Lists
      /\ at \in [FolderIds -> 0..MaxPosition] /\ parent \in [FolderIds -> FolderIds \cup {Root, Gone}]
  BY DEF FoldersInv, FoldersTypeOK, Row
<1>1. ASSUME UNCHANGED place PROVE KeepsLists(Gone)
  BY <1>1 DEF KeepsLists, ListBefore, PinBefore
<1>2. ASSUME UNCHANGED <<parent, at>> PROVE KeepsFolders(Gone)
  BY <1>2 DEF KeepsFolders, FolderBefore
<1>3. ASSUME NEW f \in FolderIds, NEW p \in FolderIds \cup {Root}, CreateFolder(f, p)
      PROVE  KeepsFolders(f) /\ KeepsLists(Gone)
  <2>1. \A g \in FolderIds \ {f} : at'[g] = at[g]
    BY <1>0, <1>3 DEF CreateFolder
  <2>2. KeepsFolders(f)
    BY <2>1 DEF KeepsFolders, FolderBefore, Folders
  <2>. QED
    BY <1>1, <1>3, <2>2 DEF CreateFolder
<1>4. ASSUME NEW f \in FolderIds, NEW p \in FolderIds \cup {Root}, MoveFolder(f, p)
      PROVE  KeepsFolders(f) /\ KeepsLists(Gone)
  <2> DEFINE others == {g \in Folders \ {f} : parent[g] = p}
  <2>1. /\ \A g \in FolderIds \ ({f} \cup others) : at'[g] = at[g]
        /\ \A g, h \in others : FolderBefore(g, h)' <=> FolderBefore(g, h)
    BY <1>0, <1>4, MoveFolderWrites
  <2>2. ASSUME NEW g \in Folders \ {f}, NEW h \in Folders \ {f}, parent[g] = parent[h]
        PROVE  FolderBefore(g, h) <=> FolderBefore(g, h)'
    <3>1. CASE parent[g] = p
      BY <2>1, <2>2, <3>1
    <3>2. CASE parent[g] # p
      BY <2>1, <2>2, <3>2 DEF FolderBefore, Folders
    <3>. QED
      BY <3>1, <3>2
  <2>3. KeepsFolders(f)
    BY <2>2 DEF KeepsFolders
  <2>. QED
    BY <1>1, <1>4, <2>3 DEF MoveFolder
<1>5. ASSUME NEW f \in FolderIds, DeleteFolder(f) PROVE KeepsFolders(f) /\ KeepsLists(Gone)
  <2>1. \A g \in FolderIds \ {f} : at'[g] = IF parent[g] = f THEN at[g] + Shift ELSE at[g]
    BY <1>5 DEF DeleteFolder
  <2>2. KeepsFolders(f)
    <3> SUFFICES ASSUME NEW g \in Folders \ {f}, NEW h \in Folders \ {f}, parent[g] = parent[h]
                 PROVE  FolderBefore(g, h) <=> FolderBefore(g, h)'
      BY DEF KeepsFolders
    <3>1. at[g] \in Int /\ at[h] \in Int /\ Shift \in Int
      BY <1>0, FolderBoundsAssumption DEF Folders
    <3>. QED
      BY <2>1, <3>1 DEF FolderBefore, Folders
  <2>3. \A l \in Lists : /\ place'[l].at = IF place[l].in = f THEN place[l].at + Shift ELSE place[l].at
                         /\ place'[l].bar = place[l].bar /\ place[l].at \in Int
    <3> TAKE l \in Lists
    <3>1. place[l] \in Row
      BY <1>0
    <3>2. place'[l] = IF place[l].in = f
                        THEN [place[l] EXCEPT !.in = parent[f], !.at = @ + Shift] ELSE place[l]
      BY <1>5 DEF DeleteFolder
    <3>. QED
      BY <3>1, <3>2 DEF Row
  <2>4. KeepsLists(Gone)
    <3>1. ASSUME NEW m \in Lists, NEW n \in Lists, place[m].in = place[n].in
          PROVE  ListBefore(m, n) <=> ListBefore(m, n)'
      BY <2>3, <3>1, FolderBoundsAssumption DEF ListBefore
    <3>2. \A m, n \in Lists : PinBefore(m, n) <=> PinBefore(m, n)'
      BY <2>3 DEF PinBefore
    <3>. QED
      BY <1>0, <3>1, <3>2 DEF KeepsLists, Pins
  <2>. QED
    BY <2>2, <2>4
<1>6. ASSUME NEW l \in Lists, NEW f \in FolderIds \cup {Root}, NEW pin \in BOOLEAN, PlacePlaylist(l, f, pin)
      PROVE  KeepsFolders(Gone) /\ KeepsLists(l)
  <2> DEFINE others == {m \in visible : place[m].in = f} \ {l}
  <2>1. /\ \A m \in Lists \ {l} : place'[m].bar = place[m].bar /\ (m \notin others => place'[m] = place[m])
        /\ \A m, k \in others : ListBefore(m, k)' <=> ListBefore(m, k)
    BY <1>0, <1>6, PlacePlaylistWrites
  <2>2. ASSUME NEW m \in visible \ {l}, NEW n \in visible \ {l}, place[m].in = place[n].in
        PROVE  ListBefore(m, n) <=> ListBefore(m, n)'
    <3>1. CASE place[m].in = f
      BY <2>1, <2>2, <3>1
    <3>2. CASE place[m].in # f
      <4>1. place'[m] = place[m] /\ place'[n] = place[n]
        BY <1>0, <2>1, <2>2, <3>2
      <4>. QED
        BY <4>1 DEF ListBefore
    <3>. QED
      BY <3>1, <3>2
  <2>3. \A m, n \in Pins \ {l} : PinBefore(m, n) <=> PinBefore(m, n)'
    BY <1>0, <2>1 DEF PinBefore, Pins
  <2>4. KeepsLists(l)
    BY <2>2, <2>3 DEF KeepsLists
  <2>. QED
    BY <1>2, <1>6, <2>4 DEF PlacePlaylist
<1>7. ASSUME NEW l \in Lists, NEW n \in 0..Cardinality(Lists), PinOrder(l, n)
      PROVE  KeepsFolders(Gone) /\ KeepsLists(l)
  <2>1. /\ \A m \in Lists : place'[m].at = place[m].at
        /\ \A m, k \in Pins \ {l} : PinBefore(m, k)' <=> PinBefore(m, k)
    BY <1>0, <1>7, PinOrderWrites
  <2>2. \A m, k \in Lists : ListBefore(m, k) <=> ListBefore(m, k)'
    BY <2>1 DEF ListBefore
  <2>3. KeepsLists(l)
    BY <1>0, <2>1, <2>2 DEF KeepsLists
  <2>. QED
    BY <1>2, <1>7, <2>3 DEF PinOrder
<1>8. ASSUME UNCHANGED <<parent, at, place>> PROVE KeepsFolders(Gone) /\ KeepsLists(Gone)
  BY <1>1, <1>2, <1>8
<1>. QED
  BY <1>3, <1>4, <1>5, <1>6, <1>7, <1>8 DEF FoldersNext, VisibilityChanges, folderVars

\* A call changes the place of at most one folder and one playlist: any two others that
\* were siblings and still are keep their order, for every number of them (organize).
THEOREM OthersStayInOrder == FoldersSpec => OthersKeepOrder
<1>1. FoldersInv /\ [FoldersNext]_folderVars =>
        [\E f \in FolderIds \cup {Gone}, l \in Lists \cup {Gone} :
           /\ \A g, h \in (Folders \cap Folders') \ {f} :
                parent[g] = parent[h] /\ parent'[g] = parent'[h] =>
                  (FolderBefore(g, h) <=> FolderBefore(g, h)')
           /\ \A m, n \in (visible \cap visible') \ {l} :
                place[m].in = place[n].in /\ place'[m].in = place'[n].in =>
                  (ListBefore(m, n) <=> ListBefore(m, n)')
           /\ \A m, n \in (Pins \cap Pins') \ {l} :
                (PinBefore(m, n) <=> PinBefore(m, n)')]_folderVars
  BY CallKeepsOrder DEF KeepsFolders, KeepsLists
<1>. QED
  BY <1>1, FoldersInvariant, PTL DEF FoldersSpec, OthersKeepOrder

-----------------------------------------------------------------------------
(* Ranks meet every place of a list.                                       *)

LessPairs == {ss \in Nat \X Nat : ss[1] < ss[2]}

\* A set of naturals has a least element.
LEMMA LeastNat ==
  ASSUME NEW T \in SUBSET Nat, T # {}
  PROVE  \E x \in T : \A y \in T : x <= y
<1>1. IsWellFoundedOn(LessPairs, Nat)
  BY NatLessThanWellFounded, Zenon DEF OpToRel, LessPairs
<1>2. PICK x \in T : \A y \in T : ~(<<y, x>> \in LessPairs)
  BY <1>1, WFMin
<1>3. ASSUME NEW y \in T PROVE x <= y
  <2>1. <<y, x>> \notin LessPairs /\ x \in Nat /\ y \in Nat
    BY <1>2
  <2>. QED
    BY <2>1 DEF LessPairs
<1>. QED
  BY <1>3

Ranks(key, S) == {Rank(key, S, a) : a \in S}

\* Ranks do not skip a place.
LEMMA RanksOnto ==
  ASSUME NEW S, IsFiniteSet(S), S \subseteq Int, NEW key, \A x \in S : key[x] \in Int
  PROVE  0..(Cardinality(S) - 1) \subseteq Ranks(key, S)
<1> SUFFICES ASSUME NEW n \in 0..(Cardinality(S) - 1), \A a \in S : Rank(key, S, a) # n PROVE FALSE
  BY DEF Ranks
<1> DEFINE N == Cardinality(S)
           T == (0..(N - 1)) \ {n}
           r == [a \in S |-> Rank(key, S, a)]
<1>1. N \in Nat
  BY FS_CardinalityType
<1>2. IsFiniteSet(0..(N - 1)) /\ Cardinality(0..(N - 1)) = N
  BY <1>1, FS_Interval
<1>8. n \in 0..(N - 1)
  OBVIOUS
<1>9. \A a \in S : Rank(key, S, a) \in Nat /\ Rank(key, S, a) < N
  BY RanksKeepOrder
<1>. HIDE DEF N
<1>3. IsFiniteSet(T) /\ Cardinality(T) = N - 1
  BY <1>1, <1>2, <1>8, FS_RemoveElement
<1>4. \A a \in S : Rank(key, S, a) \in T
  BY <1>1, <1>9
<1>5. \A a, b \in S : a # b => Rank(key, S, a) # Rank(key, S, b)
  <2> TAKE a, b \in S
  <2>1. Rank(key, S, a) \in Nat /\ Rank(key, S, b) \in Nat
        /\ (Earlier(key, a, b) => Rank(key, S, a) < Rank(key, S, b))
        /\ (Earlier(key, b, a) => Rank(key, S, b) < Rank(key, S, a))
        /\ (Earlier(key, a, b) <=> a # b /\ ~Earlier(key, b, a))
    BY RanksKeepOrder
  <2>. QED
    BY <2>1
<1>6. r \in Injection(S, T)
  BY <1>4, <1>5 DEF Injection, IsInjective
<1>. HIDE DEF r, T
<1>7. N <= N - 1
  BY <1>3, <1>6, FS_Injection DEF N
<1>. QED
  BY <1>1, <1>7

\* Elements that two keys put in the same order have the same ranks.
LEMMA RanksAgree ==
  ASSUME NEW S, NEW f, NEW g, \A a, b \in S : Earlier(f, a, b) <=> Earlier(g, a, b)
  PROVE  \A a \in S : Rank(f, S, a) = Rank(g, S, a)
<1> TAKE a \in S
<1>1. {x \in S : Earlier(f, x, a)} = {x \in S : Earlier(g, x, a)}
  OBVIOUS
<1>. QED
  BY <1>1 DEF Rank

\* An element is not ahead of itself.
LEMMA RankOfOneMore ==
  ASSUME NEW S, IsFiniteSet(S), S \subseteq Int, NEW key, NEW i \in Int, i \notin S,
         \A x \in S \cup {i} : key[x] \in Int
  PROVE  /\ Rank(key, S \cup {i}, i) = Rank(key, S, i)
         /\ Rank(key, S, i) \in Nat /\ Rank(key, S, i) <= Cardinality(S)
<1> DEFINE A(T) == {x \in T : Earlier(key, x, i)}
<1>1. A(S \cup {i}) = A(S)
  BY DEF Earlier
<1>2. Rank(key, S \cup {i}, i) = Rank(key, S, i)
  BY <1>1, Zenon DEF Rank
<1>3. Cardinality(A(S)) <= Cardinality(S) /\ Cardinality(A(S)) \in Nat
  <2>1. A(S) \in SUBSET S
    OBVIOUS
  <2>. QED
    BY <2>1, FS_Subset, FS_CardinalityType
<1>4. Rank(key, S, i) \in Nat /\ Rank(key, S, i) <= Cardinality(S)
  BY <1>3, Zenon DEF Rank
<1>. QED
  BY <1>2, <1>4

\* One more element is one ahead of those that come after it.
LEMMA RankWithOneMore ==
  ASSUME NEW S, IsFiniteSet(S), S \subseteq Int, NEW key, NEW i \in Int, i \notin S,
         \A x \in S \cup {i} : key[x] \in Int
  PROVE  \A j \in S : Rank(key, S \cup {i}, j) =
           IF Rank(key, S, j) >= Rank(key, S, i) THEN Rank(key, S, j) + 1 ELSE Rank(key, S, j)
<1> DEFINE W == S \cup {i}
           A(T, a) == {x \in T : Earlier(key, x, a)}
<1>1. IsFiniteSet(W) /\ W \subseteq Int
  BY FS_AddElement
<1>2. \A a, b \in W : /\ Earlier(key, a, b) => Rank(key, W, a) < Rank(key, W, b)
                      /\ Earlier(key, a, b) <=> a # b /\ ~Earlier(key, b, a)
                      /\ Rank(key, W, a) \in Nat
  <2>. HIDE DEF W
  <2>1. \A x \in W : key[x] \in Int
    BY DEF W
  <2>. QED
    BY <1>1, <2>1, RanksKeepOrder
<1>4. Rank(key, W, i) = Rank(key, S, i) /\ Rank(key, S, i) \in Nat
  BY RankOfOneMore
<1>6. ASSUME NEW j \in S
      PROVE  Rank(key, W, j) =
               IF Rank(key, S, j) >= Rank(key, S, i) THEN Rank(key, S, j) + 1 ELSE Rank(key, S, j)
  <2>1. /\ IsFiniteSet(A(S, j)) /\ Cardinality(A(S, j)) \in Nat
    <3>1. A(S, j) \in SUBSET S
      OBVIOUS
    <3>. QED
      BY <3>1, FS_Subset, FS_CardinalityType
  <2>2. CASE Earlier(key, i, j)
    <3>1. A(W, j) = A(S, j) \cup {i} /\ i \notin A(S, j)
      BY <2>2
    <3>2. Cardinality(A(W, j)) = Cardinality(A(S, j)) + 1
      BY <2>1, <3>1, FS_AddElement
    <3>3. Rank(key, W, j) = Rank(key, S, j) + 1
      BY <3>2, Zenon DEF Rank
    <3>4. Rank(key, W, i) < Rank(key, W, j)
      BY <1>2, <2>2
    <3>5. Rank(key, S, j) \in Nat /\ Rank(key, S, i) \in Nat
      BY <1>4, <2>1, Zenon DEF Rank
    <3>. HIDE DEF W
    <3>6. Rank(key, S, j) >= Rank(key, S, i)
      BY <1>4, <3>3, <3>4, <3>5
    <3>. QED
      BY <3>3, <3>6
  <2>3. CASE ~Earlier(key, i, j)
    <3>1. A(W, j) = A(S, j)
      BY <2>3
    <3>2. Rank(key, W, j) = Rank(key, S, j)
      BY <3>1, Zenon DEF Rank
    <3>3. Rank(key, W, j) < Rank(key, W, i)
      BY <1>2, <2>3
    <3>5. Rank(key, S, j) \in Nat /\ Rank(key, S, i) \in Nat
      BY <1>4, <2>1, Zenon DEF Rank
    <3>. HIDE DEF W
    <3>. QED
      BY <1>4, <3>2, <3>3, <3>5
  <2>. QED
    BY <2>2, <2>3
<1>. QED
  BY <1>6

-----------------------------------------------------------------------------
(* Lists as ranks, and one insert into them.                               *)

Positions == [EntryIds -> {Absent} \cup Nat]

\* The order of entries is of the same kind as that of folders.
LEMMA AheadIsRank ==
  /\ \A f, i, j : Precedes(f, i, j) <=> Earlier(f, i, j)
  /\ \A f, S, i : Cardinality(Ahead(f, S, i)) = Rank(f, S, i)
<1>1. \A f, i, j : Precedes(f, i, j) <=> Earlier(f, i, j)
  BY DEF Precedes, Earlier
<1>2. ASSUME NEW f, NEW S, NEW i PROVE Cardinality(Ahead(f, S, i)) = Rank(f, S, i)
  <2>1. Ahead(f, S, i) = {j \in S : Earlier(f, j, i)}
    BY <1>1 DEF Ahead
  <2>. QED
    BY <2>1, Zenon DEF Rank
<1>. QED
  BY <1>1, <1>2

LEMMA EntriesFinite ==
  \A S \in SUBSET EntryIds : IsFiniteSet(S) /\ S \subseteq Int /\ Cardinality(S) \in Nat
<1> TAKE S \in SUBSET EntryIds
<1>1. IsFiniteSet(S)
  BY FS_Subset, EditingBoundsAssumption
<1>. QED
  BY <1>1, FS_CardinalityType, EditingBoundsAssumption

LEMMA ListedEntries ==
  ASSUME NEW f \in Positions
  PROVE  /\ Listed(f) \in SUBSET EntryIds /\ IsFiniteSet(Listed(f)) /\ Cardinality(Listed(f)) \in Nat
         /\ \A i \in Listed(f) : f[i] \in Nat
         /\ \A i \in EntryIds \ Listed(f) : f[i] = Absent
<1>1. Listed(f) \in SUBSET EntryIds
  BY DEF Listed
<1>2. \A i \in EntryIds : f[i] \in {Absent} \cup Nat
  BY DEF Positions
<1>. QED
  BY <1>1, <1>2, EntriesFinite DEF Listed

\* Entries that are numbered by rank keep their order, and numbering them again
\* changes nothing.
LEMMA RankedKeeps ==
  ASSUME NEW S \in SUBSET EntryIds, NEW f, \A i \in S : f[i] \in Int
  PROVE  /\ Ranked(f, S) \in Positions /\ Listed(Ranked(f, S)) = S
         /\ \A i \in S : Ranked(f, S)[i] = Rank(f, S, i) /\ Rank(f, S, i) \in 0..(Cardinality(S) - 1)
         /\ \A i \in EntryIds \ S : Ranked(f, S)[i] = Absent
         /\ \A i, j \in S : Earlier(Ranked(f, S), i, j) <=> Earlier(f, i, j)
<1>1. IsFiniteSet(S) /\ S \subseteq Int /\ Cardinality(S) \in Nat
  BY EntriesFinite
<1>2. \A i \in S : Rank(f, S, i) \in Nat /\ Rank(f, S, i) < Cardinality(S)
  BY <1>1, RanksKeepOrder
<1>3. \A i \in S : Rank(f, S, i) \in 0..(Cardinality(S) - 1)
  BY <1>1, <1>2
<1>4. Ranked(f, S) = [i \in EntryIds |-> IF i \in S THEN Rank(f, S, i) ELSE Absent]
  BY AheadIsRank, Zenon DEF Ranked
<1>5. Ranked(f, S) \in Positions
  BY <1>2, <1>4 DEF Positions
<1>6. Listed(Ranked(f, S)) = S
  BY <1>2, <1>4 DEF Listed, Absent
<1>7. ASSUME NEW i \in S, NEW j \in S PROVE Earlier(Ranked(f, S), i, j) <=> Earlier(f, i, j)
  <2>1. Ranked(f, S)[i] = Rank(f, S, i) /\ Ranked(f, S)[j] = Rank(f, S, j)
    BY <1>4
  <2>2. /\ Earlier(f, i, j) => Rank(f, S, i) < Rank(f, S, j)
        /\ Earlier(f, j, i) => Rank(f, S, j) < Rank(f, S, i)
        /\ Earlier(f, i, j) <=> i # j /\ ~Earlier(f, j, i)
    BY <1>1, RanksKeepOrder
  <2>3. /\ Rank(f, S, i) \in Nat /\ Rank(f, S, j) \in Nat /\ i \in Int /\ j \in Int
    BY <1>1, <1>2
  <2>4. Earlier(Ranked(f, S), i, j) <=> Rank(f, S, i) < Rank(f, S, j) \/ (Rank(f, S, i) = Rank(f, S, j) /\ i < j)
    BY <2>1, Zenon DEF Earlier
  <2>. QED
    BY <2>2, <2>3, <2>4
<1>. QED
  BY <1>3, <1>4, <1>5, <1>6, <1>7

LEMMA SameOrderSameRanks ==
  ASSUME NEW S \in SUBSET EntryIds, NEW f, NEW g,
         \A i, j \in S : Earlier(f, i, j) <=> Earlier(g, i, j)
  PROVE  Ranked(f, S) = Ranked(g, S)
<1>1. \A i \in S : Rank(f, S, i) = Rank(g, S, i)
  BY RanksAgree
<1>2. /\ Ranked(f, S) = [i \in EntryIds |-> IF i \in S THEN Rank(f, S, i) ELSE Absent]
      /\ Ranked(g, S) = [i \in EntryIds |-> IF i \in S THEN Rank(g, S, i) ELSE Absent]
  BY AheadIsRank, Zenon DEF Ranked
<1>. QED
  BY <1>1, <1>2

\* Numbering some of them by the ranks among more.
LEMMA RankedAgain ==
  ASSUME NEW S \in SUBSET EntryIds, NEW T \in SUBSET S, NEW f, \A i \in S : f[i] \in Int
  PROVE  Ranked(Ranked(f, S), T) = Ranked(f, T)
<1>1. \A i, j \in S : Earlier(Ranked(f, S), i, j) <=> Earlier(f, i, j)
  BY RankedKeeps
<1>. QED
  BY <1>1, SameOrderSameRanks

\* The n-th insert is the one with n - 1 ahead of it.
LEMMA NthInsertIs ==
  ASSUME NEW ins, DOMAIN ins \subseteq EntryIds, \A i \in DOMAIN ins : ins[i] \in Nat,
         NEW n \in 1..Cardinality(DOMAIN ins)
  PROVE  NthInsert(ins, n) \in DOMAIN ins /\ Rank(ins, DOMAIN ins, NthInsert(ins, n)) = n - 1
<1> DEFINE D == DOMAIN ins
<1>1. IsFiniteSet(D) /\ D \subseteq Int /\ Cardinality(D) \in Nat
  BY EntriesFinite
<1>6. \A i \in D : ins[i] \in Int
  OBVIOUS
<1>2. n - 1 \in 0..(Cardinality(D) - 1)
  BY <1>1
<1>. HIDE DEF D
<1>3. \E i \in D : Rank(ins, D, i) = n - 1
  <2>1. n - 1 \in Ranks(ins, D)
    BY <1>1, <1>2, <1>6, RanksOnto
  <2>. QED
    BY <2>1 DEF Ranks
<1>4. NthInsert(ins, n) = CHOOSE i \in D : Rank(ins, D, i) = n - 1
  BY AheadIsRank, Zenon DEF NthInsert, D
<1>5. (CHOOSE i \in D : Rank(ins, D, i) = n - 1) \in D
      /\ Rank(ins, D, CHOOSE i \in D : Rank(ins, D, i) = n - 1) = n - 1
  BY <1>3, Zenon
<1>. QED
  BY <1>4, <1>5 DEF D

\* An insert changes the place of no entry before it.
LEMMA InsertOneWrites ==
  ASSUME NEW f \in Positions, NEW i \in EntryIds, NEW p \in Nat
  PROVE  /\ InsertOne(f, i, p) \in Positions
         /\ Listed(InsertOne(f, i, p)) = Listed(f) \cup {i}
         /\ \A j \in EntryIds \ {i} :
              InsertOne(f, i, p)[j] = IF f[j] >= Least(p, Cardinality(Listed(f))) THEN f[j] + 1 ELSE f[j]
         /\ InsertOne(f, i, p)[i] = Least(p, Cardinality(Listed(f)))
<1> DEFINE n == Least(p, Cardinality(Listed(f)))
<1>1. n \in Nat
  BY ListedEntries DEF Least
<1>2. InsertOne(f, i, p) = [j \in EntryIds |-> IF j = i THEN n ELSE IF f[j] >= n THEN f[j] + 1 ELSE f[j]]
  BY Zenon DEF InsertOne, Least
<1>. HIDE DEF n
<1>3. \A j \in EntryIds : f[j] \in {Absent} \cup Nat /\ (f[j] >= n => f[j] \in Nat)
  BY <1>1 DEF Positions, Absent
<1>4. InsertOne(f, i, p) \in Positions
  BY <1>1, <1>2, <1>3 DEF Positions
<1>5. Listed(InsertOne(f, i, p)) = Listed(f) \cup {i}
  BY <1>1, <1>2, <1>3 DEF Listed, Absent
<1>. QED
  BY <1>2, <1>4, <1>5 DEF n

\* An entry that comes back at its rank leaves the list numbered by rank.
LEMMA InsertAtRank ==
  ASSUME NEW f, NEW S \in SUBSET EntryIds, NEW i \in EntryIds \ S, \A j \in S \cup {i} : f[j] \in Int
  PROVE  InsertOne(Ranked(f, S), i, Rank(f, S, i)) = Ranked(f, S \cup {i})
<1> DEFINE W == S \cup {i}
           g == Ranked(f, S)
           r == Rank(f, S, i)
           h == InsertOne(g, i, r)
<1>1. IsFiniteSet(S) /\ S \subseteq Int /\ Cardinality(S) \in Nat /\ i \in Int /\ i \notin S
  BY EntriesFinite, EditingBoundsAssumption
<1>2. \A j \in S : Rank(f, S \cup {i}, j) =
        IF Rank(f, S, j) >= Rank(f, S, i) THEN Rank(f, S, j) + 1 ELSE Rank(f, S, j)
  BY <1>1, RankWithOneMore
<1>12. /\ Rank(f, S \cup {i}, i) = Rank(f, S, i)
       /\ Rank(f, S, i) \in Nat /\ Rank(f, S, i) <= Cardinality(S)
  BY <1>1, RankOfOneMore
<1>3. /\ g \in Positions /\ Listed(g) = S
      /\ \A j \in S : g[j] = Rank(f, S, j)
      /\ \A j \in EntryIds \ S : g[j] = Absent
  BY RankedKeeps
<1>4. W \in SUBSET EntryIds
  OBVIOUS
<1>6. /\ Ranked(f, W) \in Positions
      /\ \A j \in W : Ranked(f, W)[j] = Rank(f, W, j)
      /\ \A j \in EntryIds \ W : Ranked(f, W)[j] = Absent
  BY <1>4, RankedKeeps
<1>9. r \in Nat /\ r <= Cardinality(S)
  BY <1>12
<1>. HIDE DEF r, g
<1>5. /\ h \in Positions
      /\ \A j \in EntryIds \ {i} : h[j] = IF g[j] >= r THEN g[j] + 1 ELSE g[j]
      /\ h[i] = r
  <2>1. Least(r, Cardinality(Listed(g))) = r
    BY <1>1, <1>9, <1>3 DEF Least
  <2>. QED
    BY <1>9, <1>3, <2>1, InsertOneWrites
<1>10. \A j \in S : Rank(f, W, j) = IF Rank(f, S, j) >= r THEN Rank(f, S, j) + 1 ELSE Rank(f, S, j)
  BY <1>2 DEF r
<1>11. Rank(f, W, i) = r
  BY <1>12 DEF r
<1>. HIDE DEF h
<1>7. ASSUME NEW j \in EntryIds PROVE h[j] = Ranked(f, W)[j]
  <2>1. CASE j = i
    BY <1>5, <1>6, <1>11, <2>1
  <2>2. CASE j \in S
    <3>1. j # i /\ g[j] = Rank(f, S, j) /\ Ranked(f, W)[j] = Rank(f, W, j)
      BY <1>1, <1>3, <1>6, <2>2
    <3>2. h[j] = IF g[j] >= r THEN g[j] + 1 ELSE g[j]
      BY <1>5, <3>1
    <3>. QED
      BY <1>10, <2>2, <3>1, <3>2
  <2>3. CASE j \notin W
    <3>1. j # i /\ g[j] = -1 /\ Ranked(f, W)[j] = -1
      BY <1>3, <1>6, <2>3 DEF Absent
    <3>. QED
      BY <1>5, <1>9, <3>1
  <2>. QED
    BY <2>1, <2>2, <2>3
<1>8. h = Ranked(f, W)
  <2>. HIDE DEF W
  <2>. QED
    BY <1>5, <1>6, <1>7 DEF Positions
<1>. QED
  BY <1>8 DEF g, r, h

-----------------------------------------------------------------------------
(* The recursion of the inserts.                                           *)

\* The list after the first inserts, as far as the recursion goes.
Unfolds(f, ins, list, N) ==
  list = [n \in 0..N |->
            IF n = 0 THEN Ranked(f, Listed(f))
            ELSE InsertOne(list[n - 1], NthInsert(ins, n), ins[NthInsert(ins, n)])]

\* The recursion of Inserted is defined for every number of inserts.
LEMMA InsertedUnfolds ==
  ASSUME NEW f, NEW ins, Cardinality(DOMAIN ins) \in Nat
  PROVE  \E list : Unfolds(f, ins, list, Cardinality(DOMAIN ins))
                   /\ Inserted(f, ins) = list[Cardinality(DOMAIN ins)]
<1> DEFINE step(g, n) == IF n = 0 THEN Ranked(f, Listed(f))
                         ELSE InsertOne(g[n - 1], NthInsert(ins, n), ins[NthInsert(ins, n)])
           T == {k \in Nat : ~\E g : g = [n \in 0..k |-> step(g, n)]}
<1>1. T = {}
  <2> SUFFICES ASSUME T # {} PROVE FALSE
    OBVIOUS
  <2>1. PICK k \in T : \A y \in T : k <= y
    <3>. HIDE DEF T
    <3>1. T \in SUBSET Nat
      BY DEF T
    <3>. QED
      BY <3>1, LeastNat
  <2>2. k \in Nat /\ \A g : g # [n \in 0..k |-> step(g, n)]
    BY <2>1
  <2>3. CASE k = 0
    <3> DEFINE g == [n \in 0..0 |-> Ranked(f, Listed(f))]
    <3>1. g = [n \in 0..0 |-> step(g, n)]
      <4>1. \A n \in 0..0 : step(g, n) = Ranked(f, Listed(f))
        OBVIOUS
      <4>. HIDE DEF step
      <4>. QED
        BY <4>1
    <3>. QED
      BY <2>2, <2>3, <3>1
  <2>4. CASE k # 0
    <3>1. k - 1 \in Nat /\ ~(k <= k - 1)
      BY <2>2, <2>4
    <3>2. k - 1 \notin T
      BY <2>1, <3>1
    <3>3. PICK g : g = [n \in 0..(k - 1) |-> step(g, n)]
      BY <3>1, <3>2
    <3> DEFINE h == [n \in 0..k |-> IF n = k THEN step(g, k) ELSE g[n]]
    <3>4. ASSUME NEW n \in 0..k PROVE h[n] = step(h, n)
      <4>1. CASE n = 0
        <5>1. h[n] = g[n] /\ n \in 0..(k - 1)
          BY <2>2, <2>4, <4>1
        <5>2. g[n] = step(g, n)
          <6>. HIDE DEF step
          <6>. QED
            BY <3>3, <5>1
        <5>. QED
          BY <4>1, <5>1, <5>2
      <4>2. CASE n # 0
        <5>1. n - 1 \in 0..k /\ n - 1 # k
          BY <2>2, <4>2
        <5>2. h[n - 1] = g[n - 1]
          BY <5>1
        <5>3. step(h, n) = step(g, n)
          <6>. HIDE DEF h
          <6>. QED
            BY <5>2
        <5>4. h[n] = step(g, n)
          <6>1. CASE n = k
            BY <6>1
          <6>2. CASE n # k
            <7>1. n \in 0..(k - 1) /\ h[n] = g[n]
              BY <2>2, <6>2
            <7>. HIDE DEF step, h
            <7>. QED
              BY <3>3, <7>1
          <6>. QED
            BY <6>1, <6>2
        <5>. QED
          BY <5>3, <5>4
      <4>. QED
        BY <4>1, <4>2
    <3>5. h = [n \in 0..k |-> step(h, n)]
      <4>1. h = [n \in 0..k |-> h[n]]
        OBVIOUS
      <4>. HIDE DEF h, step
      <4>. QED
        BY <3>4, <4>1
    <3>. HIDE DEF h
    <3>. QED
      BY <2>2, <3>5
  <2>. QED
    BY <2>3, <2>4
<1>2. PICK g : g = [n \in 0..Cardinality(DOMAIN ins) |-> step(g, n)]
  <2>1. Cardinality(DOMAIN ins) \notin T
    BY <1>1
  <2>. QED
    BY <2>1
<1>3. \E list : /\ list = [n \in 0..Cardinality(DOMAIN ins) |->
                     IF n = 0 THEN Ranked(f, Listed(f))
                     ELSE InsertOne(list[n - 1], NthInsert(ins, n), ins[NthInsert(ins, n)])]
                /\ Inserted(f, ins) = list[Cardinality(DOMAIN ins)]
  BY <1>2, Zenon DEF Inserted
<1>. QED
  BY <1>3, Zenon DEF Unfolds

\* What the recursion gives, one insert after the other.
LEMMA UnfoldsStep ==
  ASSUME NEW f, NEW ins, NEW list, NEW N \in Nat, Unfolds(f, ins, list, N)
  PROVE  /\ list[0] = Ranked(f, Listed(f))
         /\ \A n \in 1..N : list[n] = InsertOne(list[n - 1], NthInsert(ins, n), ins[NthInsert(ins, n)])
<1>1. \A n \in 0..N : list[n] = IF n = 0 THEN Ranked(f, Listed(f))
                              ELSE InsertOne(list[n - 1], NthInsert(ins, n), ins[NthInsert(ins, n)])
  BY Zenon DEF Unfolds
<1>2. 0 \in 0..N /\ \A n \in 1..N : n \in 0..N /\ n # 0
  OBVIOUS
<1>. QED
  BY <1>1, <1>2, Zenon

-----------------------------------------------------------------------------
(* Inserts undo a removal, and a removal undoes inserts.                   *)

\* What holds of 0 and is passed on holds up to N.
LEMMA UpTo ==
  ASSUME NEW T, NEW N \in Nat, 0 \in T, \A n \in 1..N : n - 1 \in T => n \in T
  PROVE  0..N \subseteq T
<1> SUFFICES ASSUME NEW m \in 0..N, m \notin T PROVE FALSE
  OBVIOUS
<1> DEFINE Bad == {k \in 0..N : k \notin T}
<1>1. Bad \in SUBSET Nat /\ Bad # {}
  OBVIOUS
<1>2. PICK k \in Bad : \A y \in Bad : k <= y
  <2>. HIDE DEF Bad
  <2>. QED
    BY <1>1, LeastNat
<1>3. k \in 1..N /\ k \notin T
  BY <1>2
<1>4. k - 1 \notin T /\ k - 1 \in 0..N
  BY <1>3
<1>5. k <= k - 1
  BY <1>2, <1>4
<1>. QED
  BY <1>3, <1>5

\* Inserts keep to the entries that are there and those that are inserted.
LEMMA InsertedTyped ==
  ASSUME NEW f \in Positions, NEW ins, DOMAIN ins \subseteq EntryIds,
         \A i \in DOMAIN ins : ins[i] \in Nat
  PROVE  /\ Inserted(f, ins) \in Positions
         /\ Listed(Inserted(f, ins)) \subseteq Listed(f) \cup DOMAIN ins
<1> DEFINE N == Cardinality(DOMAIN ins)
<1>1. N \in Nat
  BY EntriesFinite
<1>2. PICK list : Unfolds(f, ins, list, N) /\ Inserted(f, ins) = list[N]
  BY <1>1, InsertedUnfolds
<1> DEFINE T == {n \in 0..N : list[n] \in Positions /\ Listed(list[n]) \subseteq Listed(f) \cup DOMAIN ins}
<1>3. /\ list[0] = Ranked(f, Listed(f))
      /\ \A n \in 1..N : list[n] = InsertOne(list[n - 1], NthInsert(ins, n), ins[NthInsert(ins, n)])
  <2>. HIDE DEF N
  <2>. QED
    BY <1>1, <1>2, UnfoldsStep
<1>4. \A n \in 1..N : NthInsert(ins, n) \in DOMAIN ins
  BY NthInsertIs
<1>5. 0 \in T
  <2>1. Listed(f) \in SUBSET EntryIds /\ \A i \in Listed(f) : f[i] \in Int
    BY ListedEntries
  <2>2. Ranked(f, Listed(f)) \in Positions /\ Listed(Ranked(f, Listed(f))) = Listed(f)
    BY <2>1, RankedKeeps
  <2>. HIDE DEF N
  <2>. QED
    BY <1>1, <1>3, <2>2
<1>. HIDE DEF N
<1>6. ASSUME NEW n \in 1..N, n - 1 \in T PROVE n \in T
  <2> DEFINE i == NthInsert(ins, n)
  <2>1. i \in DOMAIN ins /\ i \in EntryIds /\ ins[i] \in Nat
    BY <1>4
  <2>2. list[n] = InsertOne(list[n - 1], i, ins[i])
    BY <1>3
  <2>3. list[n - 1] \in Positions /\ Listed(list[n - 1]) \subseteq Listed(f) \cup DOMAIN ins
    BY <1>6
  <2>. HIDE DEF i
  <2>4. list[n] \in Positions /\ Listed(list[n]) = Listed(list[n - 1]) \cup {i}
    BY <2>1, <2>2, <2>3, InsertOneWrites
  <2>5. n \in 0..N
    BY <1>1
  <2>. QED
    BY <2>1, <2>3, <2>4, <2>5
<1>7. N \in T
  <2>. HIDE DEF T
  <2>1. 0..N \subseteq T
    BY <1>1, <1>5, <1>6, UpTo
  <2>. QED
    BY <1>1, <2>1
<1>. QED
  BY <1>2, <1>7

\* Entries that are removed and inserted where they were are in the list as it was,
\* when it had no gaps.
LEMMA RemoveUndone ==
  ASSUME NEW f \in Positions, Compact(f), NEW ids \in SUBSET Listed(f)
  PROVE  Inserted(Ranked(f, Listed(f) \ ids), [i \in ids |-> f[i]]) = f
<1> DEFINE L == Listed(f)
           R == L \ ids
           ins == [i \in ids |-> f[i]]
           N == Cardinality(ids)
           First(n) == {i \in ids : Rank(f, ids, i) < n}
<1>1. /\ L \in SUBSET EntryIds /\ IsFiniteSet(L) /\ L \subseteq Int
      /\ ids \in SUBSET EntryIds /\ IsFiniteSet(ids) /\ ids \subseteq Int /\ N \in Nat
  BY ListedEntries, EntriesFinite
<1>2. \A i \in L : f[i] \in Int /\ f[i] \in Nat
  BY ListedEntries
<1>3. \A i, j \in ids : Earlier(ins, i, j) <=> Earlier(f, i, j)
  BY DEF Earlier
<1>4. \A i \in ids : Rank(ins, ids, i) = Rank(f, ids, i)
  <2>. HIDE DEF ins
  <2>. QED
    BY <1>3, RanksAgree
<1>5. PICK list : Unfolds(Ranked(f, R), ins, list, N) /\ Inserted(Ranked(f, R), ins) = list[N]
  <2>1. DOMAIN ins = ids
    OBVIOUS
  <2>. HIDE DEF ins
  <2>. QED
    BY <1>1, <2>1, InsertedUnfolds
<1>6. \A i \in L : f[i] = Rank(f, L, i)
  <2>1. \A i \in L : Ranked(f, L)[i] = Rank(f, L, i)
    BY <1>1, <1>2, RankedKeeps
  <2>. QED
    BY <2>1 DEF Compact
<1>7. /\ \A i \in ids : Rank(f, ids, i) \in Nat /\ Rank(f, ids, i) < N
      /\ \A i, j \in ids : Earlier(f, i, j) => Rank(f, ids, i) < Rank(f, ids, j)
      /\ \A i, j \in ids : Earlier(f, i, j) <=> i # j /\ ~Earlier(f, j, i)
  <2>1. \A i \in ids : f[i] \in Int
    BY <1>2
  <2>. QED
    BY <1>1, <2>1, RanksKeepOrder
<1> DEFINE T == {n \in 0..N : list[n] = Ranked(f, R \cup First(n))}
<1>8. /\ list[0] = Ranked(Ranked(f, R), Listed(Ranked(f, R)))
      /\ \A n \in 1..N : list[n] = InsertOne(list[n - 1], NthInsert(ins, n), ins[NthInsert(ins, n)])
  <2>. HIDE DEF N, ins, R
  <2>. QED
    BY <1>1, <1>5, UnfoldsStep
<1>9. 0 \in T
  <2>1. R \in SUBSET EntryIds /\ \A i \in R : f[i] \in Int
    BY <1>1, <1>2
  <2>2. R \cup First(0) = R
    BY <1>7
  <2>. HIDE DEF R, First, N
  <2>3. Listed(Ranked(f, R)) = R
    BY <2>1, RankedKeeps
  <2>4. Ranked(Ranked(f, R), R) = Ranked(f, R)
    BY <2>1, RankedAgain
  <2>. QED
    BY <1>1, <1>8, <2>2, <2>3, <2>4
<1>10. ASSUME NEW n \in 1..N, n - 1 \in T PROVE n \in T
  <2> DEFINE i == NthInsert(ins, n)
             S == R \cup First(n - 1)
  <2>1. i \in ids /\ Rank(f, ids, i) = n - 1
    <3>1. DOMAIN ins = ids /\ \A j \in DOMAIN ins : ins[j] \in Nat
      BY <1>2
    <3>. HIDE DEF ins
    <3>2. i \in DOMAIN ins /\ Rank(ins, DOMAIN ins, i) = n - 1
      BY <1>1, <3>1, NthInsertIs
    <3>. QED
      BY <1>4, <3>1, <3>2
  <2>. HIDE DEF i
  <2>2. i \in L /\ i \notin S /\ S \subseteq L
    BY <2>1
  <2>3. {x \in L : Earlier(f, x, i)} = {x \in S : Earlier(f, x, i)}
    <3>1. ASSUME NEW x \in ids, Earlier(f, x, i) PROVE x \in First(n - 1)
      BY <1>7, <2>1, <3>1
    <3>. QED
      BY <3>1
  <2>4. f[i] = Rank(f, S, i)
    <3>1. Rank(f, L, i) = Rank(f, S, i)
      BY <2>3, Zenon DEF Rank
    <3>. QED
      BY <1>6, <2>2, <3>1
  <2>5. S \cup {i} = R \cup First(n)
    <3>1. ASSUME NEW j \in ids PROVE Rank(f, ids, j) < n <=> Rank(f, ids, j) < n - 1 \/ j = i
      <4>1. Rank(f, ids, j) \in Nat /\ (Rank(f, ids, j) = n - 1 <=> j = i)
        <5>1. CASE j = i
          BY <1>7, <2>1, <5>1
        <5>2. CASE j # i
          <6>1. Earlier(f, i, j) \/ Earlier(f, j, i)
            BY <1>7, <2>1, <5>2
          <6>. QED
            BY <1>7, <2>1, <5>2, <6>1
        <5>. QED
          BY <5>1, <5>2
      <4>. QED
        BY <4>1
    <3>. QED
      BY <2>1, <3>1
  <2>6. list[n - 1] = Ranked(f, S)
    BY <1>10
  <2>7. list[n] = InsertOne(Ranked(f, S), i, f[i])
    <3>1. ins[i] = f[i]
      BY <2>1
    <3>. HIDE DEF ins, S, N
    <3>. QED
      BY <1>8, <2>6, <3>1 DEF i
  <2>8. InsertOne(Ranked(f, S), i, Rank(f, S, i)) = Ranked(f, S \cup {i})
    <3>1. S \in SUBSET EntryIds /\ i \in EntryIds \ S /\ \A j \in S \cup {i} : f[j] \in Int
      BY <1>1, <1>2, <2>2
    <3>. HIDE DEF S
    <3>. QED
      BY <3>1, InsertAtRank
  <2>9. n \in 0..N
    BY <1>1
  <2>. HIDE DEF S, R, First
  <2>. QED
    BY <2>4, <2>5, <2>7, <2>8, <2>9
<1>11. N \in T
  <2>. HIDE DEF T
  <2>1. 0..N \subseteq T
    BY <1>1, <1>9, <1>10, UpTo
  <2>. QED
    BY <1>1, <2>1
<1>12. R \cup First(N) = L
  BY <1>7
<1>13. Inserted(Ranked(f, R), ins) = Ranked(f, L)
  BY <1>5, <1>11, <1>12
<1>. QED
  BY <1>13 DEF Compact

\* Entries that were inserted behind the list and are removed leave it as it was.
LEMMA InsertUndone ==
  ASSUME NEW f \in Positions, Compact(f), NEW ins, DOMAIN ins \subseteq EntryIds \ Listed(f),
         \A i \in DOMAIN ins : ins[i] \in Nat /\ ins[i] >= Cardinality(Listed(f))
  PROVE  Ranked(Inserted(f, ins), Listed(Inserted(f, ins)) \ DOMAIN ins) = f
<1> DEFINE N == Cardinality(DOMAIN ins)
           L == Listed(f)
<1>1. N \in Nat /\ DOMAIN ins \subseteq EntryIds
  BY EntriesFinite
<1>2. PICK list : Unfolds(f, ins, list, N) /\ Inserted(f, ins) = list[N]
  BY <1>1, InsertedUnfolds
<1>3. /\ list[0] = Ranked(f, Listed(f))
      /\ \A n \in 1..N : list[n] = InsertOne(list[n - 1], NthInsert(ins, n), ins[NthInsert(ins, n)])
  <2>. HIDE DEF N
  <2>. QED
    BY <1>1, <1>2, UnfoldsStep
<1>4. \A n \in 1..N : NthInsert(ins, n) \in DOMAIN ins
  BY <1>1, NthInsertIs
<1>5. L \in SUBSET EntryIds /\ IsFiniteSet(L) /\ Cardinality(L) \in Nat /\ \A i \in L : f[i] \in Int
  BY ListedEntries
<1>6. \A i \in L : f[i] \in Nat /\ f[i] < Cardinality(L)
  <2>1. \A i \in L : Ranked(f, L)[i] \in 0..(Cardinality(L) - 1)
    BY <1>5, RankedKeeps
  <2>. QED
    BY <1>5, <2>1 DEF Compact
<1> DEFINE Keeps(g) == /\ g \in Positions /\ L \subseteq Listed(g) /\ Listed(g) \subseteq L \cup DOMAIN ins
                       /\ \A j \in L : g[j] = f[j]
           T == {n \in 0..N : Keeps(list[n])}
<1>7. 0 \in T
  <2>1. list[0] = f
    BY <1>3 DEF Compact
  <2>2. Keeps(f)
    OBVIOUS
  <2>. HIDE DEF N, Keeps
  <2>. QED
    BY <1>1, <2>1, <2>2
<1>. HIDE DEF N
<1>8. ASSUME NEW n \in 1..N, n - 1 \in T PROVE n \in T
  <2> DEFINE i == NthInsert(ins, n)
             g == list[n - 1]
             m == Least(ins[i], Cardinality(Listed(g)))
  <2>1. i \in DOMAIN ins /\ i \in EntryIds \ L /\ ins[i] \in Nat /\ ins[i] >= Cardinality(L)
    BY <1>4
  <2>2. Keeps(g)
    BY <1>8
  <2>3. list[n] = InsertOne(g, i, ins[i])
    BY <1>3
  <2>. HIDE DEF i, g
  <2>4. m \in Nat /\ m >= Cardinality(L)
    <3>1. Cardinality(Listed(g)) \in Nat /\ IsFiniteSet(Listed(g))
      BY <2>2, ListedEntries
    <3>2. Cardinality(L) <= Cardinality(Listed(g))
      BY <2>2, <3>1, FS_Subset
    <3>. HIDE DEF L
    <3>. QED
      BY <1>5, <2>1, <3>1, <3>2 DEF Least
  <2>5. /\ list[n] \in Positions /\ Listed(list[n]) = Listed(g) \cup {i}
        /\ \A j \in EntryIds \ {i} : list[n][j] = IF g[j] >= m THEN g[j] + 1 ELSE g[j]
    <3>1. g \in Positions /\ i \in EntryIds /\ ins[i] \in Nat
      BY <2>1, <2>2
    <3>2. /\ InsertOne(g, i, ins[i]) \in Positions /\ Listed(InsertOne(g, i, ins[i])) = Listed(g) \cup {i}
          /\ \A j \in EntryIds \ {i} : InsertOne(g, i, ins[i])[j] = IF g[j] >= m THEN g[j] + 1 ELSE g[j]
      BY <3>1, InsertOneWrites
    <3>. HIDE DEF m
    <3>. QED
      BY <2>3, <3>2
  <2>. HIDE DEF m
  <2>6. ASSUME NEW j \in L PROVE list[n][j] = f[j]
    <3>1. j \in EntryIds \ {i} /\ g[j] = f[j]
      BY <1>5, <2>1, <2>2
    <3>2. f[j] \in Nat /\ f[j] < Cardinality(L)
      BY <1>6
    <3>3. ~(g[j] >= m)
      <4>. HIDE DEF L
      <4>. QED
        BY <1>5, <2>4, <3>1, <3>2
    <3>. QED
      BY <2>5, <3>1, <3>3
  <2>7. Keeps(list[n])
    BY <2>1, <2>2, <2>5, <2>6
  <2>8. n \in 0..N
    BY <1>1
  <2>. HIDE DEF Keeps
  <2>. QED
    BY <2>7, <2>8
<1>9. Keeps(list[N])
  <2>. HIDE DEF Keeps
  <2>1. 0 \in T /\ \A n \in 1..N : n - 1 \in T => n \in T
    BY <1>7, <1>8
  <2>. HIDE DEF T
  <2>2. 0..N \subseteq T
    BY <1>1, <2>1, UpTo
  <2>3. N \in T
    BY <1>1, <2>2
  <2>. QED
    BY <2>3 DEF T
<1> DEFINE g == list[N]
<1>10. Listed(g) \ DOMAIN ins = L
  BY <1>9
<1>11. \A i, j \in L : Earlier(g, i, j) <=> Earlier(f, i, j)
  BY <1>9 DEF Earlier
<1>. HIDE DEF g, L
<1>12. Ranked(g, L) = Ranked(f, L)
  BY <1>5, <1>11, SameOrderSameRanks
<1>. QED
  BY <1>2, <1>10, <1>12 DEF g, L, Compact

-----------------------------------------------------------------------------
(* The invariant of the history, and what a delta and its inverse do.      *)

Deltas ==
  [kind : {"order"}, to : Positions] \cup [kind : {"remove"}, ids : SUBSET EntryIds]
  \cup [kind : {"insert"}, at : UNION {[D -> Nat] : D \in SUBSET EntryIds}]
  \cup [kind : {"details"}, to : 0..MaxEdits] \cup [kind : {"trash"}, to : {Live} \cup 0..MaxTime]

Commands == [by : Editors, before : EditSnapshots, after : EditSnapshots,
             forward : Deltas, inverse : Deltas, is : {"done", "undone"}]

\* Only ids that were used come back.
InsertsUsed(d, U) == d.kind = "insert" => DOMAIN d.at \subseteq U

\* What is in the history of a command is what it did, and how to undo it.
Reversible(c, U) ==
  /\ c.after = ApplyDelta(c.forward, c.before)
  /\ Compact(c.before.entry) => ApplyDelta(c.inverse, c.after) = c.before
  /\ InsertsUsed(c.forward, U) /\ InsertsUsed(c.inverse, U)

\* What an older route has read.
RouteHolds ==
  /\ route.at = "append" => route.id \in EntryIds /\ route.position \in Nat
  /\ route.at = "order" => DOMAIN route.ids \subseteq Nat \ {0}

EditInv ==
  /\ EditingTypeOK
  /\ editCommands \in Seq(Commands)
  /\ \A i \in DOMAIN editCommands : Reversible(editCommands[i], used)
  /\ RouteHolds

LEMMA SnapshotFields ==
  ASSUME NEW s \in EditSnapshots
  PROVE  /\ s.entry \in Positions /\ s.details \in 0..MaxEdits /\ s.deleted \in {Live} \cup 0..MaxTime
         /\ s = [entry |-> s.entry, details |-> s.details, deleted |-> s.deleted]
         /\ \A f \in Positions : [s EXCEPT !.entry = f] \in EditSnapshots /\ [s EXCEPT !.entry = f].entry = f
         /\ \A d \in 0..MaxEdits :
              [s EXCEPT !.details = d] \in EditSnapshots /\ [s EXCEPT !.details = d].entry = s.entry
         /\ \A t \in {Live} \cup 0..MaxTime :
              [s EXCEPT !.deleted = t] \in EditSnapshots /\ [s EXCEPT !.deleted = t].entry = s.entry
<1>1. Positions = [EntryIds -> Nat \cup {Absent}]
  BY DEF Positions
<1>2. EditSnapshots = [entry : Positions, details : 0..MaxEdits, deleted : {Live} \cup 0..MaxTime]
  BY <1>1 DEF EditSnapshots
<1>3. s \in [entry : Positions, details : 0..MaxEdits, deleted : {Live} \cup 0..MaxTime]
  BY <1>2
<1>. QED
  BY <1>2, <1>3

LEMMA SnapshotTyped ==
  ASSUME EditingTypeOK, deleted # Purged PROVE Snapshot \in EditSnapshots
BY DEF EditingTypeOK, Snapshot, EditSnapshots

\* What the deltas of each kind do.
LEMMA DeltaKinds ==
  ASSUME NEW d, NEW s
  PROVE  /\ d.kind = "order" => ApplyDelta(d, s) = [s EXCEPT !.entry = d.to]
         /\ d.kind = "remove" => ApplyDelta(d, s) = [s EXCEPT !.entry = Ranked(s.entry, Listed(s.entry) \ d.ids)]
         /\ d.kind = "insert" => ApplyDelta(d, s) = [s EXCEPT !.entry = Inserted(s.entry, d.at)]
         /\ d.kind = "details" => ApplyDelta(d, s) = [s EXCEPT !.details = d.to]
         /\ d.kind = "trash" => ApplyDelta(d, s) = [s EXCEPT !.deleted = d.to]
BY DEF ApplyDelta

LEMMA DeltaFields ==
  ASSUME NEW d \in Deltas
  PROVE  /\ d.kind \in {"order", "remove", "insert", "details", "trash"}
         /\ d.kind = "order" => d.to \in Positions
         /\ d.kind = "remove" => d.ids \in SUBSET EntryIds
         /\ d.kind = "insert" => DOMAIN d.at \subseteq EntryIds /\ \A i \in DOMAIN d.at : d.at[i] \in Nat
         /\ d.kind = "details" => d.to \in 0..MaxEdits
         /\ d.kind = "trash" => d.to \in {Live} \cup 0..MaxTime
<1>1. CASE d \in [kind : {"order"}, to : Positions]
  BY <1>1
<1>2. CASE d \in [kind : {"remove"}, ids : SUBSET EntryIds]
  BY <1>2
<1>3. CASE d \in [kind : {"insert"}, at : UNION {[D -> Nat] : D \in SUBSET EntryIds}]
  BY <1>3
<1>4. CASE d \in [kind : {"details"}, to : 0..MaxEdits]
  BY <1>4
<1>5. CASE d \in [kind : {"trash"}, to : {Live} \cup 0..MaxTime]
  BY <1>5
<1>. QED
  BY <1>1, <1>2, <1>3, <1>4, <1>5 DEF Deltas

\* A delta that applies makes a snapshot, with entries that have been there.
LEMMA DeltaTyped ==
  ASSUME NEW d \in Deltas, NEW s \in EditSnapshots, NEW U, Listed(s.entry) \subseteq U,
         InsertsUsed(d, U), Applies(d, s)
  PROVE  ApplyDelta(d, s) \in EditSnapshots /\ Listed(ApplyDelta(d, s).entry) \subseteq U
<1> DEFINE f == s.entry
<1>1. f \in Positions
  BY SnapshotFields
<1>2. Listed(f) \in SUBSET EntryIds /\ \A i \in Listed(f) : f[i] \in Int
  BY <1>1, ListedEntries
<1>. HIDE DEF f
<1>3. CASE d.kind = "order"
  <2>1. d.to \in Positions /\ Listed(d.to) = Listed(s.entry)
    BY <1>3, DeltaFields DEF Applies
  <2> DEFINE g == d.to
             t == [s EXCEPT !.entry = g]
  <2>2. ApplyDelta(d, s) = t
    BY <1>3, DeltaKinds
  <2>. HIDE DEF g
  <2>3. t \in EditSnapshots /\ t.entry = g
    BY <2>1, SnapshotFields DEF g
  <2>. HIDE DEF t
  <2>. QED
    BY <2>1, <2>2, <2>3 DEF g
<1>4. CASE d.kind = "remove"
  <2> DEFINE g == Ranked(f, Listed(f) \ d.ids)
  <2>1. Listed(f) \ d.ids \in SUBSET EntryIds /\ \A i \in Listed(f) \ d.ids : f[i] \in Int
    BY <1>2
  <2>2. g \in Positions /\ Listed(g) = Listed(f) \ d.ids
    BY <2>1, RankedKeeps
  <2>3. ApplyDelta(d, s) = [s EXCEPT !.entry = g]
    BY <1>4, DeltaKinds DEF f
  <2>. HIDE DEF g
  <2>. QED
    BY <2>2, <2>3, SnapshotFields DEF f
<1>5. CASE d.kind = "insert"
  <2> DEFINE g == Inserted(f, d.at)
  <2>1. DOMAIN d.at \subseteq EntryIds /\ DOMAIN d.at \subseteq U /\ \A i \in DOMAIN d.at : d.at[i] \in Nat
    BY <1>5, DeltaFields DEF InsertsUsed
  <2>2. g \in Positions /\ Listed(g) \subseteq Listed(f) \cup DOMAIN d.at
    BY <1>1, <2>1, InsertedTyped
  <2>3. ApplyDelta(d, s) = [s EXCEPT !.entry = g]
    BY <1>5, DeltaKinds DEF f
  <2>. HIDE DEF g
  <2>. QED
    BY <2>1, <2>2, <2>3, SnapshotFields DEF f
<1>6. CASE d.kind = "details"
  <2> DEFINE v == d.to
             t == [s EXCEPT !.details = v]
  <2>1. ApplyDelta(d, s) = t
    BY <1>6, DeltaKinds
  <2>2. v \in 0..MaxEdits
    BY <1>6, DeltaFields
  <2>. HIDE DEF v
  <2>3. t \in EditSnapshots /\ t.entry = s.entry
    BY <2>2, SnapshotFields
  <2>. HIDE DEF t
  <2>. QED
    BY <2>1, <2>3
<1>7. CASE d.kind = "trash"
  <2> DEFINE v == d.to
             t == [s EXCEPT !.deleted = v]
  <2>1. ApplyDelta(d, s) = t
    BY <1>7, DeltaKinds
  <2>2. v \in {Live} \cup 0..MaxTime
    BY <1>7, DeltaFields
  <2>. HIDE DEF v
  <2>3. t \in EditSnapshots /\ t.entry = s.entry
    BY <2>2, SnapshotFields
  <2>. HIDE DEF t
  <2>. QED
    BY <2>1, <2>3
<1>. QED
  BY <1>3, <1>4, <1>5, <1>6, <1>7, DeltaFields

LEMMA CommandFields ==
  ASSUME NEW c \in Commands
  PROVE  /\ c.by \in Editors /\ c.before \in EditSnapshots /\ c.after \in EditSnapshots
         /\ c.forward \in Deltas /\ c.inverse \in Deltas /\ c.is \in {"done", "undone"}
         /\ \A w \in {"done", "undone"} :
              LET e == [c EXCEPT !.is = w] IN
              /\ e \in Commands /\ e.is = w /\ e.by = c.by /\ e.before = c.before /\ e.after = c.after
              /\ e.forward = c.forward /\ e.inverse = c.inverse
BY DEF Commands

\* The inverses of the commands.
LEMMA InversesRestore ==
  ASSUME NEW s \in EditSnapshots, Compact(s.entry)
  PROVE  /\ \A f \in Positions :
              ApplyDelta([kind |-> "order", to |-> Ranked(s.entry, Listed(s.entry))],
                         ApplyDelta([kind |-> "order", to |-> f], s)) = s
         /\ \A ids \in SUBSET Listed(s.entry) :
              ApplyDelta([kind |-> "insert", at |-> [i \in ids |-> s.entry[i]]],
                         ApplyDelta([kind |-> "remove", ids |-> ids], s)) = s
         /\ \A ids \in SUBSET (EntryIds \ Listed(s.entry)) : \A ins \in [ids -> Nat] :
              (\A i \in ids : ins[i] >= Cardinality(Listed(s.entry))) =>
              ApplyDelta([kind |-> "remove", ids |-> ids],
                         ApplyDelta([kind |-> "insert", at |-> ins], s)) = s
<1> DEFINE f == s.entry
<1>1. f \in Positions /\ s = [entry |-> f, details |-> s.details, deleted |-> s.deleted]
  BY SnapshotFields
<1>2. f = Ranked(f, Listed(f))
  BY DEF Compact
<1>3. \A g : [s EXCEPT !.entry = g].entry = g /\ [[s EXCEPT !.entry = g] EXCEPT !.entry = f] = s
  BY <1>1
<1>4. ASSUME NEW h \in Positions
      PROVE  ApplyDelta([kind |-> "order", to |-> Ranked(f, Listed(f))],
                        ApplyDelta([kind |-> "order", to |-> h], s)) = s
  <2>1. ApplyDelta([kind |-> "order", to |-> h], s) = [s EXCEPT !.entry = h]
    BY DEF ApplyDelta
  <2> DEFINE t == [s EXCEPT !.entry = h]
  <2>2. ApplyDelta([kind |-> "order", to |-> Ranked(f, Listed(f))], t) = [t EXCEPT !.entry = Ranked(f, Listed(f))]
    BY DEF ApplyDelta
  <2>. QED
    BY <1>2, <1>3, <2>1, <2>2, Zenon
<1>5. ASSUME NEW ids \in SUBSET Listed(f)
      PROVE  ApplyDelta([kind |-> "insert", at |-> [i \in ids |-> f[i]]],
                        ApplyDelta([kind |-> "remove", ids |-> ids], s)) = s
  <2> DEFINE g == Ranked(f, Listed(f) \ ids)
             t == [s EXCEPT !.entry = g]
             ins == [i \in ids |-> f[i]]
  <2>1. ApplyDelta([kind |-> "remove", ids |-> ids], s) = t
    BY DEF ApplyDelta
  <2>2. ApplyDelta([kind |-> "insert", at |-> ins], t) = [t EXCEPT !.entry = Inserted(t.entry, ins)]
    BY DEF ApplyDelta
  <2>3. t.entry = g /\ [t EXCEPT !.entry = f] = s
    BY <1>3
  <2>4. Inserted(g, ins) = f
    BY <1>1, RemoveUndone
  <2>. HIDE DEF t, g, ins
  <2>5. ApplyDelta([kind |-> "insert", at |-> ins], t) = s
    BY <2>2, <2>3, <2>4
  <2>. QED
    BY <2>1, <2>5 DEF ins
<1>6. ASSUME NEW ids \in SUBSET (EntryIds \ Listed(f)), NEW ins \in [ids -> Nat],
             \A i \in ids : ins[i] >= Cardinality(Listed(f))
      PROVE  ApplyDelta([kind |-> "remove", ids |-> ids],
                        ApplyDelta([kind |-> "insert", at |-> ins], s)) = s
  <2> DEFINE g == Inserted(f, ins)
             t == [s EXCEPT !.entry = g]
  <2>1. ApplyDelta([kind |-> "insert", at |-> ins], s) = t
    BY DEF ApplyDelta
  <2>2. ApplyDelta([kind |-> "remove", ids |-> ids], t) = [t EXCEPT !.entry = Ranked(t.entry, Listed(t.entry) \ ids)]
    BY DEF ApplyDelta
  <2>3. t.entry = g /\ [t EXCEPT !.entry = f] = s
    BY <1>3
  <2>4. Ranked(g, Listed(g) \ ids) = f
    <3>1. DOMAIN ins = ids /\ \A i \in ids : ins[i] \in Nat /\ ins[i] >= Cardinality(Listed(f))
      BY <1>6
    <3>. HIDE DEF f
    <3>. QED
      BY <1>1, <1>2, <3>1, InsertUndone DEF Compact
  <2>. HIDE DEF t, g
  <2>5. ApplyDelta([kind |-> "remove", ids |-> ids], t) = s
    BY <2>2, <2>3, <2>4
  <2>. QED
    BY <2>1, <2>5
<1>. QED
  BY <1>4, <1>5, <1>6

-----------------------------------------------------------------------------
(* What is retained of the history.                                        *)

Own(u, all) == {i \in DOMAIN all : all[i].by = u}

\* A sequence without one of its elements.
LEMMA RemoveAtIs ==
  ASSUME NEW S, NEW all \in Seq(S), NEW o \in 1..Len(all)
  PROVE  /\ RemoveAt(all, o) \in Seq(S) /\ Len(RemoveAt(all, o)) = Len(all) - 1
         /\ \A k \in 1..(Len(all) - 1) : RemoveAt(all, o)[k] = IF k < o THEN all[k] ELSE all[k + 1]
<1> DEFINE a == SubSeq(all, 1, o - 1)
           b == SubSeq(all, o + 1, Len(all))
<1>1. Len(all) \in Nat /\ o \in Nat /\ o >= 1 /\ o <= Len(all)
  BY LenProperties
<1>2. a \in Seq(S) /\ Len(a) = o - 1 /\ \A k \in 1..(o - 1) : a[k] = all[k]
  <2>1. \A i \in 1..(o - 1) : all[i] \in S
    BY <1>1, ElementOfSeq
  <2>2. o - 1 \in Int /\ 1 \in Int /\ o - 1 - 1 + 1 = o - 1
    BY <1>1
  <2>3. a \in Seq(S) /\ Len(a) = (IF 1 <= o - 1 THEN o - 1 - 1 + 1 ELSE 0)
        /\ \A k \in 1..(o - 1 - 1 + 1) : a[k] = all[1 + k - 1]
    BY <2>1, <2>2, SubSeqProperties
  <2>4. \A k \in 1..(o - 1) : 1 + k - 1 = k
    OBVIOUS
  <2>. HIDE DEF a
  <2>. QED
    BY <1>1, <2>2, <2>3, <2>4
<1>3. b \in Seq(S) /\ Len(b) = Len(all) - o /\ \A k \in 1..(Len(all) - o) : b[k] = all[k + o]
  <2>1. \A i \in (o + 1)..Len(all) : all[i] \in S
    BY <1>1, ElementOfSeq
  <2>2. o + 1 \in Int /\ Len(all) \in Int /\ Len(all) - (o + 1) + 1 = Len(all) - o
    BY <1>1
  <2>3. b \in Seq(S) /\ Len(b) = (IF o + 1 <= Len(all) THEN Len(all) - (o + 1) + 1 ELSE 0)
        /\ \A k \in 1..(Len(all) - (o + 1) + 1) : b[k] = all[o + 1 + k - 1]
    BY <2>1, <2>2, SubSeqProperties
  <2>. HIDE DEF b
  <2>4. ASSUME NEW k \in 1..(Len(all) - o) PROVE b[k] = all[k + o]
    <3>1. o + 1 + k - 1 = k + o /\ k \in 1..(Len(all) - (o + 1) + 1)
      BY <1>1
    <3>2. b[k] = all[o + 1 + k - 1]
      BY <2>3, <3>1
    <3>. QED
      BY <3>1, <3>2
  <2>5. Len(b) = Len(all) - o
    <3>1. (IF o + 1 <= Len(all) THEN Len(all) - (o + 1) + 1 ELSE 0) = Len(all) - o
      BY <1>1
    <3>. QED
      BY <2>3, <3>1
  <2>. QED
    BY <2>3, <2>4, <2>5
<1>. HIDE DEF a, b
<1>4. /\ a \o b \in Seq(S) /\ Len(a \o b) = Len(all) - 1
      /\ \A k \in 1..(Len(all) - 1) : (a \o b)[k] = IF k <= o - 1 THEN a[k] ELSE b[k - (o - 1)]
  <2>1. /\ a \o b \in Seq(S) /\ Len(a \o b) = Len(a) + Len(b)
        /\ \A k \in 1..(Len(a) + Len(b)) : (a \o b)[k] = IF k <= Len(a) THEN a[k] ELSE b[k - Len(a)]
    BY <1>2, <1>3, ConcatProperties
  <2>2. Len(a) + Len(b) = Len(all) - 1
    BY <1>1, <1>2, <1>3
  <2>. QED
    BY <1>2, <2>1, <2>2
<1>5. ASSUME NEW k \in 1..(Len(all) - 1)
      PROVE  (a \o b)[k] = IF k < o THEN all[k] ELSE all[k + 1]
  <2>1. CASE k < o
    <3>1. k \in 1..(o - 1) /\ k <= o - 1
      BY <1>1, <2>1
    <3>. QED
      BY <1>2, <1>4, <2>1, <3>1
  <2>2. CASE ~(k < o)
    <3>1. k - (o - 1) \in 1..(Len(all) - o) /\ ~(k <= o - 1) /\ (k - (o - 1)) + o = k + 1
      BY <1>1, <2>2
    <3>. QED
      BY <1>3, <1>4, <2>2, <3>1
  <2>. QED
    BY <2>1, <2>2
<1>6. RemoveAt(all, o) = a \o b
  BY DEF RemoveAt, a, b
<1>. QED
  BY <1>4, <1>5, <1>6

\* A command that is recorded is the last one, and at most one older one goes.
LEMMA RetainedIs ==
  ASSUME NEW ec \in Seq(Commands), NEW cmd \in Commands
  PROVE  LET all == Append(ec, cmd)
             new == Retained(cmd.by, all)
         IN \/ new = all /\ Cardinality(Own(cmd.by, all)) <= MaxRetained
            \/ \E o \in Own(cmd.by, all) :
                 /\ Cardinality(Own(cmd.by, all)) > MaxRetained
                 /\ new = RemoveAt(all, o)
<1> DEFINE all == Append(ec, cmd)
           own == Own(cmd.by, all)
           oldest == CHOOSE i \in own : \A j \in own : i <= j
<1>1. all \in Seq(Commands) /\ Len(all) = Len(ec) + 1 /\ DOMAIN all = 1..(Len(ec) + 1)
      /\ all[Len(ec) + 1] = cmd /\ Len(ec) \in Nat
  BY AppendProperties, LenProperties
<1>2. Len(ec) + 1 \in own
  BY <1>1 DEF Own
<1>3. own \in SUBSET Nat /\ IsFiniteSet(own)
  <2>1. own \in SUBSET (1..(Len(ec) + 1))
    BY <1>1 DEF Own
  <2>2. IsFiniteSet(1..(Len(ec) + 1))
    BY <1>1, FS_Interval
  <2>. HIDE DEF own, all
  <2>3. IsFiniteSet(own)
    BY <2>1, <2>2, FS_Subset
  <2>4. own \in SUBSET Nat
    BY <1>1, <2>1
  <2>. QED
    BY <2>3, <2>4
<1>4. Retained(cmd.by, all) = IF Cardinality(own) > MaxRetained THEN RemoveAt(all, oldest) ELSE all
  BY Zenon DEF Retained, Own
<1>. HIDE DEF all, own
<1>5. oldest \in own
  BY <1>2, <1>3, LeastNat
<1>6. Cardinality(own) \in Nat /\ MaxRetained \in Nat
  BY <1>3, FS_CardinalityType, EditingBoundsAssumption
<1>. HIDE DEF oldest
<1>7. CASE Cardinality(own) > MaxRetained
  BY <1>4, <1>5, <1>7 DEF all, own
<1>8. CASE ~(Cardinality(own) > MaxRetained)
  <2>1. Cardinality(own) <= MaxRetained
    BY <1>6, <1>8
  <2>. QED
    BY <1>4, <1>8, <2>1 DEF all, own
<1>. QED
  BY <1>7, <1>8

\* The history stays a sequence of commands within its limit for every user.
LEMMA RetainedKeeps ==
  ASSUME NEW ec \in Seq(Commands), NEW cmd \in Commands,
         \A u \in Editors : Cardinality(Own(u, ec)) <= MaxRetained
  PROVE  LET all == Append(ec, cmd)
             new == Retained(cmd.by, all)
         IN /\ new \in Seq(Commands)
            /\ \A u \in Editors : Cardinality(Own(u, new)) <= MaxRetained
            /\ \A k \in DOMAIN new : new[k] = cmd \/ \E j \in DOMAIN ec : new[k] = ec[j]
<1> DEFINE all == Append(ec, cmd)
           new == Retained(cmd.by, all)
           n == Len(ec)
<1>1. /\ all \in Seq(Commands) /\ Len(all) = n + 1 /\ DOMAIN all = 1..(n + 1)
      /\ all[n + 1] = cmd /\ n \in Nat
      /\ DOMAIN ec = 1..n /\ \A i \in 1..n : all[i] = ec[i]
  BY AppendProperties, LenProperties
<1>2. \A k \in DOMAIN all : all[k] = cmd \/ \E j \in DOMAIN ec : all[k] = ec[j]
  BY <1>1
<1>3. cmd.by \in Editors
  BY CommandFields
<1>4. MaxRetained \in Nat
  BY EditingBoundsAssumption
<1>5. \A s \in Seq(Commands) : \A u : IsFiniteSet(Own(u, s)) /\ Cardinality(Own(u, s)) \in Nat
  <2> TAKE s \in Seq(Commands)
  <2> TAKE u
  <2>1. DOMAIN s = 1..Len(s) /\ Len(s) \in Nat
    BY LenProperties
  <2>2. IsFiniteSet(1..Len(s)) /\ Own(u, s) \in SUBSET (1..Len(s))
    BY <2>1, FS_Interval DEF Own
  <2>. QED
    BY <2>2, FS_Subset, FS_CardinalityType
<1>6. /\ \A u : u # cmd.by => Own(u, all) = Own(u, ec)
      /\ Own(cmd.by, all) = Own(cmd.by, ec) \cup {n + 1} /\ n + 1 \notin Own(cmd.by, ec)
  BY <1>1 DEF Own
<1>. HIDE DEF all, n
<1>7. Cardinality(Own(cmd.by, all)) = Cardinality(Own(cmd.by, ec)) + 1
  BY <1>5, <1>6, FS_AddElement
<1>8. CASE new = all /\ Cardinality(Own(cmd.by, all)) <= MaxRetained
  <2>1. \A u \in Editors : Cardinality(Own(u, all)) <= MaxRetained
    BY <1>6, <1>8
  <2>. HIDE DEF new
  <2>. QED
    BY <1>1, <1>2, <1>8, <2>1 DEF new, all
<1>9. ASSUME NEW o \in Own(cmd.by, all), new = RemoveAt(all, o)
      PROVE  /\ new \in Seq(Commands)
             /\ \A u \in Editors : Cardinality(Own(u, new)) <= MaxRetained
             /\ \A k \in DOMAIN new : new[k] = cmd \/ \E j \in DOMAIN ec : new[k] = ec[j]
  <2>1. o \in 1..(n + 1)
    BY <1>1 DEF Own
  <2>2. /\ new \in Seq(Commands) /\ Len(new) = n
        /\ \A k \in 1..n : new[k] = IF k < o THEN all[k] ELSE all[k + 1]
    <3>1. Len(all) - 1 = n /\ o \in 1..Len(all)
      BY <1>1, <2>1
    <3>2. /\ RemoveAt(all, o) \in Seq(Commands) /\ Len(RemoveAt(all, o)) = Len(all) - 1
          /\ \A k \in 1..(Len(all) - 1) : RemoveAt(all, o)[k] = IF k < o THEN all[k] ELSE all[k + 1]
      BY <1>1, <3>1, RemoveAtIs
    <3>. HIDE DEF new
    <3>. QED
      BY <1>9, <3>1, <3>2
  <2>. HIDE DEF new
  <2>3. DOMAIN new = 1..n
    BY <2>2, LenProperties
  <2> DEFINE at_(k) == IF k < o THEN k ELSE k + 1
  <2>4. \A k \in 1..n : at_(k) \in 1..(n + 1) /\ at_(k) # o /\ new[k] = all[at_(k)]
    BY <1>1, <2>1, <2>2
  <2>5. \A k, l \in 1..n : k # l => at_(k) # at_(l)
    BY <1>1, <2>1
  <2>. HIDE DEF at_
  <2>6. \A k \in DOMAIN new : new[k] = cmd \/ \E j \in DOMAIN ec : new[k] = ec[j]
    BY <1>1, <1>2, <2>3, <2>4
  <2>7. ASSUME NEW u \in Editors PROVE Cardinality(Own(u, new)) <= Cardinality(Own(u, all) \ {o})
    <3> DEFINE h == [k \in Own(u, new) |-> at_(k)]
    <3>1. \A k \in Own(u, new) : k \in 1..n /\ at_(k) \in Own(u, all) \ {o}
      BY <1>1, <2>3, <2>4 DEF Own
    <3>2. h \in Injection(Own(u, new), Own(u, all) \ {o})
      BY <2>5, <3>1 DEF Injection, IsInjective
    <3>3. IsFiniteSet(Own(u, all) \ {o})
      BY <1>1, <1>5, FS_RemoveElement
    <3>. HIDE DEF h
    <3>. QED
      BY <3>2, <3>3, FS_Injection
  <2>8. ASSUME NEW u \in Editors PROVE Cardinality(Own(u, new)) <= MaxRetained
    <3>1. Cardinality(Own(u, new)) \in Nat /\ Cardinality(Own(u, ec)) \in Nat /\ Cardinality(Own(u, ec)) <= MaxRetained
      BY <1>5, <2>2
    <3>2. Cardinality(Own(u, all) \ {o}) <= Cardinality(Own(u, ec))
      <4>1. CASE u = cmd.by
        <5>1. Cardinality(Own(u, all) \ {o}) = Cardinality(Own(u, all)) - 1
          BY <1>1, <1>5, <4>1, FS_RemoveElement
        <5>. QED
          BY <1>7, <3>1, <4>1, <5>1
      <4>2. CASE u # cmd.by
        BY <1>1, <1>5, <1>6, <4>2, FS_Subset
      <4>. QED
        BY <4>1, <4>2
    <3>3. Cardinality(Own(u, all) \ {o}) \in Nat
      BY <1>1, <1>5, FS_RemoveElement, FS_CardinalityType
    <3>. QED
      BY <1>4, <2>7, <3>1, <3>2, <3>3
  <2>. QED
    BY <2>2, <2>6, <2>8
<1>10. \/ new = all /\ Cardinality(Own(cmd.by, all)) <= MaxRetained
       \/ \E o \in Own(cmd.by, all) : new = RemoveAt(all, o)
  BY RetainedIs DEF all
<1>. QED
  BY <1>8, <1>9, <1>10 DEF all

-----------------------------------------------------------------------------
(* A command.                                                              *)

\* A list of ids is numbered by places.
LEMMA PlacedTyped ==
  ASSUME NEW ids, DOMAIN ids \subseteq Nat \ {0}
  PROVE  Placed(ids) \in Positions /\ \A i \in EntryIds : Placed(ids)[i] # Absent => \E n \in DOMAIN ids : ids[n] = i
<1>1. \A i \in EntryIds : (\E n \in DOMAIN ids : ids[n] = i) =>
        (CHOOSE n \in DOMAIN ids : ids[n] = i) \in Nat \ {0}
  OBVIOUS
<1>2. \A i \in EntryIds : (\E n \in DOMAIN ids : ids[n] = i) =>
        (CHOOSE n \in DOMAIN ids : ids[n] = i) - 1 \in Nat
  BY <1>1
<1>. QED
  BY <1>2 DEF Placed, Positions, Absent

LEMMA EditNumbers ==
  /\ MaxEntries \in Nat /\ MaxRetained \in Nat /\ MaxEdits \in Nat /\ MaxTime \in Nat
  /\ Tracks \in Nat \ {0} /\ Retention \in Nat \ {0}
BY EditingBoundsAssumption

LEMMA EditingInitially == EditingInit => EditInv
<1> SUFFICES ASSUME EditingInit PROVE EditInv
  OBVIOUS
<1>1. PICK order \in InitialOrders : entry = Placed(order) /\ used = ToSet(order)
  BY DEF EditingInit
<1>2. order \in Seq(EntryIds)
  BY EditingBoundsAssumption
<1>3. DOMAIN order \subseteq Nat \ {0} /\ \A n \in DOMAIN order : order[n] \in EntryIds
  BY <1>2, LenProperties
<1>4. entry \in [EntryIds -> {Absent} \cup Nat] /\ used \subseteq EntryIds
      /\ \A i \in EntryIds \ used : entry[i] = Absent
  BY <1>1, <1>3, PlacedTyped DEF Positions, ToSet
<1>5. \A u \in Editors : Cardinality(Own(u, editCommands)) <= MaxRetained
  <2>1. \A u : Own(u, <<>>) = {}
    BY DEF Own
  <2>2. editCommands = <<>> /\ Cardinality({}) = 0 /\ MaxRetained \in Nat
    BY FS_EmptySet, EditNumbers DEF EditingInit
  <2>3. 0 <= MaxRetained
    BY <2>2
  <2>. QED
    BY <2>1, <2>2, <2>3, Zenon
<1>6. EditingTypeOK
  BY <1>4, <1>5, EditingBoundsAssumption DEF EditingInit, EditingTypeOK, NoRoute, Own
<1>. QED
  BY <1>6, EmptySeq DEF EditInv, EditingInit, RouteHolds, NoRoute

\* A snapshot that the playlist becomes.
LEMMA BecomesTyped ==
  ASSUME NEW s \in EditSnapshots, Becomes(s)
  PROVE  /\ Snapshot' = s /\ entry' \in [EntryIds -> {Absent} \cup Nat]
         /\ details' \in 0..MaxEdits /\ deleted' \in {Live, Purged} \cup 0..MaxTime
<1>1. /\ s.entry \in Positions /\ s.details \in 0..MaxEdits /\ s.deleted \in {Live} \cup 0..MaxTime
      /\ s = [entry |-> s.entry, details |-> s.details, deleted |-> s.deleted]
  BY SnapshotFields
<1>2. entry' = s.entry /\ details' = s.details /\ deleted' = s.deleted
  BY DEF Becomes
<1>. QED
  BY <1>1, <1>2 DEF Snapshot, Positions

LEMMA ReversibleStays ==
  ASSUME NEW c, NEW U, NEW V, U \subseteq V, Reversible(c, U) PROVE Reversible(c, V)
BY DEF Reversible, InsertsUsed

\* The rest of the type invariant.
HistoryOK ==
  \A i \in DOMAIN editCommands :
    /\ editCommands[i].by \in Editors /\ editCommands[i].is \in {"done", "undone"}
    /\ editCommands[i].before \in EditSnapshots /\ editCommands[i].after \in EditSnapshots

LEMMA HistoryFields == editCommands \in Seq(Commands) => HistoryOK
<1> SUFFICES ASSUME editCommands \in Seq(Commands), NEW i \in DOMAIN editCommands
             PROVE  editCommands[i] \in Commands
  BY CommandFields DEF HistoryOK
<1>. QED
  BY LenProperties

\* A command of u becomes the last one of the history.
Records(u) ==
  \E cmd \in Commands :
    /\ cmd.by = u /\ cmd.is = "done" /\ cmd.after = Snapshot'
    /\ editCommands' = Retained(u, Append(editCommands, cmd))

LEMMA CommandStep ==
  ASSUME EditInv, NEW u \in Editors, NEW forward \in Deltas, NEW inverse \in Deltas,
         Command(u, forward, inverse), used \subseteq used', used' \subseteq EntryIds,
         InsertsUsed(forward, used'), InsertsUsed(inverse, used'),
         Compact(entry) => ApplyDelta(inverse, ApplyDelta(forward, Snapshot)) = Snapshot
  PROVE  EditInv' /\ Records(u)
<1> DEFINE next == ApplyDelta(forward, Snapshot)
           cmd == [by |-> u, before |-> Snapshot, after |-> next,
                   forward |-> forward, inverse |-> inverse, is |-> "done"]
<1>1. /\ Edit /\ Applies(forward, Snapshot) /\ Becomes(next)
      /\ editCommands' = Retained(u, Append(editCommands, cmd))
      /\ UNCHANGED <<route, time>>
  BY Zenon DEF Command
<1>2. EditingTypeOK /\ Snapshot \in EditSnapshots
  BY <1>1, SnapshotTyped DEF EditInv, Edit
<1>3. Snapshot.entry = entry /\ Listed(entry) \subseteq used'
  <2>1. Listed(entry) \subseteq used
    BY <1>2 DEF EditingTypeOK, Listed
  <2>. QED
    BY <2>1 DEF Snapshot
<1>4. next \in EditSnapshots /\ Listed(next.entry) \subseteq used'
  BY <1>1, <1>2, <1>3, DeltaTyped
<1>. HIDE DEF next
<1>5. cmd \in Commands /\ cmd.by = u /\ cmd.is = "done" /\ cmd.after = next
  BY <1>2, <1>4 DEF Commands
<1>6. Snapshot' = next /\ entry' = next.entry
      /\ entry' \in [EntryIds -> {Absent} \cup Nat]
      /\ details' \in 0..MaxEdits /\ deleted' \in {Live, Purged} \cup 0..MaxTime
  BY <1>1, <1>4, BecomesTyped DEF Becomes
<1>7. Reversible(cmd, used')
  BY <1>3 DEF Reversible, next
<1>. HIDE DEF cmd
<1>8. /\ editCommands \in Seq(Commands)
      /\ \A v \in Editors : Cardinality(Own(v, editCommands)) <= MaxRetained
      /\ \A i \in DOMAIN editCommands : Reversible(editCommands[i], used)
  BY DEF EditInv, EditingTypeOK, Own
<1>9. /\ editCommands' \in Seq(Commands)
      /\ \A v \in Editors : Cardinality(Own(v, editCommands')) <= MaxRetained
      /\ \A k \in DOMAIN editCommands' : editCommands'[k] = cmd \/ \E j \in DOMAIN editCommands : editCommands'[k] = editCommands[j]
  <2>1. editCommands' = Retained(cmd.by, Append(editCommands, cmd))
    BY <1>1, <1>5
  <2>. QED
    BY <1>5, <1>8, <2>1, RetainedKeeps
<1>10. \A k \in DOMAIN editCommands' : Reversible(editCommands'[k], used')
  BY <1>7, <1>8, <1>9, ReversibleStays
<1>11. EditingTypeOK'
  <2>1. \A i \in EntryIds \ used' : entry'[i] = Absent
    BY <1>4, <1>6 DEF Listed
  <2>2. HistoryOK'
    <3>1. (editCommands \in Seq(Commands))'
      BY <1>9
    <3>. QED
      BY <3>1, HistoryFields, PTL
  <2>3. edits' \in 0..MaxEdits /\ time' \in 0..MaxTime /\ route'.at \in {"none", "admitted", "append", "order"}
    BY <1>1, EditNumbers DEF Edit, EditInv, EditingTypeOK
  <2>. QED
    BY <1>6, <1>9, <2>1, <2>2, <2>3 DEF EditingTypeOK, HistoryOK, Own
<1>12. RouteHolds'
  BY <1>1 DEF EditInv, RouteHolds
<1>13. EditInv'
  BY <1>9, <1>10, <1>11, <1>12 DEF EditInv
<1>14. Records(u)
  BY <1>1, <1>5, <1>6, Zenon DEF Records, cmd
<1>. QED
  BY <1>13, <1>14

-----------------------------------------------------------------------------
(* The commands.                                                           *)

LEMMA ReorderStep == ASSUME EditInv, NEW u \in Editors, Reorder(u) PROVE EditInv' /\ Records(u)
<1>1. EditingTypeOK /\ Snapshot \in EditSnapshots /\ Snapshot.entry = entry /\ entry \in Positions
  <2>1. deleted # Purged
    BY DEF Reorder, MayEditTracks, Live, Purged
  <2>. QED
    BY <2>1, SnapshotTyped DEF EditInv, EditingTypeOK, Snapshot, Positions
<1>2. PICK ids \in SetToSeqs(Listed(entry)) :
        Command(u, [kind |-> "order", to |-> Placed(ids)], [kind |-> "order", to |-> Ranked(entry, Listed(entry))])
  BY DEF Reorder
<1>3. Placed(ids) \in Positions
  <2>1. DOMAIN ids = 1..Cardinality(Listed(entry))
    BY DEF SetToSeqs
  <2>2. DOMAIN ids \subseteq Nat \ {0}
    BY <2>1
  <2>. QED
    BY <2>2, PlacedTyped
<1>4. Ranked(entry, Listed(entry)) \in Positions
  BY <1>1, ListedEntries, RankedKeeps
<1> DEFINE f == [kind |-> "order", to |-> Placed(ids)]
           g == [kind |-> "order", to |-> Ranked(entry, Listed(entry))]
<1>5. f \in Deltas /\ g \in Deltas /\ f.kind = "order" /\ g.kind = "order"
  BY <1>3, <1>4 DEF Deltas
<1>6. Compact(entry) => ApplyDelta(g, ApplyDelta(f, Snapshot)) = Snapshot
  BY <1>1, <1>3, InversesRestore
<1>7. used' = used /\ used \subseteq EntryIds
  BY DEF Reorder, EditInv, EditingTypeOK
<1>8. Command(u, f, g)
  BY <1>2
<1>9. InsertsUsed(f, used') /\ InsertsUsed(g, used')
  BY <1>5 DEF InsertsUsed
<1>. HIDE DEF f, g
<1>. QED
  BY <1>5, <1>6, <1>7, <1>8, <1>9, CommandStep

LEMMA RemoveEntriesStep ==
  ASSUME EditInv, NEW u \in Editors, NEW ids \in SUBSET EntryIds, RemoveEntries(u, ids) PROVE EditInv' /\ Records(u)
<1>1. EditingTypeOK /\ Snapshot \in EditSnapshots /\ Snapshot.entry = entry /\ entry \in Positions
  <2>1. deleted # Purged
    BY DEF RemoveEntries, MayEditTracks, Live, Purged
  <2>. QED
    BY <2>1, SnapshotTyped DEF EditInv, EditingTypeOK, Snapshot, Positions
<1>2. ids \in SUBSET Listed(entry) /\ \A i \in ids : entry[i] \in Nat
  BY <1>1, ListedEntries DEF RemoveEntries
<1> DEFINE f == [kind |-> "remove", ids |-> ids]
           g == [kind |-> "insert", at |-> [i \in ids |-> entry[i]]]
<1>3. f \in Deltas /\ f.kind = "remove"
  BY DEF Deltas
<1>4. g \in Deltas /\ g.kind = "insert" /\ DOMAIN g.at = ids
  <2> DEFINE h == [i \in ids |-> entry[i]]
  <2>1. h \in [ids -> Nat] /\ DOMAIN h = ids
    BY <1>2
  <2>2. [ids -> Nat] \in {[D -> Nat] : D \in SUBSET EntryIds}
    OBVIOUS
  <2>3. h \in UNION {[D -> Nat] : D \in SUBSET EntryIds}
    BY <2>1, <2>2, Zenon
  <2>. HIDE DEF h
  <2>4. [kind |-> "insert", at |-> h] \in Deltas
    BY <2>3 DEF Deltas
  <2>5. g = [kind |-> "insert", at |-> h]
    BY DEF h
  <2>. QED
    BY <2>1, <2>4, <2>5
<1>6. Compact(entry) => ApplyDelta(g, ApplyDelta(f, Snapshot)) = Snapshot
  BY <1>1, <1>2, InversesRestore
<1>7. used' = used /\ used \subseteq EntryIds
  BY DEF RemoveEntries, EditInv, EditingTypeOK
<1>8. Command(u, f, g)
  BY Zenon DEF RemoveEntries
<1>9. InsertsUsed(f, used') /\ InsertsUsed(g, used')
  BY <1>1, <1>2, <1>3, <1>4, <1>7 DEF InsertsUsed, EditingTypeOK, Listed
<1>. HIDE DEF f, g
<1>. QED
  BY <1>3, <1>4, <1>6, <1>7, <1>8, <1>9, CommandStep

LEMMA AddStep ==
  ASSUME EditInv, NEW u \in Editors, NEW ids \in SUBSET EntryIds, Add(u, ids) PROVE EditInv' /\ Records(u)
<1>1. EditingTypeOK /\ Snapshot \in EditSnapshots /\ Snapshot.entry = entry /\ entry \in Positions
  <2>1. deleted # Purged
    BY DEF Add, MayEditTracks, Live, Purged
  <2>. QED
    BY <2>1, SnapshotTyped DEF EditInv, EditingTypeOK, Snapshot, Positions
<1> DEFINE size == Cardinality(Listed(entry))
<1>2. PICK order \in SetToSeqs(ids) :
        LET ins == [i \in ids |-> size + (CHOOSE n \in DOMAIN order : order[n] = i) - 1]
        IN Command(u, [kind |-> "insert", at |-> ins], [kind |-> "remove", ids |-> ids])
  BY Zenon DEF Add
<1> DEFINE ins == [i \in ids |-> size + (CHOOSE n \in DOMAIN order : order[n] = i) - 1]
           f == [kind |-> "insert", at |-> ins]
           g == [kind |-> "remove", ids |-> ids]
<1>3. ids \in SUBSET (EntryIds \ Listed(entry))
  BY <1>1 DEF Add, EditingTypeOK, Listed
<1>4. size \in Nat
  BY <1>1, ListedEntries
<1>5. ASSUME NEW i \in ids PROVE \E n \in DOMAIN order : order[n] = i
  <2> DEFINE D == 1..Cardinality(ids)
  <2>1. order \in [D -> ids] /\ \A k, l \in D : k # l => order[k] # order[l]
    BY Zenon DEF SetToSeqs
  <2>2. IsFiniteSet(ids) /\ Cardinality(ids) \in Nat /\ IsFiniteSet(D) /\ Cardinality(D) = Cardinality(ids)
    <3>1. IsFiniteSet(ids) /\ Cardinality(ids) \in Nat
      BY EntriesFinite
    <3>. QED
      BY <3>1, FS_Interval
  <2>. HIDE DEF D
  <2>3. order \in Injection(D, ids)
    BY <2>1, Zenon DEF Injection, IsInjective
  <2>4. order \in Surjection(D, ids)
    BY <2>2, <2>3, FS_Injection
  <2>. QED
    BY <2>4, <2>1 DEF Surjection
<1>6. ASSUME NEW i \in ids PROVE ins[i] \in Nat /\ ins[i] >= size
  <2>1. (CHOOSE n \in DOMAIN order : order[n] = i) \in DOMAIN order
    BY <1>5
  <2>2. DOMAIN order = 1..Cardinality(ids)
    BY DEF SetToSeqs
  <2>5. 1..Cardinality(ids) \subseteq Nat \ {0}
    OBVIOUS
  <2>3. (CHOOSE n \in DOMAIN order : order[n] = i) \in Nat \ {0}
    BY <2>1, <2>2, <2>5, Zenon
  <2>4. ins[i] = size + (CHOOSE n \in DOMAIN order : order[n] = i) - 1
    OBVIOUS
  <2>. HIDE DEF size, ins
  <2>. QED
    BY <1>4, <2>3, <2>4
<1>7. ins \in [ids -> Nat] /\ DOMAIN ins = ids
  <2>. HIDE DEF size
  <2>. QED
    BY <1>6
<1>8. Command(u, f, g)
  BY <1>2, Zenon
<1>. HIDE DEF ins
<1>9. f \in Deltas /\ f.kind = "insert" /\ DOMAIN f.at = ids
  <2>2. [ids -> Nat] \in {[D -> Nat] : D \in SUBSET EntryIds}
    OBVIOUS
  <2>3. ins \in UNION {[D -> Nat] : D \in SUBSET EntryIds}
    BY <1>7, <2>2, Zenon
  <2>. QED
    BY <1>7, <2>3 DEF Deltas
<1>10. g \in Deltas /\ g.kind = "remove"
  BY DEF Deltas
<1>11. Compact(entry) => ApplyDelta(g, ApplyDelta(f, Snapshot)) = Snapshot
  BY <1>1, <1>3, <1>6, <1>7, InversesRestore
<1>12. used' = used \cup ids /\ used \subseteq EntryIds /\ used' \subseteq EntryIds /\ used \subseteq used'
  BY DEF Add, EditInv, EditingTypeOK
<1>13. InsertsUsed(f, used') /\ InsertsUsed(g, used')
  BY <1>9, <1>10, <1>12 DEF InsertsUsed
<1>. HIDE DEF f, g
<1>. QED
  BY <1>8, <1>9, <1>10, <1>11, <1>12, <1>13, CommandStep

LEMMA DetailsPutBack ==
  ASSUME NEW s \in EditSnapshots
  PROVE  /\ \A d : ApplyDelta([kind |-> "details", to |-> s.details],
                             ApplyDelta([kind |-> "details", to |-> d], s)) = s
         /\ \A t : ApplyDelta([kind |-> "trash", to |-> s.deleted],
                             ApplyDelta([kind |-> "trash", to |-> t], s)) = s
<1>1. s = [entry |-> s.entry, details |-> s.details, deleted |-> s.deleted]
  BY SnapshotFields
<1>2. ASSUME NEW v, NEW d
      PROVE  ApplyDelta([kind |-> "details", to |-> v], ApplyDelta([kind |-> "details", to |-> d], s))
               = [[s EXCEPT !.details = d] EXCEPT !.details = v]
  <2>1. ApplyDelta([kind |-> "details", to |-> d], s) = [s EXCEPT !.details = d]
    BY DEF ApplyDelta
  <2> DEFINE t == [s EXCEPT !.details = d]
  <2>2. ApplyDelta([kind |-> "details", to |-> v], t) = [t EXCEPT !.details = v]
    BY DEF ApplyDelta
  <2>. QED
    BY <2>1, <2>2, Zenon
<1>3. ASSUME NEW v, NEW d
      PROVE  ApplyDelta([kind |-> "trash", to |-> v], ApplyDelta([kind |-> "trash", to |-> d], s))
               = [[s EXCEPT !.deleted = d] EXCEPT !.deleted = v]
  <2>1. ApplyDelta([kind |-> "trash", to |-> d], s) = [s EXCEPT !.deleted = d]
    BY DEF ApplyDelta
  <2> DEFINE t == [s EXCEPT !.deleted = d]
  <2>2. ApplyDelta([kind |-> "trash", to |-> v], t) = [t EXCEPT !.deleted = v]
    BY DEF ApplyDelta
  <2>. QED
    BY <2>1, <2>2, Zenon
<1>4. \A d : [[s EXCEPT !.details = d] EXCEPT !.details = s.details] = s
           /\ [[s EXCEPT !.deleted = d] EXCEPT !.deleted = s.deleted] = s
  BY <1>1
<1>. QED
  BY <1>2, <1>3, <1>4, Zenon

\* The commands that leave the entries alone.
LEMMA OtherCommandsStep ==
  ASSUME EditInv, NEW u \in Editors, Details(u) \/ Trash(u) \/ Restore(u) PROVE EditInv' /\ Records(u)
<1>1. EditingTypeOK /\ used' = used /\ used \subseteq EntryIds
  BY DEF EditInv, EditingTypeOK, Details, Trash, Restore
<1>2. deleted # Purged /\ Edit
  BY DEF Details, Trash, Restore, Command, Edit
<1>3. Snapshot \in EditSnapshots /\ edits + 1 \in 0..MaxEdits /\ details \in 0..MaxEdits
      /\ deleted \in {Live} \cup 0..MaxTime /\ time \in {Live} \cup 0..MaxTime
  BY <1>1, <1>2, SnapshotTyped, EditNumbers DEF EditingTypeOK, Edit
<1>4. /\ Snapshot.details = details /\ Snapshot.deleted = deleted
      /\ Snapshot = [entry |-> entry, details |-> details, deleted |-> deleted]
  BY DEF Snapshot
<1>5. CASE Details(u)
  <2> DEFINE f == [kind |-> "details", to |-> edits + 1]
             g == [kind |-> "details", to |-> details]
  <2>1. f \in Deltas /\ g \in Deltas /\ f.kind = "details" /\ g.kind = "details"
    BY <1>3 DEF Deltas
  <2>2. Command(u, f, g)
    BY <1>5, Zenon DEF Details
  <2>3. ApplyDelta(g, ApplyDelta(f, Snapshot)) = Snapshot
    BY <1>3, <1>4, DetailsPutBack
  <2>4. InsertsUsed(f, used') /\ InsertsUsed(g, used')
    BY <2>1 DEF InsertsUsed
  <2>. HIDE DEF f, g
  <2>. QED
    BY <1>1, <2>1, <2>2, <2>3, <2>4, CommandStep
<1>6. CASE Trash(u) \/ Restore(u)
  <2>1. PICK t \in {Live} \cup 0..MaxTime, r \in {Live} \cup 0..MaxTime :
          r = deleted /\ Command(u, [kind |-> "trash", to |-> t], [kind |-> "trash", to |-> r])
    <3>1. CASE Trash(u)
      <4>1. deleted = Live /\ Command(u, [kind |-> "trash", to |-> time], [kind |-> "trash", to |-> Live])
        BY <3>1, Zenon DEF Trash
      <4>. QED
        BY <1>3, <4>1
    <3>2. CASE Restore(u)
      <4>1. Command(u, [kind |-> "trash", to |-> Live], [kind |-> "trash", to |-> deleted])
        BY <3>2, Zenon DEF Restore
      <4>. QED
        BY <1>3, <4>1
    <3>. QED
      BY <1>6, <3>1, <3>2
  <2> DEFINE f == [kind |-> "trash", to |-> t]
             g == [kind |-> "trash", to |-> r]
  <2>2. f \in Deltas /\ g \in Deltas /\ f.kind = "trash" /\ g.kind = "trash"
    BY DEF Deltas
  <2>3. Command(u, f, g)
    BY <2>1
  <2>4. ApplyDelta(g, ApplyDelta(f, Snapshot)) = Snapshot
    BY <1>3, <1>4, <2>1, DetailsPutBack
  <2>5. InsertsUsed(f, used') /\ InsertsUsed(g, used')
    BY <2>2 DEF InsertsUsed
  <2>. HIDE DEF f, g
  <2>. QED
    BY <1>1, <2>2, <2>3, <2>4, <2>5, CommandStep
<1>. QED
  BY <1>5, <1>6

-----------------------------------------------------------------------------
(* Undo and redo, and the older routes.                                    *)

\* What an undo or a redo does.
LEMMA ReverseStep ==
  ASSUME EditInv, NEW c \in DOMAIN editCommands, Undo(c) \/ Redo(c)
  PROVE  /\ EditInv'
         /\ \E w \in {"done", "undone"} :
              /\ editCommands' = [editCommands EXCEPT ![c].is = w]
              /\ w = "undone" => Snapshot' = ApplyDelta(editCommands[c].inverse, editCommands[c].after)
              /\ w = "done" => Snapshot' = ApplyDelta(editCommands[c].forward, editCommands[c].before)
<1> DEFINE e == editCommands[c]
<1>1. PICK expected \in {e.before, e.after}, delta \in {e.forward, e.inverse}, w \in {"done", "undone"} :
        /\ Reverts(c, expected, delta, w)
        /\ w = "undone" => expected = e.after /\ delta = e.inverse
        /\ w = "done" => expected = e.before /\ delta = e.forward
  BY Zenon DEF Undo, Redo
<1>2. /\ editCommands \in Seq(Commands) /\ EditingTypeOK
      /\ \A i \in DOMAIN editCommands : Reversible(editCommands[i], used)
  BY DEF EditInv
<1>3. e \in Commands /\ Len(editCommands) \in Nat /\ DOMAIN editCommands = 1..Len(editCommands)
  BY <1>2, LenProperties
<1>4. delta \in Deltas /\ InsertsUsed(delta, used)
  <2>1. Reversible(e, used)
    BY <1>2
  <2>2. e.forward \in Deltas /\ e.inverse \in Deltas
    BY <1>3, CommandFields
  <2>. HIDE DEF e
  <2>. QED
    BY <2>1, <2>2 DEF Reversible
<1> DEFINE next == ApplyDelta(delta, expected)
<1>5. /\ Edit /\ Snapshot = expected /\ Applies(delta, expected) /\ Becomes(next)
      /\ editCommands' = [editCommands EXCEPT ![c].is = w]
      /\ UNCHANGED <<used, route, time>>
  BY <1>1, Zenon DEF Reverts
<1>6. Snapshot \in EditSnapshots /\ Snapshot.entry = entry /\ Listed(entry) \subseteq used
  <2>1. deleted # Purged
    BY <1>5 DEF Edit
  <2>. QED
    BY <1>2, <2>1, SnapshotTyped DEF Snapshot, EditingTypeOK, Listed
<1>7. next \in EditSnapshots /\ Listed(next.entry) \subseteq used
  BY <1>4, <1>5, <1>6, DeltaTyped
<1>. HIDE DEF next
<1>8. /\ Snapshot' = next /\ entry' = next.entry
      /\ entry' \in [EntryIds -> {Absent} \cup Nat]
      /\ details' \in 0..MaxEdits /\ deleted' \in {Live, Purged} \cup 0..MaxTime
  BY <1>5, <1>7, BecomesTyped DEF Becomes
<1> DEFINE r == [e EXCEPT !.is = w]
<1>9. /\ r \in Commands /\ r.by = e.by /\ r.before = e.before /\ r.after = e.after
      /\ r.forward = e.forward /\ r.inverse = e.inverse
  <2>. HIDE DEF e
  <2>. QED
    BY <1>3 DEF Commands
<1>10. editCommands' = [editCommands EXCEPT ![c] = r]
  BY <1>5
<1>. HIDE DEF r
<1>11. /\ editCommands' \in Seq(Commands) /\ DOMAIN editCommands' = DOMAIN editCommands
       /\ \A i \in DOMAIN editCommands : editCommands'[i] = IF i = c THEN r ELSE editCommands[i]
  <2>1. c \in 1..Len(editCommands)
    BY <1>3
  <2>2. editCommands' \in Seq(Commands)
    BY <1>2, <1>9, <1>10, <2>1, ExceptSeq
  <2>. QED
    BY <1>3, <1>10, <2>2
<1>12. \A i \in DOMAIN editCommands' : Reversible(editCommands'[i], used') /\ editCommands'[i].by = editCommands[i].by
  <2> TAKE i \in DOMAIN editCommands'
  <2>1. CASE i = c
    <3>1. Reversible(e, used)
      BY <1>2
    <3>2. Reversible(r, used)
      BY <1>9, <3>1 DEF Reversible
    <3>. QED
      BY <1>5, <1>9, <1>11, <2>1, <3>2
  <2>2. CASE i # c
    BY <1>2, <1>5, <1>11, <2>2
  <2>. QED
    BY <2>1, <2>2
<1>13. \A u : Own(u, editCommands') = Own(u, editCommands)
  BY <1>11, <1>12 DEF Own
<1>14. EditingTypeOK'
  <2>1. \A i \in EntryIds \ used' : entry'[i] = Absent
    BY <1>5, <1>7, <1>8 DEF Listed
  <2>2. HistoryOK'
    <3>1. (editCommands \in Seq(Commands))'
      BY <1>11
    <3>. QED
      BY <3>1, HistoryFields, PTL
  <2>3. /\ edits' \in 0..MaxEdits /\ time' \in 0..MaxTime
        /\ route'.at \in {"none", "admitted", "append", "order"} /\ used' \subseteq EntryIds
    BY <1>2, <1>5, EditNumbers DEF Edit, EditingTypeOK
  <2>4. \A u \in Editors : Cardinality(Own(u, editCommands')) <= MaxRetained
    BY <1>2, <1>13 DEF EditingTypeOK, Own
  <2>. QED
    BY <1>8, <2>1, <2>2, <2>3, <2>4 DEF EditingTypeOK, HistoryOK, Own
<1>15. RouteHolds'
  BY <1>5 DEF EditInv, RouteHolds
<1>16. EditInv'
  BY <1>11, <1>12, <1>14, <1>15 DEF EditInv
<1>. QED
  BY <1>1, <1>5, <1>8, <1>16 DEF next

\* What changes neither the history nor its ids.
LEMMA HistoryStays ==
  ASSUME EditInv, editCommands' = editCommands, used \subseteq used', used' \subseteq EntryIds,
         entry' \in Positions, \A i \in EntryIds \ used' : entry'[i] = Absent,
         details' \in 0..MaxEdits, deleted' \in {Live, Purged} \cup 0..MaxTime,
         route'.at \in {"none", "admitted", "append", "order"}, RouteHolds',
         edits' \in 0..MaxEdits, time' \in 0..MaxTime
  PROVE  EditInv'
<1>1. EditingTypeOK'
  BY DEF EditInv, EditingTypeOK, Positions
<1>2. \A i \in DOMAIN editCommands' : Reversible(editCommands'[i], used')
  BY ReversibleStays DEF EditInv
<1>. QED
  BY <1>1, <1>2 DEF EditInv

\* The last position, and the one after it.
LEMMA EndOfList ==
  ASSUME NEW f \in Positions
  PROVE  Max({f[j] : j \in Listed(f)} \cup {Absent}) + 1 \in Nat
<1> DEFINE L == Listed(f)
           S == {f[j] : j \in L} \cup {Absent}
<1>1. L \in SUBSET EntryIds /\ IsFiniteSet(L) /\ L \subseteq Int /\ Cardinality(L) \in Nat
  BY ListedEntries, EntriesFinite
<1>2. \A j \in L : f[j] \in Nat
  BY ListedEntries
<1>6. \A j \in L : f[j] \in Int
  BY <1>2
<1>. HIDE DEF L
<1>3. \E x \in S : \A y \in S : x >= y
  <2>1. CASE L = {}
    BY <2>1 DEF Absent
  <2>2. CASE L # {}
    <3>1. Cardinality(L) # 0
      BY <1>1, <2>2, FS_EmptySet
    <3>2. Cardinality(L) - 1 \in 0..(Cardinality(L) - 1)
      BY <1>1, <3>1
    <3>3. PICK j \in L : Rank(f, L, j) = Cardinality(L) - 1
      <4>1. Cardinality(L) - 1 \in Ranks(f, L)
        BY <1>1, <1>6, <3>2, RanksOnto
      <4>. QED
        BY <4>1 DEF Ranks
    <3>4. ASSUME NEW k \in L PROVE f[j] >= f[k]
      <4>1. /\ Rank(f, L, k) \in Nat /\ Rank(f, L, k) < Cardinality(L)
            /\ Earlier(f, j, k) => Rank(f, L, j) < Rank(f, L, k)
            /\ Earlier(f, k, j) <=> k # j /\ ~Earlier(f, j, k)
        BY <1>1, <1>6, RanksKeepOrder
      <4>2. ~Earlier(f, j, k)
        BY <1>1, <3>3, <4>1
      <4>3. CASE k = j
        BY <1>2, <4>3
      <4>4. CASE k # j
        BY <1>2, <4>1, <4>2, <4>4 DEF Earlier
      <4>. QED
        BY <4>3, <4>4
    <3>5. f[j] \in S /\ f[j] \in Nat
      BY <1>2
    <3>6. ASSUME NEW y \in S PROVE f[j] >= y
      BY <3>4, <3>5, <3>6 DEF Absent
    <3>. QED
      BY <3>5, <3>6
  <2>. QED
    BY <2>1, <2>2
<1>4. Max(S) \in S
  <2>. HIDE DEF S
  <2>. QED
    BY <1>3, Zenon DEF Max
<1>5. \A x \in S : x + 1 \in Nat
  BY <1>2 DEF Absent
<1>. QED
  BY <1>4, <1>5 DEF L

\* The older routes, what the library loses, and the clock.
LEMMA RoutesStep ==
  ASSUME EditInv,
         \/ Admitted \/ AddTrack \/ ReorderByTracks \/ UpdateDetails \/ Tick
         \/ \E i \in EntryIds : AddTrackReads(i) \/ RemoveItem(i) \/ BatchAdd(i) \/ Vanish(i)
         \/ \E ids \in SetToSeqs(Listed(entry)) : ReorderItems(ids) \/ ReorderByTracksReads(ids)
         \/ \E ids \in SUBSET EntryIds : BatchRemove(ids)
  PROVE  EditInv' /\ editCommands' = editCommands
<1>1. /\ entry \in Positions /\ used \subseteq EntryIds /\ \A i \in EntryIds \ used : entry[i] = Absent
      /\ details \in 0..MaxEdits /\ deleted \in {Live, Purged} \cup 0..MaxTime
      /\ route.at \in {"none", "admitted", "append", "order"} /\ RouteHolds
      /\ edits \in 0..MaxEdits /\ time \in 0..MaxTime
  BY DEF EditInv, EditingTypeOK, Positions
<1>2. /\ Listed(entry) \in SUBSET EntryIds /\ Cardinality(Listed(entry)) \in Nat
      /\ \A i \in Listed(entry) : entry[i] \in Nat
      /\ Listed(entry) \subseteq used
  BY <1>1, ListedEntries DEF Listed
<1>3. Edit => edits' \in 0..MaxEdits /\ edits' = edits + 1
  BY <1>1, EditNumbers DEF Edit
<1>4. Answers => RouteHolds' /\ route'.at \in {"none", "admitted", "append", "order"}
                 /\ details' = details /\ deleted' = deleted /\ editCommands' = editCommands /\ time' = time
  BY DEF Answers, RouteHolds, NoRoute
<1>5. \A ids \in SetToSeqs(Listed(entry)) :
        /\ DOMAIN ids \subseteq Nat \ {0}
        /\ Placed(ids) \in Positions /\ \A i \in EntryIds \ used : Placed(ids)[i] = Absent
  <2> TAKE ids \in SetToSeqs(Listed(entry))
  <2>1. ids \in [1..Cardinality(Listed(entry)) -> Listed(entry)]
    BY Zenon DEF SetToSeqs
  <2>2. DOMAIN ids \subseteq Nat \ {0} /\ \A n \in DOMAIN ids : ids[n] \in Listed(entry)
    BY <2>1
  <2>. QED
    BY <1>2, <2>2, PlacedTyped
<1>6. CASE Admitted
  BY <1>1, <1>6, HistoryStays DEF Admitted, contents, RouteHolds
<1>7. CASE AddTrack
  <2>1. /\ Edit /\ Answers /\ used' = used \cup {route.id}
        /\ entry' = [entry EXCEPT ![route.id] = route.position]
        /\ route.id \in EntryIds /\ route.position \in Nat
    BY <1>1, <1>7 DEF AddTrack, RouteHolds
  <2>2. entry' \in Positions /\ \A i \in EntryIds \ used' : entry'[i] = Absent
    BY <1>1, <2>1 DEF Positions
  <2>. QED
    BY <1>1, <1>3, <1>4, <2>1, <2>2, HistoryStays
<1>8. CASE ReorderByTracks
  <2>1. /\ Edit /\ Answers /\ used' = used /\ DOMAIN route.ids \subseteq Nat \ {0}
        /\ entry' = [i \in EntryIds |-> IF entry[i] = Absent \/ Placed(route.ids)[i] = Absent
                                          THEN entry[i] ELSE Placed(route.ids)[i]]
    BY <1>1, <1>8 DEF ReorderByTracks, RouteHolds
  <2>2. Placed(route.ids) \in Positions
    BY <2>1, PlacedTyped
  <2>3. entry' \in Positions /\ \A i \in EntryIds \ used' : entry'[i] = Absent
    BY <1>1, <2>1, <2>2 DEF Positions
  <2>. QED
    BY <1>1, <1>3, <1>4, <2>1, <2>3, HistoryStays
<1>9. CASE UpdateDetails
  <2>1. /\ Edit /\ details' = edits' /\ route' = NoRoute
        /\ UNCHANGED <<entry, deleted, used, editCommands, time>>
    BY <1>3, <1>9 DEF UpdateDetails
  <2>2. RouteHolds' /\ route'.at \in {"none", "admitted", "append", "order"}
    BY <2>1 DEF RouteHolds, NoRoute
  <2>. QED
    BY <1>1, <1>3, <2>1, <2>2, HistoryStays
<1>10. CASE Tick
  <2>1. time' \in 0..MaxTime /\ UNCHANGED <<entry, details, deleted, used, editCommands, route, edits>>
    BY <1>1, <1>10, EditNumbers DEF Tick, contents
  <2>2. RouteHolds'
    BY <1>1, <2>1 DEF RouteHolds
  <2>. QED
    BY <1>1, <2>1, <2>2, HistoryStays
<1>11. ASSUME NEW i \in EntryIds, AddTrackReads(i) PROVE EditInv' /\ editCommands' = editCommands
  <2>1. /\ route' = [at |-> "append", id |-> i,
                     position |-> Max({entry[j] : j \in Listed(entry)} \cup {Absent}) + 1]
        /\ UNCHANGED <<entry, details, deleted, used, editCommands, edits, time>>
    BY <1>11 DEF AddTrackReads, contents
  <2>2. RouteHolds' /\ route'.at \in {"none", "admitted", "append", "order"}
    BY <1>1, <2>1, EndOfList DEF RouteHolds
  <2>. QED
    BY <1>1, <2>1, <2>2, HistoryStays
<1>12. ASSUME NEW i \in EntryIds, RemoveItem(i) PROVE EditInv' /\ editCommands' = editCommands
  <2>1. /\ Edit /\ Answers /\ used' = used /\ i \in Listed(entry)
        /\ entry' = [j \in EntryIds |-> IF j = i THEN Absent
                                        ELSE IF entry[j] > entry[i] THEN entry[j] - 1 ELSE entry[j]]
    BY <1>12 DEF RemoveItem
  <2>2. entry[i] \in Nat /\ \A j \in EntryIds : entry[j] \in {Absent} \cup Nat
    BY <1>1, <1>2, <2>1 DEF Positions
  <2>3. \A j \in EntryIds : entry[j] > entry[i] => entry[j] - 1 \in Nat /\ entry[j] # Absent
    BY <2>2 DEF Absent
  <2>4. entry' \in Positions /\ \A j \in EntryIds \ used' : entry'[j] = Absent
    BY <1>1, <2>1, <2>2, <2>3 DEF Positions
  <2>. QED
    BY <1>1, <1>3, <1>4, <2>1, <2>4, HistoryStays
<1>13. ASSUME NEW i \in EntryIds, BatchAdd(i) PROVE EditInv' /\ editCommands' = editCommands
  <2>1. /\ Edit /\ Answers /\ used' = used \cup {i}
        /\ entry' = [entry EXCEPT ![i] = Cardinality(Listed(entry))]
    BY <1>13 DEF BatchAdd
  <2>2. entry' \in Positions /\ \A j \in EntryIds \ used' : entry'[j] = Absent
    BY <1>1, <1>2, <2>1 DEF Positions
  <2>. QED
    BY <1>1, <1>3, <1>4, <2>1, <2>2, HistoryStays
<1>14. ASSUME NEW i \in EntryIds, Vanish(i) PROVE EditInv' /\ editCommands' = editCommands
  <2>1. /\ Edit /\ entry' = [entry EXCEPT ![i] = Absent]
        /\ UNCHANGED <<details, deleted, used, editCommands, route, time>>
    BY <1>14 DEF Vanish
  <2>2. entry' \in Positions /\ \A j \in EntryIds \ used' : entry'[j] = Absent
    BY <1>1, <2>1 DEF Positions
  <2>3. RouteHolds'
    BY <1>1, <2>1 DEF RouteHolds
  <2>. QED
    BY <1>1, <1>3, <2>1, <2>2, <2>3, HistoryStays
<1>15. ASSUME NEW ids \in SetToSeqs(Listed(entry)), ReorderItems(ids) PROVE EditInv' /\ editCommands' = editCommands
  <2>1. Edit /\ Answers /\ used' = used /\ entry' = Placed(ids)
    BY <1>15 DEF ReorderItems
  <2>. QED
    BY <1>1, <1>3, <1>4, <1>5, <2>1, HistoryStays
<1>16. ASSUME NEW ids \in SetToSeqs(Listed(entry)), ReorderByTracksReads(ids)
       PROVE  EditInv' /\ editCommands' = editCommands
  <2>1. /\ route' = [at |-> "order", ids |-> ids]
        /\ UNCHANGED <<entry, details, deleted, used, editCommands, edits, time>>
    BY <1>16 DEF ReorderByTracksReads, contents
  <2>2. RouteHolds' /\ route'.at \in {"none", "admitted", "append", "order"}
    BY <1>5, <2>1 DEF RouteHolds
  <2>. QED
    BY <1>1, <2>1, <2>2, HistoryStays
<1>17. ASSUME NEW ids \in SUBSET EntryIds, BatchRemove(ids) PROVE EditInv' /\ editCommands' = editCommands
  <2>1. Edit /\ Answers /\ used' = used /\ entry' = Ranked(entry, Listed(entry) \ ids)
    BY <1>17 DEF BatchRemove
  <2>2. Listed(entry) \ ids \in SUBSET EntryIds /\ \A i \in Listed(entry) \ ids : entry[i] \in Int
    BY <1>2
  <2>3. entry' \in Positions /\ \A i \in EntryIds \ (Listed(entry) \ ids) : entry'[i] = Absent
    BY <2>1, <2>2, RankedKeeps
  <2>4. \A i \in EntryIds \ used' : entry'[i] = Absent
    BY <1>2, <2>1, <2>3
  <2>. QED
    BY <1>1, <1>3, <1>4, <2>1, <2>3, <2>4, HistoryStays
<1>. QED
  BY <1>6, <1>7, <1>8, <1>9, <1>10, <1>11, <1>12, <1>13, <1>14, <1>15, <1>16, <1>17
     DEF Admitted, AddTrack, ReorderByTracks, UpdateDetails, Tick, Answers

-----------------------------------------------------------------------------
(* Every step keeps the invariant.                                         *)

LEMMA RemovePlaylistStep == ASSUME EditInv, RemovePlaylist PROVE EditInv' /\ editCommands' = <<>>
<1>1. /\ Edit /\ deleted' = Purged /\ entry' = [i \in EntryIds |-> Absent] /\ editCommands' = <<>>
      /\ route' = NoRoute /\ UNCHANGED <<details, used, time>>
  BY DEF RemovePlaylist
<1>2. \A u \in Editors : Cardinality(Own(u, <<>>)) <= MaxRetained
  <2>1. \A u : Own(u, <<>>) = {}
    BY DEF Own
  <2>2. Cardinality({}) = 0 /\ MaxRetained \in Nat
    BY FS_EmptySet, EditNumbers
  <2>3. 0 <= MaxRetained
    BY <2>2
  <2>. QED
    BY <2>1, <2>2, <2>3, Zenon
<1>3. EditingTypeOK'
  <2>1. edits' \in 0..MaxEdits
    BY <1>1, EditNumbers DEF Edit, EditInv, EditingTypeOK
  <2>. QED
    BY <1>1, <1>2, <2>1 DEF EditInv, EditingTypeOK, NoRoute, Own
<1>. QED
  BY <1>1, <1>3, EmptySeq DEF EditInv, RouteHolds, NoRoute

\* The actions by what they do to the history.
LEMMA HistoryMoves ==
  ASSUME EditInv, EditingNext
  PROVE  \/ \E u \in Editors : EditInv' /\ Records(u)
         \/ \E c \in DOMAIN editCommands : Undo(c) \/ Redo(c)
         \/ EditInv' /\ editCommands' \in {editCommands, <<>>}
<1>1. CASE \E u \in Editors : Reorder(u) \/ Details(u) \/ Trash(u) \/ Restore(u)
                              \/ \E ids \in SUBSET EntryIds : RemoveEntries(u, ids) \/ Add(u, ids)
  BY <1>1, ReorderStep, OtherCommandsStep, RemoveEntriesStep, AddStep
<1>2. CASE RemovePlaylist
  BY <1>2, RemovePlaylistStep
<1>3. CASE \/ Admitted \/ AddTrack \/ ReorderByTracks \/ UpdateDetails \/ Tick
           \/ \E i \in EntryIds : AddTrackReads(i) \/ RemoveItem(i) \/ BatchAdd(i) \/ Vanish(i)
           \/ \E ids \in SetToSeqs(Listed(entry)) : ReorderItems(ids) \/ ReorderByTracksReads(ids)
           \/ \E ids \in SUBSET EntryIds : BatchRemove(ids)
  BY <1>3, RoutesStep
<1>. QED
  BY <1>1, <1>2, <1>3, Zenon DEF EditingNext

LEMMA EditingInductive == EditInv /\ [EditingNext]_editingVars => EditInv'
<1>1. ASSUME EditInv, EditingNext PROVE EditInv'
  BY <1>1, HistoryMoves, ReverseStep
<1>2. ASSUME EditInv, UNCHANGED editingVars PROVE EditInv'
  <2>1. UNCHANGED <<entry, details, deleted, used, editCommands, route, edits, time>>
    BY <1>2 DEF editingVars, contents
  <2>2. /\ EditingTypeOK /\ editCommands \in Seq(Commands)
        /\ \A i \in DOMAIN editCommands : Reversible(editCommands[i], used)
        /\ RouteHolds
    BY <1>2 DEF EditInv
  <2>3. EditingTypeOK' /\ RouteHolds'
    BY <2>1, <2>2 DEF EditingTypeOK, RouteHolds
  <2>. QED
    BY <2>1, <2>2, <2>3 DEF EditInv
<1>. QED
  BY <1>1, <1>2

LEMMA EditingInvariant == EditingSpec => []EditInv
BY EditingInitially, EditingInductive, PTL DEF EditingSpec

\* The entries, the Trash and the history of a playlist keep their types, and no
\* user has more commands in it than are retained (Retained).
THEOREM EditingTyped == EditingSpec => []EditingTypeOK
<1>1. EditInv => EditingTypeOK
  BY DEF EditInv
<1>. QED
  BY <1>1, EditingInvariant, PTL

\* A history of the same length, all with one element removed, that differs from ec
\* at most at c.
DiffersAt(ec, new, all, o, c) ==
  /\ Len(new) = Len(ec) /\ new # ec /\ c \in 1..Len(ec) /\ o \in 1..(Len(ec) + 1)
  /\ \A k \in 1..Len(ec) : new[k] = IF k < o THEN all[k] ELSE all[k + 1]
  /\ \A k \in 1..Len(ec) : k # c => new[k] = ec[k]

\* What differs is the command that was recorded.
LEMMA ShiftedOnce ==
  ASSUME NEW ec \in Seq(Commands), NEW cmd \in Commands, NEW new \in Seq(Commands),
         NEW o, NEW c, DiffersAt(ec, new, Append(ec, cmd), o, c)
  PROVE  new[c] = cmd
<1> DEFINE n == Len(ec)
           all == Append(ec, cmd)
           T == {m \in 0..(n - c) : new[n - m] = cmd}
<1>1. /\ n \in Nat /\ c \in 1..n /\ \A i \in 1..n : all[i] = ec[i]
      /\ all[n + 1] = cmd
  BY AppendProperties, LenProperties DEF DiffersAt
<1>8. /\ Len(new) = n /\ new # ec /\ o \in 1..(n + 1)
      /\ \A k \in 1..n : new[k] = IF k < o THEN all[k] ELSE all[k + 1]
      /\ \A k \in 1..n : k # c => new[k] = ec[k]
  BY Zenon DEF DiffersAt
<1>9. n = Len(ec)
  OBVIOUS
<1>. HIDE DEF n, all
<1>2. o <= c
  <2> SUFFICES ASSUME c < o PROVE FALSE
    BY <1>1, <1>8
  <2>1. new[c] = ec[c]
    BY <1>1, <1>8
  <2>2. \A k \in 1..n : new[k] = ec[k]
    BY <2>1, <1>8
  <2>. QED
    BY <1>8, <1>9, <2>2, SeqEqual
<1>3. ASSUME NEW k \in c..n PROVE new[k] = all[k + 1]
  <2>1. k \in 1..n /\ ~(k < o)
    BY <1>1, <1>2, <1>8
  <2>. QED
    BY <1>8, <2>1
<1>4. 0 \in T
  <2>1. n \in c..n /\ n - 0 = n /\ 0 \in 0..(n - c)
    BY <1>1
  <2>2. new[n] = cmd
    BY <1>1, <1>3, <2>1
  <2>. QED
    BY <2>1, <2>2
<1>5. ASSUME NEW m \in 1..(n - c), m - 1 \in T PROVE m \in T
  <2>1. /\ n - m \in c..n /\ n - m + 1 \in 1..n /\ n - m + 1 # c /\ n - (m - 1) = n - m + 1
        /\ m \in 0..(n - c)
    BY <1>1
  <2>2. new[n - m] = ec[n - m + 1]
    BY <1>1, <1>3, <2>1
  <2>3. new[n - m + 1] = ec[n - m + 1]
    BY <1>8, <2>1
  <2>4. new[n - m + 1] = cmd
    BY <1>5, <2>1
  <2>. QED
    BY <2>1, <2>2, <2>3, <2>4
<1>6. n - c \in Nat /\ n - (n - c) = c
  BY <1>1
<1>7. n - c \in T
  <2>. HIDE DEF T
  <2>1. 0..(n - c) \subseteq T
    BY <1>4, <1>5, <1>6, UpTo
  <2>. QED
    BY <1>6, <2>1
<1>. QED
  BY <1>6, <1>7

LEMMA ReversalRestores ==
  ASSUME EditInv, EditingNext, NEW c \in DOMAIN editCommands,
         editCommands' # editCommands, DOMAIN editCommands' = DOMAIN editCommands,
         editCommands' = [editCommands EXCEPT ![c].is = editCommands'[c].is]
  PROVE  IF editCommands'[c].is = "undone"
           THEN Compact(editCommands[c].before.entry) => Snapshot' = editCommands[c].before
           ELSE Snapshot' = editCommands[c].after
<1> DEFINE e == editCommands[c]
<1>1. /\ editCommands \in Seq(Commands) /\ \A i \in DOMAIN editCommands : Reversible(editCommands[i], used)
      /\ Len(editCommands) \in Nat /\ DOMAIN editCommands = 1..Len(editCommands)
  BY LenProperties DEF EditInv
<1>2. e \in Commands /\ Reversible(e, used)
  BY <1>1, LenProperties
<1>3. \A i \in DOMAIN editCommands : i # c => editCommands'[i] = editCommands[i]
  OBVIOUS
<1>4. editCommands'[c].after = e.after
  BY <1>2 DEF Commands
<1>5. ASSUME NEW u \in Editors, EditInv', Records(u)
      PROVE  editCommands'[c].is = "done" /\ Snapshot' = e.after
  <2>1. PICK cmd \in Commands :
          /\ cmd.by = u /\ cmd.is = "done" /\ cmd.after = Snapshot'
          /\ editCommands' = Retained(u, Append(editCommands, cmd))
    BY <1>5 DEF Records
  <2> DEFINE all == Append(editCommands, cmd)
  <2>2. /\ all \in Seq(Commands) /\ Len(all) = Len(editCommands) + 1
    BY <1>1, AppendProperties
  <2>3. editCommands' \in Seq(Commands) /\ Len(editCommands') = Len(editCommands)
    <3>1. editCommands' \in Seq(Commands)
      BY <1>5 DEF EditInv
    <3>2. Len(editCommands') \in Nat /\ DOMAIN editCommands' = 1..Len(editCommands')
      BY <3>1, LenProperties
    <3>3. Len(editCommands') = Cardinality(1..Len(editCommands')) /\ Len(editCommands) = Cardinality(1..Len(editCommands))
      BY <1>1, <3>2, FS_Interval
    <3>. QED
      BY <1>1, <3>1, <3>2, <3>3
  <2>4. editCommands' # all
    <3>. HIDE DEF all
    <3>. QED
      BY <1>1, <2>2, <2>3
  <2>5. PICK o \in Own(u, all) : editCommands' = RemoveAt(all, o)
    <3>1. Retained(cmd.by, all) = all \/ \E o \in Own(cmd.by, all) : Retained(cmd.by, all) = RemoveAt(all, o)
      BY <1>1, RetainedIs
    <3>. HIDE DEF all
    <3>. QED
      BY <2>1, <2>4, <3>1 DEF all
  <2>6. o \in 1..Len(all)
    BY <2>2, LenProperties DEF Own
  <2>7. \A k \in 1..(Len(all) - 1) : editCommands'[k] = IF k < o THEN all[k] ELSE all[k + 1]
    <3>. HIDE DEF all
    <3>. QED
      BY <2>2, <2>5, <2>6, RemoveAtIs
  <2>8. Len(all) - 1 = Len(editCommands)
    <3>. HIDE DEF all
    <3>. QED
      BY <1>1, <2>2
  <2>9. \A k \in 1..Len(editCommands) : editCommands'[k] = IF k < o THEN all[k] ELSE all[k + 1]
    <3>. HIDE DEF all
    <3>. QED
      BY <2>7, <2>8
  <2>10. o \in 1..(Len(editCommands) + 1)
    <3>. HIDE DEF all
    <3>. QED
      BY <2>2, <2>6
  <2>11. \A k \in 1..Len(editCommands) : k # c => editCommands'[k] = editCommands[k]
    BY <1>1, <1>3
  <2>12. editCommands'[c] = cmd
    <3>1. DiffersAt(editCommands, editCommands', all, o, c)
      <4>. HIDE DEF all
      <4>. QED
        BY <1>1, <2>3, <2>9, <2>10, <2>11 DEF DiffersAt
    <3>. QED
      BY <1>1, <2>3, <3>1, ShiftedOnce
  <2>. QED
    BY <1>4, <2>1, <2>12
<1>6. ASSUME NEW d \in DOMAIN editCommands, Undo(d) \/ Redo(d)
      PROVE  /\ editCommands'[c].is = "undone" => (Compact(e.before.entry) => Snapshot' = e.before)
             /\ editCommands'[c].is # "undone" => Snapshot' = e.after
  <2>1. PICK w \in {"done", "undone"} :
          /\ editCommands' = [editCommands EXCEPT ![d].is = w]
          /\ w = "undone" => Snapshot' = ApplyDelta(editCommands[d].inverse, editCommands[d].after)
          /\ w = "done" => Snapshot' = ApplyDelta(editCommands[d].forward, editCommands[d].before)
    BY <1>6, ReverseStep
  <2>2. d = c
    <3> SUFFICES ASSUME d # c PROVE FALSE
      OBVIOUS
    <3>1. editCommands'[d] = editCommands[d]
      BY <1>3
    <3>2. \A i \in DOMAIN editCommands : i # d => editCommands'[i] = editCommands[i]
      BY <2>1
    <3>3. editCommands' = [i \in DOMAIN editCommands |-> editCommands'[i]]
      BY <2>1
    <3>4. editCommands = [i \in DOMAIN editCommands |-> editCommands[i]]
      BY <1>1
    <3>. QED
      BY <3>1, <3>2, <3>3, <3>4
  <2>3. editCommands'[c].is = w
    BY <1>2, <2>1, <2>2 DEF Commands
  <2>. QED
    BY <1>2, <2>1, <2>2, <2>3 DEF Reversible
<1>7. editCommands' \notin {editCommands, <<>>}
  OBVIOUS
<1>. QED
  BY <1>5, <1>6, <1>7, HistoryMoves

\* Whatever the older routes do in between, and however long the history is, undoing
\* a command gives back what it changed and redoing it what it made (reverse): the
\* inserts of a removal put entries back where they were, and a removal takes what was
\* inserted behind the others, each on a list without gaps.
THEOREM UndosRestore == EditingSpec => UndoRestores
<1>1. EditInv /\ [EditingNext]_editingVars =>
        [\A c \in DOMAIN editCommands :
           /\ editCommands' # editCommands /\ DOMAIN editCommands' = DOMAIN editCommands
           /\ editCommands' = [editCommands EXCEPT ![c].is = editCommands'[c].is]
           => IF editCommands'[c].is = "undone"
                THEN Compact(editCommands[c].before.entry) => Snapshot' = editCommands[c].before
                ELSE Snapshot' = editCommands[c].after]_editingVars
  BY ReversalRestores
<1>. QED
  BY <1>1, EditingInvariant, PTL DEF EditingSpec, UndoRestores

-----------------------------------------------------------------------------
(* The parts of MCListening together.                                      *)

\* A step of the composed system is a step or a stutter of each part.
LEMMA ListeningSteps ==
  [Next]_listeningVars =>
    /\ [PlaybackNext]_playbackVars /\ [MediaNext]_mediaVars /\ [SharingNext]_sharingVars
    /\ [EditingNext]_editingVars /\ [FoldersNext]_folderVars
    /\ [ScanNext]_scanVars /\ [ThrottleNext]_throttleVars
<1> SUFFICES ASSUME [Next]_listeningVars
             PROVE  /\ [PlaybackNext]_playbackVars /\ [MediaNext]_mediaVars
                    /\ [SharingNext]_sharingVars /\ [EditingNext]_editingVars
                    /\ [FoldersNext]_folderVars
                    /\ [ScanNext]_scanVars /\ [ThrottleNext]_throttleVars
  OBVIOUS
<1>1. CASE UNCHANGED listeningVars
  BY <1>1 DEF listeningVars, playlistVars, followVars
<1>2. CASE MovePlayers
  BY <1>2 DEF MovePlayers, playlistVars, followVars
<1>3. CASE MoveBookmarks
  BY <1>3 DEF MoveBookmarks, playlistVars, followVars
<1>4. CASE MoveSharing
  BY <1>4 DEF MoveSharing, followVars
<1>5. CASE MoveEditing
  BY <1>5 DEF MoveEditing, followVars
<1>6. CASE MoveFolders
  BY <1>6 DEF MoveFolders, followVars
<1>7. CASE MoveRadar
  BY <1>7 DEF MoveRadar, playlistVars
<1>8. CASE MoveStores
  BY <1>8 DEF MoveStores, playlistVars
<1>. QED
  BY <1>1, <1>2, <1>3, <1>4, <1>5, <1>6, <1>7, <1>8 DEF Next

\* Each part of the composed system is a behaviour of its own specification, so that
\* what is proved of a part is true of what the run explores.
LEMMA PartsOfListening ==
  Spec => /\ PlaybackSpec /\ MediaSpec /\ SharingSpec /\ EditingSpec /\ FoldersSpec
          /\ ScanSpec /\ ThrottleSpec
<1>1. Init => /\ PlaybackInit /\ MediaInit /\ SharingInit /\ EditingInit /\ FoldersInit
              /\ ScanInit /\ ThrottleInit
  BY DEF Init
<1>. QED
  BY <1>1, ListeningSteps, PTL
  DEF Spec, PlaybackSpec, MediaSpec, SharingSpec, EditingSpec, FoldersSpec, ScanSpec, ThrottleSpec

\* The players and the hub, the bookmarks, the playlists and the scans keep their types
\* in every state of the composed system.
THEOREM ListeningTypes == Spec => []ListeningTypeOK
<1>1. /\ PlaybackTypeOK /\ MediaTypeOK /\ SharingTypeOK /\ EditingTypeOK /\ FoldersTypeOK
      /\ ScanTypeOK /\ ThrottleTypeOK
      => ListeningTypeOK
  BY DEF ListeningTypeOK
<1>. QED
  BY <1>1, PartsOfListening, PlaybackTypes, MediaTypes, SharingTypes, EditingTyped, FoldersTyped,
     ScanTypes, ThrottleTypes, PTL
=============================================================================
