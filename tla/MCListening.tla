------------------------------ MODULE MCListening ------------------------------
(***************************************************************************)
(* What a household listens with: players, bookmarks, playlists and the    *)
(* artists it follows.  The parts share no state, so a behaviour moves one *)
(* of them and leaves the others as they start.  Folders are checked       *)
(* twice: the tree, with one playlist that is not pinned, and the places   *)
(* of all the playlists, with one folder.                                  *)
(***************************************************************************)
EXTENDS RemotePlayback, ResumableMedia, PlaylistSharing, PlaylistEditing, PlaylistFolders,
        ReleaseScan, StoreThrottle

VARIABLE part

playlistVars == <<sharingVars, editingVars, folderVars>>
followVars == <<scanVars, throttleVars>>
listeningVars == <<playbackVars, mediaVars, playlistVars, followVars, part>>

\* An entry that an earlier call put behind its later ids.
MixedOrder == {<<2, 4, 3>>}

Init ==
  /\ PlaybackInit /\ MediaInit /\ SharingInit /\ EditingInit /\ FoldersInit
  /\ ScanInit /\ ThrottleInit
  /\ part \in {"players", "bookmarks", "removals", "sharing", "lapses", "editing", "tree",
              "places", "radar", "stores"}

MovePlayers   == PlaybackNext /\ UNCHANGED <<mediaVars, playlistVars, followVars>>
MoveBookmarks == MediaNext /\ UNCHANGED <<playbackVars, playlistVars, followVars>>
MoveSharing   == SharingNext /\ UNCHANGED <<playbackVars, mediaVars, editingVars, folderVars, followVars>>
MoveEditing   == EditingNext /\ UNCHANGED <<playbackVars, mediaVars, sharingVars, folderVars, followVars>>
MoveFolders   == FoldersNext /\ UNCHANGED <<playbackVars, mediaVars, sharingVars, editingVars, followVars>>
MoveRadar     == ScanNext /\ UNCHANGED <<playbackVars, mediaVars, playlistVars, throttleVars>>
MoveStores    == ThrottleNext /\ UNCHANGED <<playbackVars, mediaVars, playlistVars, scanVars>>

\* A player that connects again and a listener who changes something make for a
\* behaviour each.
ChangesOrConnects == opened' = Cardinality(Players) \/ changes' = 0

\* Reports that overlap, or one after another among removals and changes of access.
Kept == dropped' = {} /\ readable' = Media
OneReporter == \A r \in Reporters \ {CHOOSE s \in Reporters : TRUE} : report'[r] = NoReport

\* Calls that overlap, or one at a time among lapses and account changes.
Overlaps == troubles' = 0
Lapses == Cardinality({c \in Callers : call'[c] # Quiet}) <= 1

TreeOnly ==
  /\ \A l \in Lists : l # 1 => place'[l] = place[l] /\ (l \in visible' <=> l \in visible)
  /\ ~place'[1].pinned
PlacesOnly ==
  /\ Lists \ {1} \subseteq visible'
  /\ \A f \in FolderIds : f # 1 => parent'[f] = Gone
  /\ \A l \in Lists : {place'[l].at, place'[l].bar} \subseteq 0..2 \cup {NoPlace.at}

Next ==
  /\ \/ part = "players" /\ MovePlayers /\ ChangesOrConnects
     \/ part = "bookmarks" /\ MoveBookmarks /\ Kept
     \/ part = "removals" /\ MoveBookmarks /\ OneReporter
     \/ part = "sharing" /\ MoveSharing /\ Overlaps
     \/ part = "lapses" /\ MoveSharing /\ Lapses
     \/ part = "editing" /\ MoveEditing
     \/ part = "tree" /\ MoveFolders /\ TreeOnly
     \/ part = "places" /\ MoveFolders /\ PlacesOnly
     \/ part = "radar" /\ MoveRadar
     \/ part = "stores" /\ MoveStores
  /\ part' = part

Spec == Init /\ [][Next]_listeningVars /\ PlaybackFairness

\* The rows and messages of every part have the shape their tables and handlers
\* give them.
ListeningTypeOK ==
  PlaybackTypeOK /\ MediaTypeOK /\ SharingTypeOK /\ EditingTypeOK /\ FoldersTypeOK
  /\ ScanTypeOK /\ ThrottleTypeOK
=============================================================================
