--------------------------- MODULE PlaylistEditing ---------------------------
(***************************************************************************)
(* The entries of one playlist: the reversible commands with their undo    *)
(* history and Trash (execute and reverse in                               *)
(* playlists/collaboration/organization.rs), beside the older routes of    *)
(* playlists/service.rs, which edit the same rows and know of neither.     *)
(*                                                                         *)
(* A command is one transaction that fails when another call commits       *)
(* between its reads and its writes, and one that names an old revision is *)
(* refused: both change nothing.  Entry ids are random, so the order of    *)
(* ids, which breaks ties of positions, is arbitrary.                      *)
(***************************************************************************)
EXTENDS Integers, Sequences, FiniteSets, SequencesExt

CONSTANTS
  EntryIds,       \* ids of entries, ordered as the strings are
  Tracks,         \* number of tracks
  Manager,        \* who manages the playlist
  Collaborators,  \* who else may edit its tracks
  MaxEntries,     \* MAX_PLAYLIST_ITEMS
  MaxRetained,    \* MAX_RETAINED_COMMANDS
  Retention,      \* TRASH_RETENTION_MS
  InitialOrders,  \* bound: the lists of entries that earlier edits may have left
  MaxEdits,       \* bound: changes of the playlist
  MaxTime         \* bound: the clock

ASSUME EditingBoundsAssumption ==
  /\ EntryIds \subseteq Nat /\ IsFiniteSet(EntryIds)
  /\ {Tracks, Retention} \subseteq Nat \ {0}
  /\ InitialOrders \subseteq Seq(EntryIds)
  /\ {MaxEntries, MaxRetained, MaxEdits, MaxTime} \subseteq Nat

Editors == {Manager} \cup Collaborators
TrackOf(i) == i % Tracks     \* the track an entry with this id is for
Absent == -1
Live == -1                   \* deleted_at IS NULL
Purged == -2                 \* the playlist row is deleted
NoRoute == [at |-> "none"]

VARIABLES
  entry,      \* playlist_items: the position of each entry
  details,    \* name and description: how often they were changed
  deleted,    \* deleted_at
  used,       \* ids of entries so far
  editCommands,   \* playlist_edit_commands, oldest first
  route,      \* the call of an older route between its statements
  edits, time

contents == <<entry, details, deleted>>
editingVars == <<contents, used, editCommands, route, edits, time>>

EditSnapshots == [entry : [EntryIds -> Nat \cup {Absent}], details : 0..MaxEdits,
                  deleted : {Live} \cup 0..MaxTime]
Snapshot == [entry |-> entry, details |-> details, deleted |-> deleted]

EditingTypeOK ==
  /\ entry \in [EntryIds -> {Absent} \cup Nat]
  /\ details \in 0..MaxEdits /\ deleted \in {Live, Purged} \cup 0..MaxTime
  /\ used \subseteq EntryIds /\ \A i \in EntryIds \ used : entry[i] = Absent
  /\ \A i \in DOMAIN editCommands :
       /\ editCommands[i].by \in Editors /\ editCommands[i].is \in {"done", "undone"}
       /\ editCommands[i].before \in EditSnapshots /\ editCommands[i].after \in EditSnapshots
  /\ \A u \in Editors : Cardinality({i \in DOMAIN editCommands : editCommands[i].by = u}) <= MaxRetained
  /\ route.at \in {"none", "admitted", "append", "order"}
  /\ edits \in 0..MaxEdits /\ time \in 0..MaxTime

\* load_entries: ORDER BY position, id.
Listed(f) == {i \in EntryIds : f[i] # Absent}
Precedes(f, i, j) == f[i] < f[j] \/ (f[i] = f[j] /\ i < j)
Ahead(f, S, i) == {j \in S : Precedes(f, j, i)}

\* The positions that are written for the entries S in that order, and for a list
\* of ids.
Ranked(f, S) == [i \in EntryIds |-> IF i \in S THEN Cardinality(Ahead(f, S, i)) ELSE Absent]
Placed(ids) ==
  [i \in EntryIds |-> IF \E n \in DOMAIN ids : ids[n] = i
                        THEN (CHOOSE n \in DOMAIN ids : ids[n] = i) - 1 ELSE Absent]

Compact(f) == f = Ranked(f, Listed(f))

EditingInit ==
  /\ \E order \in InitialOrders : entry = Placed(order) /\ used = ToSet(order)
  /\ details = 0 /\ deleted = Live
  /\ editCommands = <<>> /\ route = NoRoute
  /\ edits = 0 /\ time = 0

-----------------------------------------------------------------------------
(* apply_delta                                                             *)

\* The n-th insert in the order of the ids.
NthById(at, n) ==
  CHOOSE i \in DOMAIN at : Cardinality({j \in DOMAIN at : j < i}) = n - 1
\* The n-th insert by position.
NthInsert(at, n) ==
  CHOOSE i \in DOMAIN at : Cardinality(Ahead(at, DOMAIN at, i)) = n - 1

\* order.insert, at the end when the position is beyond it.
InsertOne(f, i, position) ==
  LET size == Cardinality(Listed(f))
      n == IF position < size THEN position ELSE size
  IN [j \in EntryIds |-> IF j = i THEN n ELSE IF f[j] >= n THEN f[j] + 1 ELSE f[j]]

Inserted(f, at) ==
  LET list[n \in 0..Cardinality(DOMAIN at)] ==
        IF n = 0 THEN Ranked(f, Listed(f))
        ELSE InsertOne(list[n - 1], NthInsert(at, n), at[NthInsert(at, n)])
  IN list[Cardinality(DOMAIN at)]

\* What a delta needs, and what it makes of a snapshot.
Applies(d, s) ==
  CASE d.kind = "order" -> Listed(d.to) = Listed(s.entry)
    [] d.kind = "remove" -> d.ids \subseteq Listed(s.entry)
    [] d.kind = "insert" -> Cardinality(Listed(s.entry)) + Cardinality(DOMAIN d.at) <= MaxEntries
    [] OTHER -> TRUE

ApplyDelta(d, s) ==
  CASE d.kind = "order" -> [s EXCEPT !.entry = d.to]
    [] d.kind = "remove" -> [s EXCEPT !.entry = Ranked(s.entry, Listed(s.entry) \ d.ids)]
    [] d.kind = "insert" -> [s EXCEPT !.entry = Inserted(s.entry, d.at)]
    [] d.kind = "details" -> [s EXCEPT !.details = d.to]
    [] d.kind = "trash" -> [s EXCEPT !.deleted = d.to]

Becomes(s) == entry' = s.entry /\ details' = s.details /\ deleted' = s.deleted

\* A change of the playlist.
Edit == edits < MaxEdits /\ edits' = edits + 1 /\ deleted # Purged

-----------------------------------------------------------------------------
(* execute                                                                 *)

Expired(d) == d >= 0 /\ time - d >= Retention

MayEditTracks(u) == deleted = Live /\ u \in Editors

\* A history that is cut one command late.
RetainedLate(u, all) ==
  LET own == {i \in DOMAIN all : all[i].by = u}
      oldest == CHOOSE i \in own : \A j \in own : i <= j
  IN IF Cardinality(own) > MaxRetained + 1 THEN RemoveAt(all, oldest) ELSE all

\* The oldest command of u beyond the limit goes.
Retained(u, all) ==
  LET own == {i \in DOMAIN all : all[i].by = u}
      oldest == CHOOSE i \in own : \A j \in own : i <= j
  IN IF Cardinality(own) > MaxRetained THEN RemoveAt(all, oldest) ELSE all

\* A command that changes nothing is not recorded.
Command(u, forward, inverse) ==
  LET next == ApplyDelta(forward, Snapshot) IN
    /\ Edit /\ Applies(forward, Snapshot) /\ next # Snapshot
    /\ Becomes(next)
    /\ editCommands' = Retained(u, Append(editCommands,
         [by |-> u, before |-> Snapshot, after |-> next,
          forward |-> forward, inverse |-> inverse, is |-> "done"]))
    /\ UNCHANGED <<route, time>>

Reorder(u) ==
  /\ MayEditTracks(u)
  /\ \E ids \in SetToSeqs(Listed(entry)) :
       Command(u, [kind |-> "order", to |-> Placed(ids)],
                  [kind |-> "order", to |-> Ranked(entry, Listed(entry))])
  /\ UNCHANGED used

RemoveEntries(u, ids) ==
  /\ MayEditTracks(u) /\ ids \subseteq Listed(entry)
  /\ Command(u, [kind |-> "remove", ids |-> ids],
                [kind |-> "insert", at |-> [i \in ids |-> entry[i]]])
  /\ UNCHANGED used

\* Tracks that are in the playlist are skipped.
Add(u, ids) ==
  /\ MayEditTracks(u) /\ ids \cap used = {}
  /\ \A i \in ids : \A j \in Listed(entry) \cup ids : i # j => TrackOf(i) # TrackOf(j)
  /\ \E order \in SetToSeqs(ids) :
       LET at == [i \in ids |-> Cardinality(Listed(entry)) + (CHOOSE n \in DOMAIN order : order[n] = i) - 1]
       IN Command(u, [kind |-> "insert", at |-> at], [kind |-> "remove", ids |-> ids])
  /\ used' = used \cup ids

Details(u) ==
  /\ u = Manager /\ deleted = Live
  /\ Command(u, [kind |-> "details", to |-> edits + 1], [kind |-> "details", to |-> details])
  /\ UNCHANGED used

Trash(u) ==
  /\ u = Manager /\ deleted = Live
  /\ Command(u, [kind |-> "trash", to |-> time], [kind |-> "trash", to |-> Live])
  /\ UNCHANGED used

Restore(u) ==
  /\ u = Manager /\ deleted >= 0 /\ ~Expired(deleted)
  /\ Command(u, [kind |-> "trash", to |-> Live], [kind |-> "trash", to |-> deleted])
  /\ UNCHANGED used

-----------------------------------------------------------------------------
(* reverse                                                                 *)

\* After the change the row is loaded again, which fails, and undoes it, when the
\* playlist is beyond recovery.
Reverts(c, expected, delta, is) ==
  /\ Edit
  /\ deleted = Live \/ (editCommands[c].by = Manager /\ deleted >= 0 /\ ~Expired(deleted))
  /\ Snapshot = expected
  /\ delta.kind \in {"details", "trash"} => editCommands[c].by = Manager
  /\ Applies(delta, Snapshot) /\ ~Expired(ApplyDelta(delta, Snapshot).deleted)
  /\ Becomes(ApplyDelta(delta, Snapshot))
  /\ editCommands' = [editCommands EXCEPT ![c].is = is]
  /\ UNCHANGED <<used, route, time>>

Undo(c) ==
  /\ editCommands[c].is = "done"
  /\ Reverts(c, editCommands[c].after, editCommands[c].inverse, "undone")

Redo(c) ==
  /\ editCommands[c].is = "undone"
  /\ Reverts(c, editCommands[c].before, editCommands[c].forward, "done")

-----------------------------------------------------------------------------
(* The routes of playlists/service.rs.                                     *)

\* fetch_playlist_row and the permissions, before any transaction.
Admitted ==
  /\ route = NoRoute /\ deleted = Live
  /\ route' = [at |-> "admitted"]
  /\ UNCHANGED <<contents, used, editCommands, edits, time>>

\* The last statement or transaction of the route.
Answers == route' = NoRoute /\ UNCHANGED <<details, deleted, editCommands, time>>

\* add_track: three statements, of which the last inserts at the position that the
\* second has read.
AddTrackReads(i) ==
  /\ route = [at |-> "admitted"] /\ i \in EntryIds \ used
  /\ \A j \in Listed(entry) : TrackOf(i) # TrackOf(j)
  /\ route' = [at |-> "append", id |-> i,
              position |-> Max({entry[j] : j \in Listed(entry)} \cup {Absent}) + 1]
  /\ UNCHANGED <<contents, used, editCommands, edits, time>>

AddTrack ==
  /\ route.at = "append" /\ Edit /\ route.id \notin used
  /\ entry' = [entry EXCEPT ![route.id] = route.position]
  /\ used' = used \cup {route.id}
  /\ Answers

RemoveItem(i) ==
  /\ route = [at |-> "admitted"] /\ Edit /\ i \in Listed(entry)
  /\ entry' = [j \in EntryIds |-> IF j = i THEN Absent
                                  ELSE IF entry[j] > entry[i] THEN entry[j] - 1 ELSE entry[j]]
  /\ Answers /\ UNCHANGED used

\* reorder_items, with the order of the entries that the client saw.
ReorderItems(ids) ==
  /\ route = [at |-> "admitted"] /\ Edit
  /\ entry' = Placed(ids)
  /\ Answers /\ UNCHANGED used

\* reorder_by_track_ids decides on a list read before its transaction.
ReorderByTracksReads(ids) ==
  /\ route = [at |-> "admitted"]
  /\ route' = [at |-> "order", ids |-> ids]
  /\ UNCHANGED <<contents, used, editCommands, edits, time>>

ReorderByTracks ==
  /\ route.at = "order" /\ Edit
  /\ entry' = [i \in EntryIds |-> IF entry[i] = Absent \/ Placed(route.ids)[i] = Absent
                                    THEN entry[i] ELSE Placed(route.ids)[i]]
  /\ Answers /\ UNCHANGED used

\* edit_tracks; it numbers new entries from the count on.
BatchRemove(ids) ==
  /\ route = [at |-> "admitted"] /\ Edit /\ ids # {} /\ ids \subseteq Listed(entry)
  /\ entry' = Ranked(entry, Listed(entry) \ ids)
  /\ Answers /\ UNCHANGED used

BatchAdd(i) ==
  /\ route = [at |-> "admitted"] /\ Edit /\ i \in EntryIds \ used
  /\ \A j \in Listed(entry) : TrackOf(i) # TrackOf(j)
  /\ entry' = [entry EXCEPT ![i] = Cardinality(Listed(entry))]
  /\ used' = used \cup {i}
  /\ Answers

\* update, without a look at deleted_at when it writes.
UpdateDetails ==
  /\ route = [at |-> "admitted"] /\ Edit
  /\ details' = edits + 1 /\ route' = NoRoute
  /\ UNCHANGED <<entry, deleted, used, editCommands, time>>

\* remove deletes the row, and with it the entries and the commands.
RemovePlaylist ==
  /\ route = [at |-> "admitted"] /\ Edit
  /\ deleted' = Purged /\ entry' = [i \in EntryIds |-> Absent] /\ editCommands' = <<>>
  /\ route' = NoRoute
  /\ UNCHANGED <<details, used, time>>

\* The library loses an item, and the entry goes with it (ON DELETE CASCADE).
Vanish(i) ==
  /\ Edit /\ i \in Listed(entry)
  /\ entry' = [entry EXCEPT ![i] = Absent]
  /\ UNCHANGED <<details, deleted, used, editCommands, route, time>>

Tick ==
  /\ time < MaxTime /\ time' = time + 1
  /\ UNCHANGED <<contents, used, editCommands, route, edits>>

EditingNext ==
  \/ \E u \in Editors :
       \/ Reorder(u) \/ Details(u) \/ Trash(u) \/ Restore(u)
       \/ \E ids \in SUBSET EntryIds : RemoveEntries(u, ids) \/ Add(u, ids)
  \/ \E c \in DOMAIN editCommands : Undo(c) \/ Redo(c)
  \/ Admitted \/ AddTrack \/ ReorderByTracks \/ UpdateDetails \/ RemovePlaylist \/ Tick
  \/ \E i \in EntryIds : AddTrackReads(i) \/ RemoveItem(i) \/ BatchAdd(i) \/ Vanish(i)
  \/ \E ids \in SetToSeqs(Listed(entry)) : ReorderItems(ids) \/ ReorderByTracksReads(ids)
  \/ \E ids \in SUBSET EntryIds : BatchRemove(ids)

EditingSpec == EditingInit /\ [][EditingNext]_editingVars

-----------------------------------------------------------------------------
(* Properties                                                              *)

\* Undoing a command gives back the playlist from before it, entry by entry, and
\* redoing it the one from after it, whatever the other routes did in between
\* (reverse).  Only the undo of a command that found gaps or equal positions is not
\* held to it: entries come back at their positions, which then are no indexes.
UndoRestores ==
  [][\A c \in DOMAIN editCommands :
       /\ editCommands' # editCommands /\ DOMAIN editCommands' = DOMAIN editCommands
       /\ editCommands' = [editCommands EXCEPT ![c].is = editCommands'[c].is]
       => IF editCommands'[c].is = "undone"
            THEN Compact(editCommands[c].before.entry) => Snapshot' = editCommands[c].before
            ELSE Snapshot' = editCommands[c].after]_editingVars
=============================================================================
