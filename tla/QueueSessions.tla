--------------------------- MODULE QueueSessions ---------------------------
(***************************************************************************)
(* Saved playback queues of one account (queue/mod.rs): content snapshots, *)
(* device checkpoints, named queues, and playlists made from a queue.      *)
(*                                                                         *)
(* Each write is a deferred SQLite transaction in WAL mode: it reads a     *)
(* snapshot, and its first write fails (SQLITE_BUSY_SNAPSHOT) if another   *)
(* connection has committed since, or waits for the write lock, at most    *)
(* the busy timeout.  A transaction holds one connection of the pool;      *)
(* save_as_playlist asks the library, which takes another.                 *)
(*                                                                         *)
(* A content takes one unit of the account's storage, and its name stands  *)
(* for the name of what is saved from it.  prune_at is not modelled: no    *)
(* code of the server calls it.                                            *)
(***************************************************************************)
EXTENDS Naturals, FiniteSets, Sequences

CONSTANTS
  Devices, Contents,
  SaveIds,          \* operation ids that the clients choose
  Savers,           \* requests under way at once
  PoolSize,         \* DatabaseOptions::max_connections
  Budget,           \* MAX_ACCOUNT_STORAGE_BUDGET_BYTES, in contents
  MaxDevices,       \* MAX_DEVICES_PER_USER
  MaxNamed,         \* MAX_NAMED_QUEUES_PER_USER
  MaxSequence,      \* bound: sequence numbers and capture times of a device
  MaxRequests       \* bound

ASSUME QueueBoundsAssumption ==
  {PoolSize, Budget, MaxDevices, MaxNamed, MaxSequence, MaxRequests} \subseteq Nat

Nothing == [kind |-> "nothing"]
Free    == "free"      \* nobody holds the write lock
ASSUME FreeAssumption == Free \notin Savers

Checkpoints == [content : Contents, sequence : 1..MaxSequence, capturedAt : 1..MaxSequence]

VARIABLES
  stored,     \* queue_contents
  synced,     \* queue_sessions, per device
  named,      \* named_queues, per operation id
  saved,      \* queue_playlist_saves, per operation id
  lists,      \* the playlists made from queues, in order
  saver,      \* the requests under way
  stale,      \* requests whose snapshot is no longer the last
  writer,     \* who holds the write lock
  requests    \* requests so far

queueRows == <<stored, synced, named, saved, lists>>
queueVars == <<stored, synced, named, saved, lists, saver, stale, writer, requests>>

Requests ==
  [kind : {"content"}, content : Contents]
  \cup [kind : {"session"}, device : Devices, checkpoint : Checkpoints]
  \cup [kind : {"named", "playlist"}, id : SaveIds, content : Contents]

Stages == {"ask", "write", "fill", "commit"}

QueueTypeOK ==
  /\ stored \subseteq Contents
  /\ synced \in [Devices -> Checkpoints \cup {Nothing}]
  /\ named \in [SaveIds -> Contents \cup {"none"}]
  /\ saved \in [SaveIds -> [content : Contents, list : 0..MaxRequests] \cup {Nothing}]
  /\ lists \in Seq([id : SaveIds, is : {"live", "trash", "gone"}])
  /\ saver \in [Savers -> {Nothing} \cup [at : Stages, req : Requests]]
  /\ stale \subseteq Savers
  /\ writer \in Savers \cup {Free}
  /\ requests \in 0..MaxRequests

QueueInit ==
  /\ stored = {}
  /\ synced = [d \in Devices |-> Nothing]
  /\ named = [i \in SaveIds |-> "none"]
  /\ saved = [i \in SaveIds |-> Nothing]
  /\ lists = <<>>
  /\ saver = [c \in Savers |-> Nothing]
  /\ stale = {}
  /\ writer = Free
  /\ requests = 0

-----------------------------------------------------------------------------
Busy(c) == saver[c] # Nothing
At(c, stage) == Busy(c) /\ saver[c].at = stage
Goto(c, stage) == saver' = [saver EXCEPT ![c].at = stage]

\* The requests that hold a connection.
Connected == {c \in Savers : Busy(c) /\ saver[c].at # "ask"}
ConnectionFree == Cardinality(Connected) < PoolSize

\* A commit leaves the snapshots of the others behind.
Outdate(c) == stale' = (stale \cup (Connected \ {c})) \ {c}

Ended(c) ==
  /\ saver' = [saver EXCEPT ![c] = Nothing]
  /\ writer' = IF writer = c THEN Free ELSE writer

\* Reads and writes that are not one transaction.
MayWriteAnyway(c) == writer = Free

\* Its first write: the snapshot must be the last one.
MayWrite(c) == c \notin stale /\ writer = Free

\* What the reads of the transaction answer without a write.
RefusesContent(r) == Cardinality(stored) >= Budget

RefusesSession(r) ==
  LET old == synced[r.device] IN
    \/ r.checkpoint.content \notin stored
    \/ /\ old # Nothing
       /\ \/ old.sequence >= r.checkpoint.sequence
          \/ old.capturedAt > r.checkpoint.capturedAt
    \/ /\ old = Nothing
       /\ Cardinality({d \in Devices : synced[d] # Nothing}) >= MaxDevices

RefusesNamed(r) ==
  \/ r.content \notin stored
  \/ named[r.id] # "none"                  \* answered, or 409
  \/ Cardinality({i \in SaveIds : named[i] # "none"}) >= MaxNamed

\* A known operation answers with its playlist, 409 or 410.
RefusesPlaylist(r) == r.content \notin stored \/ saved[r.id] # Nothing

Refuses(r) ==
  \/ r.kind = "content" /\ RefusesContent(r)
  \/ r.kind = "session" /\ RefusesSession(r)
  \/ r.kind = "named" /\ RefusesNamed(r)
  \/ r.kind = "playlist" /\ RefusesPlaylist(r)

-----------------------------------------------------------------------------
\* A request arrives; a content that is stored already is answered at once.
Ask(c, r) ==
  /\ ~Busy(c) /\ requests < MaxRequests
  /\ r.kind = "content" => r.content \notin stored
  /\ requests' = requests + 1
  /\ saver' = [saver EXCEPT ![c] = [at |-> "ask", req |-> r]]
  /\ UNCHANGED <<queueRows, stale, writer>>

\* acquire, begin and the reads.
Begin(c) ==
  /\ At(c, "ask") /\ ConnectionFree
  /\ stale' = stale \ {c}
  /\ IF Refuses(saver[c].req)
       THEN saver' = [saver EXCEPT ![c] = Nothing]
       ELSE Goto(c, "write")
  /\ UNCHANGED <<queueRows, writer, requests>>

\* store_content, save_session_at and save_named_at: the write and the commit.
Write(c) ==
  /\ At(c, "write") /\ saver[c].req.kind # "playlist" /\ MayWrite(c)
  /\ LET r == saver[c].req IN
       \/ /\ r.kind = "content"
          /\ stored' = stored \cup {r.content}
          /\ UNCHANGED <<synced, named>>
       \/ /\ r.kind = "session"
          /\ synced' = [synced EXCEPT ![r.device] = r.checkpoint]
          /\ UNCHANGED <<stored, named>>
       \/ /\ r.kind = "named"
          /\ named' = [named EXCEPT ![r.id] = r.content]
          /\ UNCHANGED <<stored, synced>>
  /\ Outdate(c)
  /\ Ended(c)
  /\ UNCHANGED <<saved, lists, requests>>

\* save_as_playlist: the INSERT of the playlist takes the write lock.
StartPlaylist(c) ==
  /\ At(c, "write") /\ saver[c].req.kind = "playlist" /\ MayWrite(c)
  /\ writer' = c
  /\ Goto(c, "fill")
  /\ UNCHANGED <<queueRows, stale, requests>>

\* get_primary_source of each track, over another connection.
FillPlaylist(c) ==
  /\ At(c, "fill") /\ ConnectionFree
  /\ Goto(c, "commit")
  /\ UNCHANGED <<queueRows, stale, writer, requests>>

\* A track has left the library: nothing is kept.
TrackIsGone(c) ==
  /\ At(c, "fill") /\ ConnectionFree
  /\ Ended(c)
  /\ stale' = stale \ {c}
  /\ UNCHANGED <<queueRows, requests>>

CommitPlaylist(c) ==
  /\ At(c, "commit")
  /\ LET r == saver[c].req IN
       /\ lists' = Append(lists, [id |-> r.id, is |-> "live"])
       /\ saved' = [saved EXCEPT ![r.id] = [content |-> r.content, list |-> Len(lists) + 1]]
  /\ Outdate(c)
  /\ Ended(c)
  /\ UNCHANGED <<stored, synced, named, requests>>

\* The write that finds its snapshot behind fails at once.
SnapshotBehind(c) ==
  /\ At(c, "write") /\ c \in stale
  /\ Ended(c)
  /\ stale' = stale \ {c}
  /\ UNCHANGED <<queueRows, requests>>

\* A wait without a limit.
WaitsForever(c) == At(c, "ask") /\ ~ConnectionFree /\ UNCHANGED queueVars

\* acquire_timeout of the pool, busy_timeout of the write lock.
TimesOut(c) ==
  /\ \/ At(c, "ask") /\ ~ConnectionFree
     \/ At(c, "fill") /\ ~ConnectionFree
     \/ At(c, "write") /\ writer # Free
  /\ Ended(c)
  /\ stale' = stale \ {c}
  /\ UNCHANGED <<queueRows, requests>>

\* remove_session and remove_named, single statements.
RemoveSession(d) ==
  /\ synced[d] # Nothing /\ writer = Free /\ ConnectionFree
  /\ synced' = [synced EXCEPT ![d] = Nothing]
  /\ stale' = stale \cup Connected
  /\ UNCHANGED <<stored, named, saved, lists, saver, writer, requests>>

RemoveNamed(i) ==
  /\ named[i] # "none" /\ writer = Free /\ ConnectionFree
  /\ named' = [named EXCEPT ![i] = "none"]
  /\ stale' = stale \cup Connected
  /\ UNCHANGED <<stored, synced, saved, lists, saver, writer, requests>>

\* Purging a playlist deletes the row of its save (ON DELETE CASCADE).
PlaylistForgetsSave(n) ==
  /\ writer = Free /\ ConnectionFree
  /\ \E to \in {"live", "trash", "gone"} :
       /\ lists[n].is # "gone" /\ lists[n].is # to
       /\ lists' = [lists EXCEPT ![n].is = to]
       /\ saved' = IF to = "gone" THEN [saved EXCEPT ![lists[n].id] = Nothing] ELSE saved
  /\ stale' = stale \cup Connected
  /\ UNCHANGED <<stored, synced, named, saver, writer, requests>>

\* The playlist moves to the trash, comes back, or is purged; the row of
\* queue_playlist_saves stays (ON DELETE SET NULL).
PlaylistMoves(n) ==
  /\ writer = Free /\ ConnectionFree
  /\ \E to \in {"live", "trash", "gone"} :
       /\ lists[n].is # "gone" /\ lists[n].is # to
       /\ lists' = [lists EXCEPT ![n].is = to]
       /\ saved' = IF to = "gone" THEN [saved EXCEPT ![lists[n].id].list = 0] ELSE saved
  /\ stale' = stale \cup Connected
  /\ UNCHANGED <<stored, synced, named, saver, writer, requests>>

QueueStep(c) ==
  \/ Begin(c) \/ Write(c) \/ StartPlaylist(c) \/ FillPlaylist(c) \/ TrackIsGone(c)
  \/ CommitPlaylist(c) \/ SnapshotBehind(c) \/ TimesOut(c)

QueueNext ==
  \/ \E c \in Savers : (\E r \in Requests : Ask(c, r)) \/ QueueStep(c)
  \/ \E d \in Devices : RemoveSession(d)
  \/ \E i \in SaveIds : RemoveNamed(i)
  \/ \E n \in DOMAIN lists : PlaylistMoves(n)

\* Handlers are polled, and every wait of the database has a limit.
QueueFairness == \A c \in Savers : WF_queueVars(QueueStep(c))

QueueSpec == QueueInit /\ [][QueueNext]_queueVars /\ QueueFairness

-----------------------------------------------------------------------------
(* Properties                                                              *)

\* What a device has synced never goes back to an earlier sequence number or
\* capture time, whatever requests of the device overlap (save_session_at).
DeviceNeverGoesBack ==
  [][\A d \in Devices :
       synced[d] # Nothing /\ synced'[d] # Nothing =>
         /\ synced'[d].sequence >= synced[d].sequence
         /\ synced'[d].capturedAt >= synced[d].capturedAt]_queueVars

\* Overlapping requests do not carry the account over its storage budget, its
\* devices or its named queues: each counts before it inserts.
AccountWithinLimits ==
  /\ Cardinality(stored) <= Budget
  /\ Cardinality({d \in Devices : synced[d] # Nothing}) <= MaxDevices
  /\ Cardinality({i \in SaveIds : named[i] # "none"}) <= MaxNamed

\* One operation id makes one playlist, through retries, timeouts and the
\* deletion of the playlist ("Playlist saves ... idempotent", save_as_playlist).
OnePlaylistPerSave ==
  \A m, n \in DOMAIN lists : lists[m].id = lists[n].id => m = n

\* Every request is answered, although save_as_playlist waits for a second
\* connection while it holds one and the write lock.
QueueRequestsEnd == \A c \in Savers : Busy(c) ~> ~Busy(c)
=============================================================================
