--------------------------- MODULE ResumableMedia ---------------------------
(***************************************************************************)
(* Bookmarks in albums and playlists (media/mod.rs): the checkpoints of    *)
(* media_sessions and the tombstones of media_session_completions, for one *)
(* account.  Reports come late, twice and out of order, each with the time *)
(* at which its device captured it.                                        *)
(*                                                                         *)
(* save_at judges the age of a report when it arrives, prunes the two      *)
(* tables by that time, and then reads and writes in one deferred          *)
(* transaction: as in QueueSessions, its write fails if another has        *)
(* committed since it read.  Between any two of these, other requests,     *)
(* also of other accounts, prune by a time of their own.                   *)
(***************************************************************************)
EXTENDS Integers, FiniteSets

CONSTANTS
  Media,      \* albums and playlists
  Reporters,  \* reports under way at once
  Ttl,        \* MEDIA_SESSION_TTL_MS
  Drift,      \* MAX_FUTURE_DRIFT_MS
  MaxNow      \* bound: the time

ASSUME MediaBoundsAssumption == {Ttl, Drift, MaxNow} \subseteq Nat

NoTime == -1
Times == 0..(MaxNow + Drift)
Unmarked == [at |-> NoTime, updated |-> NoTime]
Marks == [at : Times, updated : 0..MaxNow] \cup {Unmarked}
NoReport == [step |-> "none"]

VARIABLES
  now,
  bookmark,   \* media_sessions: captured_at and updated_at
  tombstone,  \* media_session_completions
  readable,   \* what the account may read
  report,     \* the reports under way
  behind,     \* reports that have read, and whose snapshot is no longer the last
  finished,   \* history: when a media was last finished, as far as no clock was ahead
  dropped     \* history: media whose bookmark was removed on request or by a clean

mediaRows == <<bookmark, tombstone>>
mediaVars == <<now, bookmark, tombstone, readable, report, behind, finished, dropped>>

Reports == [media : Media, at : Times, done : BOOLEAN]
Handled == [step : {"arrived", "swept", "pruned", "read"},
            media : Media, at : Times, done : BOOLEAN, asOf : 0..MaxNow]

MediaTypeOK ==
  /\ now \in 0..MaxNow
  /\ bookmark \in [Media -> Marks] /\ tombstone \in [Media -> Marks]
  /\ readable \subseteq Media /\ dropped \subseteq Media
  /\ report \in [Reporters -> Handled \cup {NoReport}]
  /\ behind \subseteq Reporters
  /\ finished \in [Media -> Times \cup {NoTime}]

MediaInit ==
  /\ now = 0
  /\ bookmark = [m \in Media |-> Unmarked] /\ tombstone = [m \in Media |-> Unmarked]
  /\ readable = Media /\ dropped = {}
  /\ report = [r \in Reporters |-> NoReport]
  /\ behind = {}
  /\ finished = [m \in Media |-> NoTime]

-----------------------------------------------------------------------------
\* prune_at(t): what was not updated within the retention window.
MarkExpired(mark, t) == mark # Unmarked /\ mark.updated < t - Ttl
Pruned(marks, t) == [m \in Media |-> IF MarkExpired(marks[m], t) THEN Unmarked ELSE marks[m]]

Reading == {r \in Reporters : report[r].step = "read"}

\* A statement that changes rows leaves the snapshots that were read behind.
Overtakes == behind' = IF mediaRows' = mediaRows THEN behind ELSE behind \cup Reading

\* validate_checkpoint_input
Timely(at) == at <= now + Drift /\ at >= now - Ttl

\* A report that only a bookmark can overtake.
IsOutdatedByBookmark(new, mark, stone) ==
  mark # Unmarked /\ (mark.at > new.at \/ (mark.at = new.at /\ ~new.done))

\* A tombstone that is as late as the report, or a later bookmark, keeps it out.
IsOutdated(new, mark, stone) ==
  \/ stone # Unmarked /\ stone.at >= new.at
  \/ /\ mark # Unmarked
     /\ mark.at > new.at \/ (mark.at = new.at /\ ~new.done)

Goes(r, step) == report' = [report EXCEPT ![r].step = step]

\* The handler's access check and the time of the request.
ReportArrives(r, new) ==
  /\ report[r] = NoReport
  /\ new.media \in readable /\ Timely(new.at)
  /\ report' = [report EXCEPT ![r] = [step |-> "arrived", media |-> new.media, at |-> new.at,
                                     done |-> new.done, asOf |-> now]]
  /\ UNCHANGED <<now, mediaRows, readable, behind, finished, dropped>>

\* prune_at, first the tombstones ...
PruneStones(t) == tombstone' = Pruned(tombstone, t) /\ bookmark' = bookmark /\ Overtakes

ReportSweeps(r) ==
  /\ report[r].step = "arrived" /\ PruneStones(report[r].asOf) /\ Goes(r, "swept")
  /\ UNCHANGED <<now, readable, finished, dropped>>

\* ... then the bookmarks.
PruneMarks(t) == bookmark' = Pruned(bookmark, t) /\ tombstone' = tombstone /\ Overtakes

ReportPrunes(r) ==
  /\ report[r].step = "swept" /\ PruneMarks(report[r].asOf) /\ Goes(r, "pruned")
  /\ UNCHANGED <<now, readable, finished, dropped>>

\* Every other request that lists, reads or reports prunes by the time it came at.
OthersPrune(t) ==
  /\ PruneStones(t) \/ PruneMarks(t)
  /\ UNCHANGED <<now, readable, report, finished, dropped>>

\* The reads of the transaction.
ReportReads(r) ==
  /\ report[r].step = "pruned"
  /\ LET new == report[r]
     IN IF IsOutdated(new, bookmark[new.media], tombstone[new.media])
          THEN report' = [report EXCEPT ![r] = NoReport]
          ELSE Goes(r, "read")
  /\ behind' = behind \ {r}
  /\ UNCHANGED <<now, mediaRows, readable, finished, dropped>>

\* Any write is taken for the last word.
WritesAnyway(r) == TRUE

SnapshotIsLast(r) == r \notin behind

ReportWrites(r) ==
  /\ report[r].step = "read" /\ SnapshotIsLast(r)
  /\ LET new == report[r]
         mark == [at |-> new.at, updated |-> new.asOf]
     IN IF new.done
          THEN /\ tombstone' = [tombstone EXCEPT ![new.media] = mark]
               /\ bookmark' = [bookmark EXCEPT ![new.media] = Unmarked]
               /\ finished' = [finished EXCEPT ![new.media] =
                                 IF new.at <= new.asOf THEN new.at ELSE NoTime]
          ELSE /\ tombstone' = [tombstone EXCEPT ![new.media] = Unmarked]
               /\ bookmark' = [bookmark EXCEPT ![new.media] = mark]
               /\ finished' = [finished EXCEPT ![new.media] = IF @ <= new.asOf THEN @ ELSE NoTime]
  /\ report' = [report EXCEPT ![r] = NoReport]
  /\ behind' = (behind \cup Reading) \ {r}
  /\ UNCHANGED <<now, readable, dropped>>

\* SQLITE_BUSY_SNAPSHOT or another error: the report fails, and the client may send it
\* again.
ReportFails(r) ==
  /\ report[r] # NoReport
  /\ report' = [report EXCEPT ![r] = NoReport]
  /\ behind' = behind \ {r}
  /\ UNCHANGED <<now, mediaRows, readable, finished, dropped>>

Discard(gone) ==
  /\ gone # {}
  /\ bookmark' = [m \in Media |-> IF m \in gone THEN Unmarked ELSE bookmark[m]]
  /\ dropped' = dropped \cup gone
  /\ behind' = behind \cup Reading
  /\ UNCHANGED <<now, tombstone, readable, report, finished>>

\* remove: no tombstone is left.
RemoveBookmark(m) == bookmark[m] # Unmarked /\ Discard({m})

\* clean_for_user, before a list or a get, when it has pruned.
CleanForUser == Discard({m \in Media : bookmark[m] # Unmarked /\ m \notin readable})

AccessChanges(m) ==
  /\ readable' = IF m \in readable THEN readable \ {m} ELSE readable \cup {m}
  /\ UNCHANGED <<now, mediaRows, report, behind, finished, dropped>>

MediaClock ==
  /\ now < MaxNow
  /\ now' = now + 1
  /\ UNCHANGED <<mediaRows, readable, report, behind, finished, dropped>>

MediaNext ==
  \/ \E r \in Reporters :
       \/ \E new \in Reports : ReportArrives(r, new)
       \/ ReportSweeps(r) \/ ReportPrunes(r) \/ ReportReads(r) \/ ReportWrites(r) \/ ReportFails(r)
  \/ \E t \in 0..now : OthersPrune(t)
  \/ \E m \in Media : RemoveBookmark(m) \/ AccessChanges(m)
  \/ CleanForUser
  \/ MediaClock

MediaSpec == MediaInit /\ [][MediaNext]_mediaVars

-----------------------------------------------------------------------------
(* Properties                                                              *)

\* "A 5-second-delayed progress heartbeat can never resurrect a completed
\* album/playlist" (media/mod.rs): whatever other requests prune while a report is
\* under way, a bookmark was captured after the media was last finished, unless that
\* end is longer ago than the retention window.  Removing the bookmark of a second
\* listening forgets the first one's end, so media with a removed bookmark are left
\* aside.  So is an end reported by a clock ahead of the server's, or one that a report
\* from before it, of such a clock, has replaced.
FinishedStaysFinished ==
  \A m \in Media :
    bookmark[m] # Unmarked /\ m \notin dropped =>
      bookmark[m].at > finished[m] \/ finished[m] < now - Ttl

\* A bookmark that was neither removed nor finished only moves forward.
BookmarkMovesForward ==
  [][\A m \in Media :
       bookmark[m] # Unmarked /\ bookmark'[m] # Unmarked =>
         bookmark'[m].at >= bookmark[m].at]_mediaVars
=============================================================================
