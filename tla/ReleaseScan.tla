---------------------------- MODULE ReleaseScan ----------------------------
(***************************************************************************)
(* Followed artists and the scans of their releases                        *)
(* (social/artist_follows.rs): the rows of followed_artist_catalog, which  *)
(* a scan leases one by one, what one account follows, and the cache.      *)
(*                                                                         *)
(* Each follow starts a scan beside the scheduled one.  A statement or a   *)
(* transaction is one action: a transaction that was overtaken by another  *)
(* writes nothing (SQLITE_BUSY_SNAPSHOT), and no scan asks whether it did. *)
(* The two deletes at the end of a scan, of which neither depends on the   *)
(* other, are one action too.                                              *)
(* The requests of a lookup are in StoreThrottle; a scan holds the gate    *)
(* of RuntimeGate.  Which releases there are, and the artist's id at the   *)
(* store, is data.                                                         *)
(***************************************************************************)
EXTENDS Integers, FiniteSets

CONSTANTS
  Artists,
  Scanners,      \* scans under way at once
  LeaseTime,     \* five minutes
  CheckEvery,    \* six hours
  BackoffBase,   \* a quarter of an hour, doubled with every failure
  BackoffCap,    \* a day
  StorePause,    \* retry_at of a store that cools down, from now
  KeepTime,      \* 45 days
  MaxFollows,    \* MAX_FOLLOWED_ARTISTS_PER_USER
  MaxFailures,   \* bound: failures that the backoff tells apart
  MaxScanTime,   \* bound: the time, which begins later than 45 days
  MaxMishaps     \* bound: crashes and changes of the policy

ASSUME ScanAssumption ==
  /\ {LeaseTime, CheckEvery, BackoffBase, BackoffCap, StorePause, KeepTime,
      MaxFollows, MaxFailures, MaxScanTime, MaxMishaps} \subseteq Nat
  /\ LeaseTime > 0 /\ KeepTime < MaxScanTime

Never == 0        \* a checked_at that is NULL, a lease that is free
NoScan == [at |-> "idle"]
NoEntry == [inTable |-> FALSE]
NewEntry == [inTable |-> TRUE, next |-> 0, checked |-> Never, failures |-> 0, lease |-> Never]

VARIABLES
  scanTime,
  followed,    \* followed_artists of the account
  catalog,     \* followed_artist_catalog
  cached,      \* artists with releases in new_release_cache
  scan,        \* the scans
  permitted,   \* the policy for metadata
  latest,      \* history: the scan that leased the artist last
  mishaps

scanVars == <<scanTime, followed, catalog, cached, scan, permitted, latest, mishaps>>

DueLists == UNION {[listed -> 0..MaxFailures] : listed \in SUBSET Artists}
Scans ==
  [at : {"next"}, list : DueLists, withdrawn : BOOLEAN]
  \cup [at : {"claim", "lookup", "heard", "release"}, list : DueLists, withdrawn : BOOLEAN,
        artist : Artists, lease : Nat, failures : 0..MaxFailures]
  \cup [at : {"prune"}]

ScanTypeOK ==
  /\ scanTime \in 0..MaxScanTime
  /\ followed \subseteq Artists /\ cached \subseteq Artists
  /\ catalog \in [Artists -> {NoEntry} \cup
       [inTable : {TRUE}, next : Nat, checked : 0..MaxScanTime, failures : 0..MaxFailures,
        lease : 0..(MaxScanTime + LeaseTime)]]
  /\ scan \in [Scanners -> {NoScan} \cup Scans]
  /\ permitted \in BOOLEAN
  /\ latest \in [Artists -> Scanners \cup {"nobody"}]
  /\ mishaps \in 0..MaxMishaps

ScanInit ==
  /\ scanTime = KeepTime + 1
  /\ followed = {} /\ cached = {}
  /\ catalog = [a \in Artists |-> NoEntry]
  /\ scan = [s \in Scanners |-> NoScan]
  /\ permitted = TRUE
  /\ latest = [a \in Artists |-> "nobody"]
  /\ mishaps = 0

-----------------------------------------------------------------------------
(* Following                                                               *)

\* The policy is asked first; a known artist keeps its row.
FollowArtist(a) ==
  /\ permitted
  /\ a \in followed \/ Cardinality(followed) < MaxFollows
  /\ catalog' = [catalog EXCEPT ![a] = IF @.inTable THEN @ ELSE NewEntry]
  /\ followed' = followed \cup {a}
  /\ UNCHANGED <<scanTime, cached, scan, permitted, latest, mishaps>>

UnfollowArtist(a) ==
  /\ followed' = followed \ {a}
  /\ UNCHANGED <<scanTime, catalog, cached, scan, permitted, latest, mishaps>>

-----------------------------------------------------------------------------
(* A scan                                                                  *)

Due(a) == catalog[a].inTable /\ catalog[a].next <= scanTime /\ catalog[a].lease <= scanTime

ScanBecomes(s, to) == scan' = [scan EXCEPT ![s] = to]
Changes(a, to) == catalog' = [catalog EXCEPT ![a] = to]

\* The permit and the list of what is due; the list is not read again.
ScanBegins(s) ==
  /\ scan[s] = NoScan /\ permitted
  /\ ScanBecomes(s, [at |-> "next", withdrawn |-> FALSE,
                     list |-> [a \in {x \in followed : Due(x)} |-> catalog[a].failures]])
  /\ UNCHANGED <<scanTime, followed, catalog, cached, permitted, latest, mishaps>>

Rest(s, a) == [b \in DOMAIN scan[s].list \ {a} |-> scan[s].list[b]]

\* An artist whose next check is due, leased or not.
ClaimsAnyway(a) == catalog[a].inTable /\ catalog[a].next <= scanTime

MayClaim(a) == Due(a)

\* The look at the permit, before each artist.
ScanGoesOn(s, a) ==
  /\ scan[s].at = "next" /\ a \in DOMAIN scan[s].list /\ ~scan[s].withdrawn
  /\ ScanBecomes(s, [at |-> "claim", list |-> Rest(s, a), withdrawn |-> FALSE, artist |-> a,
                     lease |-> Never, failures |-> scan[s].list[a]])
  /\ UNCHANGED <<scanTime, followed, catalog, cached, permitted, latest, mishaps>>

ToNext(s) == ScanBecomes(s, [at |-> "next", list |-> scan[s].list, withdrawn |-> scan[s].withdrawn])

\* The conditional UPDATE that leases an artist; if it finds none, on to the next.
ScanClaims(s) ==
  /\ scan[s].at = "claim"
  /\ IF MayClaim(scan[s].artist)
       THEN LET until == scanTime + LeaseTime IN
              /\ Changes(scan[s].artist, [catalog[scan[s].artist] EXCEPT !.lease = until])
              /\ latest' = [latest EXCEPT ![scan[s].artist] = s]
              /\ ScanBecomes(s, [scan[s] EXCEPT !.at = "lookup", !.lease = until])
       ELSE ToNext(s) /\ UNCHANGED <<catalog, latest>>
  /\ UNCHANGED <<scanTime, followed, cached, permitted, mishaps>>

\* The lookup has ended, well or not, and the permit was not withdrawn.
ScanHears(s) ==
  /\ scan[s].at = "lookup" /\ ~scan[s].withdrawn
  /\ ScanBecomes(s, [scan[s] EXCEPT !.at = "heard"])
  /\ UNCHANGED <<scanTime, followed, catalog, cached, permitted, latest, mishaps>>

\* The row is in the table.
StillThere(s) == catalog[scan[s].artist].inTable

\* The row is in the table and has the lease of this scan.
StillOwned(s) == catalog[scan[s].artist].inTable /\ catalog[scan[s].artist].lease = scan[s].lease

HasHeard(s) == scan[s].at = "heard"
Releasing(s) == scan[s].at = "release"
ToRelease(s) == ScanBecomes(s, [scan[s] EXCEPT !.at = "release"])

\* What fetch_artist_releases has found, if the lease is still its own.
ScanRecords(s) ==
  /\ HasHeard(s)
  /\ IF StillOwned(s)
       THEN /\ Changes(scan[s].artist,
                       [catalog[scan[s].artist] EXCEPT
                          !.checked = scanTime, !.next = scanTime + CheckEvery, !.failures = 0])
            /\ cached' \in {cached, cached \cup {scan[s].artist}}
       ELSE UNCHANGED <<catalog, cached>>
  /\ ToRelease(s)
  /\ UNCHANGED <<scanTime, followed, permitted, latest, mishaps>>

\* A database error, or a transaction that was overtaken: nothing is written.
ScanLosesResult(s) ==
  /\ HasHeard(s)
  /\ ToRelease(s)
  /\ UNCHANGED <<scanTime, followed, catalog, cached, permitted, latest, mishaps>>

AtMost(a, b) == IF a <= b THEN a ELSE b
AtLeast(a, b) == IF a >= b THEN a ELSE b
Backoff(failures) == AtMost(BackoffBase * 2 ^ failures, BackoffCap)

\* The backoff counts the failures of the list, not those of the row.
ScanFails(s) ==
  /\ HasHeard(s)
  /\ \E retryAt \in {0, scanTime + StorePause} :
       IF StillOwned(s)
         THEN Changes(scan[s].artist,
                [catalog[scan[s].artist] EXCEPT
                   !.failures = AtMost(@ + 1, MaxFailures),
                   !.next = AtLeast(scanTime + Backoff(scan[s].failures), retryAt)])
         ELSE catalog' = catalog
  /\ ToRelease(s)
  /\ UNCHANGED <<scanTime, followed, cached, permitted, latest, mishaps>>

FreesLease(s) ==
  catalog' = IF StillOwned(s) THEN [catalog EXCEPT ![scan[s].artist].lease = Never] ELSE catalog

ScanReleases(s) ==
  /\ Releasing(s)
  /\ FreesLease(s)
  /\ ToNext(s)
  /\ UNCHANGED <<scanTime, followed, cached, permitted, latest, mishaps>>

\* The policy has withdrawn the permit: the lease goes back, and nothing is counted.
ScanWithdrawn(s) ==
  /\ scan[s].at = "lookup" /\ scan[s].withdrawn
  /\ FreesLease(s)
  /\ ScanBecomes(s, [at |-> "prune"])
  /\ UNCHANGED <<scanTime, followed, cached, permitted, latest, mishaps>>

ScanStops(s) ==
  /\ scan[s].at = "next" /\ (scan[s].withdrawn \/ DOMAIN scan[s].list = {})
  /\ ScanBecomes(s, [at |-> "prune"])
  /\ UNCHANGED <<scanTime, followed, catalog, cached, permitted, latest, mishaps>>

\* Releases of 45 days ago, and artists nobody follows whose last check is as old;
\* the cached releases go with their artist.
Prunable(a) ==
  /\ catalog[a].inTable /\ a \notin followed
  /\ catalog[a].lease = Never /\ catalog[a].checked < scanTime - KeepTime

ScanPrunes(s) ==
  /\ scan[s].at = "prune"
  /\ catalog' = [a \in Artists |-> IF Prunable(a) THEN NoEntry ELSE catalog[a]]
  /\ \E old \in SUBSET cached : cached' = {a \in cached \ old : ~Prunable(a)}
  /\ ScanBecomes(s, NoScan)
  /\ UNCHANGED <<scanTime, followed, permitted, latest, mishaps>>

-----------------------------------------------------------------------------
(* The policy, a crash and the time                                        *)

Mishap == mishaps < MaxMishaps /\ mishaps' = mishaps + 1

\* A permit that is withdrawn stays withdrawn.
PolicyTurns ==
  /\ Mishap
  /\ permitted' = ~permitted
  /\ scan' = [s \in Scanners |->
                IF permitted /\ scan[s].at \notin {"idle", "prune"}
                  THEN [scan[s] EXCEPT !.withdrawn = TRUE] ELSE scan[s]]
  /\ UNCHANGED <<scanTime, followed, catalog, cached, latest>>

ScansCrash ==
  /\ Mishap
  /\ scan' = [s \in Scanners |-> NoScan]
  /\ UNCHANGED <<scanTime, followed, catalog, cached, permitted, latest>>

\* A lookup may outlast its lease.
ScanClock ==
  /\ scanTime < MaxScanTime
  /\ scanTime' = scanTime + 1
  /\ UNCHANGED <<followed, catalog, cached, scan, permitted, latest, mishaps>>

ScanNext ==
  \/ \E a \in Artists : FollowArtist(a) \/ UnfollowArtist(a)
  \/ \E s \in Scanners :
       \/ ScanBegins(s) \/ (\E a \in Artists : ScanGoesOn(s, a)) \/ ScanClaims(s) \/ ScanHears(s)
       \/ ScanRecords(s) \/ ScanLosesResult(s) \/ ScanFails(s) \/ ScanReleases(s)
       \/ ScanWithdrawn(s) \/ ScanStops(s) \/ ScanPrunes(s)
  \/ PolicyTurns \/ ScansCrash \/ ScanClock

ScanSpec == ScanInit /\ [][ScanNext]_scanVars

-----------------------------------------------------------------------------
(* Properties                                                              *)

Holds(s, a) == scan[s].at \in {"lookup", "heard", "release"} /\ scan[s].artist = a

\* An artist is leased by one scan at a time (scan_due_artists): a scan that leases
\* it meets no other lookup of it whose lease still runs, and a scan whose artist
\* another one has leased since neither records a late result, nor counts a late
\* failure, nor frees the lease of its successor.
ScansKeepApart ==
  [][\A s \in Scanners, a \in Artists :
       /\ Holds(s, a)' /\ ~Holds(s, a) =>
            \A t \in Scanners \ {s} : Holds(t, a) => scan[t].lease <= scanTime
       /\ Holds(s, a) /\ latest[a] # s /\ scan'[s] # scan[s] =>
            catalog'[a] = catalog[a] /\ cached' = cached]_scanVars
=============================================================================
