--------------------------- MODULE PlaylistSharing ---------------------------
(***************************************************************************)
(* Sharing of one playlist (playlists/collaboration/service.rs): its mode  *)
(* and grants, the invitation links, and the party queue in which          *)
(* collaborators ask the hosting player for tracks.                        *)
(*                                                                         *)
(* Most calls are one deferred SQLite transaction: it decides on a         *)
(* snapshot, and its first write fails if another call has committed since *)
(* (as in QueueSessions).  The owner makes the managing calls; a device    *)
(* stands for a login session of the owner and its player.                 *)
(***************************************************************************)
EXTENDS Naturals, FiniteSets

CONSTANTS
  Members,            \* household members other than the owner
  Hosts,              \* sessions and devices of the owner
  Callers,            \* calls under way at once
  Keys,               \* idempotency keys
  MaxLinks,           \* bound: links ever created
  MaxActiveLinks,     \* MAX_ACTIVE_SHARE_LINKS
  MaxPendingTotal,    \* MAX_PARTY_PENDING_TOTAL
  MaxPendingOwn,      \* MAX_PARTY_PENDING_PER_USER
  MaxRevision,        \* bound: saves of the sharing
  MaxParties,         \* bound: parties ever opened
  MaxTroubles         \* bound: lapses, expiries, logouts and account changes

ASSUME SharingBoundsAssumption ==
  {MaxLinks, MaxActiveLinks, MaxPendingTotal, MaxPendingOwn, MaxRevision, MaxParties,
   MaxTroubles} \subseteq Nat

Modes == {"PRIVATE", "SHARED_READ", "COLLABORATIVE", "PUBLIC_SERVER"}
Grantable == {"none", "VIEWER", "COLLABORATOR"}
Anyone == "anyone"
ASSUME NamesAssumption == Anyone \notin Members

NoParty == [id |-> 0]
Quiet == [op |-> "none"]
Outdated == [op |-> "outdated"]

VARIABLES
  mode, revision,  \* playlists.sharing_mode and sharing_revision
  role,            \* playlist_permissions
  enabled,         \* members whose account is not disabled
  link,            \* playlist_share_links, in the order of their creation
  party,           \* the playlist_party_sessions row with closed_at IS NULL
  parties,         \* parties so far
  asked,           \* playlist_party_requests, by requester and key
  call,            \* the calls that have read their snapshot
  troubles

sharingRows == <<mode, revision, role, enabled, link, party, parties, asked>>
sharingVars == <<sharingRows, call, troubles>>

Grants == [Members -> Grantable]
LinkRows == [recipient : Members \cup {Anyone}, made : 0..MaxRevision, is : {"active", "expired", "revoked"}]
Ops ==
  [op : {"sharing"}, expects : 0..MaxRevision, mode : Modes, grants : Grants]
  \cup [op : {"link"}, recipient : Members \cup {Anyone}]
  \cup [op : {"start", "heartbeat", "close"}, host : Hosts]
  \cup [op : {"state"}]
  \cup [op : {"ask"}, by : Members, key : Keys]
  \cup [op : {"QUEUED", "DISMISSED"}, host : Hosts, by : Members, key : Keys]

SharingTypeOK ==
  /\ mode \in Modes /\ revision \in 0..MaxRevision /\ role \in Grants
  /\ enabled \subseteq Members
  /\ \E n \in 0..MaxLinks : link \in [1..n -> LinkRows]
  /\ party \in {NoParty} \cup [id : 1..MaxParties, host : Hosts, lapsed : BOOLEAN]
  /\ parties \in 0..MaxParties
  /\ asked \in [Members \X Keys -> [party : 0..MaxParties,
                                    is : {"none", "PENDING", "QUEUED", "DISMISSED"}]]
  /\ call \in [Callers -> {Quiet, Outdated} \cup Ops]
  /\ troubles \in 0..MaxTroubles

NotAsked == [party |-> 0, is |-> "none"]

SharingInit ==
  /\ mode = "PRIVATE" /\ revision = 0
  /\ role = [m \in Members |-> "none"] /\ enabled = Members
  /\ link = [i \in {} |-> 0]
  /\ party = NoParty /\ parties = 0
  /\ asked = [a \in Members \X Keys |-> NotAsked]
  /\ call = [c \in Callers |-> Quiet]
  /\ troubles = 0

-----------------------------------------------------------------------------
\* access_on_conn, for the members.
CanRead(m) ==
  /\ m \in enabled
  /\ mode = "PUBLIC_SERVER" \/ (mode \in {"SHARED_READ", "COLLABORATIVE"} /\ role[m] # "none")
CanEdit(m) == m \in enabled /\ mode = "COLLABORATIVE" /\ role[m] = "COLLABORATOR"

\* The roles a mode admits.
Admits(m, grants) ==
  \A u \in Members :
    \/ grants[u] = "none"
    \/ m = "COLLABORATIVE"
    \/ m = "SHARED_READ" /\ grants[u] = "VIEWER"

ActiveLinks == {i \in DOMAIN link : link[i].is = "active"}

\* active_party_on_conn: an open party whose lease runs, of a collaborative playlist.
PartyOn == party # NoParty /\ ~party.lapsed /\ mode = "COLLABORATIVE"

Pending == {a \in DOMAIN asked : asked[a].party = party.id /\ asked[a].is = "PENDING"}
PendingOf(m) == {a \in Pending : a[1] = m}

\* What a call decides on its snapshot: whether it goes on to write.
MaySave(o) ==
  /\ o.expects = revision
  /\ Admits(o.mode, o.grants)
  /\ \A u \in Members : o.grants[u] # "none" => u \in enabled

MayLink(o) ==
  /\ mode # "PRIVATE"
  /\ IF o.recipient = Anyone
       THEN mode = "PUBLIC_SERVER"
       ELSE /\ o.recipient \in enabled
            /\ mode = "PUBLIC_SERVER" \/ role[o.recipient] # "none"
  /\ Cardinality(ActiveLinks) < MaxActiveLinks

MayStart(o) == mode = "COLLABORATIVE" /\ (PartyOn => party.host = o.host)

\* A key that was used in this party is answered without a write.
MayAsk(o) ==
  /\ CanEdit(o.by) /\ PartyOn
  /\ asked[o.by, o.key].party # party.id
  /\ Cardinality(Pending) < MaxPendingTotal
  /\ Cardinality(PendingOf(o.by)) < MaxPendingOwn

MayControl(o) == PartyOn /\ party.host = o.host

MayReview(o) ==
  /\ MayControl(o)
  /\ asked[o.by, o.key].party = party.id
  /\ asked[o.by, o.key].is \in {"PENDING", o.op}

Allowed(o) ==
  \/ o.op = "sharing" /\ MaySave(o)
  \/ o.op = "link" /\ MayLink(o)
  \/ o.op = "start" /\ MayStart(o)
  \/ o.op = "state"
  \/ o.op = "ask" /\ MayAsk(o)
  \/ o.op \in {"heartbeat", "close"} /\ MayControl(o)
  \/ o.op \in {"QUEUED", "DISMISSED"} /\ MayReview(o)

\* begin and the reads. A call that is refused changes nothing.
Reads(c, o) ==
  /\ call[c] = Quiet /\ Allowed(o)
  /\ call' = [call EXCEPT ![c] = o]
  /\ UNCHANGED <<sharingRows, troubles>>

-----------------------------------------------------------------------------
(* The writes and the commit.                                              *)

\* A call that read outside its transaction goes on with what it has read.
ReadsOutside(c) == call[c]

\* A commit makes the snapshots of the other calls outdated.
Overtaken(c) == IF call[c] = Quiet THEN Quiet ELSE Outdated

Commits(c, op) ==
  /\ call[c].op = op
  /\ call' = [d \in Callers |-> IF d = c THEN Quiet ELSE Overtaken(d)]
  /\ UNCHANGED troubles

\* SQLITE_BUSY_SNAPSHOT: the call is answered with an error.
Fails(c) ==
  /\ call[c] = Outdated
  /\ call' = [call EXCEPT ![c] = Quiet]
  /\ UNCHANGED <<sharingRows, troubles>>

LinkRevoked(l) == [l EXCEPT !.is = "revoked"]

\* A save that revokes links only when the playlist becomes private.
UpdateSharingKeepsLinks(c) ==
  /\ Commits(c, "sharing") /\ revision < MaxRevision
  /\ mode' = call[c].mode /\ role' = call[c].grants
  /\ revision' = revision + 1
  /\ link' = IF call[c].mode = "PRIVATE" THEN [i \in DOMAIN link |-> LinkRevoked(link[i])] ELSE link
  /\ party' = IF call[c].mode # "COLLABORATIVE" THEN NoParty ELSE party
  /\ UNCHANGED <<enabled, parties, asked>>

\* update_sharing: every link is revoked; the party ends with the mode.
UpdateSharing(c) ==
  /\ Commits(c, "sharing") /\ revision < MaxRevision
  /\ mode' = call[c].mode /\ role' = call[c].grants
  /\ revision' = revision + 1
  /\ link' = [i \in DOMAIN link |-> LinkRevoked(link[i])]
  /\ party' = IF call[c].mode # "COLLABORATIVE" THEN NoParty ELSE party
  /\ UNCHANGED <<enabled, parties, asked>>

CreateLink(c) ==
  /\ Commits(c, "link")
  /\ LET n == Cardinality(DOMAIN link) + 1 IN
       /\ n <= MaxLinks
       /\ link' = [i \in 1..n |-> IF i < n THEN link[i]
                                  ELSE [recipient |-> call[c].recipient, made |-> revision,
                                        is |-> "active"]]
  /\ UNCHANGED <<mode, revision, role, enabled, party, parties, asked>>

\* start_party renews the party of the same host, or closes the one that is over
\* and opens another.
StartParty(c) ==
  /\ Commits(c, "start")
  /\ IF PartyOn
       THEN party' = [party EXCEPT !.lapsed = FALSE] /\ parties' = parties
       ELSE /\ parties < MaxParties
            /\ parties' = parties + 1
            /\ party' = [id |-> parties', host |-> call[c].host, lapsed |-> FALSE]
  /\ UNCHANGED <<mode, revision, role, enabled, link, asked>>

\* party_state closes a party that is over, and dismisses what those ask who are
\* no collaborators any more.
PartyState(c) ==
  /\ Commits(c, "state")
  /\ party' = IF PartyOn THEN party ELSE NoParty
  /\ asked' = [a \in DOMAIN asked |->
                 IF /\ PartyOn /\ a \in Pending
                    /\ a[1] \notin enabled \/ role[a[1]] # "COLLABORATOR"
                   THEN [asked[a] EXCEPT !.is = "DISMISSED"] ELSE asked[a]]
  /\ UNCHANGED <<mode, revision, role, enabled, link, parties>>

RequestTrack(c) ==
  /\ Commits(c, "ask")
  /\ asked' = [asked EXCEPT ![<<call[c].by, call[c].key>>] = [party |-> party.id, is |-> "PENDING"]]
  /\ UNCHANGED <<mode, revision, role, enabled, link, party, parties>>

HostHeartbeat(c) ==
  /\ Commits(c, "heartbeat")
  /\ party' = [party EXCEPT !.lapsed = FALSE]
  /\ UNCHANGED <<mode, revision, role, enabled, link, parties, asked>>

HostClose(c) ==
  /\ Commits(c, "close")
  /\ party' = NoParty
  /\ UNCHANGED <<mode, revision, role, enabled, link, parties, asked>>

HostReview(c) ==
  /\ \E op \in {"QUEUED", "DISMISSED"} :
       /\ Commits(c, op)
       /\ asked' = [asked EXCEPT ![<<call[c].by, call[c].key>>].is = op]
  /\ UNCHANGED <<mode, revision, role, enabled, link, party, parties>>

-----------------------------------------------------------------------------
(* Single statements, and what happens elsewhere.                          *)

Elsewhere == call' = [c \in Callers |-> Overtaken(c)]

RevokeLink(i) ==
  /\ i \in DOMAIN link /\ link[i].is # "revoked"
  /\ link' = [link EXCEPT ![i] = LinkRevoked(@)]
  /\ Elsewhere
  /\ UNCHANGED <<mode, revision, role, enabled, party, parties, asked, troubles>>

Trouble == troubles < MaxTroubles /\ troubles' = troubles + 1

\* The lease of the host runs out, or a link; no row changes.
LeaseLapses ==
  /\ party # NoParty /\ ~party.lapsed /\ Trouble
  /\ party' = [party EXCEPT !.lapsed = TRUE]
  /\ UNCHANGED <<mode, revision, role, enabled, link, parties, asked, call>>

LinkExpires(i) ==
  /\ i \in DOMAIN link /\ link[i].is = "active" /\ Trouble
  /\ link' = [link EXCEPT ![i].is = "expired"]
  /\ UNCHANGED <<mode, revision, role, enabled, party, parties, asked, call>>

\* The session of the host is deleted, and its party with it (ON DELETE CASCADE).
HostLogsOut ==
  /\ party # NoParty /\ Trouble
  /\ party' = NoParty
  /\ asked' = [a \in DOMAIN asked |-> IF asked[a].party = party.id THEN NotAsked ELSE asked[a]]
  /\ Elsewhere
  /\ UNCHANGED <<mode, revision, role, enabled, link, parties>>

AccountChanges(m) ==
  /\ Trouble
  /\ enabled' = IF m \in enabled THEN enabled \ {m} ELSE enabled \cup {m}
  /\ Elsewhere
  /\ UNCHANGED <<mode, revision, role, link, party, parties, asked>>

Write(c) ==
  \/ UpdateSharing(c) \/ CreateLink(c) \/ StartParty(c) \/ PartyState(c) \/ RequestTrack(c)
  \/ HostHeartbeat(c) \/ HostClose(c) \/ HostReview(c)

SharingNext ==
  \/ \E c \in Callers : (\E o \in Ops : Reads(c, o)) \/ Write(c) \/ Fails(c)
  \/ \E i \in 1..MaxLinks : RevokeLink(i) \/ LinkExpires(i)
  \/ LeaseLapses \/ HostLogsOut
  \/ \E m \in Members : AccountChanges(m)

SharingSpec == SharingInit /\ [][SharingNext]_sharingVars

-----------------------------------------------------------------------------
(* Properties                                                              *)

\* "Saving sharing settings invalidates all previous invitations"
\* (playlist-collaboration.md): no overlap of a save with create_link or
\* start_party leaves a link that still opens from before the save, or a party
\* that would come back with the mode.
OldSharingIsOver ==
  /\ \A i \in DOMAIN link : link[i].is = "active" => link[i].made = revision
  /\ party # NoParty => mode = "COLLABORATIVE"

\* Overlapping requests do not pass the limits of a party (request_track).
PartyQueueWithinLimits ==
  party # NoParty =>
    /\ Cardinality(Pending) <= MaxPendingTotal
    /\ \A m \in Members : Cardinality(PendingOf(m)) <= MaxPendingOwn
=============================================================================
