-------------------------- MODULE ListeningProofs --------------------------
(***************************************************************************)
(* What the listeners of one household do to a shared playlist and to      *)
(* their bookmarks, for every number of members, overlapping calls,        *)
(* devices and reports, and what the scans of releases do to the artists   *)
(* they follow and to the stores they ask.                                 *)
(*                                                                         *)
(* A playlist, a bookmark and a throttle are changed on the snapshot of a  *)
(* deferred transaction.  The inductive invariants say what is left of     *)
(* that decision when the write comes: a call that is not outdated has     *)
(* seen the last commit, so what it has read still holds, but for what     *)
(* changes without a commit (a lease that lapses, a link that expires, the *)
(* time).  A scan of releases decides on the lease in the row, which tells *)
(* it from its successors.                                                 *)
(***************************************************************************)
EXTENDS PlaylistSharing, ResumableMedia, ReleaseScan, StoreThrottle, FiniteSetTheorems, TLAPS

-----------------------------------------------------------------------------
(***************************************************************************)
(* PlaylistSharing.                                                        *)
(***************************************************************************)

Parties == [id : 1..MaxParties, host : Hosts, lapsed : BOOLEAN]
PartyAnswers == [party : 0..MaxParties, is : {"none", "PENDING", "QUEUED", "DISMISSED"}]

\* What a call that is not outdated has read, as far as its write relies on it.
CallsHold ==
  \A c \in Callers :
    /\ call[c].op = "start" => mode = "COLLABORATIVE"
    /\ call[c].op = "heartbeat" => party # NoParty
    /\ call[c].op = "ask" =>
         /\ party # NoParty
         /\ Cardinality(Pending) < MaxPendingTotal
         /\ Cardinality(PendingOf(call[c].by)) < MaxPendingOwn

\* Ids of parties are not used again.
PartiesKnown ==
  /\ party # NoParty => party.id <= parties
  /\ \A a \in DOMAIN asked : asked[a].party <= parties

PendingCounted ==
  party # NoParty => IsFiniteSet(Pending) /\ PartyQueueWithinLimits

SharingInv == SharingTypeOK /\ CallsHold /\ PartiesKnown /\ OldSharingIsOver /\ PendingCounted

\* The fields a call has, by its operation.
LEMMA CallFields ==
  ASSUME SharingTypeOK, NEW c \in Callers
  PROVE  /\ call[c] \in {Quiet, Outdated} \cup Ops
         /\ call[c].op = "ask" => call[c].by \in Members /\ call[c].key \in Keys
         /\ call[c].op \in {"QUEUED", "DISMISSED"} =>
              call[c].by \in Members /\ call[c].key \in Keys
         /\ call[c].op = "start" => call[c].host \in Hosts
         /\ call[c].op = "link" => call[c].recipient \in Members \cup {Anyone}
         /\ call[c].op = "sharing" => call[c].mode \in Modes /\ call[c].grants \in Grants
<1>1. call[c] \in {Quiet, Outdated} \cup Ops
  BY DEF SharingTypeOK
<1>2. CASE call[c] \in {Quiet, Outdated}
  BY <1>1, <1>2 DEF Quiet, Outdated
<1>3. CASE call[c] \in Ops
  <2> DEFINE o == call[c]
  <2>1. \/ o \in [op : {"sharing"}, expects : 0..MaxRevision, mode : Modes, grants : Grants]
        \/ o \in [op : {"link"}, recipient : Members \cup {Anyone}]
        \/ o \in [op : {"start", "heartbeat", "close"}, host : Hosts]
        \/ o \in [op : {"state"}]
        \/ o \in [op : {"ask"}, by : Members, key : Keys]
        \/ o \in [op : {"QUEUED", "DISMISSED"}, host : Hosts, by : Members, key : Keys]
    BY <1>3 DEF Ops
  <2> HIDE DEF o
  <2>2. /\ o.op = "ask" => o.by \in Members /\ o.key \in Keys
        /\ o.op \in {"QUEUED", "DISMISSED"} => o.by \in Members /\ o.key \in Keys
        /\ o.op = "start" => o.host \in Hosts
        /\ o.op = "link" => o.recipient \in Members \cup {Anyone}
        /\ o.op = "sharing" => o.mode \in Modes /\ o.grants \in Grants
    BY <2>1
  <2>. QED
    BY <1>1, <2>2 DEF o
<1>. QED
  BY <1>1, <1>2, <1>3

\* A commit leaves no call with a snapshot.
LEMMA NobodyHasRead ==
  ASSUME SharingTypeOK,
         \/ \E c \in Callers : call' = [d \in Callers |-> IF d = c THEN Quiet ELSE Overtaken(d)]
         \/ Elsewhere
  PROVE  CallsHold' /\ call' \in [Callers -> {Quiet, Outdated} \cup Ops]
<1>1. \A d \in Callers : call'[d] \in {Quiet, Outdated}
  BY DEF Elsewhere, Overtaken
<1>2. \A d \in Callers : call'[d].op \in {"none", "outdated"}
  BY <1>1 DEF Quiet, Outdated
<1>3. call' \in [Callers -> {Quiet, Outdated}]
  BY <1>1 DEF Elsewhere
<1>. QED
  BY <1>2, <1>3 DEF CallsHold

\* A private playlist without links and parties.
LEMMA SharingInitially == SharingInit => SharingInv
<1> SUFFICES ASSUME SharingInit PROVE SharingInv
  OBVIOUS
<1>1. SharingTypeOK
  <2>1. link \in [1..0 -> LinkRows] /\ 0 \in 0..MaxLinks
    BY SharingBoundsAssumption DEF SharingInit
  <2>2. asked \in [Members \X Keys -> PartyAnswers]
    BY SharingBoundsAssumption DEF SharingInit, NotAsked, PartyAnswers
  <2>3. /\ mode \in Modes /\ role \in Grants /\ enabled \subseteq Members /\ party = NoParty
        /\ revision \in 0..MaxRevision /\ parties \in 0..MaxParties /\ troubles \in 0..MaxTroubles
        /\ call \in [Callers -> {Quiet, Outdated} \cup Ops]
    BY SharingBoundsAssumption DEF SharingInit, Modes, Grants, Grantable
  <2>. QED
    BY <2>1, <2>2, <2>3 DEF SharingTypeOK, PartyAnswers
<1>2. CallsHold
  BY DEF SharingInit, CallsHold, Quiet
<1>3. PartiesKnown /\ OldSharingIsOver /\ PendingCounted
  BY DEF SharingInit, PartiesKnown, OldSharingIsOver, PendingCounted, NotAsked
<1>. QED
  BY <1>1, <1>2, <1>3 DEF SharingInv

\* A part of a finite set within its limit.
LEMMA WithinLimit ==
  ASSUME NEW S, NEW T \in SUBSET S, NEW limit \in Nat, IsFiniteSet(S), Cardinality(S) <= limit
  PROVE  IsFiniteSet(T) /\ Cardinality(T) <= limit
<1>1. IsFiniteSet(T) /\ Cardinality(T) <= Cardinality(S)
  BY FS_Subset
<1>2. Cardinality(S) \in Nat /\ Cardinality(T) \in Nat
  BY <1>1, FS_CardinalityType
<1>. QED
  BY <1>1, <1>2

\* At most one element more in a finite set that was below its limit.
LEMMA BelowLimit ==
  ASSUME NEW S, NEW x, NEW T \in SUBSET (S \cup {x}), NEW limit \in Nat,
         IsFiniteSet(S), Cardinality(S) < limit
  PROVE  IsFiniteSet(T) /\ Cardinality(T) <= limit
<1>1. /\ IsFiniteSet(S \cup {x})
      /\ Cardinality(S \cup {x}) = IF x \in S THEN Cardinality(S) ELSE Cardinality(S) + 1
  BY FS_AddElement
<1>2. Cardinality(S) \in Nat
  BY FS_CardinalityType
<1>3. Cardinality(S \cup {x}) <= limit
  BY <1>1, <1>2
<1>. QED
  BY <1>1, <1>3, WithinLimit

\* Requests that are no longer pending keep the limits.
LEMMA FewerPending ==
  ASSUME SharingTypeOK, PendingCounted, party # NoParty, Pending' \subseteq Pending
  PROVE  PendingCounted'
<1>1. /\ IsFiniteSet(Pending) /\ Cardinality(Pending) <= MaxPendingTotal
      /\ \A m \in Members : Cardinality(PendingOf(m)) <= MaxPendingOwn
      /\ MaxPendingTotal \in Nat /\ MaxPendingOwn \in Nat
  BY SharingBoundsAssumption DEF PendingCounted, PartyQueueWithinLimits
<1>2. IsFiniteSet(Pending') /\ Cardinality(Pending') <= MaxPendingTotal
  BY <1>1, WithinLimit
<1>3. ASSUME NEW m \in Members
      PROVE  Cardinality(PendingOf(m)') <= MaxPendingOwn
  <2>1. PendingOf(m)' \subseteq PendingOf(m) /\ PendingOf(m) \subseteq Pending
    BY DEF PendingOf
  <2>2. IsFiniteSet(PendingOf(m))
    BY <1>1, <2>1, FS_Subset
  <2>. QED
    BY <1>1, <2>1, <2>2, WithinLimit
<1>. QED
  BY <1>2, <1>3 DEF PendingCounted, PartyQueueWithinLimits

\* Nothing is pending in a party that has just begun.
LEMMA NothingPending ==
  ASSUME Pending' = {}
  PROVE  PendingCounted'
<1>1. IsFiniteSet({}) /\ Cardinality({}) = 0
  BY FS_EmptySet
<1>2. \A m \in Members : PendingOf(m)' = {}
  BY DEF PendingOf
<1>. QED
  BY <1>1, <1>2, SharingBoundsAssumption DEF PendingCounted, PartyQueueWithinLimits

\* update_sharing revokes the links, and the party with the mode.
LEMMA UpdateSharingStep ==
  ASSUME SharingInv, NEW c \in Callers, UpdateSharing(c)
  PROVE  SharingInv'
<1>1. /\ SharingTypeOK /\ PartiesKnown /\ OldSharingIsOver /\ PendingCounted
      /\ call[c].op = "sharing"
  BY DEF SharingInv, UpdateSharing, Commits
<1>2. CallsHold' /\ call' \in [Callers -> {Quiet, Outdated} \cup Ops]
  BY <1>1, NobodyHasRead DEF UpdateSharing, Commits
<1>3. mode' \in Modes /\ role' \in Grants
  BY <1>1, CallFields DEF UpdateSharing
<1>4. /\ link' = [i \in DOMAIN link |-> LinkRevoked(link[i])]
      /\ revision' \in 0..MaxRevision
      /\ party' = (IF mode' # "COLLABORATIVE" THEN NoParty ELSE party)
      /\ UNCHANGED <<enabled, parties, asked, troubles>>
  BY <1>1, SharingBoundsAssumption DEF UpdateSharing, Commits, SharingTypeOK
<1>5. \E n \in 0..MaxLinks : link' \in [1..n -> LinkRows]
  <2>1. PICK n \in 0..MaxLinks : link \in [1..n -> LinkRows]
    BY <1>1 DEF SharingTypeOK
  <2>2. \A i \in 1..n : LinkRevoked(link[i]) \in LinkRows
    BY <2>1 DEF LinkRevoked, LinkRows
  <2>. QED
    BY <1>4, <2>1, <2>2
<1>6. \A i \in DOMAIN link' : link'[i].is = "revoked"
  BY <1>1, <1>4 DEF LinkRevoked, LinkRows, SharingTypeOK
<1>7. SharingTypeOK'
  BY <1>1, <1>2, <1>3, <1>4, <1>5 DEF SharingTypeOK
<1>8. OldSharingIsOver'
  BY <1>4, <1>6 DEF OldSharingIsOver
<1>9. PartiesKnown'
  BY <1>1, <1>4 DEF PartiesKnown
<1>10. PendingCounted'
  <2>1. CASE party' = NoParty
    BY <2>1 DEF PendingCounted
  <2>2. CASE party' # NoParty
    <3>1. party' = party /\ asked' = asked
      BY <1>4, <2>2
    <3>. QED
      BY <1>1, <2>2, <3>1, FewerPending DEF Pending
  <2>. QED
    BY <2>1, <2>2
<1>. QED
  BY <1>2, <1>7, <1>8, <1>9, <1>10 DEF SharingInv

\* The links: create_link, revoke_link and the end of a link.
LEMMA LinkStep ==
  ASSUME SharingInv,
         \/ \E c \in Callers : CreateLink(c)
         \/ \E i \in 1..MaxLinks : RevokeLink(i) \/ LinkExpires(i)
  PROVE  SharingInv'
<1>1. SharingTypeOK /\ CallsHold /\ PartiesKnown /\ OldSharingIsOver /\ PendingCounted
  BY DEF SharingInv
<1>2. UNCHANGED <<mode, revision, role, enabled, party, parties, asked>>
  BY DEF CreateLink, RevokeLink, LinkExpires
<1>3. CallsHold' /\ call' \in [Callers -> {Quiet, Outdated} \cup Ops] /\ troubles' \in 0..MaxTroubles
  <2>1. CASE \E c \in Callers : CreateLink(c)
    BY <1>1, <2>1, NobodyHasRead DEF CreateLink, Commits, SharingTypeOK
  <2>2. CASE \E i \in 1..MaxLinks : RevokeLink(i)
    BY <1>1, <2>2, NobodyHasRead DEF RevokeLink, SharingTypeOK
  <2>3. CASE \E i \in 1..MaxLinks : LinkExpires(i)
    <3>1. call' = call /\ troubles < MaxTroubles /\ troubles' = troubles + 1
      BY <2>3 DEF LinkExpires, Trouble
    <3>2. CallsHold'
      BY <1>1, <1>2, <3>1 DEF CallsHold, Pending, PendingOf
    <3>3. troubles' \in 0..MaxTroubles
      BY <1>1, <3>1, SharingBoundsAssumption DEF SharingTypeOK
    <3>. QED
      BY <1>1, <3>1, <3>2, <3>3 DEF SharingTypeOK
  <2>. QED
    BY <2>1, <2>2, <2>3
<1>4. /\ \E n \in 0..MaxLinks : link' \in [1..n -> LinkRows]
      /\ \A i \in DOMAIN link' : link'[i].is = "active" => link'[i].made = revision
  <2>1. PICK n \in 0..MaxLinks : link \in [1..n -> LinkRows]
    BY <1>1 DEF SharingTypeOK
  <2>2. CASE \E c \in Callers : CreateLink(c)
    <3>1. PICK c \in Callers : CreateLink(c)
      BY <2>2
    <3> DEFINE k == Cardinality(DOMAIN link) + 1
               new == [recipient |-> call[c].recipient, made |-> revision, is |-> "active"]
    <3>2. link' = [i \in 1..k |-> IF i < k THEN link[i] ELSE new] /\ k <= MaxLinks
      BY <3>1 DEF CreateLink
    <3>3. k = n + 1
      <4>1. DOMAIN link = 1..n /\ n \in Nat
        BY <2>1
      <4>2. 1 \in Int /\ n \in Int
        BY <4>1
      <4>3. Cardinality(1..n) = IF 1 > n THEN 0 ELSE n - 1 + 1
        BY <4>2, FS_Interval
      <4>. QED
        BY <4>1, <4>3
    <3>4. new \in LinkRows /\ new.made = revision
      BY <1>1, <3>1, CallFields DEF LinkRows, SharingTypeOK, CreateLink, Commits
    <3> HIDE DEF k, new
    <3>5. link' \in [1..k -> LinkRows] /\ k \in 0..MaxLinks
      BY <2>1, <3>2, <3>3, <3>4, SharingBoundsAssumption
    <3>6. \A i \in DOMAIN link' : \/ i \in DOMAIN link /\ link'[i] = link[i]
                                  \/ link'[i] = new
      BY <2>1, <3>2, <3>3
    <3>. QED
      BY <1>1, <3>4, <3>5, <3>6 DEF OldSharingIsOver
  <2>3. CASE \E i \in 1..MaxLinks : RevokeLink(i) \/ LinkExpires(i)
    <3>1. PICK i \in DOMAIN link, is \in {"revoked", "expired"} :
            link' = [link EXCEPT ![i] = [link[i] EXCEPT !.is = is]]
      BY <2>3 DEF RevokeLink, LinkExpires, LinkRevoked
    <3>2. link' \in [1..n -> LinkRows]
      BY <2>1, <3>1 DEF LinkRows
    <3>3. \A j \in DOMAIN link' : link'[j].is = "active" => j \in DOMAIN link /\ link'[j] = link[j]
      BY <2>1, <3>1 DEF LinkRows
    <3>. QED
      BY <1>1, <3>2, <3>3 DEF OldSharingIsOver
  <2>. QED
    BY <2>2, <2>3
<1>5. SharingTypeOK'
  BY <1>1, <1>2, <1>3, <1>4 DEF SharingTypeOK
<1>6. OldSharingIsOver'
  BY <1>1, <1>2, <1>4 DEF OldSharingIsOver
<1>7. PartiesKnown'
  BY <1>1, <1>2 DEF PartiesKnown
<1>8. PendingCounted'
  BY <1>1, <1>2 DEF PendingCounted, PartyQueueWithinLimits, Pending, PendingOf
<1>. QED
  BY <1>3, <1>5, <1>6, <1>7, <1>8 DEF SharingInv

\* start_party: the party of the same host, or the next one.
LEMMA StartPartyStep ==
  ASSUME SharingInv, NEW c \in Callers, StartParty(c)
  PROVE  SharingInv'
<1>1. /\ SharingTypeOK /\ CallsHold /\ PartiesKnown /\ OldSharingIsOver /\ PendingCounted
      /\ call[c].op = "start"
  BY DEF SharingInv, StartParty, Commits
<1>2. CallsHold' /\ call' \in [Callers -> {Quiet, Outdated} \cup Ops] /\ troubles' = troubles
  BY <1>1, NobodyHasRead DEF StartParty, Commits
<1>3. mode = "COLLABORATIVE" /\ call[c].host \in Hosts
  BY <1>1, CallFields DEF CallsHold
<1>4. UNCHANGED <<mode, revision, role, enabled, link, asked>>
  BY DEF StartParty
<1>5. CASE PartyOn
  <2>1. party # NoParty /\ party \in Parties
    BY <1>1, <1>5 DEF PartyOn, SharingTypeOK, Parties
  <2>2. party' = [party EXCEPT !.lapsed = FALSE] /\ parties' = parties
    BY <1>5 DEF StartParty
  <2>3. party' \in Parties /\ party'.id = party.id
    BY <2>1, <2>2 DEF Parties
  <2>4. SharingTypeOK'
    BY <1>1, <1>2, <1>4, <2>2, <2>3 DEF SharingTypeOK, Parties
  <2>5. PartiesKnown'
    BY <1>1, <1>4, <2>1, <2>2, <2>3 DEF PartiesKnown
  <2>6. Pending' = Pending
    BY <1>4, <2>3 DEF Pending
  <2>7. PendingCounted'
    BY <1>1, <2>1, <2>6, FewerPending
  <2>8. OldSharingIsOver'
    BY <1>1, <1>3, <1>4 DEF OldSharingIsOver
  <2>. QED
    BY <1>2, <2>4, <2>5, <2>7, <2>8 DEF SharingInv
<1>6. CASE ~PartyOn
  <2>1. /\ parties < MaxParties /\ parties' = parties + 1
        /\ party' = [id |-> parties', host |-> call[c].host, lapsed |-> FALSE]
    BY <1>6 DEF StartParty
  <2>2. parties \in Nat /\ parties' \in 1..MaxParties /\ parties' \in 0..MaxParties
    BY <1>1, <2>1, SharingBoundsAssumption DEF SharingTypeOK
  <2>3. party' \in Parties /\ party'.id = parties'
    BY <1>3, <2>1, <2>2 DEF Parties
  <2>4. SharingTypeOK'
    BY <1>1, <1>2, <1>4, <2>2, <2>3 DEF SharingTypeOK, Parties
  <2>5. ASSUME NEW a \in DOMAIN asked PROVE asked[a].party <= parties' /\ asked[a].party # parties'
    <3>1. asked[a].party \in Nat /\ asked[a].party <= parties
      BY <1>1, SharingBoundsAssumption DEF PartiesKnown, SharingTypeOK
    <3>. QED
      BY <2>1, <2>2, <3>1
  <2>6. PartiesKnown'
    <3>1. parties' <= parties'
      BY <2>2
    <3>. QED
      BY <1>4, <2>3, <2>5, <3>1 DEF PartiesKnown
  <2>7. Pending' = {}
    BY <1>4, <2>3, <2>5 DEF Pending
  <2>8. PendingCounted'
    BY <2>7, NothingPending
  <2>9. OldSharingIsOver'
    BY <1>1, <1>3, <1>4 DEF OldSharingIsOver
  <2>. QED
    BY <1>2, <2>4, <2>6, <2>8, <2>9 DEF SharingInv
<1>. QED
  BY <1>5, <1>6

\* request_track takes a place that was free when it read.
LEMMA RequestTrackStep ==
  ASSUME SharingInv, NEW c \in Callers, RequestTrack(c)
  PROVE  SharingInv'
<1>1. /\ SharingTypeOK /\ CallsHold /\ PartiesKnown /\ OldSharingIsOver /\ PendingCounted
      /\ call[c].op = "ask"
  BY DEF SharingInv, RequestTrack, Commits
<1>2. CallsHold' /\ call' \in [Callers -> {Quiet, Outdated} \cup Ops] /\ troubles' = troubles
  BY <1>1, NobodyHasRead DEF RequestTrack, Commits
<1> DEFINE by == call[c].by
           place == <<call[c].by, call[c].key>>
<1>3. by \in Members /\ place \in Members \X Keys /\ place[1] = by
  BY <1>1, CallFields
<1>4. /\ asked' = [asked EXCEPT ![place] = [party |-> party.id, is |-> "PENDING"]]
      /\ UNCHANGED <<mode, revision, role, enabled, link, party, parties>>
  BY DEF RequestTrack
<1>5. /\ party # NoParty /\ Cardinality(Pending) < MaxPendingTotal
      /\ Cardinality(PendingOf(by)) < MaxPendingOwn
  BY <1>1 DEF CallsHold
<1> HIDE DEF by, place
<1>6. asked \in [Members \X Keys -> PartyAnswers] /\ party.id \in 0..MaxParties /\ party \in Parties
  BY <1>1, <1>5 DEF SharingTypeOK, PartyAnswers, Parties
<1>7. asked' \in [Members \X Keys -> PartyAnswers]
  BY <1>3, <1>4, <1>6 DEF PartyAnswers
<1>8. SharingTypeOK'
  BY <1>1, <1>2, <1>4, <1>7 DEF SharingTypeOK, PartyAnswers
<1>9. OldSharingIsOver'
  BY <1>1, <1>4 DEF OldSharingIsOver
<1>10. PartiesKnown'
  BY <1>1, <1>3, <1>4, <1>5, <1>6 DEF PartiesKnown
<1>11. Pending' \subseteq Pending \cup {place}
  BY <1>3, <1>4, <1>6 DEF Pending
<1>12. PendingCounted'
  <2>1. /\ IsFiniteSet(Pending) /\ MaxPendingTotal \in Nat /\ MaxPendingOwn \in Nat
        /\ \A m \in Members : Cardinality(PendingOf(m)) <= MaxPendingOwn
    BY <1>1, <1>5, SharingBoundsAssumption DEF PendingCounted, PartyQueueWithinLimits
  <2>2. IsFiniteSet(Pending') /\ Cardinality(Pending') <= MaxPendingTotal
    BY <1>5, <1>11, <2>1, BelowLimit
  <2>3. ASSUME NEW m \in Members PROVE Cardinality(PendingOf(m)') <= MaxPendingOwn
    <3>1. IsFiniteSet(PendingOf(m)) /\ IsFiniteSet(PendingOf(by))
      <4>1. PendingOf(m) \subseteq Pending /\ PendingOf(by) \subseteq Pending
        BY DEF PendingOf
      <4>. QED
        BY <2>1, <4>1, FS_Subset
    <3>2. CASE m = by
      <4>1. PendingOf(m)' \subseteq PendingOf(by) \cup {place}
        BY <1>11, <3>2 DEF PendingOf
      <4>. QED
        BY <1>5, <2>1, <3>1, <4>1, BelowLimit
    <3>3. CASE m # by
      <4>1. PendingOf(m)' \subseteq PendingOf(m)
        BY <1>3, <1>11, <3>3 DEF PendingOf
      <4>. QED
        BY <2>1, <3>1, <4>1, WithinLimit
    <3>. QED
      BY <3>2, <3>3
  <2>. QED
    BY <2>2, <2>3 DEF PendingCounted, PartyQueueWithinLimits
<1>. QED
  BY <1>2, <1>8, <1>9, <1>10, <1>12 DEF SharingInv

\* The host's calls and party_state end requests or the party, and begin none.
LEMMA HostStep ==
  ASSUME SharingInv, NEW c \in Callers,
         PartyState(c) \/ HostHeartbeat(c) \/ HostClose(c) \/ HostReview(c)
  PROVE  SharingInv'
<1>1. SharingTypeOK /\ CallsHold /\ PartiesKnown /\ OldSharingIsOver /\ PendingCounted
  BY DEF SharingInv
<1>2. CallsHold' /\ call' \in [Callers -> {Quiet, Outdated} \cup Ops] /\ troubles' = troubles
  BY <1>1, NobodyHasRead DEF PartyState, HostHeartbeat, HostClose, HostReview, Commits
<1>3. UNCHANGED <<mode, revision, role, enabled, link, parties>>
  BY DEF PartyState, HostHeartbeat, HostClose, HostReview
<1>4. asked \in [Members \X Keys -> PartyAnswers] /\ party \in {NoParty} \cup Parties
  BY <1>1 DEF SharingTypeOK, PartyAnswers, Parties
<1>5. \/ party' = NoParty \/ party' = party
      \/ party # NoParty /\ party' = [party EXCEPT !.lapsed = FALSE]
  <2>1. CASE HostHeartbeat(c)
    BY <1>1, <2>1 DEF HostHeartbeat, Commits, CallsHold
  <2>2. CASE PartyState(c) \/ HostClose(c) \/ HostReview(c)
    BY <2>2 DEF PartyState, HostClose, HostReview
  <2>. QED
    BY <2>1, <2>2
<1>6. /\ party' \in {NoParty} \cup Parties
      /\ party' # NoParty => party # NoParty /\ party'.id = party.id
  BY <1>4, <1>5 DEF Parties
<1>7. /\ asked' \in [Members \X Keys -> PartyAnswers]
      /\ \A a \in Members \X Keys :
           /\ asked'[a].party = asked[a].party
           /\ asked'[a].is = "PENDING" => asked[a].is = "PENDING"
  <2>1. CASE HostHeartbeat(c) \/ HostClose(c)
    BY <1>4, <2>1 DEF HostHeartbeat, HostClose
  <2>2. CASE PartyState(c)
    <3>1. \A a \in Members \X Keys :
            asked'[a] \in {asked[a], [asked[a] EXCEPT !.is = "DISMISSED"]}
      BY <1>4, <2>2 DEF PartyState
    <3>2. asked' = [a \in Members \X Keys |-> asked'[a]]
      BY <1>4, <2>2 DEF PartyState
    <3>. QED
      BY <1>4, <3>1, <3>2 DEF PartyAnswers
  <2>3. CASE HostReview(c)
    <3>1. PICK op \in {"QUEUED", "DISMISSED"} :
            /\ call[c].op = op
            /\ asked' = [asked EXCEPT ![<<call[c].by, call[c].key>>].is = op]
      BY <2>3 DEF HostReview, Commits
    <3>2. call[c].by \in Members /\ call[c].key \in Keys
      BY <1>1, <3>1, CallFields
    <3> DEFINE place == <<call[c].by, call[c].key>>
    <3>3. place \in Members \X Keys
      BY <3>2
    <3>4. asked' = [asked EXCEPT ![place] = [asked[place] EXCEPT !.is = op]]
      BY <3>1
    <3> HIDE DEF place
    <3>5. \A a \in Members \X Keys :
            asked'[a] = (IF a = place THEN [asked[place] EXCEPT !.is = op] ELSE asked[a])
      BY <1>4, <3>4
    <3>6. asked[place] \in PartyAnswers
      BY <1>4, <3>3
    <3>7. /\ [asked[place] EXCEPT !.is = op] \in PartyAnswers
          /\ [asked[place] EXCEPT !.is = op].party = asked[place].party
          /\ [asked[place] EXCEPT !.is = op].is = op
      BY <3>6 DEF PartyAnswers
    <3>. QED
      BY <1>4, <3>4, <3>5, <3>7
  <2>. QED
    BY <2>1, <2>2, <2>3
<1>8. SharingTypeOK'
  BY <1>1, <1>2, <1>3, <1>6, <1>7 DEF SharingTypeOK, PartyAnswers, Parties
<1>9. OldSharingIsOver'
  BY <1>1, <1>3, <1>6 DEF OldSharingIsOver
<1>10. PartiesKnown'
  BY <1>1, <1>3, <1>4, <1>6, <1>7 DEF PartiesKnown
<1>11. PendingCounted'
  <2>1. CASE party' = NoParty
    BY <2>1 DEF PendingCounted
  <2>2. CASE party' # NoParty
    <3>1. Pending' \subseteq Pending
      BY <1>4, <1>6, <1>7, <2>2 DEF Pending
    <3>. QED
      BY <1>1, <1>6, <2>2, <3>1, FewerPending
  <2>. QED
    BY <2>1, <2>2
<1>. QED
  BY <1>2, <1>8, <1>9, <1>10, <1>11 DEF SharingInv

\* What a call decides on its snapshot, and what changes without a commit of a call.
LEMMA SharingElsewhere ==
  ASSUME SharingInv,
         \/ \E c \in Callers : Fails(c) \/ \E o \in Ops : Reads(c, o)
         \/ LeaseLapses \/ HostLogsOut
         \/ \E m \in Members : AccountChanges(m)
         \/ UNCHANGED sharingVars
  PROVE  SharingInv'
<1>1. SharingTypeOK /\ CallsHold /\ PartiesKnown /\ OldSharingIsOver /\ PendingCounted
  BY DEF SharingInv
<1>2. asked \in [Members \X Keys -> PartyAnswers] /\ party \in {NoParty} \cup Parties
  BY <1>1 DEF SharingTypeOK, PartyAnswers, Parties
<1>3. CASE \E c \in Callers : Fails(c) \/ \E o \in Ops : Reads(c, o)
  <2>1. PICK c \in Callers : Fails(c) \/ \E o \in Ops : Reads(c, o)
    BY <1>3
  <2>2. PICK to \in {Quiet} \cup Ops :
          /\ call' = [call EXCEPT ![c] = to]
          /\ to # Quiet => Allowed(to)
          /\ UNCHANGED <<sharingRows, troubles>>
    BY <2>1 DEF Fails, Reads
  <2>3. UNCHANGED <<mode, revision, role, enabled, link, party, parties, asked, troubles>>
    BY <2>2 DEF sharingRows
  <2>4. /\ call' \in [Callers -> {Quiet, Outdated} \cup Ops] /\ call'[c] = to
        /\ \A d \in Callers : d # c => call'[d] = call[d]
    BY <1>1, <2>2 DEF SharingTypeOK
  <2>5. /\ to.op = "start" => mode = "COLLABORATIVE"
        /\ to.op = "heartbeat" => party # NoParty
        /\ to.op = "ask" =>
             /\ party # NoParty
             /\ Cardinality(Pending) < MaxPendingTotal
             /\ Cardinality(PendingOf(to.by)) < MaxPendingOwn
    <3>1. CASE to = Quiet
      BY <3>1 DEF Quiet
    <3>2. CASE to # Quiet
      BY <2>2, <3>2 DEF Allowed, MayStart, MayControl, MayAsk, PartyOn
    <3>. QED
      BY <3>1, <3>2
  <2>6. Pending' = Pending /\ \A m : PendingOf(m)' = PendingOf(m)
    BY <2>3 DEF Pending, PendingOf
  <2>7. CallsHold'
    <3> SUFFICES ASSUME NEW d \in Callers
                 PROVE  /\ call'[d].op = "start" => mode = "COLLABORATIVE"
                        /\ call'[d].op = "heartbeat" => party # NoParty
                        /\ call'[d].op = "ask" =>
                             /\ party # NoParty
                             /\ Cardinality(Pending) < MaxPendingTotal
                             /\ Cardinality(PendingOf(call'[d].by)) < MaxPendingOwn
      BY <2>3 DEF CallsHold, Pending, PendingOf
    <3>1. CASE d = c
      BY <2>4, <2>5, <3>1
    <3>2. CASE d # c
      BY <1>1, <2>4, <3>2 DEF CallsHold
    <3>. QED
      BY <3>1, <3>2
  <2>8. SharingTypeOK' /\ PartiesKnown' /\ OldSharingIsOver' /\ PendingCounted'
    BY <1>1, <2>3, <2>4 DEF SharingTypeOK, PartiesKnown, OldSharingIsOver, PendingCounted,
                            PartyQueueWithinLimits, Pending, PendingOf
  <2>. QED
    BY <2>7, <2>8 DEF SharingInv
<1>4. CASE LeaseLapses
  <2>1. /\ party # NoParty /\ party' = [party EXCEPT !.lapsed = TRUE]
        /\ troubles < MaxTroubles /\ troubles' = troubles + 1
        /\ UNCHANGED <<mode, revision, role, enabled, link, parties, asked, call>>
    BY <1>4 DEF LeaseLapses, Trouble
  <2>2. party' \in Parties /\ party'.id = party.id /\ party' # NoParty
    BY <1>2, <2>1 DEF Parties, NoParty
  <2>3. Pending' = Pending
    BY <2>1, <2>2 DEF Pending
  <2>4. troubles' \in 0..MaxTroubles
    BY <1>1, <2>1, SharingBoundsAssumption DEF SharingTypeOK
  <2>5. SharingTypeOK'
    BY <1>1, <2>1, <2>2, <2>4 DEF SharingTypeOK, Parties
  <2>6. CallsHold'
    BY <1>1, <2>1, <2>2, <2>3 DEF CallsHold, PendingOf
  <2>7. PartiesKnown' /\ OldSharingIsOver'
    BY <1>1, <2>1, <2>2 DEF PartiesKnown, OldSharingIsOver
  <2>8. PendingCounted'
    BY <1>1, <2>1, <2>3, FewerPending
  <2>. QED
    BY <2>5, <2>6, <2>7, <2>8 DEF SharingInv
<1>5. CASE HostLogsOut
  <2>1. /\ party' = NoParty /\ troubles < MaxTroubles /\ troubles' = troubles + 1
        /\ asked' = [a \in DOMAIN asked |->
                       IF asked[a].party = party.id THEN NotAsked ELSE asked[a]]
        /\ UNCHANGED <<mode, revision, role, enabled, link, parties>> /\ Elsewhere
    BY <1>5 DEF HostLogsOut, Trouble
  <2>2. CallsHold' /\ call' \in [Callers -> {Quiet, Outdated} \cup Ops]
    BY <1>1, <2>1, NobodyHasRead
  <2>3. NotAsked \in PartyAnswers /\ NotAsked.party = 0
    BY SharingBoundsAssumption DEF NotAsked, PartyAnswers
  <2>4. /\ asked' \in [Members \X Keys -> PartyAnswers]
        /\ \A a \in Members \X Keys : asked'[a] = asked[a] \/ asked'[a] = NotAsked
    BY <1>2, <2>1, <2>3
  <2>5. troubles' \in 0..MaxTroubles /\ 0 <= parties
    BY <1>1, <2>1, SharingBoundsAssumption DEF SharingTypeOK
  <2>6. SharingTypeOK'
    BY <1>1, <2>1, <2>2, <2>4, <2>5 DEF SharingTypeOK, PartyAnswers
  <2>7. PartiesKnown' /\ OldSharingIsOver' /\ PendingCounted'
    BY <1>1, <1>2, <2>1, <2>3, <2>4, <2>5 DEF PartiesKnown, OldSharingIsOver, PendingCounted
  <2>. QED
    BY <2>2, <2>6, <2>7 DEF SharingInv
<1>6. CASE \E m \in Members : AccountChanges(m)
  <2>1. /\ troubles < MaxTroubles /\ troubles' = troubles + 1 /\ enabled' \subseteq Members
        /\ UNCHANGED <<mode, revision, role, link, party, parties, asked>> /\ Elsewhere
    BY <1>1, <1>6 DEF AccountChanges, Trouble, SharingTypeOK
  <2>2. CallsHold' /\ call' \in [Callers -> {Quiet, Outdated} \cup Ops]
    BY <1>1, <2>1, NobodyHasRead
  <2>3. troubles' \in 0..MaxTroubles
    BY <1>1, <2>1, SharingBoundsAssumption DEF SharingTypeOK
  <2>4. SharingTypeOK'
    BY <1>1, <2>1, <2>2, <2>3 DEF SharingTypeOK
  <2>5. PartiesKnown' /\ OldSharingIsOver' /\ PendingCounted'
    BY <1>1, <2>1 DEF PartiesKnown, OldSharingIsOver, PendingCounted, PartyQueueWithinLimits,
                      Pending, PendingOf
  <2>. QED
    BY <2>2, <2>4, <2>5 DEF SharingInv
<1>7. CASE UNCHANGED sharingVars
  BY <1>1, <1>7 DEF SharingInv, SharingTypeOK, CallsHold, PartiesKnown, OldSharingIsOver,
                    PendingCounted, PartyQueueWithinLimits, Pending, PendingOf, sharingVars,
                    sharingRows
<1>. QED
  BY <1>3, <1>4, <1>5, <1>6, <1>7

\* The invariant of the sharing of a playlist.
LEMMA SharingInvariant == SharingSpec => []SharingInv
<1>1. SharingInv /\ [SharingNext]_sharingVars => SharingInv'
  BY UpdateSharingStep, LinkStep, StartPartyStep, RequestTrackStep, HostStep, SharingElsewhere
     DEF SharingNext, Write
<1>. QED
  BY <1>1, SharingInitially, PTL DEF SharingSpec

\* The sharing of a playlist, its links, its party and the calls under way keep
\* their types.
THEOREM SharingTypes == SharingSpec => []SharingTypeOK
<1>1. SharingInv => SharingTypeOK
  BY DEF SharingInv
<1>. QED
  BY <1>1, SharingInvariant, PTL

\* No overlap of a save with create_link or start_party leaves a link from before
\* the save, or a party that outlives the mode (update_sharing).
THEOREM OldSharingEnds == SharingSpec => []OldSharingIsOver
<1>1. SharingInv => OldSharingIsOver
  BY DEF SharingInv
<1>. QED
  BY <1>1, SharingInvariant, PTL

\* However many members ask at once, a party has no more pending requests than
\* its limits allow (request_track).
THEOREM PartyLimitsKept == SharingSpec => []PartyQueueWithinLimits
<1>1. SharingInv => PartyQueueWithinLimits
  BY DEF SharingInv, PendingCounted, PartyQueueWithinLimits
<1>. QED
  BY <1>1, SharingInvariant, PTL

-----------------------------------------------------------------------------
(***************************************************************************)
(* ResumableMedia.  A media is left aside as soon as its bookmark was      *)
(* removed: the removal leaves no tombstone.                               *)
(***************************************************************************)

\* A bookmark was captured, and written, after the media was finished, or the end is
\* too long ago.
MarkedAfterEnd ==
  \A m \in Media : bookmark[m] # Unmarked =>
    /\ finished[m] <= bookmark[m].updated
    /\ m \notin dropped => finished[m] < bookmark[m].at \/ finished[m] < now - Ttl

\* Without a bookmark the end is in a tombstone, or too long ago.
EndRemembered ==
  \A m \in Media :
    /\ finished[m] <= now
    /\ tombstone[m] # Unmarked => finished[m] <= tombstone[m].updated
    /\ bookmark[m] = Unmarked /\ m \notin dropped =>
         \/ finished[m] = NoTime
         \/ finished[m] < now - Ttl
         \/ tombstone[m] # Unmarked /\ finished[m] <= tombstone[m].at

\* What a report that has read and is not behind has found.
ReportsHold ==
  \A r \in Reporters :
    /\ report[r] # NoReport => report[r].asOf <= now
    /\ report[r].step = "read" /\ r \notin behind =>
         /\ report[r].media \notin dropped =>
              \/ finished[report[r].media] < report[r].at
              \/ finished[report[r].media] < now - Ttl
         /\ bookmark[report[r].media] # Unmarked =>
              bookmark[report[r].media].at <= report[r].at

MediaInv == MediaTypeOK /\ MarkedAfterEnd /\ EndRemembered /\ ReportsHold

\* Times are integers.
LEMMA MediaTimes ==
  ASSUME MediaTypeOK
  PROVE  /\ Ttl \in Nat /\ now \in Nat /\ NoTime = -1
         /\ \A t \in Times : t \in Nat
         /\ \A t \in 0..MaxNow : t \in Nat /\ t \in Times
         /\ \A m \in Media :
              /\ finished[m] \in Int
              /\ bookmark[m] # Unmarked => bookmark[m].at \in Nat /\ bookmark[m].updated \in Nat
              /\ tombstone[m] # Unmarked => tombstone[m].at \in Nat /\ tombstone[m].updated \in Nat
         /\ \A r \in Reporters : report[r] # NoReport =>
              report[r] \in Handled /\ report[r].media \in Media /\ report[r].at \in Nat
                /\ report[r].asOf \in Nat
<1>1. /\ \A t \in Times : t \in Nat
      /\ \A t \in 0..MaxNow : t \in Nat /\ t \in Times
      /\ Ttl \in Nat /\ NoTime = -1
  BY MediaBoundsAssumption DEF Times, NoTime
<1>2. \A mark \in Marks : mark # Unmarked => mark.at \in Nat /\ mark.updated \in Nat
  BY <1>1 DEF Marks
<1>3. \A h \in Handled : h.media \in Media /\ h.at \in Nat /\ h.asOf \in Nat
  BY <1>1 DEF Handled
<1>4. /\ now \in 0..MaxNow
      /\ \A m \in Media : /\ bookmark[m] \in Marks /\ tombstone[m] \in Marks
                           /\ finished[m] \in Times \cup {NoTime}
      /\ \A r \in Reporters : report[r] \in Handled \cup {NoReport}
  BY DEF MediaTypeOK
<1>5. \A t \in Times \cup {NoTime} : t \in Int
  BY <1>1
<1>. QED
  BY <1>1, <1>2, <1>3, <1>4, <1>5

\* An account without bookmarks.
LEMMA MediaInitially == MediaInit => MediaInv
<1> SUFFICES ASSUME MediaInit PROVE MediaInv
  OBVIOUS
<1>1. MediaTypeOK
  BY MediaBoundsAssumption DEF MediaInit, MediaTypeOK, Marks
<1>2. MarkedAfterEnd /\ EndRemembered /\ ReportsHold
  BY DEF MediaInit, MarkedAfterEnd, EndRemembered, ReportsHold, NoTime, NoReport
<1>. QED
  BY <1>1, <1>2 DEF MediaInv

\* The rows after prune_at.
LEMMA PrunedRows ==
  ASSUME MediaTypeOK, NEW marks, marks \in [Media -> Marks], NEW t \in Nat, t <= now
  PROVE  /\ Pruned(marks, t) \in [Media -> Marks]
         /\ \A m \in Media :
              \/ Pruned(marks, t)[m] = marks[m]
              \/ /\ Pruned(marks, t)[m] = Unmarked
                 /\ marks[m] # Unmarked /\ marks[m].updated < now - Ttl
<1>1. Unmarked \in Marks
  BY DEF Marks
<1>2. Ttl \in Nat /\ now \in Nat
  BY MediaTimes
<1>3. \A mark \in Marks : mark # Unmarked => mark.updated \in Nat
  BY MediaBoundsAssumption DEF Marks
<1>4. \A mark \in Marks : mark # Unmarked /\ mark.updated < t - Ttl => mark.updated < now - Ttl
  BY <1>2, <1>3
<1>. QED
  BY <1>1, <1>4 DEF Pruned, MarkExpired

\* Rows are pruned by the time of some request, while reports that have read stay as
\* they are.
LEMMA PruneKeeps ==
  ASSUME MediaInv, NEW t \in Nat, t <= now, PruneStones(t) \/ PruneMarks(t),
         UNCHANGED <<now, readable, finished, dropped>>,
         report' \in [Reporters -> Handled \cup {NoReport}],
         \A q \in Reporters :
           /\ report'[q] # NoReport => report[q] # NoReport /\ report'[q].asOf = report[q].asOf
           /\ report'[q].step = "read" => report'[q] = report[q]
  PROVE  MediaInv'
<1>1. MediaTypeOK /\ MarkedAfterEnd /\ EndRemembered /\ ReportsHold
  BY DEF MediaInv
<1>2. /\ bookmark' \in {bookmark, Pruned(bookmark, t)} /\ tombstone' \in {tombstone, Pruned(tombstone, t)}
      /\ UNCHANGED <<now, readable, finished, dropped>>
      /\ Overtakes
  BY DEF PruneStones, PruneMarks
<1>3. /\ bookmark' \in [Media -> Marks] /\ tombstone' \in [Media -> Marks]
      /\ \A m \in Media :
           /\ \/ bookmark'[m] = bookmark[m]
              \/ /\ bookmark'[m] = Unmarked
                 /\ bookmark[m] # Unmarked /\ bookmark[m].updated < now - Ttl
           /\ \/ tombstone'[m] = tombstone[m]
              \/ /\ tombstone'[m] = Unmarked
                 /\ tombstone[m] # Unmarked /\ tombstone[m].updated < now - Ttl
  BY <1>1, <1>2, PrunedRows DEF MediaTypeOK
<1>4. /\ behind' \subseteq Reporters
      /\ \A q \in Reporters : report[q].step = "read" /\ q \notin behind' =>
           q \notin behind /\ bookmark' = bookmark
  BY <1>1, <1>2 DEF MediaTypeOK, Overtakes, Reading, mediaRows
<1>5. MediaTypeOK'
  BY <1>1, <1>2, <1>3, <1>4 DEF MediaTypeOK
<1>6. MarkedAfterEnd'
  BY <1>1, <1>2, <1>3 DEF MarkedAfterEnd
<1>7. EndRemembered'
  <2> SUFFICES ASSUME NEW m \in Media
               PROVE  /\ finished[m] <= now
                      /\ tombstone'[m] # Unmarked => finished[m] <= tombstone'[m].updated
                      /\ bookmark'[m] = Unmarked /\ m \notin dropped =>
                           \/ finished[m] = NoTime
                           \/ finished[m] < now - Ttl
                           \/ tombstone'[m] # Unmarked /\ finished[m] <= tombstone'[m].at
    BY <1>2 DEF EndRemembered
  <2>1. /\ finished[m] <= now
        /\ tombstone[m] # Unmarked => finished[m] <= tombstone[m].updated
        /\ bookmark[m] # Unmarked => finished[m] <= bookmark[m].updated
    BY <1>1 DEF EndRemembered, MarkedAfterEnd
  <2>2. /\ bookmark'[m] # bookmark[m] => finished[m] < now - Ttl
        /\ tombstone'[m] # tombstone[m] => finished[m] < now - Ttl
    BY <1>1, <1>3, <2>1, MediaTimes
  <2>3. tombstone'[m] # Unmarked => tombstone'[m] = tombstone[m]
    BY <1>3
  <2>4. \/ bookmark[m] # Unmarked \/ m \in dropped
        \/ finished[m] = NoTime \/ finished[m] < now - Ttl
        \/ tombstone[m] # Unmarked /\ finished[m] <= tombstone[m].at
    BY <1>1 DEF EndRemembered
  <2>5. ASSUME bookmark'[m] = Unmarked, m \notin dropped,
               finished[m] # NoTime, ~(finished[m] < now - Ttl)
        PROVE  tombstone'[m] # Unmarked /\ finished[m] <= tombstone'[m].at
    <3>1. bookmark[m] = Unmarked /\ tombstone'[m] = tombstone[m]
      BY <2>2, <2>5
    <3>. QED
      BY <2>4, <2>5, <3>1
  <2>. QED
    BY <2>1, <2>3, <2>5
<1>8. ReportsHold'
  <2> SUFFICES ASSUME NEW q \in Reporters
               PROVE  /\ report'[q] # NoReport => report'[q].asOf <= now
                      /\ report'[q].step = "read" /\ q \notin behind' =>
                           /\ report'[q].media \notin dropped =>
                                \/ finished[report'[q].media] < report'[q].at
                                \/ finished[report'[q].media] < now - Ttl
                           /\ bookmark'[report'[q].media] # Unmarked =>
                                bookmark'[report'[q].media].at <= report'[q].at
    BY <1>2 DEF ReportsHold
  <2>1. report'[q] # NoReport => report'[q].asOf <= now
    BY <1>1 DEF ReportsHold
  <2>2. ASSUME report'[q].step = "read", q \notin behind'
        PROVE  report'[q] = report[q] /\ q \notin behind /\ bookmark' = bookmark
    <3>1. report'[q] = report[q]
      BY <2>2
    <3>. QED
      BY <1>4, <2>2, <3>1
  <2>. QED
    BY <1>1, <2>1, <2>2 DEF ReportsHold
<1>. QED
  BY <1>5, <1>6, <1>7, <1>8 DEF MediaInv

\* A report goes one step on.
LEMMA GoesTyped ==
  ASSUME MediaTypeOK, NEW r \in Reporters, report[r] # NoReport,
         NEW s \in {"swept", "pruned", "read"}, Goes(r, s)
  PROVE  /\ report' \in [Reporters -> Handled \cup {NoReport}]
         /\ report'[r] = [report[r] EXCEPT !.step = s] /\ report'[r] \in Handled
         /\ \A q \in Reporters : q # r => report'[q] = report[q]
<1>1. report[r] \in Handled /\ report \in [Reporters -> Handled \cup {NoReport}]
  BY MediaTimes DEF MediaTypeOK
<1>2. [report[r] EXCEPT !.step = s] \in Handled
  BY <1>1 DEF Handled
<1>3. report' = [report EXCEPT ![r] = [report[r] EXCEPT !.step = s]]
  BY <1>1 DEF Goes
<1>. QED
  BY <1>1, <1>2, <1>3

\* The prunes of a report, and of the other requests.
LEMMA PrunesStep ==
  ASSUME MediaInv,
         \/ \E r \in Reporters : ReportSweeps(r) \/ ReportPrunes(r)
         \/ \E t \in 0..now : OthersPrune(t)
  PROVE  MediaInv'
<1>0. MediaTypeOK /\ ReportsHold /\ now \in Nat
  BY MediaTimes DEF MediaInv
<1>1. CASE \E r \in Reporters : ReportSweeps(r) \/ ReportPrunes(r)
  <2>1. PICK r \in Reporters : ReportSweeps(r) \/ ReportPrunes(r)
    BY <1>1
  <2>2. PICK s \in {"swept", "pruned"} : Goes(r, s)
    BY <2>1 DEF ReportSweeps, ReportPrunes
  <2>3. /\ report[r].step \in {"arrived", "swept"}
        /\ PruneStones(report[r].asOf) \/ PruneMarks(report[r].asOf)
        /\ UNCHANGED <<now, readable, finished, dropped>>
    BY <2>1 DEF ReportSweeps, ReportPrunes
  <2>4. report[r] # NoReport
    BY <2>3 DEF NoReport
  <2>5. report[r] \in Handled /\ report[r].asOf \in Nat /\ report[r].asOf <= now
    BY <1>0, <2>4, MediaTimes DEF ReportsHold
  <2>6. /\ report' \in [Reporters -> Handled \cup {NoReport}]
        /\ report'[r] = [report[r] EXCEPT !.step = s]
        /\ \A q \in Reporters : q # r => report'[q] = report[q]
    BY <1>0, <2>2, <2>4, GoesTyped
  <2>7. report'[r].asOf = report[r].asOf /\ report'[r].step # "read"
    BY <2>2, <2>5, <2>6 DEF Handled
  <2>. QED
    BY <2>3, <2>4, <2>5, <2>6, <2>7, PruneKeeps
<1>2. CASE \E t \in 0..now : OthersPrune(t)
  <2>1. PICK t \in 0..now : OthersPrune(t)
    BY <1>2
  <2>2. t \in Nat /\ t <= now
    BY <1>0, <2>1
  <2>3. /\ PruneStones(t) \/ PruneMarks(t)
        /\ UNCHANGED <<now, readable, report, finished, dropped>>
    BY <2>1 DEF OthersPrune
  <2>. QED
    BY <1>0, <2>2, <2>3, PruneKeeps DEF MediaTypeOK
<1>. QED
  BY <1>1, <1>2

\* A report arrives: nothing is read yet.
LEMMA ArrivesStep ==
  ASSUME MediaInv, NEW r \in Reporters, NEW new \in Reports, ReportArrives(r, new)
  PROVE  MediaInv'
<1>1. MediaTypeOK /\ MarkedAfterEnd /\ EndRemembered /\ ReportsHold
  BY DEF MediaInv
<1> DEFINE h == [step |-> "arrived", media |-> new.media, at |-> new.at, done |-> new.done, asOf |-> now]
<1>2. h \in Handled /\ h.asOf = now /\ h.step = "arrived"
  BY <1>1 DEF Handled, Reports, MediaTypeOK
<1>3. /\ report' = [report EXCEPT ![r] = h]
      /\ UNCHANGED <<now, bookmark, tombstone, readable, behind, finished, dropped>>
  BY DEF ReportArrives, mediaRows
<1> HIDE DEF h
<1>4. /\ report' \in [Reporters -> Handled \cup {NoReport}] /\ report'[r] = h
      /\ \A q \in Reporters : q # r => report'[q] = report[q]
  BY <1>1, <1>2, <1>3 DEF MediaTypeOK
<1>5. MediaTypeOK'
  BY <1>1, <1>3, <1>4 DEF MediaTypeOK
<1>6. now <= now
  BY <1>1, MediaTimes
<1>7. ReportsHold'
  BY <1>1, <1>2, <1>3, <1>4, <1>6 DEF ReportsHold
<1>. QED
  BY <1>1, <1>3, <1>5, <1>7 DEF MediaInv, MarkedAfterEnd, EndRemembered

\* A report reads, and goes on unless it is outdated.
LEMMA ReadsStep ==
  ASSUME MediaInv, NEW r \in Reporters, ReportReads(r)
  PROVE  MediaInv'
<1>1. MediaTypeOK /\ MarkedAfterEnd /\ EndRemembered /\ ReportsHold
  BY DEF MediaInv
<1> DEFINE new == report[r]
           m == new.media
<1>2. /\ new.step = "pruned" /\ behind' = behind \ {r}
      /\ UNCHANGED <<now, bookmark, tombstone, readable, finished, dropped>>
      /\ \/ report' = [report EXCEPT ![r] = NoReport]
         \/ Goes(r, "read") /\ ~IsOutdated(new, bookmark[m], tombstone[m])
  BY DEF ReportReads, mediaRows
<1>3. new # NoReport
  BY <1>2 DEF NoReport
<1>4. /\ new \in Handled /\ m \in Media /\ new.at \in Nat /\ new.asOf \in Nat
      /\ now \in Nat /\ Ttl \in Nat /\ NoTime = -1 /\ finished[m] \in Int
      /\ bookmark[m] # Unmarked => bookmark[m].at \in Nat
      /\ tombstone[m] # Unmarked => tombstone[m].at \in Nat
  BY <1>1, <1>3, MediaTimes
<1>5. behind' \subseteq Reporters /\ \A q \in Reporters : q # r /\ q \notin behind' => q \notin behind
  BY <1>1, <1>2 DEF MediaTypeOK
<1>6. new.asOf <= now
  BY <1>1, <1>3 DEF ReportsHold
<1> HIDE DEF new, m
<1>7. CASE report' = [report EXCEPT ![r] = NoReport]
  <2>1. /\ report' \in [Reporters -> Handled \cup {NoReport}] /\ report'[r] = NoReport
        /\ \A q \in Reporters : q # r => report'[q] = report[q]
    BY <1>1, <1>7 DEF MediaTypeOK
  <2>2. MediaTypeOK'
    BY <1>1, <1>2, <1>5, <2>1 DEF MediaTypeOK
  <2>3. ReportsHold'
    BY <1>1, <1>2, <1>5, <2>1 DEF ReportsHold, NoReport
  <2>. QED
    BY <1>1, <1>2, <2>2, <2>3 DEF MediaInv, MarkedAfterEnd, EndRemembered
<1>8. CASE Goes(r, "read") /\ ~IsOutdated(new, bookmark[m], tombstone[m])
  <2>1. /\ report' \in [Reporters -> Handled \cup {NoReport}]
        /\ report'[r] = [new EXCEPT !.step = "read"]
        /\ \A q \in Reporters : q # r => report'[q] = report[q]
    BY <1>1, <1>3, <1>8, GoesTyped DEF new
  <2>2. report'[r].media = m /\ report'[r].at = new.at /\ report'[r].asOf = new.asOf
    BY <1>4, <2>1 DEF Handled, m
  <2>3. MediaTypeOK'
    BY <1>1, <1>2, <1>5, <2>1 DEF MediaTypeOK
  <2>4. /\ tombstone[m] # Unmarked => ~(tombstone[m].at >= new.at)
        /\ bookmark[m] # Unmarked => ~(bookmark[m].at > new.at)
    BY <1>8 DEF IsOutdated
  <2>5. m \notin dropped => finished[m] < new.at \/ finished[m] < now - Ttl
    <3>1. CASE bookmark[m] # Unmarked
      <4>1. m \notin dropped => finished[m] < bookmark[m].at \/ finished[m] < now - Ttl
        BY <1>1, <1>4, <3>1 DEF MarkedAfterEnd
      <4>. QED
        BY <1>4, <2>4, <3>1, <4>1
    <3>2. CASE bookmark[m] = Unmarked
      <4>1. m \notin dropped =>
              \/ finished[m] = NoTime \/ finished[m] < now - Ttl
              \/ tombstone[m] # Unmarked /\ finished[m] <= tombstone[m].at
        BY <1>1, <1>4, <3>2 DEF EndRemembered
      <4>. QED
        BY <1>4, <2>4, <4>1
    <3>. QED
      BY <3>1, <3>2
  <2>6. bookmark[m] # Unmarked => bookmark[m].at <= new.at
    BY <1>4, <2>4
  <2>7. ReportsHold'
    BY <1>1, <1>2, <1>5, <1>6, <2>1, <2>2, <2>5, <2>6 DEF ReportsHold
  <2>. QED
    BY <1>1, <1>2, <2>3, <2>7 DEF MediaInv, MarkedAfterEnd, EndRemembered
<1>. QED
  BY <1>2, <1>7, <1>8

\* A report writes: a commit that nothing has overtaken.
LEMMA WritesStep ==
  ASSUME MediaInv, NEW r \in Reporters, ReportWrites(r)
  PROVE  MediaInv'
<1>1. MediaTypeOK /\ MarkedAfterEnd /\ EndRemembered /\ ReportsHold
  BY DEF MediaInv
<1> DEFINE new == report[r]
           mark == [at |-> new.at, updated |-> new.asOf]
           m == new.media
<1>2. /\ new # NoReport /\ new.step = "read" /\ r \notin behind
      /\ report' = [report EXCEPT ![r] = NoReport]
      /\ behind' = (behind \cup Reading) \ {r}
      /\ UNCHANGED <<now, readable, dropped>>
      /\ \/ /\ new.done
            /\ tombstone' = [tombstone EXCEPT ![m] = mark]
            /\ bookmark' = [bookmark EXCEPT ![m] = Unmarked]
            /\ finished' = [finished EXCEPT ![m] = IF new.at <= new.asOf THEN new.at ELSE NoTime]
         \/ /\ ~new.done
            /\ tombstone' = [tombstone EXCEPT ![m] = Unmarked]
            /\ bookmark' = [bookmark EXCEPT ![m] = mark]
            /\ finished' = [finished EXCEPT ![m] = IF finished[m] <= new.asOf THEN finished[m] ELSE NoTime]
  <2>1. new.step = "read" => new # NoReport
    BY DEF NoReport
  <2>. QED
    BY <1>1, <2>1 DEF ReportWrites, SnapshotIsLast, MediaTypeOK
<1>3. /\ new \in Handled /\ m \in Media /\ new.at \in Nat /\ new.asOf \in Nat
      /\ now \in Nat /\ Ttl \in Nat /\ NoTime = -1 /\ finished[m] \in Int
  BY <1>1, <1>2, MediaTimes
<1>4. mark \in Marks /\ mark # Unmarked /\ mark.at = new.at /\ mark.updated = new.asOf /\ new.at \in Times
  <2>1. mark.at # NoTime
    BY <1>3
  <2>2. mark # Unmarked
    BY <2>1 DEF Unmarked
  <2>. QED
    BY <1>3, <2>2 DEF Marks, Handled
<1>5. /\ new.asOf <= now
      /\ m \notin dropped => finished[m] < new.at \/ finished[m] < now - Ttl
  BY <1>1, <1>2 DEF ReportsHold
<1> HIDE DEF new, mark, m
<1>6. MediaTypeOK'
  <2>1. Unmarked \in Marks
    BY DEF Marks
  <2>2. /\ bookmark' \in [Media -> Marks] /\ tombstone' \in [Media -> Marks]
        /\ finished' \in [Media -> Times \cup {NoTime}]
    BY <1>1, <1>2, <1>3, <1>4, <2>1 DEF MediaTypeOK
  <2>3. behind' \subseteq Reporters /\ report' \in [Reporters -> Handled \cup {NoReport}]
    BY <1>1, <1>2 DEF MediaTypeOK, Reading
  <2>. QED
    BY <1>1, <1>2, <2>2, <2>3 DEF MediaTypeOK
<1>7. ReportsHold'
  <2>1. \A q \in Reporters :
          /\ report'[q].step = "read" => q \in behind'
          /\ report'[q] # NoReport => report'[q] = report[q]
    BY <1>1, <1>2 DEF MediaTypeOK, Reading, NoReport
  <2>. QED
    BY <1>1, <1>2, <2>1 DEF ReportsHold
<1>8. \A n \in Media : n # m =>
        bookmark'[n] = bookmark[n] /\ tombstone'[n] = tombstone[n] /\ finished'[n] = finished[n]
  BY <1>1, <1>2, <1>3 DEF MediaTypeOK
<1>9. CASE new.done
  <2>1. /\ tombstone'[m] = mark /\ bookmark'[m] = Unmarked
        /\ finished'[m] = IF new.at <= new.asOf THEN new.at ELSE NoTime
    BY <1>1, <1>2, <1>3, <1>9 DEF MediaTypeOK
  <2>2. finished'[m] <= new.asOf /\ finished'[m] <= new.at /\ finished'[m] <= now
    BY <1>3, <1>5, <2>1
  <2>3. MarkedAfterEnd'
    BY <1>1, <1>2, <1>8, <2>1 DEF MarkedAfterEnd
  <2>4. EndRemembered'
    <3> SUFFICES ASSUME NEW n \in Media
                 PROVE  /\ finished'[n] <= now
                        /\ tombstone'[n] # Unmarked => finished'[n] <= tombstone'[n].updated
                        /\ bookmark'[n] = Unmarked /\ n \notin dropped =>
                             \/ finished'[n] = NoTime
                             \/ finished'[n] < now - Ttl
                             \/ tombstone'[n] # Unmarked /\ finished'[n] <= tombstone'[n].at
      BY <1>2 DEF EndRemembered
    <3>1. CASE n = m
      BY <1>4, <2>1, <2>2, <3>1
    <3>2. CASE n # m
      BY <1>1, <1>8, <3>2 DEF EndRemembered
    <3>. QED
      BY <3>1, <3>2
  <2>. QED
    BY <1>6, <1>7, <2>3, <2>4 DEF MediaInv
<1>10. CASE ~new.done
  <2>1. /\ tombstone'[m] = Unmarked /\ bookmark'[m] = mark
        /\ finished'[m] = IF finished[m] <= new.asOf THEN finished[m] ELSE NoTime
    BY <1>1, <1>2, <1>3, <1>10 DEF MediaTypeOK
  <2>m. /\ finished'[m] <= new.asOf /\ finished'[m] <= now
        /\ m \notin dropped => finished'[m] < new.at \/ finished'[m] < now - Ttl
    BY <1>3, <1>5, <2>1
  <2>2. MarkedAfterEnd'
    <3> SUFFICES ASSUME NEW n \in Media, bookmark'[n] # Unmarked
                 PROVE  /\ finished'[n] <= bookmark'[n].updated
                        /\ n \notin dropped => finished'[n] < bookmark'[n].at \/ finished'[n] < now - Ttl
      BY <1>2, <2>1 DEF MarkedAfterEnd
    <3>1. CASE n = m
      BY <1>4, <2>1, <2>m, <3>1
    <3>2. CASE n # m
      BY <1>1, <1>8, <3>2 DEF MarkedAfterEnd
    <3>. QED
      BY <3>1, <3>2
  <2>3. EndRemembered'
    <3> SUFFICES ASSUME NEW n \in Media
                 PROVE  /\ finished'[n] <= now
                        /\ tombstone'[n] # Unmarked => finished'[n] <= tombstone'[n].updated
                        /\ bookmark'[n] = Unmarked /\ n \notin dropped =>
                             \/ finished'[n] = NoTime
                             \/ finished'[n] < now - Ttl
                             \/ tombstone'[n] # Unmarked /\ finished'[n] <= tombstone'[n].at
      BY <1>2, <2>1 DEF EndRemembered
    <3>1. CASE n = m
      BY <1>4, <2>1, <2>m, <3>1
    <3>2. CASE n # m
      BY <1>1, <1>8, <3>2 DEF EndRemembered
    <3>. QED
      BY <3>1, <3>2
  <2>. QED
    BY <1>6, <1>7, <2>2, <2>3 DEF MediaInv
<1>. QED
  BY <1>9, <1>10

\* What is removed is left aside; the time and the access change no row.
LEMMA MediaOthersStep ==
  ASSUME MediaInv,
         \/ \E r \in Reporters : ReportFails(r)
         \/ \E gone \in SUBSET Media : Discard(gone)
         \/ \E m \in Media : AccessChanges(m)
         \/ MediaClock
         \/ UNCHANGED mediaVars
  PROVE  MediaInv'
<1>1. MediaTypeOK /\ MarkedAfterEnd /\ EndRemembered /\ ReportsHold
  BY DEF MediaInv
<1>2. CASE \E r \in Reporters : ReportFails(r)
  <2>1. PICK r \in Reporters : ReportFails(r)
    BY <1>2
  <2>2. /\ report' = [report EXCEPT ![r] = NoReport] /\ behind' = behind \ {r}
        /\ UNCHANGED <<now, bookmark, tombstone, readable, finished, dropped>>
    BY <2>1 DEF ReportFails, mediaRows
  <2>3. \A q \in Reporters :
          /\ report'[q] # NoReport => q # r /\ report'[q] = report[q]
          /\ report'[q].step = "read" => q # r /\ report'[q] = report[q]
    BY <1>1, <2>2 DEF MediaTypeOK, NoReport
  <2>4. MediaTypeOK'
    BY <1>1, <2>2 DEF MediaTypeOK
  <2>5. ReportsHold'
    BY <1>1, <2>2, <2>3 DEF ReportsHold
  <2>. QED
    BY <1>1, <2>2, <2>4, <2>5 DEF MediaInv, MarkedAfterEnd, EndRemembered
<1>3. CASE \E gone \in SUBSET Media : Discard(gone)
  <2>1. PICK gone \in SUBSET Media : Discard(gone)
    BY <1>3
  <2>2. /\ bookmark' = [m \in Media |-> IF m \in gone THEN Unmarked ELSE bookmark[m]]
        /\ dropped' = dropped \cup gone /\ behind' = behind \cup Reading
        /\ UNCHANGED <<now, tombstone, readable, report, finished>>
    BY <2>1 DEF Discard
  <2>3. \A m \in Media : m \notin gone => bookmark'[m] = bookmark[m]
    BY <2>2
  <2>4. \A m \in Media : m \in gone => bookmark'[m] = Unmarked /\ m \in dropped'
    BY <2>2
  <2>5. MediaTypeOK'
    BY <1>1, <2>2 DEF MediaTypeOK, Reading, Marks
  <2>6. ReportsHold'
    BY <1>1, <2>2 DEF ReportsHold, Reading
  <2>7. MarkedAfterEnd' /\ EndRemembered'
    BY <1>1, <2>2, <2>3, <2>4 DEF MarkedAfterEnd, EndRemembered
  <2>. QED
    BY <2>5, <2>6, <2>7 DEF MediaInv
<1>4. CASE (\E m \in Media : AccessChanges(m)) \/ UNCHANGED mediaVars
  <2>1. /\ UNCHANGED <<now, bookmark, tombstone, report, behind, finished, dropped>>
        /\ readable' \subseteq Media
    BY <1>1, <1>4 DEF AccessChanges, mediaVars, mediaRows, MediaTypeOK
  <2>. QED
    BY <1>1, <2>1 DEF MediaInv, MediaTypeOK, MarkedAfterEnd, EndRemembered, ReportsHold
<1>5. CASE MediaClock
  <2>1. /\ now' = now + 1 /\ now < MaxNow
        /\ UNCHANGED <<bookmark, tombstone, readable, report, behind, finished, dropped>>
    BY <1>5 DEF MediaClock, mediaRows
  <2>2. /\ now \in Nat /\ Ttl \in Nat /\ \A m \in Media : finished[m] \in Int
        /\ \A r \in Reporters : report[r] # NoReport => report[r].asOf \in Nat
    BY <1>1, MediaTimes
  <2>3. now' \in 0..MaxNow
    BY <2>1, <2>2, MediaBoundsAssumption
  <2>4. /\ \A m \in Media : finished[m] <= now => finished[m] <= now'
        /\ \A m \in Media : finished[m] < now - Ttl => finished[m] < now' - Ttl
        /\ \A r \in Reporters : report[r] # NoReport /\ report[r].asOf <= now => report[r].asOf <= now'
    BY <2>1, <2>2
  <2>5. MediaTypeOK'
    BY <1>1, <2>1, <2>3 DEF MediaTypeOK
  <2>6. MarkedAfterEnd'
    BY <1>1, <2>1, <2>4 DEF MarkedAfterEnd
  <2>7. EndRemembered'
    BY <1>1, <2>1, <2>4 DEF EndRemembered
  <2>8. ReportsHold'
    <3>1. \A q \in Reporters : report[q].step = "read" => report[q] # NoReport
      BY DEF NoReport
    <3>2. \A q \in Reporters : report[q] # NoReport => report[q].media \in Media
      BY <1>1, MediaTimes
    <3>. QED
      BY <1>1, <2>1, <2>4, <3>1, <3>2 DEF ReportsHold
  <2>. QED
    BY <2>5, <2>6, <2>7, <2>8 DEF MediaInv
<1>. QED
  BY <1>2, <1>3, <1>4, <1>5

\* The invariant of the bookmarks.
LEMMA MediaInvariant == MediaSpec => []MediaInv
<1>1. ASSUME MediaInv, [MediaNext]_mediaVars PROVE MediaInv'
  <2>1. CASE \E r \in Reporters : (\E new \in Reports : ReportArrives(r, new)) \/ ReportReads(r)
    BY <1>1, <2>1, ArrivesStep, ReadsStep
  <2>5. CASE \/ \E r \in Reporters : ReportSweeps(r) \/ ReportPrunes(r)
             \/ \E t \in 0..now : OthersPrune(t)
    BY <1>1, <2>5, PrunesStep
  <2>2. CASE \E r \in Reporters : ReportWrites(r)
    BY <1>1, <2>2, WritesStep
  <2>3. CASE (\E m \in Media : RemoveBookmark(m)) \/ CleanForUser
    <3>1. \E gone \in SUBSET Media : Discard(gone)
      BY <2>3 DEF RemoveBookmark, CleanForUser
    <3>. QED
      BY <1>1, <3>1, MediaOthersStep
  <2>4. CASE \/ \E r \in Reporters : ReportFails(r)
             \/ \E m \in Media : AccessChanges(m)
             \/ MediaClock \/ UNCHANGED mediaVars
    BY <1>1, <2>4, MediaOthersStep
  <2>. QED
    BY <1>1, <2>1, <2>2, <2>3, <2>4, <2>5 DEF MediaNext
<1>. QED
  BY <1>1, MediaInitially, PTL DEF MediaSpec

\* The bookmarks, the tombstones and the reports under way keep their types.
THEOREM MediaTypes == MediaSpec => []MediaTypeOK
<1>1. MediaInv => MediaTypeOK
  BY DEF MediaInv
<1>. QED
  BY <1>1, MediaInvariant, PTL

\* No late, repeated or overlapping report brings back the bookmark of an album
\* or playlist that was finished within the retention window, whatever other requests
\* prune while it is under way, for every retention and every clock drift (save_at).
THEOREM FinishedStays == MediaSpec => []FinishedStaysFinished
<1>1. ASSUME MediaInv PROVE FinishedStaysFinished
  <2>1. MediaTypeOK /\ MarkedAfterEnd
    BY <1>1 DEF MediaInv
  <2>2. ASSUME NEW m \in Media, bookmark[m] # Unmarked, m \notin dropped
        PROVE  bookmark[m].at > finished[m] \/ finished[m] < now - Ttl
    <3>1. finished[m] < bookmark[m].at \/ finished[m] < now - Ttl
      BY <2>1, <2>2 DEF MarkedAfterEnd
    <3>2. finished[m] \in Int /\ bookmark[m].at \in Nat
      BY <2>1, <2>2, MediaTimes
    <3>. QED
      BY <3>1, <3>2
  <2>. QED
    BY <2>2 DEF FinishedStaysFinished
<1>. QED
  BY <1>1, MediaInvariant, PTL

\* In every order of reports a bookmark that is neither removed nor finished
\* moves forward (save_at).
THEOREM BookmarksForward == MediaSpec => BookmarkMovesForward
<1>1. ASSUME MediaInv, [MediaNext]_mediaVars
      PROVE  [\A m \in Media :
                bookmark[m] # Unmarked /\ bookmark'[m] # Unmarked =>
                  bookmark'[m].at >= bookmark[m].at]_mediaVars
  <2>1. MediaTypeOK /\ ReportsHold
    BY <1>1 DEF MediaInv
  <2>2. ASSUME NEW m \in Media, bookmark[m] # Unmarked, bookmark'[m] # Unmarked
        PROVE  bookmark'[m].at >= bookmark[m].at
    <3>1. bookmark[m].at \in Nat
      BY <2>1, <2>2, MediaTimes
    <3>2. CASE bookmark'[m] = bookmark[m]
      BY <3>1, <3>2
    <3>3. CASE \E r \in Reporters : ReportWrites(r)
      <4>1. PICK r \in Reporters : ReportWrites(r)
        BY <3>3
      <4>2. /\ report[r].step = "read" /\ r \notin behind
            /\ bookmark' \in {[bookmark EXCEPT ![report[r].media] = Unmarked],
                             [bookmark EXCEPT ![report[r].media] =
                                [at |-> report[r].at, updated |-> report[r].asOf]]}
        BY <4>1 DEF ReportWrites, SnapshotIsLast
      <4>3. CASE m = report[r].media
        <5>1. bookmark'[m].at = report[r].at
          BY <2>1, <2>2, <4>2, <4>3 DEF MediaTypeOK
        <5>2. bookmark[m].at <= report[r].at
          BY <2>1, <2>2, <4>2, <4>3 DEF ReportsHold
        <5>3. report[r].at \in Nat
          BY <2>1, <4>2, MediaTimes DEF NoReport
        <5>. QED
          BY <3>1, <5>1, <5>2, <5>3
      <4>4. CASE m # report[r].media
        <5>1. bookmark'[m] = bookmark[m]
          BY <2>1, <4>2, <4>4 DEF MediaTypeOK
        <5>. QED
          BY <3>1, <5>1
      <4>. QED
        BY <4>3, <4>4
    <3>4. CASE \/ \E r \in Reporters : ReportSweeps(r) \/ ReportPrunes(r)
               \/ \E t \in 0..now : OthersPrune(t)
      <4>1. bookmark' = bookmark \/ \E t : bookmark' = Pruned(bookmark, t)
        BY <3>4 DEF ReportSweeps, ReportPrunes, OthersPrune, PruneStones, PruneMarks
      <4>2. bookmark'[m] = bookmark[m]
        BY <2>2, <4>1 DEF Pruned
      <4>. QED
        BY <3>1, <4>2
    <3>5. CASE \E gone : Discard(gone)
      BY <2>2, <3>1, <3>5 DEF Discard
    <3>6. CASE \/ \E r \in Reporters :
                    ReportFails(r) \/ ReportReads(r) \/ \E new \in Reports : ReportArrives(r, new)
               \/ \E n \in Media : AccessChanges(n)
               \/ MediaClock \/ UNCHANGED mediaVars
      BY <3>1, <3>6
      DEF ReportFails, ReportReads, ReportArrives, AccessChanges, MediaClock, mediaVars, mediaRows
    <3>. QED
      BY <1>1, <3>2, <3>3, <3>4, <3>5, <3>6 DEF MediaNext, RemoveBookmark, CleanForUser
  <2>. QED
    BY <2>2
<1>. QED
  BY <1>1, MediaInvariant, PTL DEF MediaSpec, BookmarkMovesForward

-----------------------------------------------------------------------------
(***************************************************************************)
(* StoreThrottle.  A slot that was read and is not outdated is not before  *)
(* the row, one that was stored is before it by the spacing, and the row   *)
(* only moves forward.                                                     *)
(***************************************************************************)
SlotsHold ==
  \A r \in Requests : asking[r] # NoSlot =>
    /\ asking[r].slot >= asking[r].knew
    /\ asking[r].at = "reads" => ~asking[r].kept
    /\ asking[r].at = "reads" /\ r \notin outdated => nextAt <= asking[r].slot
    /\ asking[r].kept => asking[r].slot + Spacing <= nextAt

PausesHold == cooled = 0 \/ cooled <= nextAt

ThrottleInv == ThrottleTypeOK /\ SlotsHold /\ PausesHold /\ StoreLeftAlone

\* The fields of a request under way.
LEMMA SlotFields ==
  ASSUME ThrottleTypeOK, NEW r \in Requests
  PROVE  /\ asking[r] # NoSlot =>
              /\ asking[r] \in [at : {"reads", "waits", "sent"}, slot : 0..LastSlot,
                                kept : BOOLEAN, knew : Nat]
              /\ asking[r].at \in {"reads", "waits", "sent"}
              /\ asking[r].slot \in 0..LastSlot /\ asking[r].slot \in Nat
              /\ asking[r].kept \in BOOLEAN
              /\ asking[r].knew \in Nat
         /\ asking[r] = NoSlot => asking[r].at = "idle"
<1>1. asking[r] # NoSlot =>
        asking[r] \in [at : {"reads", "waits", "sent"}, slot : 0..LastSlot,
                       kept : BOOLEAN, knew : Nat]
  BY DEF ThrottleTypeOK
<1>2. LastSlot \in Nat
  BY ThrottleAssumption DEF LastSlot
<1>. QED
  BY <1>1, <1>2 DEF NoSlot

\* The numbers of the row.
LEMMA ThrottleNumbers ==
  ASSUME ThrottleTypeOK
  PROVE  /\ clock \in Nat /\ clock <= MaxClock /\ nextAt \in Int /\ nextAt >= -1 /\ cooled \in Nat
         /\ Spacing \in Nat /\ Patience \in Nat /\ MaxClock \in Nat /\ LastSlot = MaxClock + Patience
<1>. QED
  BY ThrottleAssumption DEF ThrottleTypeOK, NoRow, LastSlot

LEMMA ReadsSlotStep ==
  ASSUME ThrottleInv, NEW r \in Requests, ReadsSlot(r)
  PROVE  ThrottleInv'
<1>1. ThrottleTypeOK
  BY DEF ThrottleInv
<1> DEFINE slot == Later(clock, nextAt)
<1>2. /\ slot \in Nat /\ slot >= nextAt /\ slot >= cooled /\ slot \in 0..LastSlot
  <2>1. slot - clock <= Patience
    BY DEF ReadsSlot
  <2>. QED
    BY <1>1, <2>1, ThrottleNumbers DEF Later, ThrottleInv, PausesHold
<1> HIDE DEF slot
<1>3. /\ asking' = [asking EXCEPT ![r] =
                     [at |-> "reads", slot |-> slot, kept |-> FALSE, knew |-> cooled]]
      /\ outdated' = outdated \ {r}
      /\ nextAt' = nextAt /\ cooled' = cooled /\ clock' = clock
  BY DEF ReadsSlot, slot
<1>4. /\ asking'[r] = [at |-> "reads", slot |-> slot, kept |-> FALSE, knew |-> cooled]
      /\ \A q \in Requests \ {r} : asking'[q] = asking[q]
  BY <1>1, <1>3 DEF ThrottleTypeOK
<1>5. ThrottleTypeOK'
  <2>1. cooled \in Nat
    BY <1>1, ThrottleNumbers
  <2>2. asking'[r] \in [at : {"reads", "waits", "sent"}, slot : 0..LastSlot,
                        kept : BOOLEAN, knew : Nat]
    BY <1>2, <1>4, <2>1
  <2>. QED
    BY <1>1, <1>3, <2>2 DEF ThrottleTypeOK, LastSlot
<1>6. SlotsHold'
  BY <1>2, <1>3, <1>4 DEF ThrottleInv, SlotsHold
<1>7. PausesHold'
  BY <1>3 DEF ThrottleInv, PausesHold
<1>8. StoreLeftAlone'
  BY <1>2, <1>4 DEF ThrottleInv, StoreLeftAlone
<1>. QED
  BY <1>5, <1>6, <1>7, <1>8 DEF ThrottleInv

LEMMA StoresSlotStep ==
  ASSUME ThrottleInv, NEW r \in Requests, StoresSlot(r)
  PROVE  ThrottleInv'
<1>1. ThrottleTypeOK
  BY DEF ThrottleInv
<1> DEFINE slot == asking[r].slot
<1>2. /\ asking[r].at = "reads" /\ asking[r] # NoSlot /\ r \notin outdated
      /\ nextAt' = slot + Spacing
      /\ asking' = [asking EXCEPT ![r].at = "waits", ![r].kept = TRUE]
      /\ outdated' = (outdated \cup OthersReading(r)) \ {r}
      /\ clock' = clock /\ cooled' = cooled
  BY DEF StoresSlot, MayStore, NoSlot
<1>3. /\ slot \in Nat /\ slot \in 0..LastSlot /\ nextAt <= slot /\ asking[r].knew \in Nat
      /\ slot >= asking[r].knew
  BY <1>1, <1>2, SlotFields DEF ThrottleInv, SlotsHold
<1>4. /\ asking'[r] = [at |-> "waits", slot |-> slot, kept |-> TRUE, knew |-> asking[r].knew]
      /\ \A q \in Requests \ {r} : asking'[q] = asking[q]
  <2>1. asking[r] \in [at : {"reads", "waits", "sent"}, slot : 0..LastSlot,
                       kept : BOOLEAN, knew : Nat]
    BY <1>1, <1>2, SlotFields
  <2>2. asking'[r] = [asking[r] EXCEPT !.at = "waits", !.kept = TRUE]
    BY <1>1, <1>2 DEF ThrottleTypeOK
  <2>. QED
    BY <1>1, <1>2, <2>1, <2>2 DEF ThrottleTypeOK
<1> HIDE DEF slot
<1>5. nextAt' \in Nat /\ nextAt' >= nextAt /\ Spacing \in Nat
  BY <1>1, <1>2, <1>3, ThrottleNumbers
<1>6. \A q \in Requests \ {r} : asking[q] # NoSlot =>
        /\ asking[q].slot \in Nat
        /\ asking[q].kept => asking[q].slot + Spacing <= nextAt
        /\ asking[q].at = "reads" => ~asking[q].kept /\ q \in outdated'
  BY <1>1, <1>2, SlotFields DEF ThrottleInv, SlotsHold, OthersReading
<1>7. ThrottleTypeOK'
  <2>1. asking'[r] \in [at : {"reads", "waits", "sent"}, slot : 0..LastSlot,
                        kept : BOOLEAN, knew : Nat]
    BY <1>3, <1>4
  <2>2. asking' \in [Requests -> {NoSlot} \cup
          [at : {"reads", "waits", "sent"}, slot : 0..LastSlot, kept : BOOLEAN, knew : Nat]]
    BY <1>1, <1>2, <1>4, <2>1 DEF ThrottleTypeOK
  <2>3. OthersReading(r) \subseteq Requests
    BY DEF OthersReading
  <2>. QED
    BY <1>1, <1>2, <1>5, <2>2, <2>3 DEF ThrottleTypeOK, LastSlot
<1>8. SlotsHold'
  <2>1. ASSUME NEW q \in Requests, asking'[q] # NoSlot
        PROVE  /\ asking'[q].slot >= asking'[q].knew
               /\ asking'[q].at = "reads" => ~asking'[q].kept
               /\ asking'[q].at = "reads" /\ q \notin outdated' => nextAt' <= asking'[q].slot
               /\ asking'[q].kept => asking'[q].slot + Spacing <= nextAt'
    <3>1. CASE q = r
      <4>1. /\ asking'[q].at = "waits" /\ asking'[q].slot = slot
            /\ asking'[q].knew = asking[r].knew
        BY <1>4, <3>1
      <4>2. slot + Spacing <= nextAt'
        BY <1>2, <1>3, <1>5
      <4>. QED
        BY <1>3, <4>1, <4>2
    <3>2. CASE q # r
      <4>1. asking'[q] = asking[q] /\ asking[q] # NoSlot
        BY <1>4, <2>1, <3>2
      <4>2. asking[q].slot >= asking[q].knew
        BY <4>1 DEF ThrottleInv, SlotsHold
      <4>3. asking[q].kept => asking[q].slot + Spacing <= nextAt'
        BY <1>1, <1>5, <1>6, <3>2, <4>1, ThrottleNumbers
      <4>. QED
        BY <1>6, <3>2, <4>1, <4>2, <4>3
    <3>. QED
      BY <3>1, <3>2
  <2>. QED
    BY <2>1 DEF SlotsHold
<1>9. PausesHold'
  BY <1>1, <1>2, <1>5, ThrottleNumbers DEF ThrottleInv, PausesHold
<1>10. StoreLeftAlone'
  <2>1. \A q \in Requests \ {r} : asking[q] # NoSlot /\ asking[q].kept =>
          slot >= asking[q].slot + Spacing
    BY <1>1, <1>3, <1>5, <1>6, ThrottleNumbers
  <2>. QED
    BY <1>3, <1>4, <2>1 DEF ThrottleInv, StoreLeftAlone
<1>. QED
  BY <1>7, <1>8, <1>9, <1>10 DEF ThrottleInv

\* A request whose slot is lost, one that is sent, and one that ends.
LEMMA RequestGoesOnStep ==
  ASSUME ThrottleInv, NEW r \in Requests, StoreFails(r) \/ SendsRequest(r) \/ RequestEnds(r)
  PROVE  ThrottleInv'
<1>1. ThrottleTypeOK
  BY DEF ThrottleInv
<1>2. /\ clock' = clock /\ nextAt' = nextAt /\ cooled' = cooled
      /\ outdated' \subseteq outdated /\ outdated \subseteq outdated' \cup {r}
      /\ asking[r] # NoSlot
  BY DEF StoreFails, SendsRequest, RequestEnds, NoSlot
<1>3. /\ \A q \in Requests \ {r} : asking'[q] = asking[q]
      /\ asking' \in [Requests -> {NoSlot} \cup
           [at : {"reads", "waits", "sent"}, slot : 0..LastSlot, kept : BOOLEAN, knew : Nat]]
      /\ \/ asking'[r] = NoSlot
         \/ /\ asking'[r] # NoSlot /\ asking'[r].at \in {"waits", "sent"}
            /\ asking'[r].slot = asking[r].slot /\ asking'[r].knew = asking[r].knew
            /\ asking'[r].kept = asking[r].kept
  <2>1. asking[r] \in [at : {"reads", "waits", "sent"}, slot : 0..LastSlot,
                       kept : BOOLEAN, knew : Nat]
    BY <1>1, <1>2, SlotFields
  <2>2. CASE RequestEnds(r)
    BY <1>1, <2>2 DEF RequestEnds, ThrottleTypeOK
  <2>3. CASE \E to \in {"waits", "sent"} : asking' = [asking EXCEPT ![r].at = to]
    <3>1. PICK to \in {"waits", "sent"} : asking' = [asking EXCEPT ![r].at = to]
      BY <2>3
    <3>2. asking'[r] = [asking[r] EXCEPT !.at = to] /\ \A q \in Requests \ {r} : asking'[q] = asking[q]
      BY <1>1, <3>1 DEF ThrottleTypeOK
    <3>3. /\ asking'[r] \in [at : {"reads", "waits", "sent"}, slot : 0..LastSlot,
                             kept : BOOLEAN, knew : Nat]
          /\ asking'[r].at = to
          /\ asking'[r].slot = asking[r].slot /\ asking'[r].knew = asking[r].knew
          /\ asking'[r].kept = asking[r].kept
      BY <2>1, <3>2
    <3>4. asking'[r] # NoSlot
      BY <3>3 DEF NoSlot
    <3>. QED
      BY <1>1, <3>1, <3>2, <3>3, <3>4 DEF ThrottleTypeOK
  <2>. QED
    BY <2>2, <2>3 DEF StoreFails, SendsRequest
<1>4. ThrottleTypeOK'
  BY <1>1, <1>2, <1>3 DEF ThrottleTypeOK, LastSlot
<1>5. SlotsHold' /\ PausesHold'
  BY <1>2, <1>3 DEF ThrottleInv, SlotsHold, PausesHold
<1>6. StoreLeftAlone'
  <2>1. ASSUME NEW p \in Requests, NEW q \in Requests \ {p}, asking'[p] # NoSlot,
               asking'[p].at # "reads", asking'[q] # NoSlot, asking'[p].kept, asking'[q].kept
        PROVE  \/ asking'[p].slot >= asking'[q].slot + Spacing
               \/ asking'[q].slot >= asking'[p].slot + Spacing
    <3>1. /\ asking[p] # NoSlot /\ asking[q] # NoSlot /\ asking[p].kept /\ asking[q].kept
          /\ asking'[p].slot = asking[p].slot /\ asking'[q].slot = asking[q].slot
      BY <1>2, <1>3, <2>1
    <3>2. asking[p].at # "reads"
      BY <3>1 DEF ThrottleInv, SlotsHold
    <3>. QED
      BY <3>1, <3>2 DEF ThrottleInv, StoreLeftAlone
  <2>2. \A p \in Requests : asking'[p] # NoSlot => asking'[p].slot >= asking'[p].knew
    BY <1>5 DEF SlotsHold
  <2>. QED
    BY <2>1, <2>2 DEF StoreLeftAlone
<1>. QED
  BY <1>4, <1>5, <1>6 DEF ThrottleInv

LEMMA StorePausesStep ==
  ASSUME ThrottleInv, NEW r \in Requests, NEW pause \in Pauses, StorePauses(r, pause)
  PROVE  ThrottleInv'
<1>1. ThrottleTypeOK
  BY DEF ThrottleInv
<1>2. /\ asking'[r] = NoSlot /\ clock' = clock
      /\ \A q \in Requests \ {r} : asking'[q] = asking[q]
      /\ asking' \in [Requests -> {NoSlot} \cup
           [at : {"reads", "waits", "sent"}, slot : 0..LastSlot, kept : BOOLEAN, knew : Nat]]
  BY <1>1 DEF StorePauses, ThrottleTypeOK
<1>3. /\ nextAt' \in {NoRow} \cup Nat /\ nextAt' \in Int /\ nextAt' >= nextAt /\ cooled' \in Nat
      /\ PausesHold' /\ outdated' \subseteq Requests
      /\ \/ nextAt' = nextAt /\ outdated' = outdated
         \/ outdated' = outdated \cup OthersReading(r)
  <2>1. pause \in Nat
    BY ThrottleAssumption
  <2>2. CASE nextAt = NoRow
    BY <1>1, <2>2, ThrottleNumbers DEF StorePauses, ThrottleInv, ThrottleTypeOK, PausesHold
  <2>3. CASE nextAt # NoRow
    <3>1. /\ nextAt' = Later(nextAt, clock + pause) /\ cooled' = Later(cooled, clock + pause)
          /\ outdated' = outdated \cup OthersReading(r)
      BY <2>3 DEF StorePauses, PauseKeepsLater
    <3>2. nextAt \in Nat
      BY <1>1, <2>3 DEF ThrottleTypeOK
    <3>3. nextAt' \in Nat /\ nextAt' >= nextAt /\ cooled' \in Nat /\ PausesHold'
      BY <1>1, <2>1, <3>1, <3>2, ThrottleNumbers DEF Later, ThrottleInv, PausesHold
    <3>4. outdated' \subseteq Requests
      BY <1>1, <3>1 DEF ThrottleTypeOK, OthersReading
    <3>. QED
      BY <3>1, <3>3, <3>4
  <2>. QED
    BY <2>2, <2>3
<1>4. ThrottleTypeOK'
  BY <1>1, <1>2, <1>3 DEF ThrottleTypeOK, LastSlot
<1>5. SlotsHold'
  <2>1. ASSUME NEW q \in Requests, asking'[q] # NoSlot
        PROVE  /\ asking'[q].slot >= asking'[q].knew
               /\ asking'[q].at = "reads" => ~asking'[q].kept
               /\ asking'[q].at = "reads" /\ q \notin outdated' => nextAt' <= asking'[q].slot
               /\ asking'[q].kept => asking'[q].slot + Spacing <= nextAt'
    <3>1. q # r /\ asking'[q] = asking[q] /\ asking[q] # NoSlot
      BY <1>2, <2>1
    <3>2. asking[q].slot \in Nat
      BY <1>1, <3>1, SlotFields
    <3>3. asking[q].at = "reads" /\ q \notin outdated' => nextAt' = nextAt /\ q \notin outdated
      BY <1>3, <3>1 DEF OthersReading
    <3>4. /\ asking[q].slot >= asking[q].knew
          /\ asking[q].at = "reads" => ~asking[q].kept
          /\ asking[q].at = "reads" /\ q \notin outdated => nextAt <= asking[q].slot
          /\ asking[q].kept => asking[q].slot + Spacing <= nextAt
      BY <3>1 DEF ThrottleInv, SlotsHold
    <3>5. asking[q].kept => asking[q].slot + Spacing <= nextAt'
      BY <1>1, <1>3, <3>2, <3>4, ThrottleNumbers
    <3>. QED
      BY <3>1, <3>3, <3>4, <3>5
  <2>. QED
    BY <2>1 DEF SlotsHold
<1>6. StoreLeftAlone'
  BY <1>2 DEF ThrottleInv, StoreLeftAlone
<1>. QED
  BY <1>3, <1>4, <1>5, <1>6 DEF ThrottleInv

LEMMA ThrottleInitially == ThrottleInit => ThrottleInv
<1> SUFFICES ASSUME ThrottleInit PROVE ThrottleInv
  OBVIOUS
<1>1. ThrottleTypeOK
  BY ThrottleAssumption DEF ThrottleInit, ThrottleTypeOK, NoRow
<1>2. SlotsHold /\ PausesHold /\ StoreLeftAlone
  BY DEF ThrottleInit, SlotsHold, PausesHold, StoreLeftAlone
<1>. QED
  BY <1>1, <1>2 DEF ThrottleInv

LEMMA ThrottleInvariant == ThrottleSpec => []ThrottleInv
<1>1. ASSUME ThrottleInv, [ThrottleNext]_throttleVars
      PROVE  ThrottleInv'
  <2>1. CASE \E r \in Requests : ReadsSlot(r)
    BY <1>1, <2>1, ReadsSlotStep
  <2>2. CASE \E r \in Requests : StoresSlot(r)
    BY <1>1, <2>2, StoresSlotStep
  <2>3. CASE \E r \in Requests : StoreFails(r) \/ SendsRequest(r) \/ RequestEnds(r)
    BY <1>1, <2>3, RequestGoesOnStep
  <2>4. CASE \E r \in Requests : \E pause \in Pauses : StorePauses(r, pause)
    BY <1>1, <2>4, StorePausesStep
  <2>5. CASE ThrottleClock \/ UNCHANGED throttleVars
    <3>1. clock' \in 0..MaxClock
      BY <1>1, <2>5, ThrottleAssumption DEF ThrottleClock, ThrottleInv, ThrottleTypeOK, throttleVars
    <3>2. UNCHANGED <<nextAt, asking, outdated, cooled>>
      BY <2>5 DEF ThrottleClock, throttleVars
    <3>. QED
      BY <1>1, <3>1, <3>2 DEF ThrottleInv, ThrottleTypeOK, SlotsHold, PausesHold, StoreLeftAlone
  <2>. QED
    BY <1>1, <2>1, <2>2, <2>3, <2>4, <2>5 DEF ThrottleNext
<1>. QED
  BY <1>1, ThrottleInitially, PTL DEF ThrottleSpec

\* The throttle, the requests and their slots keep their types.
THEOREM ThrottleTypes == ThrottleSpec => []ThrottleTypeOK
<1>1. ThrottleInv => ThrottleTypeOK
  BY DEF ThrottleInv
<1>. QED
  BY <1>1, ThrottleInvariant, PTL

\* However many requests there are, whatever order their transactions are in and
\* whichever of them fail, a request waits for the pauses that were stored when it
\* looked, and slots that were stored are as far apart as the store wants
\* (throttled_store_request_inner).
THEOREM StoresLeftAlone == ThrottleSpec => []StoreLeftAlone
<1>1. ThrottleInv => StoreLeftAlone
  BY DEF ThrottleInv
<1>. QED
  BY <1>1, ThrottleInvariant, PTL

-----------------------------------------------------------------------------
(***************************************************************************)
(* ReleaseScan.  The scan that leased an artist last finds its lease in    *)
(* the row as long as it holds the artist; the lease of every other scan   *)
(* that holds it has run out, and is not the one in the row.               *)
(***************************************************************************)
LeasesHold ==
  \A s \in Scanners, a \in Artists : Holds(s, a) =>
    /\ scan[s].lease > Never
    /\ latest[a] = s => catalog[a].inTable /\ catalog[a].lease = scan[s].lease
    /\ latest[a] # s =>
         scan[s].lease <= scanTime /\ ~(catalog[a].inTable /\ catalog[a].lease = scan[s].lease)

ScanInv == ScanTypeOK /\ LeasesHold

Entries ==
  [inTable : {TRUE}, next : Nat, checked : 0..MaxScanTime, failures : 0..MaxFailures,
   lease : 0..(MaxScanTime + LeaseTime)]
Waiting == [at : {"next"}, list : DueLists, withdrawn : BOOLEAN]
WorkingScans ==
  [at : {"claim", "lookup", "heard", "release"}, list : DueLists, withdrawn : BOOLEAN,
   artist : Artists, lease : Nat, failures : 0..MaxFailures]

LEMMA ScanNumbers ==
  ASSUME ScanTypeOK
  PROVE  /\ scanTime \in Nat /\ scanTime <= MaxScanTime /\ MaxScanTime \in Nat
         /\ LeaseTime \in Nat /\ LeaseTime > 0 /\ CheckEvery \in Nat /\ MaxFailures \in Nat
         /\ BackoffBase \in Nat /\ BackoffCap \in Nat /\ StorePause \in Nat /\ MaxMishaps \in Nat
<1>. QED
  BY ScanAssumption DEF ScanTypeOK

\* What a scan keeps at each stage.
LEMMA ScanFields ==
  ASSUME ScanTypeOK, NEW s \in Scanners
  PROVE  /\ scan[s].at \in {"idle", "next", "claim", "lookup", "heard", "release", "prune"}
         /\ scan[s].at = "next" => scan[s] \in Waiting
         /\ scan[s].at \in {"claim", "lookup", "heard", "release"} => scan[s] \in WorkingScans
         /\ scan[s].at \in {"next", "claim", "lookup", "heard", "release"} =>
              scan[s].list \in DueLists /\ scan[s].withdrawn \in BOOLEAN
         /\ scan[s].at = "idle" => scan[s] = NoScan
         /\ scan[s].at = "prune" => scan[s] = [at |-> "prune"]
<1>1. scan[s] \in {NoScan} \cup Waiting \cup WorkingScans \cup [at : {"prune"}]
  BY DEF ScanTypeOK, Scans, Waiting, WorkingScans
<1>2. CASE scan[s] \in {NoScan} \cup [at : {"prune"}]
  BY <1>2 DEF NoScan
<1>3. CASE scan[s] \in Waiting
  BY <1>3 DEF Waiting
<1>4. CASE scan[s] \in WorkingScans
  BY <1>4 DEF WorkingScans
<1>. QED
  BY <1>1, <1>2, <1>3, <1>4

\* The fields of a row.
LEMMA EntryFields ==
  ASSUME ScanTypeOK, NEW a \in Artists
  PROVE  /\ catalog[a].inTable \in BOOLEAN
         /\ ~catalog[a].inTable => catalog[a] = NoEntry
         /\ catalog[a].inTable =>
              /\ catalog[a] \in Entries
              /\ catalog[a].lease \in 0..(MaxScanTime + LeaseTime)
              /\ catalog[a].failures \in 0..MaxFailures
<1>1. catalog[a] = NoEntry \/ catalog[a] \in Entries
  BY DEF ScanTypeOK, Entries
<1>2. CASE catalog[a] = NoEntry
  <2>1. catalog[a].inTable = FALSE
    BY <1>2 DEF NoEntry
  <2>. QED
    BY <1>2, <2>1
<1>3. CASE catalog[a] \in Entries
  <2>1. /\ catalog[a].inTable = TRUE
        /\ catalog[a].lease \in 0..(MaxScanTime + LeaseTime)
        /\ catalog[a].failures \in 0..MaxFailures
    BY <1>3 DEF Entries
  <2>. QED
    BY <1>3, <2>1
<1>. QED
  BY <1>1, <1>2, <1>3

\* The list of a scan without one artist.
LEMMA RestIsList ==
  ASSUME ScanTypeOK, NEW s \in Scanners, NEW a \in Artists, scan[s].list \in DueLists
  PROVE  /\ Rest(s, a) \in DueLists
         /\ a \in DOMAIN scan[s].list => scan[s].list[a] \in 0..MaxFailures
<1>1. PICK listed \in SUBSET Artists : scan[s].list \in [listed -> 0..MaxFailures]
  BY DEF DueLists
<1>2. Rest(s, a) \in [listed \ {a} -> 0..MaxFailures]
  BY <1>1 DEF Rest
<1>. QED
  BY <1>1, <1>2 DEF DueLists

\* A step in which no scan leases an artist, and the lease of a row stays, or goes
\* with nobody who still relies on it.
LEMMA KeepsLeases ==
  ASSUME ScanInv, latest' = latest, scanTime' \in Nat, scanTime' >= scanTime,
         \A s \in Scanners, a \in Artists :
           Holds(s, a)' => Holds(s, a) /\ scan'[s].lease = scan[s].lease,
         \A a \in Artists :
           \/ /\ catalog'[a].inTable = catalog[a].inTable
              /\ catalog[a].inTable => catalog'[a].lease = catalog[a].lease
           \/ /\ catalog'[a].inTable => catalog'[a].lease = Never
              /\ \A s \in Scanners : Holds(s, a)' => latest[a] # s
  PROVE  LeasesHold'
<1> SUFFICES ASSUME NEW s \in Scanners, NEW a \in Artists, Holds(s, a)'
             PROVE  /\ scan'[s].lease > Never
                    /\ latest'[a] = s =>
                         catalog'[a].inTable /\ catalog'[a].lease = scan'[s].lease
                    /\ latest'[a] # s =>
                         /\ scan'[s].lease <= scanTime'
                         /\ ~(catalog'[a].inTable /\ catalog'[a].lease = scan'[s].lease)
  BY DEF LeasesHold
<1>1. Holds(s, a) /\ scan'[s].lease = scan[s].lease
  OBVIOUS
<1>2. /\ scan[s].lease > Never
      /\ latest[a] = s => catalog[a].inTable /\ catalog[a].lease = scan[s].lease
      /\ latest[a] # s =>
           scan[s].lease <= scanTime /\ ~(catalog[a].inTable /\ catalog[a].lease = scan[s].lease)
  BY <1>1 DEF ScanInv, LeasesHold
<1>3. scan[s].lease \in Nat /\ scanTime \in Nat
  BY <1>1, ScanFields, ScanNumbers DEF ScanInv, Holds, WorkingScans
<1>4. scan[s].lease <= scanTime => scan'[s].lease <= scanTime'
  BY <1>1, <1>3
<1>5. scan[s].lease # Never
  BY <1>2, <1>3 DEF Never
<1>. QED
  BY <1>1, <1>2, <1>4, <1>5

\* One scan goes on and leases nothing.
LeasesNothing(s) ==
  \E to \in {NoScan} \cup Scans :
    /\ ScanBecomes(s, to)
    /\ to.at \in {"lookup", "heard", "release"} =>
         /\ scan[s].at \in {"lookup", "heard", "release"}
         /\ to.artist = scan[s].artist /\ to.lease = scan[s].lease

LEMMA OneScanMoves ==
  ASSUME ScanTypeOK, NEW s \in Scanners, LeasesNothing(s)
  PROVE  /\ scan' \in [Scanners -> {NoScan} \cup Scans]
         /\ \A t \in Scanners \ {s} : scan'[t] = scan[t]
         /\ \A t \in Scanners, a \in Artists :
              Holds(t, a)' => Holds(t, a) /\ scan'[t].lease = scan[t].lease
<1>1. PICK to \in {NoScan} \cup Scans :
        /\ ScanBecomes(s, to)
        /\ to.at \in {"lookup", "heard", "release"} =>
             /\ scan[s].at \in {"lookup", "heard", "release"}
             /\ to.artist = scan[s].artist /\ to.lease = scan[s].lease
  BY DEF LeasesNothing
<1>2. /\ scan' \in [Scanners -> {NoScan} \cup Scans]
      /\ scan'[s] = to
      /\ \A t \in Scanners \ {s} : scan'[t] = scan[t]
  BY <1>1 DEF ScanTypeOK, ScanBecomes
<1>. QED
  BY <1>1, <1>2 DEF Holds

\* The stages after which a scan holds no artist.
LEMMA ScanStages ==
  ASSUME ScanTypeOK, NEW s \in Scanners,
         scan[s].at \in {"next", "claim", "lookup", "heard", "release"}
  PROVE  /\ [at |-> "next", list |-> scan[s].list, withdrawn |-> scan[s].withdrawn]
              \in {NoScan} \cup Scans
         /\ [at |-> "prune"] \in {NoScan} \cup Scans
         /\ NoScan \in {NoScan} \cup Scans
<1>. QED
  BY ScanFields DEF Scans

\* A scan that is at work, at its next stage.
LEMMA NextStage ==
  ASSUME ScanTypeOK, NEW s \in Scanners, NEW stage \in {"lookup", "heard", "release"},
         scan[s].at \in {"claim", "lookup", "heard", "release"}
  PROVE  LET to == [scan[s] EXCEPT !.at = stage] IN
           /\ to \in {NoScan} \cup Scans /\ to.at = stage
           /\ to.artist = scan[s].artist /\ to.lease = scan[s].lease
<1>1. scan[s] \in WorkingScans
  BY ScanFields
<1>. QED
  BY <1>1 DEF WorkingScans, Scans

\* The steps of a scan that leave the catalog alone.
LEMMA ScanAloneStep ==
  ASSUME ScanInv, NEW s \in Scanners,
         \/ ScanBegins(s) \/ (\E a \in Artists : ScanGoesOn(s, a)) \/ ScanHears(s)
         \/ ScanLosesResult(s) \/ ScanStops(s)
  PROVE  /\ ScanInv'
         /\ \A t \in Scanners, a \in Artists : Holds(t, a)' => Holds(t, a)
         /\ \A t \in Scanners \ {s} : scan'[t] = scan[t]
<1>1. ScanTypeOK
  BY DEF ScanInv
<1>2. UNCHANGED <<scanTime, followed, catalog, cached, permitted, latest, mishaps>>
  BY DEF ScanBegins, ScanGoesOn, ScanHears, ScanLosesResult, ScanStops, ToRelease
<1>3. LeasesNothing(s)
  <2>1. CASE ScanBegins(s)
    <3> DEFINE due == {x \in followed : Due(x)}
               to == [at |-> "next", withdrawn |-> FALSE,
                      list |-> [a \in due |-> catalog[a].failures]]
    <3>1. due \in SUBSET Artists
      BY <1>1 DEF ScanTypeOK
    <3>2. \A a \in due : catalog[a].failures \in 0..MaxFailures
      BY <1>1, <3>1, EntryFields DEF Due
    <3>3. [a \in due |-> catalog[a].failures] \in [due -> 0..MaxFailures]
      BY <3>2
    <3>4. [a \in due |-> catalog[a].failures] \in DueLists
      BY <3>1, <3>3 DEF DueLists
    <3>5. to \in Scans
      BY <3>4 DEF Scans
    <3>6. ScanBecomes(s, to)
      BY <2>1 DEF ScanBegins
    <3>. QED
      BY <3>5, <3>6 DEF LeasesNothing
  <2>2. ASSUME NEW a \in Artists, ScanGoesOn(s, a)
        PROVE  LeasesNothing(s)
    <3> DEFINE to == [at |-> "claim", list |-> Rest(s, a), withdrawn |-> FALSE, artist |-> a,
                      lease |-> Never, failures |-> scan[s].list[a]]
    <3>1. scan[s].list \in DueLists
      BY <1>1, <2>2, ScanFields DEF ScanGoesOn
    <3>2. Rest(s, a) \in DueLists /\ scan[s].list[a] \in 0..MaxFailures
      BY <1>1, <2>2, <3>1, RestIsList DEF ScanGoesOn
    <3>3. to \in Scans
      BY <3>2 DEF Scans, Never
    <3>4. ScanBecomes(s, to)
      BY <2>2 DEF ScanGoesOn
    <3>. QED
      BY <3>3, <3>4 DEF LeasesNothing
  <2>3. CASE ScanHears(s)
    BY <1>1, <2>3, NextStage DEF ScanHears, LeasesNothing
  <2>4. CASE ScanLosesResult(s)
    BY <1>1, <2>4, NextStage DEF ScanLosesResult, ToRelease, HasHeard, LeasesNothing
  <2>5. CASE ScanStops(s)
    BY <1>1, <2>5, ScanStages DEF ScanStops, LeasesNothing
  <2>. QED
    BY <2>1, <2>2, <2>3, <2>4, <2>5
<1>4. /\ scan' \in [Scanners -> {NoScan} \cup Scans]
      /\ \A t \in Scanners \ {s} : scan'[t] = scan[t]
      /\ \A t \in Scanners, a \in Artists :
           Holds(t, a)' => Holds(t, a) /\ scan'[t].lease = scan[t].lease
  BY <1>1, <1>3, OneScanMoves
<1>5. LeasesHold'
  BY <1>1, <1>2, <1>4, KeepsLeases, ScanNumbers
<1>6. ScanTypeOK'
  BY <1>1, <1>2, <1>4 DEF ScanTypeOK
<1>. QED
  BY <1>4, <1>5, <1>6 DEF ScanInv

\* A row whose columns but the lease change.
LEMMA RowChanges ==
  ASSUME ScanTypeOK, NEW a \in Artists, NEW row \in Entries, Changes(a, row)
  PROVE  /\ catalog' \in [Artists -> {NoEntry} \cup Entries]
         /\ catalog'[a] = row
         /\ \A b \in Artists \ {a} : catalog'[b] = catalog[b]
         /\ row.inTable = TRUE
<1>. QED
  BY DEF ScanTypeOK, Changes, Entries

\* The lease is the one in the row, so this scan is the last that leased the artist.
LEMMA OwnerIsLatest ==
  ASSUME ScanInv, NEW s \in Scanners, scan[s].at \in {"lookup", "heard", "release"}
  PROVE  /\ scan[s].artist \in Artists
         /\ StillOwned(s) <=> latest[scan[s].artist] = s
         /\ \A t \in Scanners : Holds(t, scan[s].artist) /\ t # s /\ StillOwned(s) =>
              latest[scan[s].artist] # t
<1>1. scan[s].artist \in Artists
  BY ScanFields DEF ScanInv, WorkingScans
<1>. QED
  BY <1>1 DEF ScanInv, LeasesHold, Holds, StillOwned

\* A row is leased (scan_due_artists).
LEMMA ClaimStep ==
  ASSUME ScanInv, NEW s \in Scanners, ScanClaims(s)
  PROVE  /\ ScanInv'
         /\ \A t \in Scanners, a \in Artists : Holds(t, a)' /\ ~Holds(t, a) =>
              /\ t = s
              /\ \A u \in Scanners \ {t} : Holds(u, a) => scan[u].lease <= scanTime
         /\ \A t \in Scanners \ {s} : scan'[t] = scan[t]
<1> DEFINE a == scan[s].artist
           until == scanTime + LeaseTime
<1>1. ScanTypeOK /\ LeasesHold
  BY DEF ScanInv
<1>2. scan[s] \in WorkingScans /\ scan[s].at = "claim"
  BY <1>1, ScanFields DEF ScanClaims
<1>3. a \in Artists
  BY <1>2 DEF WorkingScans
<1>4. CASE MayClaim(a)
  <2>1. /\ Changes(a, [catalog[a] EXCEPT !.lease = until])
        /\ latest' = [latest EXCEPT ![a] = s]
        /\ ScanBecomes(s, [scan[s] EXCEPT !.at = "lookup", !.lease = until])
        /\ UNCHANGED <<scanTime, followed, cached, permitted, mishaps>>
    BY <1>4 DEF ScanClaims
  <2>2. /\ catalog[a] \in Entries /\ catalog[a].lease <= scanTime
        /\ catalog[a].lease \in Nat
    BY <1>1, <1>3, <1>4, EntryFields, ScanNumbers DEF MayClaim, Due
  <2>3. /\ until \in 0..(MaxScanTime + LeaseTime) /\ until > scanTime /\ until \in Nat
        /\ until > Never
    BY <1>1, ScanNumbers DEF Never
  <2> HIDE DEF until
  <2>4. [catalog[a] EXCEPT !.lease = until] \in Entries
    BY <2>2, <2>3 DEF Entries
  <2>5. /\ catalog' \in [Artists -> {NoEntry} \cup Entries]
        /\ catalog'[a] = [catalog[a] EXCEPT !.lease = until]
        /\ \A b \in Artists \ {a} : catalog'[b] = catalog[b]
        /\ catalog'[a].inTable = TRUE /\ catalog'[a].lease = until
    <3> DEFINE row == [catalog[a] EXCEPT !.lease = until]
    <3>1. row \in Entries /\ row.inTable = TRUE /\ row.lease = until /\ Changes(a, row)
      BY <2>1, <2>2, <2>4 DEF Entries
    <3> HIDE DEF row
    <3>2. /\ catalog' \in [Artists -> {NoEntry} \cup Entries]
          /\ catalog'[a] = row
          /\ \A b \in Artists \ {a} : catalog'[b] = catalog[b]
      BY <1>1, <1>3, <3>1, RowChanges
    <3>. QED
      BY <3>1, <3>2 DEF row
  <2>6. /\ latest' \in [Artists -> Scanners \cup {"nobody"}]
        /\ latest'[a] = s
        /\ \A b \in Artists \ {a} : latest'[b] = latest[b]
    BY <1>1, <1>3, <2>1 DEF ScanTypeOK
  <2> DEFINE to == [scan[s] EXCEPT !.at = "lookup", !.lease = until]
  <2>7. to \in Scans /\ to.at = "lookup" /\ to.artist = a /\ to.lease = until
    <3>1. /\ to \in WorkingScans /\ to.at = "lookup" /\ to.lease = until
          /\ to.artist = scan[s].artist
      BY <1>2, <2>3 DEF WorkingScans
    <3>2. to \in Scans
      BY <3>1 DEF WorkingScans, Scans
    <3>. QED
      BY <3>1, <3>2
  <2> HIDE DEF to
  <2>8. /\ scan' \in [Scanners -> {NoScan} \cup Scans]
        /\ scan'[s] = to
        /\ \A t \in Scanners \ {s} : scan'[t] = scan[t]
    BY <1>1, <2>1, <2>7 DEF ScanTypeOK, ScanBecomes, to
  <2>9. ScanTypeOK'
    BY <1>1, <2>1, <2>5, <2>6, <2>8 DEF ScanTypeOK, Entries
  <2>10. \A u \in Scanners : Holds(u, a) => scan[u].lease <= scanTime /\ u # s
    BY <1>1, <1>2, <1>3, <2>2 DEF LeasesHold, Holds
  <2>11. LeasesHold'
    <3>1. ASSUME NEW t \in Scanners, NEW b \in Artists, Holds(t, b)'
          PROVE  /\ scan'[t].lease > Never
                 /\ latest'[b] = t =>
                      catalog'[b].inTable /\ catalog'[b].lease = scan'[t].lease
                 /\ latest'[b] # t =>
                      /\ scan'[t].lease <= scanTime'
                      /\ ~(catalog'[b].inTable /\ catalog'[b].lease = scan'[t].lease)
      <4>1. CASE t = s
        <5>1. b = a /\ scan'[t].lease = until
          BY <2>7, <2>8, <3>1, <4>1 DEF Holds
        <5>. QED
          BY <2>3, <2>5, <2>6, <4>1, <5>1
      <4>2. CASE t # s
        <5>1. scan'[t] = scan[t] /\ Holds(t, b)
          BY <2>8, <3>1, <4>2 DEF Holds
        <5>2. CASE b = a
          <6>1. scan[t].lease <= scanTime /\ scan[t].lease \in Nat /\ scanTime \in Nat
            BY <1>1, <2>10, <5>1, <5>2, ScanFields, ScanNumbers DEF Holds, WorkingScans
          <6>2. scan[t].lease # until
            BY <2>3, <6>1
          <6>3. scan[t].lease > Never
            BY <1>1, <5>1 DEF LeasesHold
          <6>. QED
            BY <2>1, <2>5, <2>6, <4>2, <5>1, <5>2, <6>1, <6>2, <6>3
        <5>3. CASE b # a
          BY <1>1, <2>1, <2>5, <2>6, <5>1, <5>3 DEF LeasesHold
        <5>. QED
          BY <5>2, <5>3
      <4>. QED
        BY <4>1, <4>2
    <3>. QED
      BY <3>1 DEF LeasesHold
  <2>12. ASSUME NEW t \in Scanners, NEW b \in Artists, Holds(t, b)', ~Holds(t, b)
         PROVE  t = s /\ b = a
    BY <2>7, <2>8, <2>12 DEF Holds
  <2>. QED
    BY <2>8, <2>9, <2>10, <2>11, <2>12 DEF ScanInv
<1>5. CASE ~MayClaim(a)
  <2>1. /\ ToNext(s)
        /\ UNCHANGED <<scanTime, followed, catalog, cached, permitted, latest, mishaps>>
    BY <1>5 DEF ScanClaims
  <2>2. LeasesNothing(s)
    BY <1>1, <1>2, <2>1, ScanStages DEF ToNext, LeasesNothing
  <2>3. /\ scan' \in [Scanners -> {NoScan} \cup Scans]
        /\ \A t \in Scanners \ {s} : scan'[t] = scan[t]
        /\ \A t \in Scanners, b \in Artists :
             Holds(t, b)' => Holds(t, b) /\ scan'[t].lease = scan[t].lease
    BY <1>1, <2>2, OneScanMoves
  <2>4. LeasesHold'
    BY <1>1, <2>1, <2>3, KeepsLeases, ScanNumbers
  <2>5. ScanTypeOK'
    BY <1>1, <2>1, <2>3 DEF ScanTypeOK
  <2>. QED
    BY <2>3, <2>4, <2>5 DEF ScanInv
<1>. QED
  BY <1>4, <1>5

\* A result or a failure is written, or nothing is (scan_due_artists).
LEMMA ResultStep ==
  ASSUME ScanInv, NEW s \in Scanners, ScanRecords(s) \/ ScanFails(s)
  PROVE  /\ ScanInv'
         /\ \A t \in Scanners, a \in Artists : Holds(t, a)' => Holds(t, a)
         /\ \A t \in Scanners \ {s} : scan'[t] = scan[t]
         /\ \A a \in Artists : Holds(s, a) /\ latest[a] # s =>
              catalog'[a] = catalog[a] /\ cached' = cached
<1> DEFINE a == scan[s].artist
<1>1. ScanTypeOK
  BY DEF ScanInv
<1>2. /\ scan[s] \in WorkingScans /\ scan[s].at = "heard" /\ ToRelease(s)
      /\ UNCHANGED <<scanTime, followed, permitted, latest, mishaps>>
  BY <1>1, ScanFields DEF ScanRecords, ScanFails, HasHeard
<1>3. a \in Artists /\ scan[s].failures \in 0..MaxFailures
  BY <1>2 DEF WorkingScans
<1>4. LeasesNothing(s)
  BY <1>1, <1>2, NextStage DEF ToRelease, LeasesNothing
<1>5. /\ scan' \in [Scanners -> {NoScan} \cup Scans]
      /\ \A t \in Scanners \ {s} : scan'[t] = scan[t]
      /\ \A t \in Scanners, b \in Artists :
           Holds(t, b)' => Holds(t, b) /\ scan'[t].lease = scan[t].lease
  BY <1>1, <1>4, OneScanMoves
<1>6. \/ /\ StillOwned(s)
         /\ \E row \in Entries : row.lease = catalog[a].lease /\ Changes(a, row)
         /\ cached' \subseteq Artists
      \/ ~StillOwned(s) /\ catalog' = catalog /\ cached' = cached
  <2>1. CASE ~StillOwned(s)
    BY <2>1 DEF ScanRecords, ScanFails
  <2>2. CASE StillOwned(s)
    <3>1. catalog[a] \in Entries
      BY <1>1, <1>3, <2>2, EntryFields DEF StillOwned
    <3>2. CASE ScanRecords(s)
      <4> DEFINE row == [catalog[a] EXCEPT !.checked = scanTime, !.next = scanTime + CheckEvery,
                                           !.failures = 0]
      <4>1. row \in Entries /\ row.lease = catalog[a].lease
        <5>1. /\ scanTime \in 0..MaxScanTime /\ scanTime + CheckEvery \in Nat
              /\ 0 \in 0..MaxFailures
          BY <1>1, ScanNumbers
        <5>. QED
          BY <3>1, <5>1 DEF Entries
      <4>2. Changes(a, row) /\ cached' \subseteq Artists
        BY <1>1, <1>3, <2>2, <3>2 DEF ScanRecords, ScanTypeOK
      <4>. QED
        BY <2>2, <4>1, <4>2
    <3>3. CASE ScanFails(s)
      <4>1. PICK retryAt \in {0, scanTime + StorePause} :
              Changes(a, [catalog[a] EXCEPT
                            !.failures = AtMost(@ + 1, MaxFailures),
                            !.next = AtLeast(scanTime + Backoff(scan[s].failures), retryAt)])
        BY <2>2, <3>3 DEF ScanFails
      <4> DEFINE failed == AtMost(catalog[a].failures + 1, MaxFailures)
                 next == AtLeast(scanTime + Backoff(scan[s].failures), retryAt)
                 row == [catalog[a] EXCEPT !.failures = failed, !.next = next]
      <4>2. failed \in 0..MaxFailures
        BY <1>1, <1>3, <2>2, EntryFields, ScanNumbers DEF AtMost, StillOwned
      <4>3. next \in Nat
        <5>1. scan[s].failures \in Nat
          BY <1>1, <1>3, ScanNumbers
        <5>2. 2 ^ scan[s].failures \in Int
          BY <5>1
        <5>3. BackoffBase * 2 ^ scan[s].failures \in Int
          BY <1>1, <5>2, ScanNumbers
        <5>4. Backoff(scan[s].failures) \in Int
          BY <1>1, <5>3, ScanNumbers DEF Backoff, AtMost
        <5>5. retryAt \in Nat
          BY <1>1, ScanNumbers
        <5>. QED
          BY <1>1, <5>4, <5>5, ScanNumbers DEF AtLeast
      <4>4. Changes(a, row)
        BY <4>1
      <4> HIDE DEF failed, next
      <4>5. row \in Entries /\ row.lease = catalog[a].lease
        BY <3>1, <4>2, <4>3 DEF Entries
      <4>6. cached' \subseteq Artists
        BY <1>1, <3>3 DEF ScanFails, ScanTypeOK
      <4>. QED
        BY <2>2, <4>4, <4>5, <4>6
    <3>. QED
      BY <3>2, <3>3
  <2>. QED
    BY <2>1, <2>2
<1> HIDE DEF a
<1>7. /\ catalog' \in [Artists -> {NoEntry} \cup Entries]
      /\ cached' \subseteq Artists
      /\ \A b \in Artists :
           /\ catalog'[b].inTable = catalog[b].inTable
           /\ catalog[b].inTable => catalog'[b].lease = catalog[b].lease
  <2>1. CASE ~StillOwned(s) /\ catalog' = catalog /\ cached' = cached
    BY <1>1, <2>1 DEF ScanTypeOK, Entries
  <2>2. CASE /\ StillOwned(s)
             /\ \E row \in Entries : row.lease = catalog[a].lease /\ Changes(a, row)
             /\ cached' \subseteq Artists
    <3>1. PICK row \in Entries : row.lease = catalog[a].lease /\ Changes(a, row)
      BY <2>2
    <3>2. catalog[a].inTable = TRUE
      BY <1>1, <1>3, <2>2, EntryFields DEF StillOwned, a
    <3>. QED
      BY <1>1, <1>3, <2>2, <3>1, <3>2, RowChanges
  <2>. QED
    BY <1>6, <2>1, <2>2
<1>8. LeasesHold'
  BY <1>1, <1>2, <1>5, <1>7, KeepsLeases, ScanNumbers
<1>9. ScanTypeOK'
  BY <1>1, <1>2, <1>5, <1>7 DEF ScanTypeOK, Entries
<1>10. ASSUME NEW b \in Artists, Holds(s, b), latest[b] # s
       PROVE  catalog'[b] = catalog[b] /\ cached' = cached
  <2>1. ~StillOwned(s)
    BY <1>10, OwnerIsLatest DEF Holds
  <2>. QED
    BY <1>6, <2>1
<1>. QED
  BY <1>5, <1>8, <1>9, <1>10 DEF ScanInv

\* A lease is freed by the scan that has it (scan_due_artists).
LEMMA FreeStep ==
  ASSUME ScanInv, NEW s \in Scanners, ScanReleases(s) \/ ScanWithdrawn(s)
  PROVE  /\ ScanInv'
         /\ \A t \in Scanners, a \in Artists : Holds(t, a)' => Holds(t, a)
         /\ \A t \in Scanners \ {s} : scan'[t] = scan[t]
         /\ \A a \in Artists : Holds(s, a) /\ latest[a] # s =>
              catalog'[a] = catalog[a] /\ cached' = cached
<1>1. ScanTypeOK
  BY DEF ScanInv
<1>2. /\ scan[s] \in WorkingScans /\ scan[s].at \in {"lookup", "release"} /\ FreesLease(s)
      /\ UNCHANGED <<scanTime, followed, cached, permitted, latest, mishaps>>
  BY <1>1, ScanFields DEF ScanReleases, ScanWithdrawn, Releasing
<1>3. PICK a \in Artists : a = scan[s].artist
  BY <1>2 DEF WorkingScans
<1>4. LeasesNothing(s)
  BY <1>1, <1>2, ScanStages DEF ScanReleases, ScanWithdrawn, ToNext, LeasesNothing
<1>5. /\ scan' \in [Scanners -> {NoScan} \cup Scans]
      /\ \A t \in Scanners \ {s} : scan'[t] = scan[t]
      /\ \A t \in Scanners, b \in Artists :
           Holds(t, b)' => Holds(t, b) /\ scan'[t].lease = scan[t].lease
  BY <1>1, <1>4, OneScanMoves
<1>6. ~Holds(s, a)'
  <2>1. scan'[s].at \in {"next", "prune"}
    BY <1>1 DEF ScanReleases, ScanWithdrawn, ToNext, ScanBecomes, ScanTypeOK
  <2>. QED
    BY <2>1 DEF Holds
<1>7. CASE ~StillOwned(s)
  <2>1. catalog' = catalog
    BY <1>2, <1>7 DEF FreesLease
  <2>2. LeasesHold'
    BY <1>1, <1>2, <1>5, <2>1, KeepsLeases, ScanNumbers
  <2>3. ScanTypeOK'
    BY <1>1, <1>2, <1>5, <2>1 DEF ScanTypeOK
  <2>. QED
    BY <1>2, <1>5, <2>1, <2>2, <2>3 DEF ScanInv
<1>8. CASE StillOwned(s)
  <2>1. catalog[a] \in Entries /\ catalog' = [catalog EXCEPT ![a].lease = Never]
    BY <1>1, <1>2, <1>3, <1>8, EntryFields DEF FreesLease, StillOwned
  <2>2. /\ [catalog[a] EXCEPT !.lease = Never] \in Entries
        /\ catalog' = [catalog EXCEPT ![a] = [catalog[a] EXCEPT !.lease = Never]]
    <3>1. Never \in 0..(MaxScanTime + LeaseTime)
      BY <1>1, ScanNumbers DEF Never
    <3>2. [catalog[a] EXCEPT !.lease = Never] \in Entries
      BY <2>1, <3>1 DEF Entries
    <3>. QED
      BY <2>1, <3>2
  <2>3. /\ catalog' \in [Artists -> {NoEntry} \cup Entries]
        /\ catalog'[a] = [catalog[a] EXCEPT !.lease = Never]
        /\ \A b \in Artists \ {a} : catalog'[b] = catalog[b]
    BY <1>1, <1>3, <2>2, RowChanges DEF Changes
  <2>4. catalog'[a].lease = Never
    BY <2>1, <2>3 DEF Entries
  <2>5. \A t \in Scanners : Holds(t, a)' => latest[a] # t
    BY <1>2, <1>3, <1>5, <1>6, <1>8, OwnerIsLatest
  <2>6. LeasesHold'
    <3>1. \A b \in Artists :
            \/ /\ catalog'[b].inTable = catalog[b].inTable
               /\ catalog[b].inTable => catalog'[b].lease = catalog[b].lease
            \/ /\ catalog'[b].inTable => catalog'[b].lease = Never
               /\ \A t \in Scanners : Holds(t, b)' => latest[b] # t
      BY <2>3, <2>4, <2>5
    <3>2. scanTime' \in Nat /\ scanTime' >= scanTime /\ latest' = latest
      BY <1>1, <1>2, ScanNumbers
    <3>. QED
      BY <1>5, <3>1, <3>2, KeepsLeases
  <2>7. ScanTypeOK'
    BY <1>1, <1>2, <1>5, <2>3 DEF ScanTypeOK, Entries
  <2>8. \A b \in Artists : Holds(s, b) => latest[b] = s
    BY <1>2, <1>3, <1>8, OwnerIsLatest DEF Holds
  <2>. QED
    BY <1>5, <2>6, <2>7, <2>8 DEF ScanInv
<1>. QED
  BY <1>7, <1>8

\* Rows without a lease leave the table.
LEMMA PruneStep ==
  ASSUME ScanInv, NEW s \in Scanners, ScanPrunes(s)
  PROVE  /\ ScanInv'
         /\ \A t \in Scanners, a \in Artists : Holds(t, a)' => Holds(t, a)
         /\ \A t \in Scanners \ {s} : scan'[t] = scan[t]
<1>1. ScanTypeOK /\ LeasesHold
  BY DEF ScanInv
<1>2. LeasesNothing(s)
  BY DEF ScanPrunes, LeasesNothing, NoScan
<1>3. /\ scan' \in [Scanners -> {NoScan} \cup Scans]
      /\ \A t \in Scanners \ {s} : scan'[t] = scan[t]
      /\ \A t \in Scanners, b \in Artists :
           Holds(t, b)' => Holds(t, b) /\ scan'[t].lease = scan[t].lease
  BY <1>1, <1>2, OneScanMoves
<1>4. /\ catalog' = [a \in Artists |-> IF Prunable(a) THEN NoEntry ELSE catalog[a]]
      /\ cached' \subseteq Artists
      /\ UNCHANGED <<scanTime, followed, permitted, latest, mishaps>>
  BY <1>1 DEF ScanPrunes, ScanTypeOK
<1>5. ASSUME NEW a \in Artists, Prunable(a)
      PROVE  /\ catalog'[a].inTable = FALSE
             /\ \A t \in Scanners : Holds(t, a)' => latest[a] # t
  <2>1. catalog[a].lease = Never
    BY <1>5 DEF Prunable
  <2>2. \A t \in Scanners : Holds(t, a) => scan[t].lease # Never
    BY <1>1, ScanFields DEF LeasesHold, Holds, WorkingScans, Never
  <2>3. catalog'[a] = NoEntry
    BY <1>4, <1>5
  <2>4. \A t \in Scanners : Holds(t, a) => latest[a] # t
    BY <1>1, <2>1, <2>2 DEF LeasesHold
  <2>. QED
    BY <1>3, <2>3, <2>4 DEF NoEntry
<1>6. LeasesHold'
  <2>1. \A b \in Artists :
          \/ /\ catalog'[b].inTable = catalog[b].inTable
             /\ catalog[b].inTable => catalog'[b].lease = catalog[b].lease
          \/ /\ catalog'[b].inTable => catalog'[b].lease = Never
             /\ \A t \in Scanners : Holds(t, b)' => latest[b] # t
    BY <1>4, <1>5
  <2>2. scanTime' \in Nat /\ scanTime' >= scanTime /\ latest' = latest
    BY <1>1, <1>4, ScanNumbers
  <2>. QED
    BY <1>3, <2>1, <2>2, KeepsLeases
<1>7. ScanTypeOK'
  BY <1>1, <1>3, <1>4 DEF ScanTypeOK
<1>. QED
  BY <1>3, <1>6, <1>7 DEF ScanInv

\* What is not a step of a scan.
LEMMA ScanElsewhere ==
  ASSUME ScanInv,
         \/ \E a \in Artists : FollowArtist(a) \/ UnfollowArtist(a)
         \/ PolicyTurns \/ ScansCrash \/ ScanClock
  PROVE  /\ ScanInv'
         /\ \A t \in Scanners, a \in Artists : Holds(t, a)' => Holds(t, a)
         /\ (catalog' = catalog /\ cached' = cached) \/ scan' = scan
<1>1. ScanTypeOK /\ LeasesHold
  BY DEF ScanInv
<1>2. CASE \E a \in Artists : FollowArtist(a)
  <2>1. PICK a \in Artists : FollowArtist(a)
    BY <1>2
  <2>2. /\ catalog' = [catalog EXCEPT ![a] = IF @.inTable THEN @ ELSE NewEntry]
        /\ followed' = followed \cup {a}
        /\ UNCHANGED <<scanTime, cached, scan, permitted, latest, mishaps>>
    BY <2>1 DEF FollowArtist
  <2>3. NewEntry \in Entries /\ NewEntry.inTable = TRUE /\ NewEntry.lease = Never
    BY <1>1, ScanNumbers DEF NewEntry, Entries, Never
  <2>4. /\ catalog' \in [Artists -> {NoEntry} \cup Entries]
        /\ \A b \in Artists : b # a \/ catalog[b].inTable => catalog'[b] = catalog[b]
        /\ ~catalog[a].inTable => catalog'[a] = NewEntry
    BY <1>1, <2>2, <2>3 DEF ScanTypeOK, Entries
  <2>5. \A t \in Scanners, b \in Artists :
          Holds(t, b)' => Holds(t, b) /\ scan'[t].lease = scan[t].lease
    BY <2>2 DEF Holds
  <2>6. ~catalog[a].inTable => \A t \in Scanners : Holds(t, a)' => latest[a] # t
    BY <1>1, <2>5 DEF LeasesHold
  <2>7. LeasesHold'
    BY <1>1, <2>2, <2>3, <2>4, <2>5, <2>6, KeepsLeases, ScanNumbers
  <2>8. ScanTypeOK'
    BY <1>1, <2>2, <2>4 DEF ScanTypeOK, Entries
  <2>. QED
    BY <2>2, <2>5, <2>7, <2>8 DEF ScanInv
<1>3. CASE (\E a \in Artists : UnfollowArtist(a)) \/ PolicyTurns \/ ScansCrash \/ ScanClock
  <2>1. /\ UNCHANGED <<catalog, cached, latest>>
        /\ scanTime' \in 0..MaxScanTime /\ scanTime' >= scanTime
        /\ followed' \subseteq Artists /\ mishaps' \in 0..MaxMishaps
    <3>1. scanTime \in 0..MaxScanTime /\ followed \subseteq Artists /\ mishaps \in 0..MaxMishaps
      BY <1>1 DEF ScanTypeOK
    <3>2. CASE \E a \in Artists : UnfollowArtist(a)
      BY <1>1, <3>1, <3>2, ScanNumbers DEF UnfollowArtist
    <3>3. CASE PolicyTurns
      BY <1>1, <3>1, <3>3, ScanNumbers DEF PolicyTurns, Mishap
    <3>4. CASE ScansCrash
      BY <1>1, <3>1, <3>4, ScanNumbers DEF ScansCrash, Mishap
    <3>5. CASE ScanClock
      BY <1>1, <3>1, <3>5, ScanNumbers DEF ScanClock
    <3>. QED
      BY <1>3, <3>2, <3>3, <3>4, <3>5
  <2>2. permitted' \in BOOLEAN
    <3>1. permitted \in BOOLEAN
      BY <1>1 DEF ScanTypeOK
    <3>2. permitted' \in {permitted, ~permitted}
      BY <1>3 DEF UnfollowArtist, PolicyTurns, ScansCrash, ScanClock
    <3>. QED
      BY <3>1, <3>2, Zenon
  <2>3. /\ scan' \in [Scanners -> {NoScan} \cup Scans]
        /\ \A t \in Scanners : scan'[t] # scan[t] =>
             \/ scan'[t] = NoScan
             \/ /\ scan'[t] = [scan[t] EXCEPT !.withdrawn = TRUE]
                /\ scan[t] \in Waiting \cup WorkingScans
    <3>1. CASE scan' = scan
      BY <1>1, <3>1 DEF ScanTypeOK
    <3>2. CASE ScansCrash
      BY <3>2 DEF ScansCrash
    <3>3. CASE PolicyTurns
      <4>1. scan' = [t \in Scanners |->
                       IF permitted /\ scan[t].at \notin {"idle", "prune"}
                         THEN [scan[t] EXCEPT !.withdrawn = TRUE] ELSE scan[t]]
        BY <3>3 DEF PolicyTurns
      <4>2. ASSUME NEW t \in Scanners
            PROVE  /\ scan'[t] \in {NoScan} \cup Scans
                   /\ scan'[t] # scan[t] =>
                        /\ scan'[t] = [scan[t] EXCEPT !.withdrawn = TRUE]
                        /\ scan[t] \in Waiting \cup WorkingScans
        <5>1. CASE scan[t].at \in {"idle", "prune"}
          BY <1>1, <4>1, <5>1 DEF ScanTypeOK
        <5>2. CASE scan[t].at \notin {"idle", "prune"}
          <6>1. scan[t] \in Waiting \cup WorkingScans
            BY <1>1, <5>2, ScanFields
          <6>2. [scan[t] EXCEPT !.withdrawn = TRUE] \in Waiting \cup WorkingScans
            BY <6>1 DEF Waiting, WorkingScans
          <6>3. [scan[t] EXCEPT !.withdrawn = TRUE] \in Scans
            BY <6>2 DEF Waiting, WorkingScans, Scans
          <6>. QED
            BY <1>1, <4>1, <6>1, <6>3 DEF ScanTypeOK
        <5>. QED
          BY <5>1, <5>2
      <4>. QED
        BY <4>1, <4>2
    <3>. QED
      BY <1>3, <3>1, <3>2, <3>3 DEF UnfollowArtist, ScanClock
  <2>4. ASSUME NEW t \in Scanners, NEW a \in Artists, Holds(t, a)'
        PROVE  Holds(t, a) /\ scan'[t].lease = scan[t].lease
    <3>1. CASE scan'[t] = scan[t]
      BY <2>4, <3>1 DEF Holds
    <3>2. CASE scan'[t] = NoScan
      BY <2>4, <3>2 DEF Holds, NoScan
    <3>3. CASE scan'[t] = [scan[t] EXCEPT !.withdrawn = TRUE] /\ scan[t] \in Waiting \cup WorkingScans
      <4>1. scan[t] \in WorkingScans /\ scan'[t].at = scan[t].at
        BY <2>4, <3>3 DEF Holds, Waiting, WorkingScans
      <4>. QED
        BY <2>4, <3>3, <4>1 DEF Holds, WorkingScans
    <3>. QED
      BY <2>3, <3>1, <3>2, <3>3
  <2>5. LeasesHold'
    BY <1>1, <2>1, <2>4, KeepsLeases, ScanNumbers
  <2>6. ScanTypeOK'
    BY <1>1, <2>1, <2>3, <2>2 DEF ScanTypeOK
  <2>. QED
    BY <2>1, <2>4, <2>5, <2>6 DEF ScanInv
<1>. QED
  BY <1>2, <1>3

\* Nothing is followed.
LEMMA ScanInitially == ScanInit => ScanInv
<1> SUFFICES ASSUME ScanInit PROVE ScanInv
  OBVIOUS
<1>1. ScanTypeOK
  <2>1. scanTime \in 0..MaxScanTime /\ 0 \in 0..MaxMishaps
    BY ScanAssumption DEF ScanInit
  <2>. QED
    BY <2>1 DEF ScanInit, ScanTypeOK
<1>2. LeasesHold
  BY DEF ScanInit, LeasesHold, Holds, NoScan
<1>. QED
  BY <1>1, <1>2 DEF ScanInv

LEMMA ScanInvariant == ScanSpec => []ScanInv
<1>1. ASSUME ScanInv, [ScanNext]_scanVars
      PROVE  ScanInv'
  <2>1. CASE \E s \in Scanners : ScanClaims(s)
    BY <1>1, <2>1, ClaimStep
  <2>2. CASE \E s \in Scanners : ScanRecords(s) \/ ScanFails(s)
    BY <1>1, <2>2, ResultStep
  <2>3. CASE \E s \in Scanners : ScanReleases(s) \/ ScanWithdrawn(s)
    BY <1>1, <2>3, FreeStep
  <2>4. CASE \E s \in Scanners : ScanPrunes(s)
    BY <1>1, <2>4, PruneStep
  <2>5. CASE \E s \in Scanners :
               \/ ScanBegins(s) \/ (\E a \in Artists : ScanGoesOn(s, a)) \/ ScanHears(s)
               \/ ScanLosesResult(s) \/ ScanStops(s)
    BY <1>1, <2>5, ScanAloneStep
  <2>6. CASE \/ \E a \in Artists : FollowArtist(a) \/ UnfollowArtist(a)
             \/ PolicyTurns \/ ScansCrash \/ ScanClock
    BY <1>1, <2>6, ScanElsewhere
  <2>7. CASE UNCHANGED scanVars
    BY <1>1, <2>7 DEF scanVars, ScanInv, ScanTypeOK, LeasesHold, Holds
  <2>. QED
    BY <1>1, <2>1, <2>2, <2>3, <2>4, <2>5, <2>6, <2>7 DEF ScanNext
<1>. QED
  BY <1>1, ScanInitially, PTL DEF ScanSpec

\* The rows, the leases and the scans keep their types.
THEOREM ScanTypes == ScanSpec => []ScanTypeOK
<1>1. ScanInv => ScanTypeOK
  BY DEF ScanInv
<1>. QED
  BY <1>1, ScanInvariant, PTL

\* For any number of scans and artists, and however long a lookup lasts, an artist
\* is leased by one scan at a time, and a scan whose artist was leased again writes
\* nothing about it (scan_due_artists).
THEOREM ScansApart == ScanSpec => ScansKeepApart
<1>1. ASSUME ScanInv, [ScanNext]_scanVars
      PROVE  [\A s \in Scanners, a \in Artists :
                /\ Holds(s, a)' /\ ~Holds(s, a) =>
                     \A t \in Scanners \ {s} : Holds(t, a) => scan[t].lease <= scanTime
                /\ Holds(s, a) /\ latest[a] # s /\ scan'[s] # scan[s] =>
                     catalog'[a] = catalog[a] /\ cached' = cached]_scanVars
  <2>1. ASSUME NEW s \in Scanners, NEW a \in Artists, Holds(s, a)', ~Holds(s, a)
        PROVE  \A t \in Scanners \ {s} : Holds(t, a) => scan[t].lease <= scanTime
    <3>1. CASE \E u \in Scanners : ScanClaims(u)
      BY <1>1, <2>1, <3>1, ClaimStep
    <3>2. CASE \E u \in Scanners : \/ ScanRecords(u) \/ ScanFails(u) \/ ScanReleases(u)
                                   \/ ScanWithdrawn(u) \/ ScanPrunes(u)
      BY <1>1, <2>1, <3>2, ResultStep, FreeStep, PruneStep
    <3>3. CASE \E u \in Scanners :
                 \/ ScanBegins(u) \/ (\E b \in Artists : ScanGoesOn(u, b)) \/ ScanHears(u)
                 \/ ScanLosesResult(u) \/ ScanStops(u)
      BY <1>1, <2>1, <3>3, ScanAloneStep
    <3>4. CASE \/ \E b \in Artists : FollowArtist(b) \/ UnfollowArtist(b)
               \/ PolicyTurns \/ ScansCrash \/ ScanClock
      BY <1>1, <2>1, <3>4, ScanElsewhere
    <3>5. CASE UNCHANGED scanVars
      BY <2>1, <3>5 DEF scanVars, Holds
    <3>. QED
      BY <1>1, <3>1, <3>2, <3>3, <3>4, <3>5 DEF ScanNext
  <2>2. ASSUME NEW s \in Scanners, NEW a \in Artists, Holds(s, a), latest[a] # s,
               scan'[s] # scan[s]
        PROVE  catalog'[a] = catalog[a] /\ cached' = cached
    <3>1. CASE \E u \in Scanners : ScanClaims(u)
      <4>1. PICK u \in Scanners : ScanClaims(u)
        BY <3>1
      <4>2. u = s
        BY <1>1, <2>2, <4>1, ClaimStep
      <4>. QED
        BY <2>2, <4>1, <4>2 DEF ScanClaims, Holds
    <3>2. CASE \E u \in Scanners : \/ ScanRecords(u) \/ ScanFails(u) \/ ScanReleases(u)
                                   \/ ScanWithdrawn(u)
      BY <1>1, <2>2, <3>2, ResultStep, FreeStep
    <3>3. CASE \E u \in Scanners : ScanPrunes(u)
      <4>1. PICK u \in Scanners : ScanPrunes(u)
        BY <3>3
      <4>2. u = s
        BY <1>1, <2>2, <4>1, PruneStep
      <4>. QED
        BY <2>2, <4>1, <4>2 DEF ScanPrunes, Holds
    <3>4. CASE \E u \in Scanners :
                 \/ ScanBegins(u) \/ (\E b \in Artists : ScanGoesOn(u, b)) \/ ScanHears(u)
                 \/ ScanLosesResult(u) \/ ScanStops(u)
      BY <3>4 DEF ScanBegins, ScanGoesOn, ScanHears, ScanLosesResult, ScanStops
    <3>5. CASE \/ \E b \in Artists : FollowArtist(b) \/ UnfollowArtist(b)
               \/ PolicyTurns \/ ScansCrash \/ ScanClock
      BY <1>1, <2>2, <3>5, ScanElsewhere
    <3>6. CASE UNCHANGED scanVars
      BY <2>2, <3>6 DEF scanVars
    <3>. QED
      BY <1>1, <3>1, <3>2, <3>3, <3>4, <3>5, <3>6 DEF ScanNext
  <2>. QED
    BY <2>1, <2>2
<1>. QED
  BY <1>1, ScanInvariant, PTL DEF ScanSpec, ScansKeepApart
=============================================================================
