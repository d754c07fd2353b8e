---------------------------- MODULE ServiceProofs ----------------------------
(***************************************************************************)
(* Queue sessions, accounts, imports and the runtime gate, for every       *)
(* number of each.                                                         *)
(*                                                                         *)
(* Queue sessions: the limits of the account, the order of a device's      *)
(* checkpoints and one playlist per save.  The inductive invariant is the  *)
(* argument of the optimistic transactions: what a request has read still  *)
(* holds while its snapshot is the last one, and while a request holds the *)
(* write lock nothing it has read changes.                                 *)
(*                                                                         *)
(* Accounts: the types, and that requests whose guards were read before    *)
(* others committed do not leave the server without its master             *)
(* administrator.  The inductive invariant says who that is, and what the  *)
(* guards have left of a request that is still to be carried out.          *)
(*                                                                         *)
(* Imports: the types, and what the rows in flight and the ready           *)
(* containers owe to their workers.  The inductive invariant adds the      *)
(* order in which a worker writes them.                                    *)
(*                                                                         *)
(* The gate: a permit that was withdrawn stays withdrawn, and the runtime  *)
(* that serves is the one that was saved.  The inductive invariant adds    *)
(* who holds the serial lock, that permits are numbered in their order,    *)
(* and what an update that may still be rejected has found.                *)
(*                                                                         *)
(* The last section composes the four, as MCService does.                  *)
(***************************************************************************)
EXTENDS MCService, FiniteSetTheorems, SequenceTheorems, TLAPS

-----------------------------------------------------------------------------
(* Queue sessions.                                                         *)

Synced     == {d \in Devices : synced[d] # Nothing}
SavesNamed == {i \in SaveIds : named[i] # "none"}

Lists == [id : SaveIds, is : {"live", "trash", "gone"}]

\* The types, but for the bound on the lists.
QueueTypes ==
  /\ stored \subseteq Contents
  /\ synced \in [Devices -> Checkpoints \cup {Nothing}]
  /\ named \in [SaveIds -> Contents \cup {"none"}]
  /\ saved \in [SaveIds -> [content : Contents, list : Nat] \cup {Nothing}]
  /\ lists \in Seq(Lists)
  /\ saver \in [Savers -> {Nothing} \cup [at : Stages, req : Requests]]
  /\ stale \subseteq Savers
  /\ writer \in Savers \cup {Free}
  /\ requests \in 0..MaxRequests

\* What a request has read still holds.
SnapshotHolds ==
  /\ \A c \in Savers : At(c, "write") /\ c \notin stale => ~Refuses(saver[c].req)
  /\ \A c \in Savers : At(c, "fill") \/ At(c, "commit") =>
       writer = c /\ saver[c].req.kind = "playlist" /\ ~RefusesPlaylist(saver[c].req)

WithinLimits ==
  /\ IsFiniteSet(stored) /\ IsFiniteSet(Synced) /\ IsFiniteSet(SavesNamed)
  /\ AccountWithinLimits

SavesKnown ==
  /\ \A n \in DOMAIN lists : saved[lists[n].id] # Nothing
  /\ OnePlaylistPerSave

QueueInv == QueueTypes /\ SnapshotHolds /\ WithinLimits /\ SavesKnown

-----------------------------------------------------------------------------
\* The initial states satisfy the invariant (an account without queues).
LEMMA QueueInitially == QueueInit => QueueInv
<1> SUFFICES ASSUME QueueInit PROVE QueueInv
  OBVIOUS
<1>1. QueueTypes
  BY QueueBoundsAssumption DEF QueueInit, QueueTypes
<1>2. SnapshotHolds
  BY DEF QueueInit, SnapshotHolds, At, Busy
<1>3. stored = {} /\ Synced = {} /\ SavesNamed = {}
  BY DEF QueueInit, Synced, SavesNamed
<1>4. WithinLimits
  BY <1>3, FS_EmptySet, QueueBoundsAssumption DEF WithinLimits, AccountWithinLimits, Synced, SavesNamed
<1>5. SavesKnown
  BY DEF QueueInit, SavesKnown, OnePlaylistPerSave
<1>. QED
  BY <1>1, <1>2, <1>4, <1>5 DEF QueueInv

\* The rows of a sequence of lists.
LEMMA KnownSaves ==
  ASSUME lists \in Seq(Lists)
  PROVE  \A m \in DOMAIN lists : lists[m] \in Lists /\ lists[m].id \in SaveIds
<1>1. \A m \in 1..Len(lists) : lists[m] \in Lists
  BY ElementOfSeq
<1>2. \A m \in DOMAIN lists : lists[m] \in Lists
  BY <1>1, LenProperties
<1>. QED
  BY <1>2 DEF Lists

\* One element more in a finite set that was below its limit.
LEMMA OneMore ==
  ASSUME NEW S, NEW x, NEW limit \in Nat, IsFiniteSet(S), ~(Cardinality(S) >= limit)
  PROVE  IsFiniteSet(S \cup {x}) /\ Cardinality(S \cup {x}) <= limit
<1>1. Cardinality(S) \in Nat
  BY FS_CardinalityType
<1>2. IsFiniteSet(S \cup {x}) /\ Cardinality(S \cup {x}) = IF x \in S THEN Cardinality(S) ELSE Cardinality(S) + 1
  BY FS_AddElement
<1>. QED
  BY <1>1, <1>2

\* A part of a finite set within its limit.
LEMMA Fewer ==
  ASSUME NEW S, NEW T \in SUBSET S, NEW limit \in Nat, IsFiniteSet(S), Cardinality(S) <= limit
  PROVE  IsFiniteSet(T) /\ Cardinality(T) <= limit
<1>1. IsFiniteSet(T) /\ Cardinality(T) <= Cardinality(S) /\ Cardinality(S) \in Nat /\ Cardinality(T) \in Nat
  BY FS_Subset, FS_CardinalityType
<1>. QED
  BY <1>1

\* A step of c that leaves the rows alone, ends c's request or moves it to a stage at
\* which what it has read holds.
LEMMA RowsStay ==
  ASSUME QueueInv, NEW c \in Savers, UNCHANGED queueRows,
         NEW to \in {Nothing} \cup [at : Stages, req : Requests], saver' = [saver EXCEPT ![c] = to],
         stale' = stale \/ stale' = stale \ {c},
         \/ writer' = writer
         \/ writer = c /\ writer' = Free
         \/ writer = Free /\ writer' = c,
         requests' \in 0..MaxRequests,
         to # Nothing /\ to.at = "write" /\ c \notin stale' => ~Refuses(to.req),
         to # Nothing /\ to.at \in {"fill", "commit"} =>
           writer' = c /\ to.req.kind = "playlist" /\ ~RefusesPlaylist(to.req)
  PROVE  QueueInv'
<1>1. /\ saver' \in [Savers -> {Nothing} \cup [at : Stages, req : Requests]] /\ saver'[c] = to
      /\ \A d \in Savers \ {c} : saver'[d] = saver[d]
  BY DEF QueueInv, QueueTypes
<1>2. QueueTypes'
  BY <1>1 DEF QueueInv, QueueTypes, queueRows
<1>3. \A r : (Refuses(r)' <=> Refuses(r)) /\ (RefusesPlaylist(r)' <=> RefusesPlaylist(r))
  BY DEF Refuses, RefusesContent, RefusesSession, RefusesNamed, RefusesPlaylist, queueRows
<1>4. SnapshotHolds'
  <2>1. ASSUME NEW d \in Savers, At(d, "write")', d \notin stale' PROVE ~Refuses(saver[d].req)'
    <3>1. CASE d = c
      BY <1>1, <1>3, <2>1, <3>1 DEF At, Busy
    <3>2. CASE d # c
      BY <1>1, <1>3, <2>1, <3>2 DEF QueueInv, SnapshotHolds, At, Busy
    <3>. QED
      BY <3>1, <3>2
  <2>2. ASSUME NEW d \in Savers, (At(d, "fill") \/ At(d, "commit"))'
        PROVE  (writer = d /\ saver[d].req.kind = "playlist" /\ ~RefusesPlaylist(saver[d].req))'
    <3>1. CASE d = c
      BY <1>1, <1>3, <2>2, <3>1 DEF At, Busy
    <3>2. CASE d # c
      <4>1. writer = d /\ saver[d].req.kind = "playlist" /\ ~RefusesPlaylist(saver[d].req)
        BY <1>1, <2>2, <3>2 DEF QueueInv, SnapshotHolds, At, Busy
      <4>2. writer' = writer
        BY <3>2, <4>1, FreeAssumption
      <4>. QED
        BY <1>1, <1>3, <3>2, <4>1, <4>2
    <3>. QED
      BY <3>1, <3>2
  <2>. QED
    BY <2>1, <2>2 DEF SnapshotHolds
<1>5. WithinLimits' /\ SavesKnown'
  BY DEF QueueInv, WithinLimits, AccountWithinLimits, SavesKnown, OnePlaylistPerSave, Synced, SavesNamed, queueRows
<1>. QED
  BY <1>2, <1>4, <1>5 DEF QueueInv

\* A step that ends the requests in ended and leaves every other one that holds a
\* connection behind; nobody else holds the write lock.
LEMMA OthersBehind ==
  ASSUME QueueInv, NEW ended \in SUBSET Savers,
         \A d \in Savers \ ended : saver'[d] = saver[d],
         \A d \in ended : saver'[d] = Nothing,
         Connected \ ended \subseteq stale', writer \in {Free} \cup ended
  PROVE  SnapshotHolds'
<1>1. ASSUME NEW d \in Savers, At(d, "write")' PROVE d \in stale'
  <2>1. d \notin ended /\ saver'[d] = saver[d]
    BY <1>1 DEF At, Busy
  <2>. QED
    BY <1>1, <2>1 DEF At, Busy, Connected
<1>2. ASSUME NEW d \in Savers, (At(d, "fill") \/ At(d, "commit"))' PROVE FALSE
  <2>1. d \notin ended /\ saver'[d] = saver[d]
    BY <1>2 DEF At, Busy
  <2>2. writer = d
    BY <1>2, <2>1 DEF At, Busy, QueueInv, SnapshotHolds
  <2>. QED
    BY <2>1, <2>2, FreeAssumption
<1>. QED
  BY <1>1, <1>2 DEF SnapshotHolds

\* A single statement beside the requests.
LEMMA AllBehind ==
  ASSUME QueueInv, saver' = saver, stale' = stale \cup Connected, writer = Free
  PROVE  SnapshotHolds'
<1> DEFINE ended == {}
<1>1. /\ ended \in SUBSET Savers /\ \A d \in Savers \ ended : saver'[d] = saver[d]
      /\ \A d \in ended : saver'[d] = Nothing
      /\ Connected \ ended \subseteq stale' /\ writer \in {Free} \cup ended
  OBVIOUS
<1>. HIDE DEF ended
<1>. QED
  BY <1>1, OthersBehind

-----------------------------------------------------------------------------
\* One lemma for each action.

LEMMA AskKeeps ==
  ASSUME QueueInv, NEW c \in Savers, NEW r \in Requests, Ask(c, r) PROVE QueueInv'
<1>1. [at |-> "ask", req |-> r] \in [at : Stages, req : Requests] /\ requests' \in 0..MaxRequests
  BY QueueBoundsAssumption DEF Ask, Stages, QueueInv, QueueTypes
<1>. QED
  BY <1>1, RowsStay DEF Ask

LEMMA BeginKeeps ==
  ASSUME QueueInv, NEW c \in Savers, Begin(c) PROVE QueueInv'
<1>1. saver[c] \in [at : Stages, req : Requests]
  BY DEF QueueInv, QueueTypes, Begin, At, Busy
<1>2. CASE Refuses(saver[c].req)
  BY <1>2, RowsStay DEF Begin, QueueInv, QueueTypes
<1>3. CASE ~Refuses(saver[c].req)
  <2> DEFINE to == [saver[c] EXCEPT !.at = "write"]
  <2>1. to \in [at : Stages, req : Requests] /\ to.at = "write" /\ to.req = saver[c].req
    BY <1>1 DEF Stages
  <2>2. saver' = [saver EXCEPT ![c] = to]
    BY <1>3 DEF Begin, Goto
  <2>. HIDE DEF to
  <2>. QED
    BY <1>3, <2>1, <2>2, RowsStay DEF Begin, QueueInv, QueueTypes
<1>. QED
  BY <1>2, <1>3

LEMMA StartPlaylistKeeps ==
  ASSUME QueueInv, NEW c \in Savers, StartPlaylist(c) PROVE QueueInv'
<1>1. saver[c] \in [at : Stages, req : Requests]
  BY DEF QueueInv, QueueTypes, StartPlaylist, At, Busy
<1>2. ~Refuses(saver[c].req) /\ saver[c].req.kind = "playlist"
  BY DEF QueueInv, SnapshotHolds, StartPlaylist, MayWrite
<1>3. ~RefusesPlaylist(saver[c].req)
  BY <1>2 DEF Refuses
<1> DEFINE to == [saver[c] EXCEPT !.at = "fill"]
<1>4. to \in [at : Stages, req : Requests] /\ to.at = "fill" /\ to.req = saver[c].req
  BY <1>1 DEF Stages
<1>5. saver' = [saver EXCEPT ![c] = to]
  BY DEF StartPlaylist, Goto
<1>. HIDE DEF to
<1>. QED
  BY <1>2, <1>3, <1>4, <1>5, RowsStay DEF StartPlaylist, MayWrite, QueueInv, QueueTypes

LEMMA FillPlaylistKeeps ==
  ASSUME QueueInv, NEW c \in Savers, FillPlaylist(c) PROVE QueueInv'
<1>1. saver[c] \in [at : Stages, req : Requests]
  BY DEF QueueInv, QueueTypes, FillPlaylist, At, Busy
<1>2. writer = c /\ saver[c].req.kind = "playlist" /\ ~RefusesPlaylist(saver[c].req)
  BY DEF QueueInv, SnapshotHolds, FillPlaylist
<1> DEFINE to == [saver[c] EXCEPT !.at = "commit"]
<1>3. to \in [at : Stages, req : Requests] /\ to.at = "commit" /\ to.req = saver[c].req
  BY <1>1 DEF Stages
<1>4. saver' = [saver EXCEPT ![c] = to]
  BY DEF FillPlaylist, Goto
<1>. HIDE DEF to
<1>. QED
  BY <1>2, <1>3, <1>4, RowsStay DEF FillPlaylist, QueueInv, QueueTypes

\* The ways a request ends without a row.
LEMMA EndsWithoutARow ==
  ASSUME QueueInv, NEW c \in Savers, TrackIsGone(c) \/ SnapshotBehind(c) \/ TimesOut(c)
  PROVE  QueueInv'
<1>1. /\ UNCHANGED <<queueRows, requests>> /\ stale' = stale \ {c}
      /\ saver' = [saver EXCEPT ![c] = Nothing]
      /\ writer' = IF writer = c THEN Free ELSE writer
  BY DEF TrackIsGone, SnapshotBehind, TimesOut, Ended
<1>. QED
  BY <1>1, RowsStay DEF QueueInv, QueueTypes

LEMMA WriteKeeps ==
  ASSUME QueueInv, NEW c \in Savers, Write(c) PROVE QueueInv'
<1> DEFINE r == saver[c].req
<1>1. r \in Requests /\ r.kind # "playlist" /\ ~Refuses(r) /\ writer = Free
  BY DEF QueueInv, QueueTypes, SnapshotHolds, Write, At, Busy, MayWrite
<1>2. /\ saver' = [saver EXCEPT ![c] = Nothing] /\ writer' = Free
      /\ stale' = (stale \cup (Connected \ {c})) \ {c} /\ UNCHANGED <<saved, lists, requests>>
  BY <1>1, FreeAssumption DEF Write, Ended, Outdate
<1>. HIDE DEF r
<1>3. SnapshotHolds'
  <2>1. \A d \in Savers \ {c} : saver'[d] = saver[d]
    BY <1>2 DEF QueueInv, QueueTypes
  <2>2. \A d \in {c} : saver'[d] = Nothing
    BY <1>2 DEF QueueInv, QueueTypes
  <2>3. Connected \ {c} \subseteq stale' /\ writer \in {Free} \cup {c} /\ {c} \in SUBSET Savers
    BY <1>1, <1>2
  <2>. QED
    BY <2>1, <2>2, <2>3, OthersBehind
<1>4. SavesKnown'
  BY <1>2 DEF QueueInv, SavesKnown, OnePlaylistPerSave
<1>5. \/ r.kind = "content" /\ stored' = stored \cup {r.content} /\ UNCHANGED <<synced, named>>
      \/ r.kind = "session" /\ synced' = [synced EXCEPT ![r.device] = r.checkpoint] /\ UNCHANGED <<stored, named>>
      \/ r.kind = "named" /\ named' = [named EXCEPT ![r.id] = r.content] /\ UNCHANGED <<stored, synced>>
  BY DEF Write, r
<1>6. saver' \in [Savers -> {Nothing} \cup [at : Stages, req : Requests]]
      /\ stale' \subseteq Savers
  BY <1>2 DEF QueueInv, QueueTypes, Connected
<1>7. CASE r.kind = "content"
  <2>1. r.content \in Contents /\ ~(Cardinality(stored) >= Budget)
    BY <1>1, <1>7 DEF Requests, Refuses, RefusesContent
  <2>2. stored' = stored \cup {r.content} /\ UNCHANGED <<synced, named>>
    BY <1>5, <1>7
  <2>3. QueueTypes'
    BY <1>2, <1>6, <2>1, <2>2 DEF QueueInv, QueueTypes
  <2>4. IsFiniteSet(stored') /\ Cardinality(stored') <= Budget
    BY <2>1, <2>2, OneMore, QueueBoundsAssumption DEF QueueInv, WithinLimits
  <2>5. WithinLimits'
    BY <2>2, <2>4 DEF QueueInv, WithinLimits, AccountWithinLimits, Synced, SavesNamed
  <2>. QED
    BY <1>3, <1>4, <2>3, <2>5 DEF QueueInv
<1>8. CASE r.kind = "session"
  <2>1. r.device \in Devices /\ r.checkpoint \in Checkpoints /\ ~RefusesSession(r)
    BY <1>1, <1>8 DEF Requests, Refuses
  <2>2. synced' = [synced EXCEPT ![r.device] = r.checkpoint] /\ UNCHANGED <<stored, named>>
    BY <1>5, <1>8
  <2>3. QueueTypes'
    BY <1>2, <1>6, <2>1, <2>2 DEF QueueInv, QueueTypes
  <2>4. Synced' \subseteq Synced \cup {r.device}
    BY <2>2 DEF Synced, QueueInv, QueueTypes
  <2>5. IsFiniteSet(Synced') /\ Cardinality(Synced') <= MaxDevices
    <3>1. IsFiniteSet(Synced) /\ Cardinality(Synced) <= MaxDevices /\ MaxDevices \in Nat
      BY QueueBoundsAssumption DEF QueueInv, WithinLimits, AccountWithinLimits, Synced
    <3>2. CASE synced[r.device] = Nothing
      <4>1. ~(Cardinality(Synced) >= MaxDevices)
        BY <2>1, <3>2 DEF RefusesSession, Synced
      <4>2. IsFiniteSet(Synced \cup {r.device}) /\ Cardinality(Synced \cup {r.device}) <= MaxDevices
        BY <3>1, <4>1, OneMore
      <4>. QED
        BY <2>4, <3>1, <4>2, Fewer
    <3>3. CASE synced[r.device] # Nothing
      <4>1. Synced' \subseteq Synced
        BY <2>1, <2>4, <3>3 DEF Synced
      <4>. QED
        BY <3>1, <4>1, Fewer
    <3>. QED
      BY <3>2, <3>3
  <2>6. WithinLimits'
    BY <2>2, <2>5 DEF QueueInv, WithinLimits, AccountWithinLimits, Synced, SavesNamed
  <2>. QED
    BY <1>3, <1>4, <2>3, <2>6 DEF QueueInv
<1>9. CASE r.kind = "named"
  <2>1. r.id \in SaveIds /\ r.content \in Contents /\ ~RefusesNamed(r)
    BY <1>1, <1>9 DEF Requests, Refuses
  <2>2. named' = [named EXCEPT ![r.id] = r.content] /\ UNCHANGED <<stored, synced>>
    BY <1>5, <1>9
  <2>3. QueueTypes'
    BY <1>2, <1>6, <2>1, <2>2 DEF QueueInv, QueueTypes
  <2>4. SavesNamed' \subseteq SavesNamed \cup {r.id}
    BY <2>2 DEF SavesNamed, QueueInv, QueueTypes
  <2>5. IsFiniteSet(SavesNamed') /\ Cardinality(SavesNamed') <= MaxNamed
    <3>1. IsFiniteSet(SavesNamed) /\ MaxNamed \in Nat
      BY QueueBoundsAssumption DEF QueueInv, WithinLimits
    <3>2. ~(Cardinality(SavesNamed) >= MaxNamed)
      BY <2>1 DEF RefusesNamed, SavesNamed
    <3>3. IsFiniteSet(SavesNamed \cup {r.id}) /\ Cardinality(SavesNamed \cup {r.id}) <= MaxNamed
      BY <3>1, <3>2, OneMore
    <3>. QED
      BY <2>4, <3>1, <3>3, Fewer
  <2>6. WithinLimits'
    BY <2>2, <2>5 DEF QueueInv, WithinLimits, AccountWithinLimits, Synced, SavesNamed
  <2>. QED
    BY <1>3, <1>4, <2>3, <2>6 DEF QueueInv
<1>. QED
  BY <1>5, <1>7, <1>8, <1>9

LEMMA CommitPlaylistKeeps ==
  ASSUME QueueInv, NEW c \in Savers, CommitPlaylist(c) PROVE QueueInv'
<1> DEFINE r == saver[c].req
           row == [id |-> r.id, is |-> "live"]
<1>1. r \in Requests /\ r.kind = "playlist" /\ saved[r.id] = Nothing /\ writer = c
  BY DEF QueueInv, QueueTypes, SnapshotHolds, CommitPlaylist, At, Busy, RefusesPlaylist
<1>2. /\ saver' = [saver EXCEPT ![c] = Nothing] /\ writer' = Free
      /\ stale' = (stale \cup (Connected \ {c})) \ {c} /\ UNCHANGED <<stored, synced, named, requests>>
      /\ lists' = Append(lists, row)
      /\ saved' = [saved EXCEPT ![r.id] = [content |-> r.content, list |-> Len(lists) + 1]]
  BY <1>1 DEF CommitPlaylist, Ended, Outdate
<1>3. r.id \in SaveIds /\ r.content \in Contents /\ row \in Lists /\ row.id = r.id
  BY <1>1 DEF Requests, Lists
<1>. HIDE DEF r, row
<1>4. lists \in Seq(Lists) /\ Len(lists) \in Nat
  BY DEF QueueInv, QueueTypes
<1>5. /\ lists' \in Seq(Lists) /\ DOMAIN lists' = DOMAIN lists \cup {Len(lists) + 1}
      /\ lists'[Len(lists) + 1] = row /\ \A n \in DOMAIN lists : lists'[n] = lists[n]
  BY <1>2, <1>3, <1>4
<1>6. QueueTypes'
  <2>1. [content |-> r.content, list |-> Len(lists) + 1] \in [content : Contents, list : Nat]
    BY <1>3, <1>4
  <2>2. saved' \in [SaveIds -> [content : Contents, list : Nat] \cup {Nothing}]
    BY <1>2, <2>1 DEF QueueInv, QueueTypes
  <2>. QED
    BY <1>2, <1>5, <2>2 DEF QueueInv, QueueTypes, Connected
<1>7. SnapshotHolds'
  <2>1. \A d \in {c} : saver'[d] = Nothing
    BY <1>2 DEF QueueInv, QueueTypes
  <2>2. \A d \in Savers \ {c} : saver'[d] = saver[d]
    BY <1>2 DEF QueueInv, QueueTypes
  <2>3. Connected \ {c} \subseteq stale' /\ writer \in {Free} \cup {c} /\ {c} \in SUBSET Savers
    BY <1>1, <1>2
  <2>. QED
    BY <2>1, <2>2, <2>3, OthersBehind
<1>8. WithinLimits'
  BY <1>2 DEF QueueInv, WithinLimits, AccountWithinLimits, Synced, SavesNamed
<1>9. SavesKnown'
  <2>1. \A n \in DOMAIN lists : lists[n].id # r.id /\ lists'[n].id = lists[n].id
    BY <1>1, <1>5 DEF QueueInv, SavesKnown
  <2>2. lists'[Len(lists) + 1].id = r.id
    BY <1>3, <1>5
  <2>3. [content |-> r.content, list |-> Len(lists) + 1] # Nothing
    BY DEF Nothing
  <2>4. \A n \in DOMAIN lists : lists[n].id \in SaveIds
    BY KnownSaves DEF QueueInv, QueueTypes
  <2>5. \A n \in DOMAIN lists' : saved'[lists'[n].id] # Nothing
    BY <1>2, <1>3, <1>5, <2>1, <2>2, <2>3, <2>4 DEF QueueInv, QueueTypes, SavesKnown
  <2>6. \A m, n \in DOMAIN lists' : lists'[m].id = lists'[n].id => m = n
    BY <1>5, <2>1, <2>2 DEF QueueInv, SavesKnown, OnePlaylistPerSave
  <2>. QED
    BY <2>5, <2>6 DEF SavesKnown, OnePlaylistPerSave
<1>. QED
  BY <1>6, <1>7, <1>8, <1>9 DEF QueueInv

LEMMA RemoveSessionKeeps ==
  ASSUME QueueInv, NEW d \in Devices, RemoveSession(d) PROVE QueueInv'
<1>1. QueueTypes'
  BY DEF RemoveSession, QueueInv, QueueTypes, Connected
<1>2. SnapshotHolds'
  BY AllBehind DEF RemoveSession
<1>3. Synced' \subseteq Synced
  BY DEF RemoveSession, QueueInv, QueueTypes, Synced
<1>4. WithinLimits'
  <2>1. IsFiniteSet(Synced') /\ Cardinality(Synced') <= MaxDevices
    BY <1>3, Fewer, QueueBoundsAssumption DEF QueueInv, WithinLimits, AccountWithinLimits, Synced
  <2>. QED
    BY <2>1 DEF RemoveSession, QueueInv, WithinLimits, AccountWithinLimits, Synced, SavesNamed
<1>5. SavesKnown'
  BY DEF RemoveSession, QueueInv, SavesKnown, OnePlaylistPerSave
<1>. QED
  BY <1>1, <1>2, <1>4, <1>5 DEF QueueInv

LEMMA RemoveNamedKeeps ==
  ASSUME QueueInv, NEW i \in SaveIds, RemoveNamed(i) PROVE QueueInv'
<1>1. QueueTypes'
  BY DEF RemoveNamed, QueueInv, QueueTypes, Connected
<1>2. SnapshotHolds'
  BY AllBehind DEF RemoveNamed
<1>3. SavesNamed' \subseteq SavesNamed
  BY DEF RemoveNamed, QueueInv, QueueTypes, SavesNamed
<1>4. WithinLimits'
  <2>1. IsFiniteSet(SavesNamed') /\ Cardinality(SavesNamed') <= MaxNamed
    BY <1>3, Fewer, QueueBoundsAssumption DEF QueueInv, WithinLimits, AccountWithinLimits, SavesNamed
  <2>. QED
    BY <2>1 DEF RemoveNamed, QueueInv, WithinLimits, AccountWithinLimits, Synced, SavesNamed
<1>5. SavesKnown'
  BY DEF RemoveNamed, QueueInv, SavesKnown, OnePlaylistPerSave
<1>. QED
  BY <1>1, <1>2, <1>4, <1>5 DEF QueueInv

LEMMA PlaylistMovesKeeps ==
  ASSUME QueueInv, NEW n \in DOMAIN lists, PlaylistMoves(n) PROVE QueueInv'
<1>1. PICK to \in {"live", "trash", "gone"} :
        /\ lists' = [lists EXCEPT ![n].is = to]
        /\ saved' = IF to = "gone" THEN [saved EXCEPT ![lists[n].id].list = 0] ELSE saved
  BY DEF PlaylistMoves
<1>2. UNCHANGED <<stored, synced, named, saver, writer, requests>> /\ stale' = stale \cup Connected /\ writer = Free
  BY DEF PlaylistMoves
<1>3. lists \in Seq(Lists) /\ \A m \in DOMAIN lists : lists[m] \in Lists /\ lists[m].id \in SaveIds
  BY KnownSaves DEF QueueInv, QueueTypes
<1>4. /\ lists' \in Seq(Lists) /\ DOMAIN lists' = DOMAIN lists
      /\ \A m \in DOMAIN lists : lists'[m].id = lists[m].id
  <2>1. [lists[n] EXCEPT !.is = to] \in Lists /\ [lists[n] EXCEPT !.is = to].id = lists[n].id
    BY <1>3 DEF Lists
  <2>2. lists' = [lists EXCEPT ![n] = [lists[n] EXCEPT !.is = to]]
    BY <1>1
  <2>. QED
    BY <1>3, <2>1, <2>2
<1>5. saved[lists[n].id] \in [content : Contents, list : Nat]
  BY <1>3 DEF QueueInv, QueueTypes, SavesKnown
<1>6. /\ saved' \in [SaveIds -> [content : Contents, list : Nat] \cup {Nothing}]
      /\ \A i \in SaveIds : saved[i] # Nothing => saved'[i] # Nothing
  <2> DEFINE new == [saved[lists[n].id] EXCEPT !.list = 0]
  <2>1. new \in [content : Contents, list : Nat]
    BY <1>5
  <2>2. new # Nothing
    BY <2>1 DEF Nothing
  <2>3. saved' = IF to = "gone" THEN [saved EXCEPT ![lists[n].id] = new] ELSE saved
    BY <1>1
  <2>. HIDE DEF new
  <2>. QED
    BY <1>3, <2>1, <2>2, <2>3 DEF QueueInv, QueueTypes
<1>7. QueueTypes'
  BY <1>2, <1>4, <1>6 DEF QueueInv, QueueTypes, Connected
<1>8. SnapshotHolds'
  BY <1>2, AllBehind
<1>9. WithinLimits'
  BY <1>2 DEF QueueInv, WithinLimits, AccountWithinLimits, Synced, SavesNamed
<1>10. SavesKnown'
  BY <1>3, <1>4, <1>6 DEF QueueInv, SavesKnown, OnePlaylistPerSave
<1>. QED
  BY <1>7, <1>8, <1>9, <1>10 DEF QueueInv

\* Every step keeps the invariant.
LEMMA QueueStepKeeps == QueueInv /\ [QueueNext]_queueVars => QueueInv'
<1> SUFFICES ASSUME QueueInv, [QueueNext]_queueVars PROVE QueueInv'
  OBVIOUS
<1>1. ASSUME NEW c \in Savers, NEW r \in Requests, Ask(c, r) PROVE QueueInv'
  BY <1>1, AskKeeps
<1>2. ASSUME NEW c \in Savers, QueueStep(c) PROVE QueueInv'
  BY <1>2, BeginKeeps, WriteKeeps, StartPlaylistKeeps, FillPlaylistKeeps, EndsWithoutARow,
     CommitPlaylistKeeps DEF QueueStep
<1>3. ASSUME NEW d \in Devices, RemoveSession(d) PROVE QueueInv'
  BY <1>3, RemoveSessionKeeps
<1>4. ASSUME NEW i \in SaveIds, RemoveNamed(i) PROVE QueueInv'
  BY <1>4, RemoveNamedKeeps
<1>5. ASSUME NEW n \in DOMAIN lists, PlaylistMoves(n) PROVE QueueInv'
  BY <1>5, PlaylistMovesKeeps
<1>6. CASE UNCHANGED queueVars
  BY <1>6 DEF queueVars, QueueInv, QueueTypes, SnapshotHolds, WithinLimits, SavesKnown, At, Busy,
     AccountWithinLimits, OnePlaylistPerSave, Synced, SavesNamed, Refuses, RefusesContent,
     RefusesSession, RefusesNamed, RefusesPlaylist
<1>. QED
  BY <1>1, <1>2, <1>3, <1>4, <1>5, <1>6 DEF QueueNext

LEMMA QueueAlways == QueueSpec => []QueueInv
  BY QueueInitially, QueueStepKeeps, PTL DEF QueueSpec

-----------------------------------------------------------------------------
\* However many requests of the account overlap, it keeps its storage budget, its devices
\* and its named queues (store_content, save_session_at and save_named_at count first).
THEOREM LimitsKept == QueueSpec => []AccountWithinLimits
<1>1. QueueInv => AccountWithinLimits
  BY DEF QueueInv, WithinLimits
<1>. QED
  BY <1>1, QueueAlways, PTL

\* A save that is repeated, overlapped or answered after its playlist was deleted makes no
\* second playlist (save_as_playlist and the row of queue_playlist_saves).
THEOREM SavedOnce == QueueSpec => []OnePlaylistPerSave
<1>1. QueueInv => OnePlaylistPerSave
  BY DEF QueueInv, SavesKnown
<1>. QED
  BY <1>1, QueueAlways, PTL

\* A device's checkpoint never goes back in sequence number or capture time, whatever
\* requests of the device overlap (save_session_at).
THEOREM DevicesGoForward == QueueSpec => DeviceNeverGoesBack
<1> DEFINE forward ==
      \A d \in Devices :
        synced[d] # Nothing /\ synced'[d] # Nothing =>
          /\ synced'[d].sequence >= synced[d].sequence
          /\ synced'[d].capturedAt >= synced[d].capturedAt
<1>1. QueueInv /\ [QueueNext]_queueVars => [forward]_queueVars
  <2> SUFFICES ASSUME QueueInv, QueueNext, NEW d \in Devices,
                      synced[d] # Nothing, synced'[d] # Nothing
               PROVE  synced'[d].sequence >= synced[d].sequence
                      /\ synced'[d].capturedAt >= synced[d].capturedAt
    OBVIOUS
  <2>1. synced[d].sequence \in Nat /\ synced[d].capturedAt \in Nat
    BY DEF QueueInv, QueueTypes, Checkpoints
  <2>2. CASE UNCHANGED synced
    BY <2>1, <2>2
  <2>3. CASE \E c \in Savers : Write(c)
    <3>1. PICK c \in Savers : Write(c)
      BY <2>3
    <3>2. CASE saver[c].req.kind = "session" /\ saver[c].req.device = d
      <4> DEFINE r == saver[c].req
      <4>1. r \in Requests /\ ~Refuses(r)
        BY <3>1 DEF QueueInv, QueueTypes, SnapshotHolds, Write, At, Busy, MayWrite
      <4>2. r.checkpoint \in Checkpoints /\ ~RefusesSession(r)
        BY <3>2, <4>1 DEF Requests, Refuses
      <4>3. r.checkpoint.sequence \in Nat /\ r.checkpoint.capturedAt \in Nat
        BY <4>2 DEF Checkpoints
      <4>4. synced'[d] = r.checkpoint
        BY <3>1, <3>2 DEF Write, QueueInv, QueueTypes
      <4>5. ~(synced[d].sequence >= r.checkpoint.sequence) /\ ~(synced[d].capturedAt > r.checkpoint.capturedAt)
        BY <3>2, <4>2 DEF RefusesSession
      <4>. HIDE DEF r
      <4>. QED
        BY <2>1, <4>3, <4>4, <4>5
    <3>3. CASE ~(saver[c].req.kind = "session" /\ saver[c].req.device = d)
      <4>1. synced'[d] = synced[d]
        BY <3>1, <3>3 DEF Write, QueueInv, QueueTypes
      <4>. QED
        BY <2>1, <4>1
    <3>. QED
      BY <3>2, <3>3
  <2>4. CASE \E e \in Devices : RemoveSession(e)
    <3>1. synced'[d] = synced[d]
      BY <2>4 DEF RemoveSession, QueueInv, QueueTypes
    <3>. QED
      BY <2>1, <3>1
  <2>. QED
    BY <2>2, <2>3, <2>4 DEF QueueNext, QueueStep, Ask, Begin, StartPlaylist, FillPlaylist,
       TrackIsGone, CommitPlaylist, SnapshotBehind, TimesOut, RemoveNamed, PlaylistMoves, queueRows
<1>. QED
  BY <1>1, QueueAlways, PTL DEF QueueSpec, DeviceNeverGoesBack

-----------------------------------------------------------------------------
\* The lists and the requests that may still make one do not outnumber the requests so
\* far, and every list of a save is one of them.
Pending == {c \in Savers : Busy(c)}

ListsCounted ==
  /\ IsFiniteSet(Pending) /\ Cardinality(Pending) + Len(lists) <= requests
  /\ \A i \in SaveIds : saved[i] # Nothing => saved[i].list <= Len(lists)

\* A step that makes no list and lets no request in.
LEMMA NoList ==
  ASSUME QueueInv, ListsCounted, Pending' \subseteq Pending, requests' = requests,
         Len(lists') = Len(lists),
         \A i \in SaveIds : saved'[i] # Nothing => saved'[i].list = 0 \/ saved'[i] = saved[i]
  PROVE  ListsCounted'
<1>1. Len(lists) \in Nat /\ requests \in Nat
  BY QueueBoundsAssumption DEF QueueInv, QueueTypes
<1>2. /\ IsFiniteSet(Pending) /\ IsFiniteSet(Pending')
      /\ Cardinality(Pending') <= Cardinality(Pending)
      /\ Cardinality(Pending) \in Nat /\ Cardinality(Pending') \in Nat
  BY FS_Subset, FS_CardinalityType DEF ListsCounted
<1>3. IsFiniteSet(Pending') /\ Cardinality(Pending') + Len(lists') <= requests'
  BY <1>1, <1>2 DEF ListsCounted
<1>4. \A i \in SaveIds : saved'[i] # Nothing => saved'[i].list <= Len(lists')
  BY <1>1 DEF ListsCounted
<1>. QED
  BY <1>3, <1>4 DEF ListsCounted

\* The requests under way when c's has ended, or only c has moved.
LEMMA PendingAfter ==
  ASSUME QueueInv, NEW c \in Savers, NEW to, saver' = [saver EXCEPT ![c] = to]
  PROVE  Pending' = IF to = Nothing THEN Pending \ {c} ELSE Pending \cup {c}
BY DEF QueueInv, QueueTypes, Pending, Busy

LEMMA ListsStayCounted == QueueInv /\ ListsCounted /\ [QueueNext]_queueVars => ListsCounted'
<1> SUFFICES ASSUME QueueInv, ListsCounted, [QueueNext]_queueVars PROVE ListsCounted'
  OBVIOUS
<1>0. /\ Len(lists) \in Nat /\ requests \in Nat /\ lists \in Seq(Lists)
      /\ IsFiniteSet(Pending) /\ Cardinality(Pending) \in Nat
      /\ Cardinality(Pending) + Len(lists) <= requests
  BY FS_CardinalityType, QueueBoundsAssumption DEF QueueInv, QueueTypes, ListsCounted
<1>1. ASSUME NEW c \in Savers, NEW r \in Requests, Ask(c, r) PROVE ListsCounted'
  <2> DEFINE to == [at |-> "ask", req |-> r]
  <2>1. to # Nothing
    BY DEF Nothing
  <2>2. saver' = [saver EXCEPT ![c] = to] /\ requests' = requests + 1 /\ UNCHANGED queueRows
    BY <1>1 DEF Ask
  <2>. HIDE DEF to
  <2>3. Pending' = Pending \cup {c}
    BY <2>1, <2>2, PendingAfter
  <2>4. /\ IsFiniteSet(Pending \cup {c})
        /\ Cardinality(Pending \cup {c}) = IF c \in Pending THEN Cardinality(Pending) ELSE Cardinality(Pending) + 1
    BY <1>0, FS_AddElement
  <2>5. IsFiniteSet(Pending') /\ Cardinality(Pending') + Len(lists') <= requests'
    BY <1>0, <2>2, <2>3, <2>4 DEF queueRows
  <2>. QED
    BY <2>2, <2>5 DEF ListsCounted, queueRows
<1>2. ASSUME NEW c \in Savers, CommitPlaylist(c) PROVE ListsCounted'
  <2> DEFINE r == saver[c].req
             row == [id |-> r.id, is |-> "live"]
  <2>1. /\ saver' = [saver EXCEPT ![c] = Nothing] /\ requests' = requests
        /\ lists' = Append(lists, row)
        /\ saved' = [saved EXCEPT ![r.id] = [content |-> r.content, list |-> Len(lists) + 1]]
    BY <1>2 DEF CommitPlaylist, Ended
  <2>2. c \in Pending
    BY <1>2 DEF CommitPlaylist, At, Pending
  <2>3. Pending' = Pending \ {c}
    BY <2>1, PendingAfter
  <2>4. IsFiniteSet(Pending \ {c}) /\ Cardinality(Pending \ {c}) = Cardinality(Pending) - 1
    BY <1>0, <2>2, FS_RemoveElement
  <2>. HIDE DEF r, row
  <2>5. Len(lists') = Len(lists) + 1
    BY <1>0, <2>1
  <2>6. IsFiniteSet(Pending') /\ Cardinality(Pending') + Len(lists') <= requests'
    BY <1>0, <2>1, <2>3, <2>4, <2>5
  <2>7. \A i \in SaveIds : saved'[i] # Nothing => saved'[i].list <= Len(lists')
    <3> SUFFICES ASSUME NEW i \in SaveIds, saved'[i] # Nothing PROVE saved'[i].list <= Len(lists')
      OBVIOUS
    <3>1. saved'[i] = [content |-> r.content, list |-> Len(lists) + 1] \/ saved'[i] = saved[i]
      BY <2>1 DEF QueueInv, QueueTypes
    <3>2. saved[i] # Nothing => saved[i].list \in Nat /\ saved[i].list <= Len(lists)
      BY DEF ListsCounted, QueueInv, QueueTypes
    <3>. QED
      BY <1>0, <2>5, <3>1, <3>2
  <2>. QED
    BY <2>6, <2>7 DEF ListsCounted
<1>3. ASSUME NEW c \in Savers, QueueStep(c), ~CommitPlaylist(c) PROVE ListsCounted'
  <2>1. requests' = requests /\ lists' = lists /\ saved' = saved
    BY <1>3 DEF QueueStep, Begin, Write, StartPlaylist, FillPlaylist, TrackIsGone, SnapshotBehind,
       TimesOut, queueRows
  <2>2. saver' = [saver EXCEPT ![c] = Nothing] \/ \E s : saver' = [saver EXCEPT ![c].at = s]
    BY <1>3 DEF QueueStep, Begin, Write, StartPlaylist, FillPlaylist, TrackIsGone, SnapshotBehind,
       TimesOut, Ended, Goto
  <2>3. Busy(c)
    BY <1>3 DEF QueueStep, Begin, Write, StartPlaylist, FillPlaylist, TrackIsGone, SnapshotBehind,
       TimesOut, At
  <2>4. Pending' \subseteq Pending
    <3>1. CASE saver' = [saver EXCEPT ![c] = Nothing]
      BY <3>1, PendingAfter
    <3>2. CASE \E s : saver' = [saver EXCEPT ![c].at = s]
      BY <2>3, <3>2 DEF QueueInv, QueueTypes, Pending, Busy
    <3>. QED
      BY <2>2, <3>1, <3>2
  <2>. QED
    BY <2>1, <2>4, NoList
<1>4. ASSUME NEW d \in Devices, RemoveSession(d) PROVE ListsCounted'
  BY <1>4, NoList DEF RemoveSession, Pending, Busy
<1>5. ASSUME NEW i \in SaveIds, RemoveNamed(i) PROVE ListsCounted'
  BY <1>5, NoList DEF RemoveNamed, Pending, Busy
<1>6. ASSUME NEW n \in DOMAIN lists, PlaylistMoves(n) PROVE ListsCounted'
  <2>1. PICK to \in {"live", "trash", "gone"} :
          /\ lists' = [lists EXCEPT ![n].is = to]
          /\ saved' = IF to = "gone" THEN [saved EXCEPT ![lists[n].id].list = 0] ELSE saved
    BY <1>6 DEF PlaylistMoves
  <2>2. requests' = requests /\ saver' = saver
    BY <1>6 DEF PlaylistMoves
  <2>3. Len(lists') = Len(lists)
    BY <1>0, <2>1
  <2>4. \A i \in SaveIds : saved'[i] # Nothing => saved'[i].list = 0 \/ saved'[i] = saved[i]
    <3> SUFFICES ASSUME NEW i \in SaveIds, saved'[i] # saved[i] PROVE saved'[i].list = 0
      OBVIOUS
    <3>1. lists[n].id \in SaveIds /\ saved[lists[n].id] # Nothing
      BY KnownSaves DEF QueueInv, QueueTypes, SavesKnown
    <3>2. saved[lists[n].id] \in [content : Contents, list : Nat]
      BY <3>1 DEF QueueInv, QueueTypes
    <3>3. i = lists[n].id /\ saved'[i] = [saved[i] EXCEPT !.list = 0]
      BY <2>1, <3>1 DEF QueueInv, QueueTypes
    <3>. QED
      BY <3>2, <3>3
  <2>. QED
    BY <2>2, <2>3, <2>4, NoList DEF Pending, Busy
<1>7. CASE UNCHANGED queueVars
  BY <1>7 DEF queueVars, ListsCounted, Pending, Busy
<1>. QED
  BY <1>1, <1>2, <1>3, <1>4, <1>5, <1>6, <1>7 DEF QueueNext

\* The types of the component, with the bound on the lists.
LEMMA QueueTyped == QueueInv /\ ListsCounted => QueueTypeOK
<1> SUFFICES ASSUME QueueInv, ListsCounted PROVE QueueTypeOK
  OBVIOUS
<1>1. Len(lists) \in Nat /\ requests \in Nat /\ MaxRequests \in Nat /\ requests <= MaxRequests
      /\ Cardinality(Pending) \in Nat
  BY FS_CardinalityType, QueueBoundsAssumption DEF QueueInv, QueueTypes, ListsCounted
<1>2. Len(lists) <= MaxRequests
  BY <1>1 DEF ListsCounted
<1>3. saved \in [SaveIds -> [content : Contents, list : 0..MaxRequests] \cup {Nothing}]
  <2> SUFFICES ASSUME NEW i \in SaveIds, saved[i] # Nothing
               PROVE  saved[i] \in [content : Contents, list : 0..MaxRequests]
    BY DEF QueueInv, QueueTypes
  <2>1. saved[i] \in [content : Contents, list : Nat] /\ saved[i].list <= Len(lists)
    BY DEF QueueInv, QueueTypes, ListsCounted
  <2>2. saved[i].list \in 0..MaxRequests
    BY <1>1, <1>2, <2>1
  <2>. QED
    BY <2>1, <2>2
<1>. QED
  BY <1>3 DEF QueueInv, QueueTypes, QueueTypeOK, Lists

LEMMA ListsCountedInitially == QueueInit => ListsCounted
<1> SUFFICES ASSUME QueueInit PROVE ListsCounted
  OBVIOUS
<1>1. Pending = {}
  BY DEF QueueInit, Pending, Busy
<1>2. lists = <<>> /\ requests = 0 /\ \A i \in SaveIds : saved[i] = Nothing
  BY DEF QueueInit
<1>. QED
  BY <1>1, <1>2, FS_EmptySet DEF ListsCounted

\* The rows, the requests and the devices of an account keep the shape that their tables
\* and handlers give them.
THEOREM QueueShape == QueueSpec => []QueueTypeOK
<1>1. QueueInit => QueueInv /\ ListsCounted
  BY QueueInitially, ListsCountedInitially
<1>2. (QueueInv /\ ListsCounted) /\ [QueueNext]_queueVars => (QueueInv /\ ListsCounted)'
  BY QueueStepKeeps, ListsStayCounted
<1>. QED
  BY <1>1, <1>2, QueueTyped, PTL DEF QueueSpec

-----------------------------------------------------------------------------
(* Accounts.                                                               *)

Fields == [role : Roles \cup {"same"}, disabled : {"yes", "no", "same"}, password : {"new", "same"}]

AccountRows == [role : Roles \cup {"none", "deleted"}, disabled : BOOLEAN, master : BOOLEAN]

MasterInv ==
  /\ account[Master].master /\ account[Master].role = "admin" /\ ~account[Master].disabled
  /\ \A a \in Accounts \ {Master} : ~account[a].master

\* What a guard has left of a request that is still to be carried out.
Guarded(q) ==
  /\ q.op = "delete" => q.target # Master
  /\ q.op = "update" /\ q.target = Master => q.to.role # "user" /\ q.to.disabled # "yes"

GuardsHold == \A c \in Askers : Guarded(request[c])

AccountsInv == AccountsTypeOK /\ MasterInv /\ GuardsHold

-----------------------------------------------------------------------------
\* The initial states satisfy the invariant (the setup has made the administrator).
LEMMA AccountsInitially == AccountsInit => AccountsInv
<1> SUFFICES ASSUME AccountsInit PROVE AccountsInv
  OBVIOUS
<1>1. MasterInv
  BY AccountsAssumption DEF AccountsInit, MasterInv, NoAccount
<1>2. GuardsHold
  BY DEF AccountsInit, GuardsHold, Guarded, NoRequest
<1>3. account \in [Accounts -> AccountRows]
  BY DEF AccountsInit, NoAccount, Roles, AccountRows
<1>4. session \in [Sessions -> [of : Accounts, is : {"none", "live", "lapsed", "deleted"}, remembered : BOOLEAN]]
  BY AccountsAssumption DEF AccountsInit, NoSession
<1>. QED
  BY <1>1, <1>2, <1>3, <1>4, AccountsAssumption
  DEF AccountsInit, AccountsInv, AccountsTypeOK, AdminRequests, AccountRows

\* Where there is a master administrator, ensure_master_admin_on_conn makes none.
LEMMA MasterSuffices ==
  ASSUME NEW t, t[Master].master
  PROVE  WithMaster(t) = t
  BY AccountsAssumption DEF WithMaster

\* Revoked sessions keep the types.
LEMMA RevokedTyped ==
  ASSUME AccountsTypeOK, NEW a \in Accounts, NEW kept
  PROVE  Revoked(a, kept) \in [Sessions -> [of : Accounts, is : {"none", "live", "lapsed", "deleted"},
                                           remembered : BOOLEAN]]
  BY AccountsAssumption DEF Revoked, Deleted, NoSession, AccountsTypeOK

\* A request that moves on keeps the requests typed and guarded.
LEMMA RequestMoves ==
  ASSUME AccountsInv, NEW c \in Askers, NEW q \in AdminRequests, Guarded(q),
         request' = [request EXCEPT ![c] = q]
  PROVE  request' \in [Askers -> AdminRequests] /\ GuardsHold'
  BY DEF AccountsInv, AccountsTypeOK, GuardsHold

\* An answer ends a request.
LEMMA AnswerMoves ==
  ASSUME AccountsInv, NEW c \in Askers, Answered(c)
  PROVE  request' \in [Askers -> AdminRequests] /\ GuardsHold'
<1>1. NoRequest \in AdminRequests /\ Guarded(NoRequest)
  BY DEF AdminRequests, NoRequest, Guarded
<1>2. request' = [request EXCEPT ![c] = NoRequest]
  BY DEF Answered
<1>. QED
  BY <1>1, <1>2, RequestMoves

\* What there is of a request at each of its points.
LEMMA RequestIs ==
  ASSUME AccountsInv, NEW c \in Askers
  PROVE  /\ request[c].op = "admitted" => request[c].by \in Accounts
         /\ request[c].op \in {"update", "delete"} => request[c].target \in Accounts
         /\ request[c].op = "update" => request[c].to \in Fields
         /\ Guarded(request[c])
<1>1. request[c] \in AdminRequests /\ Guarded(request[c])
  BY DEF AccountsInv, AccountsTypeOK, GuardsHold
<1>2. Updates \subseteq Fields
  BY DEF Updates, Fields
<1>. QED
  BY <1>1, <1>2 DEF AdminRequests, NoRequest

\* Requests that change accounts preserve the invariant (create_user, update_user,
\* delete_user and their guards).
LEMMA RequestsKeep ==
  ASSUME AccountsInv,
         \E c \in Askers :
           \/ \E s \in Sessions : Admit(c, s)
           \/ \E a \in Accounts :
                \/ \E role \in Roles : CreateAccount(c, a, role)
                \/ \E to \in Updates : AskUpdate(c, a, to)
                \/ AskDelete(c, a)
           \/ UpdateAccount(c) \/ DeleteAccount(c) \/ RequestRefused(c)
  PROVE  AccountsInv'
<1>0. AccountsTypeOK /\ MasterInv /\ GuardsHold /\ Master \in Accounts
      /\ account \in [Accounts -> AccountRows]
  BY AccountsAssumption DEF AccountsInv, AccountsTypeOK, AccountRows
<1>r. PICK c \in Askers :
        \/ \E s \in Sessions : Admit(c, s)
        \/ \E a \in Accounts :
             \/ \E role \in Roles : CreateAccount(c, a, role)
             \/ \E to \in Updates : AskUpdate(c, a, to)
             \/ AskDelete(c, a)
        \/ UpdateAccount(c) \/ DeleteAccount(c) \/ RequestRefused(c)
  OBVIOUS
\* A step that moves only the request.
<1>q. ASSUME request' \in [Askers -> AdminRequests], GuardsHold',
             UNCHANGED <<account, session, login, refreshing, streams, lapses>>
      PROVE  AccountsInv'
  BY <1>0, <1>q DEF AccountsInv, AccountsTypeOK, MasterInv
\* A step that writes rows of accounts and sessions.
<1>w. ASSUME request' \in [Askers -> AdminRequests], GuardsHold', MasterInv',
             account' \in [Accounts -> AccountRows],
             session' \in [Sessions -> [of : Accounts, is : {"none", "live", "lapsed", "deleted"},
                                        remembered : BOOLEAN]],
             UNCHANGED <<login, refreshing, streams, lapses>>
      PROVE  AccountsInv'
  BY <1>0, <1>w DEF AccountsInv, AccountsTypeOK, AccountRows
<1>1. ASSUME NEW a \in Accounts, NEW role \in Roles, CreateAccount(c, a, role)
      PROVE  AccountsInv'
  <2> DEFINE t == [account EXCEPT ![a] = [role |-> role, disabled |-> FALSE, master |-> FALSE]]
  <2>1. a # Master
    BY <1>0, <1>1 DEF CreateAccount, NoAccount, MasterInv
  <2>2. /\ t \in [Accounts -> AccountRows]
        /\ t[Master] = account[Master] /\ ~t[a].master
        /\ \A b \in Accounts \ {a} : t[b] = account[b]
    BY <1>0, <2>1 DEF AccountRows
  <2>3. account' = WithMaster(t) /\ Answered(c) /\ UNCHANGED <<session, login, refreshing, streams, lapses>>
    BY <1>1 DEF CreateAccount
  <2> HIDE DEF t
  <2>4. account' = t
    BY <1>0, <2>2, <2>3, MasterSuffices DEF MasterInv
  <2>5. MasterInv'
    BY <1>0, <2>2, <2>4 DEF MasterInv
  <2>6. request' \in [Askers -> AdminRequests] /\ GuardsHold'
    BY <2>3, AnswerMoves
  <2>. QED
    BY <1>0, <1>w, <2>2, <2>3, <2>4, <2>5, <2>6 DEF AccountsTypeOK
<1>2. ASSUME NEW a \in Accounts, NEW to \in Updates, AskUpdate(c, a, to)
      PROVE  AccountsInv'
  <2> DEFINE q == [op |-> "update", target |-> a, to |-> to]
  <2>1. a = Master => to.role # "user" /\ to.disabled # "yes"
    BY <1>0, <1>2 DEF AskUpdate, UpdateGuard, MasterInv
  <2>2. q \in AdminRequests /\ Guarded(q)
    BY <2>1 DEF AdminRequests, Guarded
  <2>3. request' = [request EXCEPT ![c] = q]
        /\ UNCHANGED <<account, session, login, refreshing, streams, lapses>>
    BY <1>2 DEF AskUpdate
  <2> HIDE DEF q
  <2>. QED
    BY <1>q, <2>2, <2>3, RequestMoves
<1>3. ASSUME NEW a \in Accounts, AskDelete(c, a)
      PROVE  AccountsInv'
  <2> DEFINE q == [op |-> "delete", target |-> a]
  <2>1. a # Master
    BY <1>0, <1>3 DEF AskDelete, DeleteGuard, MasterInv
  <2>2. q \in AdminRequests /\ Guarded(q)
    BY <2>1 DEF AdminRequests, Guarded
  <2>3. request' = [request EXCEPT ![c] = q]
        /\ UNCHANGED <<account, session, login, refreshing, streams, lapses>>
    BY <1>3 DEF AskDelete
  <2> HIDE DEF q
  <2>. QED
    BY <1>q, <2>2, <2>3, RequestMoves
<1>4. CASE UpdateAccount(c)
  <2> DEFINE a == request[c].target
             to == request[c].to
             row == [account[a] EXCEPT !.role = IF to.role = "same" THEN @ ELSE to.role,
                                       !.disabled = IF to.disabled = "same" THEN @ ELSE to.disabled = "yes"]
             t == [account EXCEPT ![a] = row]
  <2>1. a \in Accounts /\ to \in Fields
    BY <1>4, RequestIs DEF UpdateAccount
  <2>2. /\ row \in AccountRows
        /\ row.master = account[a].master
        /\ a = Master => row.role = "admin" /\ ~row.disabled
    <3>1. account[a] \in AccountRows
      BY <1>0, <2>1
    <3>2. a = Master => to.role # "user" /\ to.disabled # "yes"
      BY <1>4, RequestIs DEF UpdateAccount, Guarded
    <3>. QED
      BY <1>0, <2>1, <3>1, <3>2 DEF Fields, Roles, MasterInv, AccountRows
  <2> HIDE DEF row, a, to
  <2>3. /\ t \in [Accounts -> AccountRows]
        /\ t[a] = row /\ \A b \in Accounts \ {a} : t[b] = account[b]
    BY <1>0, <2>1, <2>2
  <2>4. t[Master].master /\ t[Master].role = "admin" /\ ~t[Master].disabled
        /\ \A b \in Accounts \ {Master} : ~t[b].master
    BY <1>0, <2>2, <2>3 DEF MasterInv
  <2>5. account' = WithMaster(t)
    BY <1>4 DEF UpdateAccount, a, to, row
  <2>6. session' = session \/ session' = Revoked(a, {})
    BY <1>4 DEF UpdateAccount, a, to
  <2> HIDE DEF t
  <2>7. account' = t
    BY <2>4, <2>5, MasterSuffices
  <2>8. session' \in [Sessions -> [of : Accounts, is : {"none", "live", "lapsed", "deleted"},
                                   remembered : BOOLEAN]]
    BY <1>0, <2>1, <2>6, RevokedTyped DEF AccountsTypeOK
  <2>9. Answered(c) /\ UNCHANGED <<login, refreshing, streams, lapses>>
    BY <1>4 DEF UpdateAccount
  <2>10. request' \in [Askers -> AdminRequests] /\ GuardsHold'
    BY <2>9, AnswerMoves
  <2>11. MasterInv'
    BY <2>4, <2>7 DEF MasterInv
  <2>. QED
    BY <1>w, <2>3, <2>7, <2>8, <2>9, <2>10, <2>11
<1>5. CASE DeleteAccount(c)
  <2>1. request[c].target \in Accounts \ {Master}
    BY <1>5, RequestIs DEF DeleteAccount, Guarded
  <2>2. Removed \in AccountRows /\ ~Removed.master
    BY DEF Removed, NoAccount, AccountRows
  <2>3. account' = [account EXCEPT ![request[c].target] = Removed] /\ session' = Revoked(request[c].target, {})
        /\ Answered(c) /\ UNCHANGED <<login, refreshing, streams, lapses>>
    BY <1>5 DEF DeleteAccount
  <2>4. account' \in [Accounts -> AccountRows] /\ MasterInv'
    BY <1>0, <2>1, <2>2, <2>3 DEF MasterInv
  <2>5. session' \in [Sessions -> [of : Accounts, is : {"none", "live", "lapsed", "deleted"},
                                   remembered : BOOLEAN]]
    BY <1>0, <2>1, <2>3, RevokedTyped
  <2>6. request' \in [Askers -> AdminRequests] /\ GuardsHold'
    BY <2>3, AnswerMoves
  <2>. QED
    BY <1>w, <2>3, <2>4, <2>5, <2>6
<1>6. CASE RequestRefused(c)
  <2>1. request' \in [Askers -> AdminRequests] /\ GuardsHold'
    BY <1>6, AnswerMoves DEF RequestRefused
  <2>. QED
    BY <1>6, <1>q, <2>1 DEF RequestRefused
<1>7. ASSUME NEW s \in Sessions, Admit(c, s)
      PROVE  AccountsInv'
  <2> DEFINE q == [op |-> "admitted", by |-> session[s].of]
  <2>1. session[s].of \in Accounts
    BY <1>0 DEF AccountsTypeOK
  <2>2. q \in AdminRequests /\ Guarded(q)
    BY <2>1 DEF AdminRequests, Guarded
  <2>3. request' = [request EXCEPT ![c] = q]
        /\ UNCHANGED <<account, session, login, refreshing, streams, lapses>>
    BY <1>7 DEF Admit
  <2> HIDE DEF q
  <2>. QED
    BY <1>q, <2>2, <2>3, RequestMoves
<1>. QED
  BY <1>r, <1>1, <1>2, <1>3, <1>4, <1>5, <1>6, <1>7

\* Logins, sessions and streams leave the accounts alone.
LEMMA SessionsKeep ==
  ASSUME AccountsInv,
         \/ \E s \in Sessions :
              \/ \E remembered \in BOOLEAN : LoginCreates(s, remembered)
              \/ ChangePassword(s) \/ Logout(s) \/ Lapses(s) \/ AskRefresh(s) \/ Refresh(s)
              \/ OpenStream(s) \/ StreamChecks(s)
         \/ \E a \in Accounts : LoginVerifies(a)
  PROVE  AccountsInv'
<1>0. AccountsTypeOK /\ MasterInv /\ GuardsHold /\ Master \in Accounts
  BY AccountsAssumption DEF AccountsInv
<1>1. UNCHANGED <<account, request>>
  BY DEF LoginCreates, ChangePassword, Logout, Lapses, AskRefresh, Refresh, OpenStream, StreamChecks,
         LoginVerifies
<1>2. MasterInv' /\ GuardsHold'
  BY <1>0, <1>1 DEF MasterInv, GuardsHold
<1>3. session' \in [Sessions -> [of : Accounts, is : {"none", "live", "lapsed", "deleted"},
                                 remembered : BOOLEAN]]
  <2>1. ASSUME NEW s \in Sessions, NEW remembered \in BOOLEAN, LoginCreates(s, remembered)
        PROVE  session' \in [Sessions -> [of : Accounts, is : {"none", "live", "lapsed", "deleted"},
                                          remembered : BOOLEAN]]
    <3>1. login.of \in Accounts
      BY <1>0, <2>1 DEF LoginCreates, AccountsTypeOK
    <3>. QED
      BY <1>0, <2>1, <3>1 DEF LoginCreates, AccountsTypeOK
  <2>2. ASSUME NEW s \in Sessions, ChangePassword(s)
        PROVE  session' \in [Sessions -> [of : Accounts, is : {"none", "live", "lapsed", "deleted"},
                                          remembered : BOOLEAN]]
    <3>1. session[s].of \in Accounts
      BY <1>0 DEF AccountsTypeOK
    <3>. QED
      BY <1>0, <2>2, <3>1, RevokedTyped DEF ChangePassword
  <2>3. ASSUME NEW s \in Sessions, Logout(s) \/ Lapses(s) \/ Refresh(s)
        PROVE  session' \in [Sessions -> [of : Accounts, is : {"none", "live", "lapsed", "deleted"},
                                          remembered : BOOLEAN]]
    <3>1. session[s] \in [of : Accounts, is : {"none", "live", "lapsed", "deleted"}, remembered : BOOLEAN]
      BY <1>0 DEF AccountsTypeOK
    <3>2. Deleted \in [of : Accounts, is : {"none", "live", "lapsed", "deleted"}, remembered : BOOLEAN]
      BY <1>0 DEF Deleted, NoSession
    <3>3. PICK row \in {session[s], Deleted, [session[s] EXCEPT !.is = "lapsed"], [session[s] EXCEPT !.is = "live"]} :
            session' = [session EXCEPT ![s] = row] \/ session' = session
      BY <2>3 DEF Logout, Lapses, Refresh
    <3>4. row \in [of : Accounts, is : {"none", "live", "lapsed", "deleted"}, remembered : BOOLEAN]
      BY <3>1, <3>2, <3>3
    <3>. QED
      BY <1>0, <3>3, <3>4 DEF AccountsTypeOK
  <2>4. CASE UNCHANGED session
    BY <1>0, <2>4 DEF AccountsTypeOK
  <2>. QED
    BY <2>1, <2>2, <2>3, <2>4 DEF AskRefresh, OpenStream, StreamChecks, LoginVerifies
<1>4. lapses' \in 0..MaxLapses
  <2>1. lapses' = lapses \/ (lapses < MaxLapses /\ lapses' = lapses + 1)
    BY DEF LoginCreates, ChangePassword, Logout, Lapses, AskRefresh, Refresh, OpenStream, StreamChecks,
           LoginVerifies
  <2>. QED
    BY <1>0, <2>1, AccountsAssumption DEF AccountsTypeOK
<1>5. refreshing' \subseteq Sessions /\ streams' \subseteq Sessions
  BY <1>0
  DEF AccountsTypeOK, LoginCreates, ChangePassword, Logout, Lapses, AskRefresh, Refresh, OpenStream,
      StreamChecks, LoginVerifies
<1>6. login' = NoLogin \/ login' \in [at : {"verified"}, of : Accounts]
  <2>1. login' = login \/ login' = NoLogin \/ \E a \in Accounts : login' = [at |-> "verified", of |-> a]
    BY DEF LoginCreates, ChangePassword, Logout, Lapses, AskRefresh, Refresh, OpenStream, StreamChecks,
           LoginVerifies
  <2>. QED
    BY <1>0, <2>1 DEF AccountsTypeOK
<1>7. AccountsTypeOK'
  BY <1>0, <1>1, <1>3, <1>4, <1>5, <1>6 DEF AccountsTypeOK
<1>. QED
  BY <1>2, <1>7 DEF AccountsInv

LEMMA AccountsInductive == AccountsInv /\ [AccountsNext]_accountVars => AccountsInv'
<1> SUFFICES ASSUME AccountsInv, [AccountsNext]_accountVars PROVE AccountsInv'
  OBVIOUS
<1>1. CASE UNCHANGED accountVars
  BY <1>1 DEF accountVars, AccountsInv, AccountsTypeOK, MasterInv, GuardsHold
<1>2. CASE AccountsNext
  BY <1>2, RequestsKeep, SessionsKeep DEF AccountsNext
<1>. QED
  BY <1>1, <1>2

LEMMA AccountsInvariant == AccountsSpec => []AccountsInv
  BY AccountsInitially, AccountsInductive, PTL DEF AccountsSpec

-----------------------------------------------------------------------------
\* Accounts, sessions, requests and logins keep their types.
THEOREM AccountsTypes == AccountsSpec => []AccountsTypeOK
<1>1. AccountsInv => AccountsTypeOK
  BY DEF AccountsInv
<1>. QED
  BY <1>1, AccountsInvariant, PTL

\* Whatever administrators ask of each other, and however late a request is carried
\* out, the server keeps its master administrator, enabled and alone in that.
THEOREM MasterStays == AccountsSpec => []MasterAdminStays
<1>1. AccountsInv => MasterAdminStays
  BY AccountsAssumption DEF AccountsInv, MasterInv, MasterAdminStays
<1>. QED
  BY <1>1, AccountsInvariant, PTL

-----------------------------------------------------------------------------
(* Imports.                                                                *)

\* A worker past its last write of the row has settled it, and has listed the
\* files before it fills the container; a job that lists files exists.
ImportsInOrder ==
  \A j \in Jobs :
    /\ worker[j] \in {"container", "clean"} => status[j] \notin InFlight
    /\ worker[j] = "container" => j \in listed
    /\ j \in listed => status[j] # "none"

JobsInv == JobsTypeOK /\ ImportsInOrder /\ InFlightHasWorker /\ ReadyWasFilled

\* A request names a user while it is admitted, and a job from then on.
LEMMA RequestNames ==
  ASSUME JobsTypeOK, NEW c \in Clients
  PROVE  /\ client[c].at \in {"user", "admitted"} => client[c].user \in Users
         /\ client[c].at \in {"enqueue", "cancel", "retry"} => client[c].job \in Jobs
<1>1. client[c] \in Request
  BY DEF JobsTypeOK
<1>. QED
  BY <1>1 DEF Request, Idle

\* The initial states satisfy the invariant (no job and no request).
LEMMA JobsInitially == JobsInit => JobsInv
<1> SUFFICES ASSUME JobsInit PROVE JobsInv
  OBVIOUS
<1>1. JobsTypeOK
  <2>1. submitter \in [Jobs -> Users]
    BY DEF JobsInit
  <2>2. client \in [Clients -> Request]
    BY DEF JobsInit, Request
  <2>. QED
    BY <2>1, <2>2, JobBoundsAssumption
    DEF JobsInit, JobsTypeOK, JobStatuses, WorkerAt, Active, Settled
<1>2. ImportsInOrder /\ InFlightHasWorker /\ ReadyWasFilled
  BY DEF JobsInit, ImportsInOrder, InFlightHasWorker, ReadyWasFilled, InFlight
<1>. QED
  BY <1>1, <1>2 DEF JobsInv

\* No request of a user disturbs the invariant: what it writes is a row that
\* is not in flight, and an INSERT does not touch a job that exists.
LEMMA RequestsKeepJobs ==
  ASSUME JobsInv, NEW c \in Clients, SubmitSteps(c) \/ CancelSteps(c) \/ RetrySteps(c)
  PROVE  JobsInv'
<1>0. JobsTypeOK /\ ImportsInOrder /\ InFlightHasWorker /\ ReadyWasFilled
  BY DEF JobsInv
<1>1. CASE \/ \E u \in Users : SubmitGlobal(c, u)
           \/ \E j \in Jobs : CancelRead(c, j) \/ RetryRead(c, j)
  <2>1. client' \in [Clients -> Request]
    BY <1>0, <1>1 DEF SubmitGlobal, CancelRead, RetryRead, Turns, JobsTypeOK, Request
  <2>2. ops' \in 0..MaxOps
    <3>1. ops < MaxOps /\ ops' = ops + 1
      BY <1>1 DEF SubmitGlobal, CancelRead, RetryRead
    <3>. QED
      BY <1>0, <3>1, JobBoundsAssumption DEF JobsTypeOK
  <2>3. UNCHANGED <<jobRows, task, jobMemory, staged, phase, cancels, crashes>>
    BY <1>1 DEF SubmitGlobal, CancelRead, RetryRead
  <2>4. JobsTypeOK'
    BY <1>0, <2>1, <2>2, <2>3 DEF JobsTypeOK, jobRows, jobMemory
  <2>5. (ImportsInOrder /\ InFlightHasWorker /\ ReadyWasFilled)'
    BY <1>0, <2>3 DEF ImportsInOrder, InFlightHasWorker, ReadyWasFilled, jobRows, jobMemory
  <2>. QED
    BY <2>4, <2>5 DEF JobsInv
<1>2. CASE SubmitUser(c) \/ SubmitEnqueue(c) \/ RequestFails(c)
  <2>1. client' \in [Clients -> Request]
    BY <1>0, <1>2, RequestNames DEF SubmitUser, SubmitEnqueue, RequestFails, Turns, JobsTypeOK, Request
  <2>2. task' \in [Jobs -> {"none", "queued", "over"}]
    BY <1>0, <1>2, RequestNames DEF SubmitUser, SubmitEnqueue, RequestFails, JobsTypeOK
  <2>3. UNCHANGED <<jobRows, jobMemory, staged, phase, jobBounds>>
    BY <1>2 DEF SubmitUser, SubmitEnqueue, RequestFails
  <2>4. JobsTypeOK'
    BY <1>0, <2>1, <2>2, <2>3 DEF JobsTypeOK, jobRows, jobMemory, jobBounds
  <2>5. (ImportsInOrder /\ InFlightHasWorker /\ ReadyWasFilled)'
    BY <1>0, <2>3 DEF ImportsInOrder, InFlightHasWorker, ReadyWasFilled, jobRows, jobMemory
  <2>. QED
    BY <2>4, <2>5 DEF JobsInv
<1>3. CASE SubmitInsert(c)
  <2>1. PICK j \in Jobs, k \in Containers \cup {NoContainer} :
          /\ status[j] = "none"
          /\ status' = [status EXCEPT ![j] = "queued"]
          /\ submitter' = [submitter EXCEPT ![j] = client[c].user]
          /\ container' = [container EXCEPT ![j] = k]
          /\ Turns(c, [at |-> "enqueue", job |-> j])
    BY <1>3 DEF SubmitInsert
  <2>2. UNCHANGED <<listed, ready, task, jobMemory, staged, phase, jobBounds>>
    BY <1>3 DEF SubmitInsert
  <2>3. client' \in [Clients -> Request]
    BY <1>0, <2>1 DEF Turns, JobsTypeOK, Request
  <2>4. status' \in [Jobs -> JobStatuses] /\ submitter' \in [Jobs -> Users]
    BY <1>0, <1>3, <2>1, RequestNames DEF SubmitInsert, JobsTypeOK, JobStatuses, Active
  <2>5. JobsTypeOK'
    BY <1>0, <2>1, <2>2, <2>3, <2>4 DEF JobsTypeOK, jobMemory, jobBounds
  <2>6. j \notin listed
    BY <1>0, <2>1 DEF ImportsInOrder
  <2>7. ReadyWasFilled'
    BY <1>0, <2>1, <2>2, <2>6 DEF ReadyWasFilled, JobsTypeOK
  <2>8. ImportsInOrder' /\ InFlightHasWorker'
    BY <1>0, <2>1, <2>2 DEF ImportsInOrder, InFlightHasWorker, InFlight, JobsTypeOK, jobMemory
  <2>. QED
    BY <2>5, <2>7, <2>8 DEF JobsInv
<1>4. CASE CancelWrite(c) \/ RetryWrite(c)
  <2>1. /\ client[c].job \in Jobs
        /\ status' = [status EXCEPT ![client[c].job] = "cancelled"]
             \/ status' = [status EXCEPT ![client[c].job] = "queued"]
    BY <1>0, <1>4, RequestNames DEF CancelWrite, RetryWrite
  <2>2. UNCHANGED <<submitter, container, listed, ready, task, jobMemory, staged, phase, jobBounds>>
    BY <1>4 DEF CancelWrite, RetryWrite
  <2>3. client' \in [Clients -> Request]
    BY <1>0, <1>4 DEF CancelWrite, RetryWrite, Turns, JobsTypeOK, Request
  <2>4. status' \in [Jobs -> JobStatuses]
    BY <1>0, <2>1 DEF JobsTypeOK, JobStatuses, Active, Settled
  <2>5. JobsTypeOK'
    BY <1>0, <2>2, <2>3, <2>4 DEF JobsTypeOK, jobMemory, jobBounds
  <2>6. (ImportsInOrder /\ InFlightHasWorker /\ ReadyWasFilled)'
    BY <1>0, <2>1, <2>2
    DEF ImportsInOrder, InFlightHasWorker, ReadyWasFilled, InFlight, JobsTypeOK, jobMemory
  <2>. QED
    BY <2>5, <2>6 DEF JobsInv
<1>. QED
  BY <1>1, <1>2, <1>3, <1>4 DEF SubmitSteps, CancelSteps, RetrySteps

\* The runner leaves a row in flight only under a cancelled task, and fills a
\* container only after its job lists the files.
LEMMA RunnersKeepJobs ==
  ASSUME JobsInv, NEW j \in Jobs,
         TaskStarts(j) \/ TaskCancelled(j) \/ Held(j) \/ Released(j) \/ RunsOn(j)
  PROVE  JobsInv'
<1>0. JobsTypeOK /\ ImportsInOrder /\ InFlightHasWorker /\ ReadyWasFilled
  BY DEF JobsInv
<1>1. CASE TaskStarts(j) \/ TaskCancelled(j) \/ Held(j) \/ Released(j)
  <2>1. task' \in [Jobs -> {"none", "queued", "over"}]
    BY <1>0, <1>1 DEF TaskStarts, TaskCancelled, Held, Released, JobsTypeOK
  <2>2. /\ worker' \in [Jobs -> WorkerAt] /\ cancelled' \subseteq Jobs /\ held' \subseteq Jobs
        /\ cancels' \in 0..MaxTaskCancels
    BY <1>0, <1>1, JobBoundsAssumption
    DEF TaskStarts, TaskCancelled, Held, Released, JobsTypeOK, WorkerAt, jobBounds
  <2>3. /\ UNCHANGED <<jobRows, staged, client, phase, ops, crashes>>
        /\ cancelled \subseteq cancelled'
        /\ \A i \in Jobs : worker'[i] = worker[i] \/ worker'[i] = "load"
    BY <1>0, <1>1 DEF TaskStarts, TaskCancelled, Held, Released, JobsTypeOK, jobBounds
  <2>4. JobsTypeOK'
    BY <1>0, <2>1, <2>2, <2>3 DEF JobsTypeOK, jobRows
  <2>5. (ImportsInOrder /\ InFlightHasWorker /\ ReadyWasFilled)'
    BY <1>0, <2>3 DEF ImportsInOrder, InFlightHasWorker, ReadyWasFilled, jobRows
  <2>. QED
    BY <2>4, <2>5 DEF JobsInv
<1>2. CASE RunsOn(j)
  <2>0. UNCHANGED <<submitter, container, task, cancelled, held, client, phase, jobBounds>>
    BY <1>2 DEF RunsOn, WorkerLoad, WorkerDiscover, WorkerNoTarget, WorkerPrepare, DownloadEnds,
                WorkerCancelled, WorkerFailed, WorkerFetched, WorkerStore, WorkerContainer,
                WorkerClean, WorkerSets, jobRows
  <2>1. \E at \in WorkerAt : worker' = [worker EXCEPT ![j] = at]
    BY <1>2 DEF RunsOn, WorkerLoad, WorkerDiscover, WorkerNoTarget, WorkerPrepare, DownloadEnds,
                WorkerCancelled, WorkerFailed, WorkerFetched, WorkerStore, WorkerContainer,
                WorkerClean, WorkerSets, Steps, WorkerAt
  <2>2. status' = status \/ \E s \in JobStatuses \ {"none"} : status' = [status EXCEPT ![j] = s]
    BY <1>2 DEF RunsOn, WorkerLoad, WorkerDiscover, WorkerNoTarget, WorkerPrepare, DownloadEnds,
                WorkerCancelled, WorkerFailed, WorkerFetched, WorkerStore, WorkerContainer,
                WorkerClean, WorkerSets, jobRows, JobStatuses, Active, Settled
  <2>3. listed' = listed \/ (listed' = listed \cup {j} /\ status' = [status EXCEPT ![j] = "completed"])
    BY <1>2 DEF RunsOn, WorkerLoad, WorkerDiscover, WorkerNoTarget, WorkerPrepare, DownloadEnds,
                WorkerCancelled, WorkerFailed, WorkerFetched, WorkerStore, WorkerContainer,
                WorkerClean, WorkerSets, jobRows
  <2>4. \/ ready' = ready
        \/ worker[j] = "container" /\ ready' = ready \cup ({container[j]} \cap Containers)
    BY <1>2 DEF RunsOn, WorkerLoad, WorkerDiscover, WorkerNoTarget, WorkerPrepare, DownloadEnds,
                WorkerCancelled, WorkerFailed, WorkerFetched, WorkerStore, WorkerContainer,
                WorkerClean, WorkerSets, jobRows
  <2>5. staged' \subseteq Jobs
    BY <1>0, <1>2 DEF RunsOn, WorkerLoad, WorkerDiscover, WorkerNoTarget, WorkerPrepare, DownloadEnds,
                WorkerCancelled, WorkerFailed, WorkerFetched, WorkerStore, WorkerContainer,
                WorkerClean, JobsTypeOK
  <2>6. JobsTypeOK'
    BY <1>0, <2>0, <2>1, <2>2, <2>3, <2>4, <2>5 DEF JobsTypeOK, jobBounds
  <2>7. ReadyWasFilled'
    BY <1>0, <2>0, <2>3, <2>4 DEF ReadyWasFilled, ImportsInOrder
  <2>8. status'[j] \in InFlight =>
          /\ worker'[j] \in {"container", "clean"} => FALSE
          /\ phase = "up" => worker'[j] # "off" \/ j \in cancelled
    BY <1>0, <1>2
    DEF RunsOn, WorkerLoad, WorkerDiscover, WorkerNoTarget, WorkerPrepare, DownloadEnds,
        WorkerCancelled, WorkerFailed, WorkerFetched, WorkerStore, WorkerContainer, WorkerClean,
        WorkerSets, Steps, jobRows, JobsTypeOK, ImportsInOrder, InFlightHasWorker, InFlight, Settled
  <2>9. worker'[j] = "container" => j \in listed'
    BY <1>0, <1>2
    DEF RunsOn, WorkerLoad, WorkerDiscover, WorkerNoTarget, WorkerPrepare, DownloadEnds,
        WorkerCancelled, WorkerFailed, WorkerFetched, WorkerStore, WorkerContainer, WorkerClean,
        WorkerSets, Steps, JobsTypeOK
  <2>10. j \in listed' => status'[j] # "none"
    BY <1>0, <2>2, <2>3 DEF JobsTypeOK, ImportsInOrder, JobStatuses
  <2>11. \A i \in Jobs \ {j} :
           worker'[i] = worker[i] /\ status'[i] = status[i] /\ (i \in listed' <=> i \in listed)
    BY <1>0, <2>1, <2>2, <2>3 DEF JobsTypeOK
  <2>12. ImportsInOrder' /\ InFlightHasWorker'
    BY <1>0, <2>0, <2>8, <2>9, <2>10, <2>11 DEF ImportsInOrder, InFlightHasWorker
  <2>. QED
    BY <2>6, <2>7, <2>12 DEF JobsInv
<1>. QED
  BY <1>1, <1>2

\* A crash takes every worker and every request with it; the sweep of the next
\* start leaves nothing in flight before the server is up.
LEMMA RestartKeepsJobs ==
  ASSUME JobsInv, JobsCrash \/ JobsBoot \/ RecoverInterruptedJobs
  PROVE  JobsInv'
<1>0. JobsTypeOK /\ ImportsInOrder /\ InFlightHasWorker /\ ReadyWasFilled
  BY DEF JobsInv
<1>1. CASE JobsCrash
  <2>1. JobsTypeOK'
    BY <1>0, <1>1, JobBoundsAssumption
    DEF JobsCrash, JobsTypeOK, jobRows, WorkerAt, Request
  <2>2. (ImportsInOrder /\ InFlightHasWorker /\ ReadyWasFilled)'
    BY <1>0, <1>1 DEF JobsCrash, ImportsInOrder, InFlightHasWorker, ReadyWasFilled, jobRows
  <2>. QED
    BY <2>1, <2>2 DEF JobsInv
<1>2. CASE JobsBoot
  <2>1. JobsTypeOK'
    BY <1>0, <1>2 DEF JobsBoot, JobsTypeOK, jobRows, jobMemory, jobBounds
  <2>2. (ImportsInOrder /\ InFlightHasWorker /\ ReadyWasFilled)'
    BY <1>0, <1>2
    DEF JobsBoot, ImportsInOrder, InFlightHasWorker, ReadyWasFilled, jobRows, jobMemory
  <2>. QED
    BY <2>1, <2>2 DEF JobsInv
<1>3. CASE RecoverInterruptedJobs
  <2>1. /\ status' = [j \in Jobs |-> IF status[j] \in InFlight THEN "failed" ELSE status[j]]
        /\ phase' = "up"
        /\ UNCHANGED <<submitter, container, listed, ready, task, jobMemory, staged, client, jobBounds>>
    BY <1>3 DEF RecoverInterruptedJobs
  <2>2. \A j \in Jobs : status'[j] \notin InFlight /\ (status'[j] = "none" => status[j] = "none")
    BY <2>1 DEF InFlight
  <2>3. status' \in [Jobs -> JobStatuses]
    BY <1>0, <2>1 DEF JobsTypeOK, JobStatuses, Settled
  <2>4. JobsTypeOK'
    BY <1>0, <2>1, <2>3 DEF JobsTypeOK, jobMemory, jobBounds
  <2>5. (ImportsInOrder /\ InFlightHasWorker /\ ReadyWasFilled)'
    BY <1>0, <2>1, <2>2 DEF ImportsInOrder, InFlightHasWorker, ReadyWasFilled, jobMemory
  <2>. QED
    BY <2>4, <2>5 DEF JobsInv
<1>. QED
  BY <1>1, <1>2, <1>3

LEMMA JobsInductive == JobsInv /\ [JobsNext]_jobVars => JobsInv'
<1> SUFFICES ASSUME JobsInv, [JobsNext]_jobVars PROVE JobsInv'
  OBVIOUS
<1>1. CASE UNCHANGED jobVars
  BY <1>1 DEF jobVars, JobsInv, JobsTypeOK, ImportsInOrder, InFlightHasWorker, ReadyWasFilled
<1>2. CASE JobsNext
  BY <1>2, RequestsKeepJobs, RunnersKeepJobs, RestartKeepsJobs DEF JobsNext
<1>. QED
  BY <1>1, <1>2

LEMMA JobsInvariant == JobsSpec => []JobsInv
  BY JobsInitially, JobsInductive, PTL DEF JobsSpec

-----------------------------------------------------------------------------
\* Jobs, tasks, workers and requests keep their types.
THEOREM JobTypes == JobsSpec => []JobsTypeOK
<1>1. JobsInv => JobsTypeOK
  BY DEF JobsInv
<1>. QED
  BY <1>1, JobsInvariant, PTL

\* For every number of imports, overlapping cancels and retries, pauses and crashes:
\* once the server is up, a row that is discovering or downloading has a worker, or
\* its task was cancelled or a statement of its worker failed.
THEOREM WorkersOfJobs == JobsSpec => []InFlightHasWorker
<1>1. JobsInv => InFlightHasWorker
  BY DEF JobsInv
<1>. QED
  BY <1>1, JobsInvariant, PTL

\* An album that is offered as ready was filled by a job that listed its files.
THEOREM ReadyIsFilled == JobsSpec => []ReadyWasFilled
<1>1. JobsInv => ReadyWasFilled
  BY DEF JobsInv
<1>. QED
  BY <1>1, JobsInvariant, PTL

-----------------------------------------------------------------------------
(* The runtime gate.                                                       *)

\* No element of s occurs twice.
Distinct(s) == \A i, j \in DOMAIN s : s[i] = s[j] => i = j

\* What is left of a queue without duplicates when one of its elements has gone.
LEMMA RemovedFromQueue ==
  ASSUME NEW S, NEW s \in Seq(S), Distinct(s), NEW i \in DOMAIN s
  PROVE  /\ RemoveAt(s, i) \in Seq(S) /\ Distinct(RemoveAt(s, i))
         /\ \A j \in DOMAIN RemoveAt(s, i) :
              \E k \in DOMAIN s \ {i} : RemoveAt(s, i)[j] = s[k] /\ s[k] # s[i]
<1> DEFINE a == SubSeq(s, 1, i - 1)
           b == SubSeq(s, i + 1, Len(s))
           t == RemoveAt(s, i)
<1>1. Len(s) \in Nat /\ DOMAIN s = 1..Len(s) /\ i \in 1..Len(s)
  OBVIOUS
<1>2. t \in Seq(S) /\ Len(t) = Len(s) - 1
  BY <1>1 DEF RemoveAt
<1>3. ASSUME NEW j \in 1..(Len(s) - 1)
      PROVE  t[j] = s[IF j < i THEN j ELSE j + 1]
  <2>1. t = a \o b
    BY DEF RemoveAt
  <2>2. a \in Seq(S) /\ Len(a) = i - 1 /\ b \in Seq(S) /\ Len(b) = Len(s) - i
    BY <1>1
  <2>3. (a \o b)[j] = IF j <= Len(a) THEN a[j] ELSE b[j - Len(a)]
    BY <1>1, <2>2, ConcatProperties
  <2>4. CASE j < i
    <3>1. a[j] = s[j]
      BY <1>1, <2>4
    <3>2. j <= Len(a)
      BY <1>1, <2>2, <2>4
    <3> HIDE DEF a, b, t
    <3>. QED
      BY <2>1, <2>3, <2>4, <3>1, <3>2
  <2>5. CASE ~(j < i)
    <3>1. b[j - (i - 1)] = s[j + 1]
      BY <1>1, <2>5
    <3>2. ~(j <= Len(a)) /\ Len(a) = i - 1
      BY <1>1, <2>2, <2>5
    <3> HIDE DEF a, b, t
    <3>. QED
      BY <2>1, <2>3, <2>5, <3>1, <3>2
  <2>. QED
    BY <2>4, <2>5
<1>4. \A j \in DOMAIN t : (IF j < i THEN j ELSE j + 1) \in DOMAIN s \ {i}
  BY <1>1, <1>2
<1>5. DOMAIN t = 1..(Len(s) - 1)
  BY <1>2
<1>6. Distinct(t)
  <2> SUFFICES ASSUME NEW j \in DOMAIN t, NEW k \in DOMAIN t, t[j] = t[k] PROVE j = k
    BY DEF Distinct
  <2>1. (IF j < i THEN j ELSE j + 1) = (IF k < i THEN k ELSE k + 1)
    BY <1>3, <1>4, <1>5 DEF Distinct
  <2>. QED
    BY <1>1, <1>5, <2>1
<1>7. \A j \in DOMAIN t : \E k \in DOMAIN s \ {i} : t[j] = s[k] /\ s[k] # s[i]
  BY <1>1, <1>3, <1>4, <1>5 DEF Distinct
<1>. QED
  BY <1>2, <1>6, <1>7

\* The same of the head.
LEMMA TailOfQueue ==
  ASSUME NEW S, NEW s \in Seq(S), Distinct(s), s # <<>>
  PROVE  /\ Tail(s) \in Seq(S) /\ Distinct(Tail(s))
         /\ \A j \in DOMAIN Tail(s) : \E k \in DOMAIN s : Tail(s)[j] = s[k] /\ s[k] # Head(s)
  BY DEF Distinct

\* Who was not in the queue joins it.
LEMMA JoinedQueue ==
  ASSUME NEW S, NEW s \in Seq(S), Distinct(s), NEW e \in S, \A i \in DOMAIN s : s[i] # e
  PROVE  /\ Append(s, e) \in Seq(S) /\ Distinct(Append(s, e))
         /\ \A j \in DOMAIN Append(s, e) : Append(s, e)[j] = e \/ \E k \in DOMAIN s : Append(s, e)[j] = s[k]
  BY DEF Distinct

-----------------------------------------------------------------------------
(* The invariant                                                           *)

UpdaterStages == {"idle", "policy", "publish", "begin", "waits", "alone", "reload", "install"}
Places == {Away} \cup [at : {"waits", "inside"}, kind : Kinds]
                 \cup [at : {"works"}, kind : Kinds, permit : Nat]

\* The types, but for the queue and the bounds.
Types ==
  /\ caller \in [Callers -> Places]
  /\ serial \in Updaters \cup {NoUpdater}
  /\ updater \in [Updaters -> UpdaterStages]
  /\ wasReady \in BOOLEAN /\ serving \in BOOLEAN /\ suspended \in BOOLEAN
  /\ allowed \in BOOLEAN /\ policy \in BOOLEAN
  /\ token \in Nat /\ revoked \in BOOLEAN
  /\ inTables \in Nat /\ inMemory \in Nat
  /\ lapsed \subseteq Callers
  /\ updates \in 0..MaxUpdates

Waits(x) == IF x \in Callers THEN caller[x].at = "waits" ELSE updater[x] = "waits"

QueueInOrder ==
  /\ queue \in Seq(Callers \cup Updaters) /\ Distinct(queue)
  /\ \A i \in DOMAIN queue : Waits(queue[i])

OneUpdate == \A u \in Updaters : updater[u] # "idle" <=> serial = u

PermitsInOrder == \A c \in Callers : Outbound(c) => caller[c].permit <= token

Counted ==
  /\ token <= updates /\ inTables <= updates /\ inMemory <= inTables
  /\ \A u \in Updaters :
       /\ updater[u] # "idle" => token < updates
       /\ updater[u] \notin {"idle", "reload", "install"} => inTables < updates

RuntimeInStep ==
  /\ serving => ~suspended
  /\ \A u \in Updaters :
       /\ updater[u] \in {"waits", "alone", "reload", "install"} => ~serving /\ suspended
       /\ updater[u] \in {"waits", "alone"} /\ wasReady => inMemory = inTables /\ allowed = policy
       /\ updater[u] = "install" => allowed = policy

GateInv ==
  /\ Types /\ QueueInOrder /\ OneUpdate /\ PermitsInOrder /\ Counted
  /\ RuntimeInStep /\ WorkKeepsPermit /\ ServesWhatIsSaved

-----------------------------------------------------------------------------
\* The initial states satisfy the invariant (AppState::with_log_buffer).
LEMMA GateInitially == GateInit => GateInv
<1> SUFFICES ASSUME GateInit PROVE GateInv
  OBVIOUS
<1>1. \A c \in Callers : caller[c] = Away /\ ~Outbound(c)
  BY DEF GateInit, Outbound, Away
<1>2. caller \in [Callers -> Places]
  BY DEF GateInit, Places
<1>3. Types
  <2>1. updates \in 0..MaxUpdates
    BY GateAssumption DEF GateInit
  <2>. QED
    BY <1>2, <2>1 DEF GateInit, Types, UpdaterStages
<1>4. OneUpdate
  BY GateAssumption DEF GateInit, OneUpdate
<1>5. QueueInOrder
  BY DEF GateInit, QueueInOrder, Distinct
<1>6. PermitsInOrder
  BY <1>1 DEF PermitsInOrder
<1>7. Counted
  BY DEF GateInit, Counted
<1>8. WorkKeepsPermit /\ RuntimeInStep /\ ServesWhatIsSaved
  BY DEF GateInit, WorkKeepsPermit, RuntimeInStep, ServesWhatIsSaved
<1>. QED
  BY <1>3, <1>4, <1>5, <1>6, <1>7, <1>8 DEF GateInv

\* A publication keeps the permits in order, and cancels those in use unless it
\* leaves the permit allowed (PrivacyRuntime::publish).
LEMMA PublishKeepsPermits ==
  ASSUME NEW suspend \in BOOLEAN, NEW allow \in BOOLEAN,
         GateInv, Publish(suspend, allow), UNCHANGED caller
  PROVE  /\ suspended' = suspend /\ allowed' = allow
         /\ token' \in Nat /\ revoked' \in BOOLEAN /\ lapsed' \subseteq Callers
         /\ token <= token' /\ token' <= token + 1 /\ (suspend => token' = token)
         /\ PermitsInOrder' /\ WorkKeepsPermit'
<1>1. /\ suspended' = suspend /\ allowed' = allow
      /\ token' \in Nat /\ revoked' \in BOOLEAN /\ lapsed' \subseteq Callers
      /\ token <= token' /\ token' <= token + 1
  <2>1. token \in Nat /\ lapsed \subseteq Callers
    BY DEF GateInv, Types
  <2>2. suspended' = suspend /\ allowed' = allow
    BY Zenon DEF Publish
  <2>3. CASE suspend \/ ~allow
    <3>1. revoked' = TRUE /\ token' = token /\ lapsed' = lapsed \cup {c \in Callers : Outbound(c)}
      BY <2>3, Zenon DEF Publish
    <3>. QED
      BY <2>1, <2>2, <3>1
  <2>4. CASE ~(suspend \/ ~allow)
    <3>1. revoked' = FALSE /\ lapsed' = lapsed
      BY <2>4, Zenon DEF Publish
    <3>2. token' = token \/ token' = token + 1
      BY <2>4, Zenon DEF Publish
    <3>3. token' \in Nat /\ token <= token' /\ token' <= token + 1
      BY <2>1, <3>2
    <3>. QED
      BY <2>1, <2>2, <3>1, <3>3
  <2>. QED
    BY <2>3, <2>4
<1>2. ASSUME NEW c \in Callers, Outbound(c)
      PROVE  caller[c].permit \in Nat /\ caller[c].permit <= token
  BY <1>2 DEF GateInv, Types, Places, PermitsInOrder, Outbound, Away
<1>3. PermitsInOrder'
  BY <1>1, <1>2 DEF PermitsInOrder, Outbound, GateInv, Types
<1>4. WorkKeepsPermit'
  <2> SUFFICES ASSUME NEW c \in lapsed' PROVE Outbound(c)' /\ Cancelled(c)'
    BY DEF WorkKeepsPermit
  <2>1. CASE suspend \/ ~allow
    BY <2>1 DEF Publish, WorkKeepsPermit, Outbound, Cancelled, GateInv
  <2>2. CASE ~(suspend \/ ~allow)
    <3>1. c \in lapsed /\ ~revoked' /\ token' = IF revoked THEN token + 1 ELSE token
      BY <2>2 DEF Publish
    <3>2. Outbound(c) /\ Cancelled(c) /\ c \in Callers
      BY <3>1 DEF GateInv, WorkKeepsPermit, Types
    <3>. QED
      BY <1>2, <3>1, <3>2 DEF Cancelled, Outbound, GateInv, Types
  <2>. QED
    BY <2>1, <2>2
<1>5. suspend => token' = token
  BY Zenon DEF Publish
<1>. QED
  BY <1>1, <1>3, <1>4, <1>5

-----------------------------------------------------------------------------
(* Steps of the callers                                                    *)

\* The queue after a move of c: who is in it waits.
LEMMA QueueFollows ==
  ASSUME NEW c \in Callers, NEW to \in Places, GateInv, Moves(c, to), UNCHANGED updater,
         queue' \in Seq(Callers \cup Updaters), Distinct(queue'),
         \A j \in DOMAIN queue' :
           \/ queue'[j] = c /\ to.at = "waits"
           \/ \E k \in DOMAIN queue : queue'[j] = queue[k] /\ queue[k] # c
  PROVE  QueueInOrder'
<1> SUFFICES ASSUME NEW j \in DOMAIN queue' PROVE Waits(queue[j])'
  BY DEF QueueInOrder
<1>1. caller'[c] = to /\ \A d \in Callers \ {c} : caller'[d] = caller[d]
  BY DEF Moves, GateInv, Types
<1>2. CASE queue'[j] = c /\ to.at = "waits"
  BY <1>1, <1>2 DEF Waits
<1>3. ASSUME NEW k \in DOMAIN queue, queue'[j] = queue[k], queue[k] # c
      PROVE  Waits(queue[j])'
  BY <1>1, <1>3 DEF Waits, GateInv, QueueInOrder
<1>. QED
  BY <1>2, <1>3

\* Who does not wait is not in the queue.
LEMMA NotInQueue ==
  ASSUME NEW c \in Callers, GateInv, caller[c].at # "waits"
  PROVE  \A k \in DOMAIN queue : queue[k] # c
  BY DEF GateInv, QueueInOrder, Waits

\* A caller's step which leaves the runtime and the updates alone and forgets at
\* most this caller's history.
LEMMA CallerMoves ==
  ASSUME NEW c \in Callers, NEW to \in Places, GateInv, Moves(c, to), QueueInOrder',
         UNCHANGED <<updating, runtime, token, revoked>>,
         to.at = "works" => to.permit <= token,
         (lapsed' = lapsed /\ ~Outbound(c)) \/ lapsed' = lapsed \ {c}
  PROVE  GateInv'
<1>1. /\ caller' \in [Callers -> Places] /\ caller'[c] = to
      /\ \A d \in Callers \ {c} : caller'[d] = caller[d]
  BY DEF Moves, GateInv, Types
<1>2. Types'
  BY <1>1 DEF GateInv, Types, runtime, updating
<1>3. OneUpdate' /\ Counted'
  BY DEF GateInv, OneUpdate, Counted, runtime, updating
<1>4. PermitsInOrder'
  <2> SUFFICES ASSUME NEW d \in Callers, Outbound(d)' PROVE caller'[d].permit <= token'
    BY DEF PermitsInOrder
  <2>. QED
    BY <1>1 DEF GateInv, PermitsInOrder, Outbound
<1>5. RuntimeInStep' /\ ServesWhatIsSaved'
  BY DEF GateInv, RuntimeInStep, ServesWhatIsSaved, runtime, updating
<1>6. WorkKeepsPermit'
  <2> SUFFICES ASSUME NEW d \in lapsed' PROVE Outbound(d)' /\ Cancelled(d)'
    BY DEF WorkKeepsPermit
  <2>1. d \in lapsed /\ d # c /\ d \in Callers /\ Outbound(d) /\ Cancelled(d)
    BY DEF GateInv, WorkKeepsPermit, Types
  <2>. QED
    BY <1>1, <2>1 DEF Outbound, Cancelled
<1>. QED
  BY <1>2, <1>3, <1>4, <1>5, <1>6 DEF GateInv

\* The same when the queue stays and c was not in it.
LEMMA CallerMovesInside ==
  ASSUME NEW c \in Callers, NEW to \in Places, GateInv, Moves(c, to),
         caller[c].at # "waits", to.at # "waits",
         UNCHANGED <<queue, updating, runtime, token, revoked>>,
         to.at = "works" => to.permit <= token,
         (lapsed' = lapsed /\ ~Outbound(c)) \/ lapsed' = lapsed \ {c}
  PROVE  GateInv'
<1>1. QueueInOrder'
  BY NotInQueue, QueueFollows DEF GateInv, QueueInOrder, updating
<1>. QED
  BY <1>1, CallerMoves

\* Requests and passes preserve the invariant (runtime_availability, outbound_permit,
\* run_external).
LEMMA CallersKeep ==
  ASSUME NEW c \in Callers, GateInv,
         \/ \E kind \in Kinds : Arrives(c, kind)
         \/ Proceeds(c) \/ Completes(c) \/ GoesOn(c) \/ Leaves(c)
  PROVE  GateInv'
<1>0. /\ caller[c] \in Places /\ token \in Nat /\ Away \in Places
      /\ queue \in Seq(Callers \cup Updaters) /\ Distinct(queue)
      /\ Away.at = "away"
  BY DEF GateInv, Types, QueueInOrder, Places, Away
<1>1. ASSUME NEW kind \in Kinds, Arrives(c, kind) PROVE GateInv'
  <2> DEFINE to == [at |-> "waits", kind |-> kind]
  <2>1. to \in Places /\ to.at = "waits" /\ caller[c].at = "away" /\ ~Outbound(c)
    BY <1>1, <1>0 DEF Places, Arrives, Outbound
  <2>2. queue' \in Seq(Callers \cup Updaters) /\ Distinct(queue')
    BY <1>0, <1>1, <2>1, NotInQueue, JoinedQueue DEF Arrives
  <2>3. \A j \in DOMAIN queue' : queue'[j] = c \/ \E k \in DOMAIN queue : queue'[j] = queue[k]
    BY <1>0, <1>1, <2>1, NotInQueue, JoinedQueue DEF Arrives
  <2>4. QueueInOrder'
    BY <1>1, <2>1, <2>2, <2>3, NotInQueue, QueueFollows DEF Arrives, updating
  <2>. QED
    BY <1>1, <2>1, <2>4, CallerMoves DEF Arrives, permits
<1>2. CASE Enters(c)
  <2> DEFINE to == IF serving \/ caller[c].kind \in {"recovery", "background"}
                     THEN [at |-> "inside", kind |-> caller[c].kind] ELSE Away
  <2>1. caller[c].at = "waits"
    <3>1. 1 \in DOMAIN queue /\ queue[1] = c
      BY <1>0, <1>2 DEF Enters
    <3>. QED
      BY <3>1 DEF GateInv, QueueInOrder, Waits
  <2>2. to \in Places /\ to.at \notin {"waits", "works"} /\ ~Outbound(c)
    BY <1>0, <2>1 DEF Places, Outbound, Away
  <2>3. /\ queue' \in Seq(Callers \cup Updaters) /\ Distinct(queue')
        /\ \A j \in DOMAIN queue' : \E k \in DOMAIN queue : queue'[j] = queue[k] /\ queue[k] # c
    BY <1>0, <1>2, TailOfQueue DEF Enters
  <2>4. Moves(c, to) /\ UNCHANGED <<updating, runtime, token, revoked, lapsed>>
    BY <1>2 DEF Enters, permits
  <2> HIDE DEF to
  <2>5. QueueInOrder'
    BY <2>2, <2>3, <2>4, QueueFollows DEF updating
  <2>. QED
    BY <2>2, <2>4, <2>5, CallerMoves
<1>3. CASE Answers(c)
  BY <1>0, <1>3, CallerMovesInside DEF Answers, permits, Outbound
<1>4. CASE TakesPermit(c)
  <2> DEFINE to == IF allowed /\ ~suspended
                     THEN [at |-> "works", kind |-> caller[c].kind, permit |-> token] ELSE Away
  <2>1. to \in Places /\ to.at # "waits" /\ (to.at = "works" => to.permit <= token)
    BY <1>0, <1>4 DEF Places, TakesPermit, Away
  <2>2. /\ Moves(c, to) /\ UNCHANGED <<queue, updating, runtime, token, revoked, lapsed>>
        /\ caller[c].at = "inside"
    BY <1>4 DEF TakesPermit, permits
  <2> HIDE DEF to
  <2>. QED
    BY <2>1, <2>2, CallerMovesInside DEF Outbound
<1>5. CASE Completes(c) \/ Refused(c)
  BY <1>0, <1>5, CallerMovesInside DEF Completes, Refused, Ends, Outbound
<1>6. CASE GoesOn(c)
  <2>1. [at |-> "inside", kind |-> "background"] \in Places
    BY DEF Places, Kinds
  <2>. QED
    BY <1>6, <2>1, CallerMovesInside DEF GoesOn, Outbound
<1>7. CASE Leaves(c)
  <2>1. QueueInOrder'
    <3>1. CASE caller[c].at = "waits"
      <4>1. PICK i \in DOMAIN queue : queue[i] = c /\ queue' = RemoveAt(queue, i)
        BY <1>7, <3>1 DEF Leaves
      <4>2. /\ queue' \in Seq(Callers \cup Updaters) /\ Distinct(queue')
            /\ \A j \in DOMAIN queue' : \E k \in DOMAIN queue : queue'[j] = queue[k] /\ queue[k] # c
        BY <1>0, <4>1, RemovedFromQueue
      <4>. QED
        BY <1>0, <1>7, <4>2, QueueFollows DEF Leaves, Ends, updating
    <3>2. CASE caller[c].at # "waits"
      BY <1>0, <1>7, <3>2, NotInQueue, QueueFollows DEF Leaves, Ends, updating
    <3>. QED
      BY <3>1, <3>2
  <2>. QED
    BY <1>0, <1>7, <2>1, CallerMoves DEF Leaves, Ends
<1>. QED
  BY <1>1, <1>2, <1>3, <1>4, <1>5, <1>6, <1>7 DEF Proceeds

-----------------------------------------------------------------------------
(* Steps of the updates                                                    *)

\* The update u is the only one under way, and the queue does not know of where the
\* others are.
LEMMA UpdaterGoes ==
  ASSUME NEW u \in Updaters, NEW to \in UpdaterStages, GateInv, Goes(u, to), UNCHANGED caller,
         updater[u] # "idle",
         (to = "idle" /\ serial' = NoUpdater) \/ (to # "idle" /\ serial' = serial)
  PROVE  /\ updater' \in [Updaters -> UpdaterStages] /\ updater'[u] = to
         /\ \A v \in Updaters \ {u} : updater[v] = "idle" /\ updater'[v] = "idle"
         /\ OneUpdate' /\ serial' \in Updaters \cup {NoUpdater}
<1>1. /\ updater' \in [Updaters -> UpdaterStages] /\ updater'[u] = to
      /\ \A v \in Updaters \ {u} : updater'[v] = updater[v]
  BY DEF Goes, GateInv, Types
<1>2. \A v \in Updaters \ {u} : updater[v] = "idle"
  BY DEF GateInv, OneUpdate
<1>. QED
  BY <1>1, <1>2, GateAssumption DEF GateInv, OneUpdate, Types

\* An update that was not waiting leaves the queue as it is.
LEMMA QueueStays ==
  ASSUME NEW u \in Updaters, NEW to \in UpdaterStages, GateInv, Goes(u, to),
         updater[u] # "waits", UNCHANGED <<caller, queue>>
  PROVE  QueueInOrder'
<1>1. \A v \in Updaters \ {u} : updater'[v] = updater[v]
  BY DEF Goes, GateInv, Types
<1>2. \A i \in DOMAIN queue : queue[i] # u /\ queue[i] \in Callers \cup Updaters
  BY GateAssumption DEF GateInv, QueueInOrder, Waits
<1>3. ASSUME NEW i \in DOMAIN queue PROVE Waits(queue[i])'
  BY <1>1, <1>2 DEF GateInv, QueueInOrder, Waits
<1>. QED
  BY <1>3 DEF GateInv, QueueInOrder

\* A step that leaves the permits alone preserves what is known of them.
LEMMA PermitsStay ==
  ASSUME GateInv, UNCHANGED <<caller, permits>>
  PROVE  PermitsInOrder' /\ WorkKeepsPermit'
  BY DEF GateInv, PermitsInOrder, WorkKeepsPermit, Outbound, Cancelled, permits

\* Updates of the configuration preserve the invariant up to the gate
\* (privacy_update_lock, patch_privacy_policy, begin_runtime_update).
LEMMA UpdatesKeepBefore ==
  ASSUME NEW u \in Updaters, GateInv,
         Locks(u) \/ PolicyRefused(u) \/ PolicyCommits(u) \/ PolicyPublishes(u)
         \/ Begins(u) \/ GetsGate(u)
  PROVE  GateInv'
<1>0. {"idle", "policy", "publish", "begin", "waits", "alone"} \subseteq UpdaterStages
  BY DEF UpdaterStages
<1>1. CASE Locks(u)
  <2>1. PICK to \in {"policy", "begin"} : Goes(u, to)
    BY <1>1 DEF Locks
  <2>2. QueueInOrder'
    BY <1>0, <1>1, <2>1, QueueStays DEF Locks
  <2>3. /\ updater' \in [Updaters -> UpdaterStages] /\ updater'[u] = to
        /\ \A v \in Updaters \ {u} : updater'[v] = "idle"
        /\ \A v \in Updaters : updater[v] = "idle"
    BY <1>0, <1>1, <2>1, GateAssumption DEF Locks, Goes, GateInv, Types, OneUpdate
  <2>4. updates \in Nat /\ updates' = updates + 1 /\ updates' \in 0..MaxUpdates
    BY <1>1, GateAssumption DEF Locks, GateInv, Types
  <2>5. Types' /\ OneUpdate'
    BY <1>1, <2>3, <2>4, GateAssumption DEF Locks, GateInv, Types, OneUpdate, runtime, permits
  <2>6. PermitsInOrder' /\ WorkKeepsPermit'
    BY <1>1, PermitsStay DEF Locks
  <2>7. Counted'
    BY <1>1, <2>3, <2>4 DEF Locks, GateInv, Types, Counted, runtime, permits
  <2>8. RuntimeInStep' /\ ServesWhatIsSaved'
    BY <1>1, <2>3 DEF Locks, GateInv, RuntimeInStep, ServesWhatIsSaved, runtime, permits
  <2>. QED
    BY <2>2, <2>5, <2>6, <2>7, <2>8 DEF GateInv
<1>2. CASE PolicyRefused(u)
  <2>1. /\ updater' \in [Updaters -> UpdaterStages] /\ updater'[u] = "idle"
        /\ \A v \in Updaters \ {u} : updater[v] = "idle" /\ updater'[v] = "idle"
        /\ OneUpdate' /\ serial' \in Updaters \cup {NoUpdater}
    BY <1>0, <1>2, UpdaterGoes DEF PolicyRefused, Releases
  <2>2. QueueInOrder'
    BY <1>0, <1>2, QueueStays DEF PolicyRefused, Releases
  <2>3. PermitsInOrder' /\ WorkKeepsPermit'
    BY <1>2, PermitsStay DEF PolicyRefused
  <2>4. Types' /\ Counted'
    BY <1>2, <2>1 DEF PolicyRefused, GateInv, Types, Counted, runtime, permits
  <2>5. RuntimeInStep' /\ ServesWhatIsSaved'
    BY <1>2, <2>1 DEF PolicyRefused, GateInv, RuntimeInStep, ServesWhatIsSaved, runtime, permits
  <2>. QED
    BY <2>1, <2>2, <2>3, <2>4, <2>5 DEF GateInv
<1>3. CASE PolicyCommits(u)
  <2>1. /\ updater' \in [Updaters -> UpdaterStages] /\ updater'[u] = "publish"
        /\ \A v \in Updaters \ {u} : updater[v] = "idle" /\ updater'[v] = "idle"
        /\ OneUpdate' /\ serial' \in Updaters \cup {NoUpdater}
    BY <1>0, <1>3, UpdaterGoes DEF PolicyCommits
  <2>2. QueueInOrder'
    BY <1>0, <1>3, QueueStays DEF PolicyCommits
  <2>3. PermitsInOrder' /\ WorkKeepsPermit'
    BY <1>3, PermitsStay DEF PolicyCommits
  <2>4. Types'
    BY <1>3, <2>1 DEF PolicyCommits, GateInv, Types, permits
  <2>5. Counted'
    BY <1>3, <2>1 DEF PolicyCommits, GateInv, Counted, permits
  <2>6. RuntimeInStep' /\ ServesWhatIsSaved'
    BY <1>3, <2>1 DEF PolicyCommits, GateInv, RuntimeInStep, ServesWhatIsSaved
  <2>. QED
    BY <2>1, <2>2, <2>3, <2>4, <2>5, <2>6 DEF GateInv
<1>4. CASE PolicyPublishes(u)
  <2>1. /\ updater' \in [Updaters -> UpdaterStages] /\ updater'[u] = "idle"
        /\ \A v \in Updaters \ {u} : updater[v] = "idle" /\ updater'[v] = "idle"
        /\ OneUpdate' /\ serial' \in Updaters \cup {NoUpdater}
    BY <1>0, <1>4, UpdaterGoes DEF PolicyPublishes, Releases
  <2>2. QueueInOrder'
    BY <1>0, <1>4, QueueStays DEF PolicyPublishes, Releases
  <2>3. /\ suspended' = suspended /\ allowed' = policy
        /\ token' \in Nat /\ revoked' \in BOOLEAN /\ lapsed' \subseteq Callers
        /\ token' <= token + 1 /\ PermitsInOrder' /\ WorkKeepsPermit'
    BY <1>4, PublishKeepsPermits DEF PolicyPublishes, GateInv, Types
  <2>4. Types'
    BY <1>4, <2>1, <2>3 DEF PolicyPublishes, GateInv, Types
  <2>5. Counted'
    <3>1. token < updates /\ token \in Nat /\ updates \in Nat
      BY <1>4 DEF PolicyPublishes, GateInv, Types, Counted
    <3>. QED
      BY <1>4, <2>1, <2>3, <3>1 DEF PolicyPublishes, GateInv, Counted
  <2>6. RuntimeInStep' /\ ServesWhatIsSaved'
    BY <1>4, <2>1, <2>3 DEF PolicyPublishes, GateInv, RuntimeInStep, ServesWhatIsSaved
  <2>. QED
    BY <2>1, <2>2, <2>3, <2>4, <2>5, <2>6 DEF GateInv
<1>5. CASE Begins(u)
  <2>1. /\ updater' \in [Updaters -> UpdaterStages] /\ updater'[u] = "waits"
        /\ \A v \in Updaters \ {u} : updater[v] = "idle" /\ updater'[v] = "idle"
        /\ OneUpdate' /\ serial' \in Updaters \cup {NoUpdater}
    BY <1>0, <1>5, UpdaterGoes DEF Begins
  <2>2. /\ suspended' = TRUE /\ allowed' = allowed /\ token' = token
        /\ token' \in Nat /\ revoked' \in BOOLEAN /\ lapsed' \subseteq Callers
        /\ PermitsInOrder' /\ WorkKeepsPermit'
    BY <1>5, PublishKeepsPermits DEF Begins, GateInv, Types
  <2>3. QueueInOrder'
    <3>1. \A i \in DOMAIN queue : queue[i] # u /\ queue[i] \in Callers \cup Updaters
      BY <1>5, GateAssumption DEF Begins, GateInv, QueueInOrder, Waits
    <3>2. /\ queue' \in Seq(Callers \cup Updaters) /\ Distinct(queue')
          /\ \A j \in DOMAIN queue' : queue'[j] = u \/ \E k \in DOMAIN queue : queue'[j] = queue[k]
      BY <1>5, <3>1, JoinedQueue DEF Begins, GateInv, QueueInOrder
    <3>3. ASSUME NEW j \in DOMAIN queue' PROVE Waits(queue[j])'
      <4>1. CASE queue'[j] = u
        BY <2>1, <4>1, GateAssumption DEF Waits
      <4>2. ASSUME NEW k \in DOMAIN queue, queue'[j] = queue[k] PROVE Waits(queue[j])'
        <5>1. Waits(queue[k]) /\ caller' = caller
          BY <1>5 DEF Begins, GateInv, QueueInOrder
        <5>2. queue[k] \in Callers
          BY <2>1, <3>1, <5>1, GateAssumption DEF Waits
        <5>. QED
          BY <4>2, <5>1, <5>2 DEF Waits
      <4>. QED
        BY <3>2, <4>1, <4>2
    <3>. QED
      BY <3>2, <3>3 DEF QueueInOrder
  <2>4. Types'
    BY <1>5, <2>1, <2>2 DEF Begins, GateInv, Types
  <2>5. Counted'
    BY <1>5, <2>1, <2>2 DEF Begins, GateInv, Counted
  <2>6. RuntimeInStep' /\ ServesWhatIsSaved'
    BY <1>5, <2>1, <2>2 DEF Begins, GateInv, RuntimeInStep, ServesWhatIsSaved
  <2>. QED
    BY <2>1, <2>2, <2>3, <2>4, <2>5, <2>6 DEF GateInv
<1>6. CASE GetsGate(u)
  <2>0. updater[u] = "waits" /\ 1 \in DOMAIN queue /\ queue[1] = u
    <3>1. 1 \in DOMAIN queue /\ queue[1] = u
      BY <1>6 DEF GetsGate, GateInv, QueueInOrder
    <3>. QED
      BY <3>1, GateAssumption DEF GateInv, QueueInOrder, Waits
  <2>1. /\ updater' \in [Updaters -> UpdaterStages] /\ updater'[u] = "alone"
        /\ \A v \in Updaters \ {u} : updater[v] = "idle" /\ updater'[v] = "idle"
        /\ OneUpdate' /\ serial' \in Updaters \cup {NoUpdater}
    BY <1>0, <1>6, <2>0, UpdaterGoes DEF GetsGate
  <2>2. QueueInOrder'
    <3>1. /\ queue' \in Seq(Callers \cup Updaters) /\ Distinct(queue')
          /\ \A j \in DOMAIN queue' : \E k \in DOMAIN queue : queue'[j] = queue[k] /\ queue[k] # u
      BY <1>6, TailOfQueue DEF GetsGate, GateInv, QueueInOrder
    <3>2. ASSUME NEW j \in DOMAIN queue' PROVE Waits(queue[j])'
      <4>1. PICK k \in DOMAIN queue : queue'[j] = queue[k] /\ queue[k] # u
        BY <3>1
      <4>2. Waits(queue[k]) /\ queue[k] \in Callers \cup Updaters /\ caller' = caller
        BY <1>6 DEF GetsGate, GateInv, QueueInOrder
      <4>3. queue[k] \in Callers
        BY <2>1, <4>1, <4>2, GateAssumption DEF Waits
      <4>. QED
        BY <4>1, <4>2, <4>3 DEF Waits
    <3>. QED
      BY <3>1, <3>2 DEF QueueInOrder
  <2>3. PermitsInOrder' /\ WorkKeepsPermit'
    BY <1>6, PermitsStay DEF GetsGate
  <2>4. Types' /\ Counted'
    BY <1>6, <2>0, <2>1 DEF GetsGate, GateInv, Types, Counted, runtime, permits
  <2>5. RuntimeInStep' /\ ServesWhatIsSaved'
    BY <1>6, <2>0, <2>1 DEF GetsGate, GateInv, RuntimeInStep, ServesWhatIsSaved, runtime, permits
  <2>. QED
    BY <2>1, <2>2, <2>3, <2>4, <2>5 DEF GateInv
<1>. QED
  BY <1>1, <1>2, <1>3, <1>4, <1>5, <1>6

\* So do updates that hold the gate (RuntimeUpdateGuard, refresh_runtime).
LEMMA UpdatesKeepAlone ==
  ASSUME NEW u \in Updaters, GateInv,
         Rejected(u) \/ Persists(u) \/ Reloads(u) \/ Installs(u) \/ Fails(u)
  PROVE  GateInv'
<1>0. {"idle", "alone", "reload", "install"} \subseteq UpdaterStages
  BY DEF UpdaterStages
<1>1. CASE Rejected(u)
  <2>1. /\ updater' \in [Updaters -> UpdaterStages] /\ updater'[u] = "idle"
        /\ \A v \in Updaters \ {u} : updater[v] = "idle" /\ updater'[v] = "idle"
        /\ OneUpdate' /\ serial' \in Updaters \cup {NoUpdater}
    BY <1>0, <1>1, UpdaterGoes DEF Rejected, Releases
  <2>2. QueueInOrder'
    BY <1>0, <1>1, QueueStays DEF Rejected, Releases
  <2>3. CASE wasReady
    <3>1. /\ suspended' = FALSE /\ allowed' = allowed /\ serving' = TRUE
          /\ token' \in Nat /\ revoked' \in BOOLEAN /\ lapsed' \subseteq Callers
          /\ token' <= token + 1 /\ PermitsInOrder' /\ WorkKeepsPermit'
      BY <1>1, <2>3, PublishKeepsPermits DEF Rejected, Opens, GateInv, Types
    <3>2. Types'
      BY <1>1, <2>1, <3>1 DEF Rejected, GateInv, Types
    <3>3. Counted'
      <4>1. token < updates /\ token \in Nat /\ updates \in Nat
        BY <1>1 DEF Rejected, GateInv, Types, Counted
      <4>. QED
        BY <1>1, <2>1, <3>1, <4>1 DEF Rejected, GateInv, Counted
    <3>4. RuntimeInStep' /\ ServesWhatIsSaved'
      BY <1>1, <2>1, <2>3, <3>1 DEF Rejected, GateInv, RuntimeInStep, ServesWhatIsSaved
    <3>. QED
      BY <2>1, <2>2, <3>1, <3>2, <3>3, <3>4 DEF GateInv
  <2>4. CASE ~wasReady
    <3>1. UNCHANGED <<caller, wasReady, updates, policy, inTables, inMemory, serving, suspended, allowed>>
          /\ UNCHANGED permits
      BY <1>1, <2>4 DEF Rejected
    <3>2. PermitsInOrder' /\ WorkKeepsPermit'
      BY <3>1, PermitsStay
    <3>3. Types' /\ Counted'
      BY <2>1, <3>1 DEF GateInv, Types, Counted, permits
    <3>4. RuntimeInStep' /\ ServesWhatIsSaved'
      BY <1>1, <2>1, <3>1 DEF Rejected, GateInv, RuntimeInStep, ServesWhatIsSaved
    <3>. QED
      BY <2>1, <2>2, <3>2, <3>3, <3>4 DEF GateInv
  <2>. QED
    BY <2>3, <2>4
<1>2. CASE Persists(u)
  <2>1. /\ updater' \in [Updaters -> UpdaterStages] /\ updater'[u] = "reload"
        /\ \A v \in Updaters \ {u} : updater[v] = "idle" /\ updater'[v] = "idle"
        /\ OneUpdate' /\ serial' \in Updaters \cup {NoUpdater}
    BY <1>0, <1>2, UpdaterGoes DEF Persists
  <2>2. QueueInOrder'
    BY <1>0, <1>2, QueueStays DEF Persists
  <2>3. PermitsInOrder' /\ WorkKeepsPermit'
    BY <1>2, PermitsStay DEF Persists
  <2>4. Types'
    BY <1>2, <2>1 DEF Persists, GateInv, Types, permits
  <2>5. Counted'
    <3>1. inTables < updates /\ inTables \in Nat /\ inMemory \in Nat /\ inMemory <= inTables /\ updates \in Nat
      BY <1>2 DEF Persists, GateInv, Types, Counted
    <3>2. token < updates
      BY <1>2 DEF Persists, GateInv, Counted
    <3>. QED
      BY <1>2, <2>1, <3>1, <3>2 DEF Persists, GateInv, Counted, permits
  <2>6. RuntimeInStep' /\ ServesWhatIsSaved'
    BY <1>2, <2>1 DEF Persists, GateInv, RuntimeInStep, ServesWhatIsSaved
  <2>. QED
    BY <2>1, <2>2, <2>3, <2>4, <2>5, <2>6 DEF GateInv
<1>3. CASE Reloads(u)
  <2>1. /\ updater' \in [Updaters -> UpdaterStages] /\ updater'[u] = "install"
        /\ \A v \in Updaters \ {u} : updater[v] = "idle" /\ updater'[v] = "idle"
        /\ OneUpdate' /\ serial' \in Updaters \cup {NoUpdater}
    BY <1>0, <1>3, UpdaterGoes DEF Reloads
  <2>2. QueueInOrder'
    BY <1>0, <1>3, QueueStays DEF Reloads
  <2>3. suspended = TRUE /\ ~serving
    BY <1>3 DEF Reloads, GateInv, Types, RuntimeInStep
  <2>4. /\ suspended' = TRUE /\ allowed' = policy /\ token' = token
        /\ token' \in Nat /\ revoked' \in BOOLEAN /\ lapsed' \subseteq Callers
        /\ PermitsInOrder' /\ WorkKeepsPermit'
    BY <1>3, <2>3, PublishKeepsPermits DEF Reloads, GateInv, Types
  <2>5. Types'
    BY <1>3, <2>1, <2>4 DEF Reloads, GateInv, Types
  <2>6. Counted'
    BY <1>3, <2>1, <2>4 DEF Reloads, GateInv, Counted
  <2>7. RuntimeInStep' /\ ServesWhatIsSaved'
    BY <1>3, <2>1, <2>3, <2>4 DEF Reloads, GateInv, RuntimeInStep, ServesWhatIsSaved
  <2>. QED
    BY <2>1, <2>2, <2>4, <2>5, <2>6, <2>7 DEF GateInv
<1>4. CASE Installs(u)
  <2>1. /\ updater' \in [Updaters -> UpdaterStages] /\ updater'[u] = "idle"
        /\ \A v \in Updaters \ {u} : updater[v] = "idle" /\ updater'[v] = "idle"
        /\ OneUpdate' /\ serial' \in Updaters \cup {NoUpdater}
    BY <1>0, <1>4, UpdaterGoes DEF Installs, Releases
  <2>2. QueueInOrder'
    BY <1>0, <1>4, QueueStays DEF Installs, Releases
  <2>3. /\ suspended' = FALSE /\ allowed' = allowed /\ serving' = TRUE
        /\ token' \in Nat /\ revoked' \in BOOLEAN /\ lapsed' \subseteq Callers
        /\ token' <= token + 1 /\ PermitsInOrder' /\ WorkKeepsPermit'
    BY <1>4, PublishKeepsPermits DEF Installs, Opens, GateInv, Types
  <2>4. Types'
    BY <1>4, <2>1, <2>3 DEF Installs, GateInv, Types
  <2>5. Counted'
    <3>1. token < updates /\ token \in Nat /\ updates \in Nat /\ inTables \in Nat
      BY <1>4 DEF Installs, GateInv, Types, Counted
    <3>. QED
      BY <1>4, <2>1, <2>3, <3>1 DEF Installs, GateInv, Counted
  <2>6. RuntimeInStep' /\ ServesWhatIsSaved'
    BY <1>4, <2>1, <2>3 DEF Installs, GateInv, RuntimeInStep, ServesWhatIsSaved
  <2>. QED
    BY <2>1, <2>2, <2>3, <2>4, <2>5, <2>6 DEF GateInv
<1>5. CASE Fails(u)
  <2>1. /\ updater' \in [Updaters -> UpdaterStages] /\ updater'[u] = "idle"
        /\ \A v \in Updaters \ {u} : updater[v] = "idle" /\ updater'[v] = "idle"
        /\ OneUpdate' /\ serial' \in Updaters \cup {NoUpdater}
    BY <1>0, <1>5, UpdaterGoes DEF Fails, Releases
  <2>2. QueueInOrder'
    BY <1>0, <1>5, QueueStays DEF Fails, Releases
  <2>3. PermitsInOrder' /\ WorkKeepsPermit'
    BY <1>5, PermitsStay DEF Fails
  <2>4. Types' /\ Counted'
    BY <1>5, <2>1 DEF Fails, GateInv, Types, Counted, runtime, permits
  <2>5. RuntimeInStep' /\ ServesWhatIsSaved'
    BY <1>5, <2>1 DEF Fails, GateInv, RuntimeInStep, ServesWhatIsSaved, runtime, permits
  <2>. QED
    BY <2>1, <2>2, <2>3, <2>4, <2>5 DEF GateInv
<1>. QED
  BY <1>1, <1>2, <1>3, <1>4, <1>5

-----------------------------------------------------------------------------
\* The invariant is inductive.
LEMMA GateInductive == GateInv /\ [GateNext]_gateVars => GateInv'
<1> SUFFICES ASSUME GateInv, [GateNext]_gateVars PROVE GateInv'
  OBVIOUS
<1>1. CASE UNCHANGED gateVars
  BY <1>1
  DEF gateVars, GateInv, Types, QueueInOrder, Waits, Distinct, OneUpdate, PermitsInOrder, Outbound,
      Counted, RuntimeInStep, WorkKeepsPermit, Cancelled, ServesWhatIsSaved
<1>2. CASE GateNext
  BY <1>2, CallersKeep, UpdatesKeepBefore, UpdatesKeepAlone DEF GateNext, UpdateSteps
<1>. QED
  BY <1>1, <1>2

\* The bounded types follow: no counter passes the number of updates.
LEMMA GateInvTypes == GateInv => GateTypeOK
<1> SUFFICES ASSUME GateInv PROVE GateTypeOK
  OBVIOUS
<1>1. MaxUpdates \in Nat /\ updates \in 0..MaxUpdates
  BY GateAssumption DEF GateInv, Types
<1>2. token \in 0..MaxUpdates /\ inTables \in 0..MaxUpdates /\ inMemory \in 0..MaxUpdates
  BY <1>1 DEF GateInv, Types, Counted
<1>3. caller \in [Callers -> {Away} \cup [at : {"waits", "inside"}, kind : Kinds]
                                \cup [at : {"works"}, kind : Kinds, permit : 0..MaxUpdates]]
  <2> SUFFICES ASSUME NEW c \in Callers
               PROVE  caller[c] \in {Away} \cup [at : {"waits", "inside"}, kind : Kinds]
                                    \cup [at : {"works"}, kind : Kinds, permit : 0..MaxUpdates]
    BY DEF GateInv, Types
  <2>1. caller[c] \in Places
    BY DEF GateInv, Types
  <2>2. CASE caller[c] \in [at : {"works"}, kind : Kinds, permit : Nat]
    <3>1. caller[c].permit \in Nat /\ caller[c].permit <= token
      BY <2>2 DEF GateInv, PermitsInOrder, Outbound
    <3>2. caller[c].permit \in 0..MaxUpdates
      BY <1>1, <1>2, <3>1
    <3>. QED
      BY <2>2, <3>2
  <2>. QED
    BY <2>1, <2>2 DEF Places
<1>. QED
  BY <1>1, <1>2, <1>3 DEF GateInv, Types, UpdaterStages, QueueInOrder, GateTypeOK

\* The invariant holds of every behaviour.
LEMMA GateInvariant == GateSpec => []GateInv
  BY GateInitially, GateInductive, PTL DEF GateSpec

\* Every variable of the gate keeps its type; permits and generations stay within the
\* number of updates.
THEOREM GateTypes == GateSpec => []GateTypeOK
  BY GateInvariant, GateInvTypes, PTL

\* Outbound work whose permission was withdrawn since it began will find its permit
\* cancelled, for every number of callers and updates (PrivacyRuntime::publish,
\* outbound_permit).
THEOREM WithdrawnStaysWithdrawn == GateSpec => []WorkKeepsPermit
<1>1. GateInv => WorkKeepsPermit
  BY DEF GateInv
<1>. QED
  BY <1>1, GateInvariant, PTL

\* The runtime that serves requests is the one that was saved last, whatever updates
\* failed or were rejected before (RuntimeUpdateGuard, refresh_runtime).
THEOREM ServedIsSaved == GateSpec => []ServesWhatIsSaved
<1>1. GateInv => ServesWhatIsSaved
  BY DEF GateInv
<1>. QED
  BY <1>1, GateInvariant, PTL

-----------------------------------------------------------------------------
(* The four parts together.                                                *)

\* A step of one part leaves the others as they are, so each part's invariant holds of the
\* whole (MCService).
ServiceInv == QueueInv /\ ListsCounted /\ JobsInv /\ AccountsInv /\ GateInv

LEMMA ServiceInductive == ServiceInv /\ [Next]_serviceVars => ServiceInv'
<1> SUFFICES ASSUME ServiceInv, [Next]_serviceVars PROVE ServiceInv'
  OBVIOUS
<1>1. [QueueNext]_queueVars /\ [JobsNext]_jobVars /\ [AccountsNext]_accountVars /\ [GateNext]_gateVars
  BY DEF Next, MoveAccounts, serviceVars
<1>2. QueueInv' /\ ListsCounted'
  BY <1>1, QueueStepKeeps, ListsStayCounted DEF ServiceInv
<1>3. JobsInv' /\ AccountsInv' /\ GateInv'
  BY <1>1, JobsInductive, AccountsInductive, GateInductive DEF ServiceInv
<1>. QED
  BY <1>2, <1>3 DEF ServiceInv

\* The rows and the requests of the four parts have the shape their tables and handlers
\* give them, in every state of the composed system.
THEOREM ServiceTypes == Spec => []ServiceTypeOK
<1>1. Init => ServiceInv
  BY QueueInitially, ListsCountedInitially, JobsInitially, AccountsInitially, GateInitially
  DEF Init, ServiceInv
<1>2. ServiceInv => ServiceTypeOK
  BY QueueTyped, GateInvTypes DEF ServiceInv, ServiceTypeOK, JobsInv, AccountsInv
<1>. QED
  BY <1>1, <1>2, ServiceInductive, PTL DEF Spec
=============================================================================
