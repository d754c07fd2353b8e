------------------------- MODULE RemotePlaybackProofs -------------------------
(***************************************************************************)
(* For every number of players, connections, requests and lost frames: the *)
(* types, that the hub refers to registered clients only, and that a       *)
(* transfer makes no second player audible.                                *)
(*                                                                         *)
(* The first two are inductive up to two facts: a connection no player has *)
(* opened yet is nobody's, so opening it takes nobody's place, and the     *)
(* frames on their way name players and transfers that exist.  The latter  *)
(* needs the types of the players, which make the frames.                  *)
(*                                                                         *)
(* The third needs what is on its way to be counted (OneToken): the right  *)
(* to play is one token, which a player that is heard holds, or a frame or *)
(* a task that will make a player play.                                    *)
(***************************************************************************)
EXTENDS RemotePlayback, FiniteSetTheorems, SequenceTheorems, TLAPS

Transfers ==
  [id : Ids, controller : Conns, source : Conns, target : Conns,
   stage : {"Snapshot", "Prepare", "Pause", "Start"}, snap : Snapshots]

HubTypes ==
  /\ client \in [Conns -> {"absent", "new"} \cup Players]
  /\ holds \subseteq Conns
  /\ active \in Conns \cup {Offline}
  /\ transfer \in {NoTransfer} \cup Transfers
  /\ commands \subseteq [id : Ids, controller : Conns, target : Conns]

Wires == [Conns -> Seq(Frames)]

PlayerTypes ==
  /\ socket \in [Players -> Conns \cup {Offline}]
  /\ playing \in [Players -> BOOLEAN] /\ queue \in [Players -> Queues]
  /\ prepared \in [Players -> {Unprepared}
                     \cup [id : Ids, role : {"source", "target"}, paused : BOOLEAN]]
  /\ tasks \in [Players -> SUBSET [id : Ids, does : {"prepare", "start", "check"},
                                   snap : Snapshots]]
  /\ shown \in [Players -> [holds : BOOLEAN, playing : BOOLEAN, lastPlaying : BOOLEAN]]

CounterTypes ==
  /\ opened \in 0..MaxConns /\ asks \in 0..MaxAsks /\ changes \in 0..MaxChanges
  /\ losses \in 0..MaxLosses /\ plays \in BOOLEAN

\* A connection that no player has opened yet is nobody's.
UnopenedAbsent == \A c \in Conns : c > opened => client[c] = "absent"

PlaybackInv == PlaybackTypeOK /\ UnopenedAbsent /\ HubRefersToClients

LEMMA PlaybackParts ==
  PlaybackTypeOK <=>
    HubTypes /\ up \in Wires /\ down \in Wires /\ PlayerTypes /\ CounterTypes
BY DEF PlaybackTypeOK, HubTypes, Transfers, Wires, PlayerTypes, CounterTypes

-----------------------------------------------------------------------------
(* The initial states.                                                     *)

\* There is a seat for each player, and somebody has the first one.
LEMMA SeatsTaken ==
  LET n == Cardinality(Players)
      seats == CHOOSE f \in [Players -> 1..n] : \A p, q \in Players : f[p] = f[q] => p = q
  IN /\ n \in 1..MaxConns
     /\ seats \in [Players -> 1..n]
     /\ \A i \in 1..n : \E p \in Players : seats[p] = i
     /\ \A p, q \in Players : seats[p] = seats[q] => p = q
<1> DEFINE n == Cardinality(Players)
           seats == CHOOSE f \in [Players -> 1..n] : \A p, q \in Players : f[p] = f[q] => p = q
<1>1. IsFiniteSet(Players) /\ n \in 1..MaxConns /\ n \in Nat
  BY PlaybackBoundsAssumption
<1>2. IsFiniteSet(1..n) /\ Cardinality(1..n) = n
  <2>. HIDE DEF n
  <2>. QED
    BY <1>1, FS_Interval
<1>3. PICK f : f \in Bijection(Players, 1..n)
  BY <1>1, <1>2, FS_SameCardinalityBij DEF ExistsBijection
<1>4. \E g \in [Players -> 1..n] : \A p, q \in Players : g[p] = g[q] => p = q
  BY <1>3 DEF Bijection, Injection, IsInjective
<1>5. seats \in [Players -> 1..n] /\ \A p, q \in Players : seats[p] = seats[q] => p = q
  BY <1>4
<1>6. seats \in Injection(Players, 1..n)
  BY <1>5 DEF Injection, IsInjective
<1>7. seats \in Surjection(Players, 1..n)
  <2>. HIDE DEF n, seats
  <2>1. Cardinality(Players) = Cardinality(1..n)
    BY <1>2 DEF n
  <2>. QED
    BY <1>1, <1>2, <1>6, <2>1, FS_Injection
<1>. QED
  BY <1>1, <1>5, <1>7 DEF Surjection

\* The initial states satisfy the invariant.
LEMMA PlaybackInitially == PlaybackInit => PlaybackInv
<1> SUFFICES ASSUME PlaybackInit PROVE PlaybackInv
  OBVIOUS
<1> DEFINE n == Cardinality(Players)
           seats == CHOOSE f \in [Players -> 1..n] : \A p, q \in Players : f[p] = f[q] => p = q
<1>1. /\ n \in 1..MaxConns
      /\ seats \in [Players -> 1..n]
      /\ \A i \in 1..n : \E p \in Players : seats[p] = i
  BY SeatsTaken
<1>2. /\ client = [c \in Conns |-> IF c <= n THEN CHOOSE p \in Players : seats[p] = c ELSE "absent"]
      /\ holds = {1} /\ active = 1 /\ transfer = NoTransfer /\ commands = {}
      /\ up = [c \in Conns |-> <<>>] /\ down = [c \in Conns |-> <<>>]
      /\ socket = seats
      /\ playing = [p \in Players |-> seats[p] = 1]
      /\ queue = [p \in Players |-> IF seats[p] = 1 THEN 1 ELSE 0]
      /\ prepared = [p \in Players |-> Unprepared]
      /\ tasks = [p \in Players |-> {}]
      /\ shown = [p \in Players |-> [holds |-> seats[p] = 1, playing |-> seats[p] = 1,
                                     lastPlaying |-> seats[p] = 1]]
      /\ opened = n /\ asks = 0 /\ changes = 0 /\ losses = 0 /\ plays = FALSE
  BY DEF PlaybackInit
<1> HIDE DEF n, seats
<1>3. MaxConns \in Nat /\ MaxAsks \in Nat /\ MaxChanges \in Nat /\ MaxLosses \in Nat
  BY PlaybackBoundsAssumption
<1>4. 1 \in Conns /\ \A c \in Conns : c <= n => c \in 1..n
  BY <1>1, <1>3 DEF Conns
<1>5. /\ \A c \in Conns : c <= n => client[c] \in Players
      /\ \A c \in Conns : c > n => client[c] = "absent"
  BY <1>1, <1>2, <1>3, <1>4 DEF Conns
<1>6. HubTypes
  BY <1>2, <1>4, <1>5 DEF HubTypes, Conns
<1>7. up \in Wires /\ down \in Wires
  BY <1>2, EmptySeq DEF Wires
<1>8. PlayerTypes
  <2>1. socket \in [Players -> Conns \cup {Offline}]
    BY <1>1, <1>2, <1>3 DEF Conns
  <2>. QED
    BY <1>2, <1>3, <2>1 DEF PlayerTypes, Queues
<1>9. CounterTypes
  <2>1. opened \in 0..MaxConns
    BY <1>1, <1>2, <1>3
  <2>2. asks \in 0..MaxAsks /\ changes \in 0..MaxChanges /\ losses \in 0..MaxLosses
    BY <1>2, <1>3
  <2>3. plays \in BOOLEAN
    BY <1>2
  <2>. QED
    BY <2>1, <2>2, <2>3 DEF CounterTypes
<1>10. HubRefersToClients
  BY <1>1, <1>2, <1>4, <1>5 DEF HubRefersToClients, Registered
<1>. QED
  BY <1>2, <1>5, <1>6, <1>7, <1>8, <1>9, <1>10, PlaybackParts DEF PlaybackInv, UnopenedAbsent

-----------------------------------------------------------------------------
(* The hub.                                                                *)

\* The fields of a frame that the hub and the players read.
LEMMA FrameFields ==
  ASSUME NEW f \in Frames
  PROVE  /\ f.type = "REGISTER" => f.player \in Players /\ f.holds \in BOOLEAN
         /\ f.type = "STATE" => f.holds \in BOOLEAN /\ f.claim \in BOOLEAN
         /\ f.type = "TRANSFER_PLAYBACK" => f.id \in Ids /\ f.target \in Players
         /\ f.type \in {"COMMAND", "COMMAND_RESULT", "READY", "STARTED", "TRANSFER_FAILED",
                        "EXECUTE", "REQUEST_SNAPSHOT", "PAUSE_FOR_TRANSFER",
                        "TRANSFER_COMPLETE"} => f.id \in Ids
         /\ f.type \in {"SNAPSHOT", "SOURCE_PAUSED", "INITIALIZE_PLAYER", "START_TRANSFER"} =>
              f.id \in Ids /\ f.snap \in Snapshots
         /\ f.type = "ABORT_TRANSFER" => f.id \in Ids /\ f.resume \in BOOLEAN
BY DEF Frames

\* The frames the hub and the players make.
LEMMA FramesMade ==
  ASSUME NEW i \in Ids, NEW s \in Snapshots, NEW b \in BOOLEAN, NEW claim \in BOOLEAN,
         NEW p \in Players
  PROVE  /\ \A t \in {"COMMAND", "COMMAND_RESULT", "READY", "STARTED", "TRANSFER_FAILED", "EXECUTE",
                      "REQUEST_SNAPSHOT", "PAUSE_FOR_TRANSFER", "TRANSFER_COMPLETE"} :
              [type |-> t, id |-> i] \in Frames
         /\ \A t \in {"SNAPSHOT", "SOURCE_PAUSED", "INITIALIZE_PLAYER", "START_TRANSFER"} :
              [type |-> t, id |-> i, snap |-> s] \in Frames
         /\ [type |-> "ABORT_TRANSFER", id |-> i, resume |-> b] \in Frames
         /\ [type |-> "TRANSFER_PLAYBACK", id |-> i, target |-> p] \in Frames
BY DEF Frames

\* send_frame_locked: what it appends are frames, and losses stay counted.
LEMMA SendsTypes ==
  ASSUME PlaybackTypeOK, NEW frames, NEW present, IsFiniteSet(frames),
         \A f \in frames : f.frame \in Frames,
         Sends(frames, present)
  PROVE  down' \in Wires /\ losses' \in 0..MaxLosses
<1>1. PICK sent \in SUBSET frames :
        /\ losses + Cardinality(frames \ sent) <= MaxLosses
        /\ losses' = losses + Cardinality(frames \ sent)
        /\ down' = [c \in Conns |->
             IF c \in present /\ \E f \in sent : f.to = c
               THEN Append(down[c], (CHOOSE f \in sent : f.to = c).frame)
               ELSE down[c]]
  BY DEF Sends
<1>2. Cardinality(frames \ sent) \in Nat
  BY FS_Subset, FS_CardinalityType, frames \ sent \in SUBSET frames
<1>3. losses' \in 0..MaxLosses
  BY <1>1, <1>2, PlaybackBoundsAssumption DEF PlaybackTypeOK
<1>4. ASSUME NEW c \in Conns, \E f \in sent : f.to = c
      PROVE  (CHOOSE f \in sent : f.to = c).frame \in Frames
  BY <1>1, <1>4
<1>5. down \in Wires
  BY PlaybackParts
<1>6. down' \in Wires
  BY <1>1, <1>4, <1>5 DEF Wires
<1>. QED
  BY <1>3, <1>6

\* One frame, or none.
LEMMA SendsOne ==
  ASSUME PlaybackTypeOK, NEW x, NEW f \in Frames, NEW present, Sends({To(x, f)}, present)
  PROVE  down' \in Wires /\ losses' \in 0..MaxLosses
<1>1. IsFiniteSet({To(x, f)})
  BY FS_Singleton
<1>2. \A g \in {To(x, f)} : g.frame \in Frames
  BY DEF To
<1>. QED
  BY <1>1, <1>2, SendsTypes

LEMMA SendsNone ==
  ASSUME PlaybackTypeOK, SendsNothing
  PROVE  down' \in Wires /\ losses' \in 0..MaxLosses
BY PlaybackParts DEF SendsNothing, CounterTypes

\* abort_transfer_locked: both players are told.
LEMMA AbortsTypes ==
  ASSUME PlaybackTypeOK, NEW t \in Transfers, NEW resume \in BOOLEAN, NEW present,
         Aborts(t, resume, present)
  PROVE  transfer' = NoTransfer /\ down' \in Wires /\ losses' \in 0..MaxLosses
<1> DEFINE f == [type |-> "ABORT_TRANSFER", id |-> t.id, resume |-> FALSE]
           g == [type |-> "ABORT_TRANSFER", id |-> t.id, resume |-> resume /\ t.snap.playing]
<1>1. transfer' = NoTransfer /\ Sends({To(t.target, f), To(t.source, g)}, present)
  BY DEF Aborts
<1>2. t.id \in Ids /\ (resume /\ t.snap.playing) \in BOOLEAN
  BY DEF Transfers
<1>3. f \in Frames /\ g \in Frames
  BY <1>2 DEF Frames
<1>. HIDE DEF f, g
<1>4. IsFiniteSet({To(t.target, f), To(t.source, g)})
  <2>1. IsFiniteSet({To(t.target, f)})
    BY FS_Singleton
  <2>2. IsFiniteSet({To(t.target, f)} \cup {To(t.source, g)})
    BY <2>1, FS_AddElement
  <2>. QED
    BY <2>2, {To(t.target, f), To(t.source, g)} = {To(t.target, f)} \cup {To(t.source, g)}
<1>5. \A h \in {To(t.target, f), To(t.source, g)} : h.frame \in Frames
  BY <1>3 DEF To
<1>. QED
  BY <1>1, <1>4, <1>5, SendsTypes

\* remove_client_locked: nothing is left that waits for a client that goes.
LEMMA RemovesAll ==
  ASSUME PlaybackInv, NEW gone \in SUBSET Conns, Removes(gone)
  PROVE  /\ down' \in Wires /\ losses' \in 0..MaxLosses
         /\ commands' \subseteq commands
         /\ \A m \in commands' : m.controller \notin gone /\ m.target \notin gone
         /\ transfer' # NoTransfer =>
              transfer' = transfer /\ {transfer.source, transfer.target, transfer.controller} \cap gone = {}
<1>0. PlaybackTypeOK /\ HubTypes
  BY PlaybackParts DEF PlaybackInv
<1>1. /\ commands' \subseteq commands
      /\ \A m \in commands' : m.controller \notin gone /\ m.target \notin gone
  BY DEF Removes
<1>2. CASE \E c \in gone : TakesPart(c)
  <2>1. transfer \in Transfers
    BY <1>0, <1>2 DEF TakesPart, HubTypes
  <2>. QED
    BY <1>0, <1>1, <1>2, <2>1, AbortsTypes DEF Removes
<1>3. CASE ~\E c \in gone : TakesPart(c)
  <2>1. transfer' = transfer /\ SendsNothing
    BY <1>3 DEF Removes
  <2>2. transfer # NoTransfer => {transfer.source, transfer.target, transfer.controller} \cap gone = {}
    BY <1>3 DEF TakesPart
  <2>. QED
    BY <1>0, <1>1, <2>1, <2>2, SendsNone
<1>. QED
  BY <1>2, <1>3

\* A client that takes a frame: what is left, and what the frame is.
LEMMA TakesTypes ==
  ASSUME PlaybackTypeOK, NEW c \in Conns, NEW type, Takes(c, type)
  PROVE  up' \in Wires /\ Head(up[c]) \in Frames /\ Head(up[c]).type = type
<1>1. up[c] \in Seq(Frames) /\ up[c] # <<>> /\ up' = [up EXCEPT ![c] = Tail(up[c])]
  BY DEF Takes, PlaybackTypeOK
<1>2. Head(up[c]) \in Frames /\ Tail(up[c]) \in Seq(Frames)
  BY <1>1, HeadTailProperties
<1>. QED
  BY <1>1, <1>2, PlaybackParts DEF Takes, Wires

\* The parts a step of the hub must show.
LEMMA HubStepsKeep ==
  ASSUME PlaybackInv, PlayersKeep, up' \in Wires, down' \in Wires, losses' \in 0..MaxLosses,
         HubTypes', UnopenedAbsent', HubRefersToClients'
  PROVE  PlaybackInv'
<1>1. PlayerTypes' /\ CounterTypes'
  BY PlaybackParts DEF PlaybackInv, PlayersKeep, PlayerTypes, CounterTypes, playerVars
<1>. QED
  BY <1>1, PlaybackParts DEF PlaybackInv, PlaybackTypeOK, HubTypes, Transfers, Wires, PlayerTypes, CounterTypes

\* The client is gone, and what referred to it.
LEMMA Disconnected ==
  ASSUME PlaybackInv, NEW c \in Conns, HubDisconnects(c)
  PROVE  /\ HubTypes' /\ down' \in Wires /\ losses' \in 0..MaxLosses
         /\ HubRefersToClients'
         /\ \A x \in Conns : client[x] = "absent" => client'[x] = "absent"
<1>1. PICK gone \in SUBSET Conns : gone = {c}
  OBVIOUS
<1>2. /\ Removes(gone) /\ client' = [client EXCEPT ![c] = "absent"]
      /\ active' = ActiveAfter(gone) /\ holds' = holds \ {c}
  BY <1>1 DEF HubDisconnects
<1>3. /\ down' \in Wires /\ losses' \in 0..MaxLosses
      /\ commands' \subseteq commands
      /\ \A m \in commands' : m.controller \notin gone /\ m.target \notin gone
      /\ transfer' # NoTransfer =>
           transfer' = transfer /\ {transfer.source, transfer.target, transfer.controller} \cap gone = {}
  BY <1>2, RemovesAll
<1>4. HubTypes
  BY PlaybackParts DEF PlaybackInv
<1>5. client' \in [Conns -> {"absent", "new"} \cup Players]
  BY <1>2, <1>4 DEF HubTypes
<1>6. HubTypes'
  BY <1>2, <1>3, <1>4, <1>5 DEF HubTypes, ActiveAfter
<1>7. Registered' = Registered \ {c}
  BY <1>2, <1>4, PlaybackBoundsAssumption DEF HubTypes, Registered
<1>8. HubRefersToClients'
  BY <1>1, <1>2, <1>3, <1>7 DEF PlaybackInv, HubRefersToClients, ActiveAfter
<1>. QED
  BY <1>2, <1>3, <1>4, <1>6, <1>8 DEF HubTypes

\* Hub steps that change at most who holds a track, who is active and what waits, and
\* refer to registered clients only.
LEMMA HubRefersOn ==
  ASSUME PlaybackInv, UNCHANGED client, PlayersKeep,
         up' \in Wires, down' \in Wires, losses' \in 0..MaxLosses,
         holds' \subseteq Conns, active' \in Registered \cup {Offline},
         transfer' \in {NoTransfer} \cup Transfers,
         transfer' # NoTransfer =>
           {transfer'.source, transfer'.target, transfer'.controller} \subseteq Registered,
         commands' \subseteq [id : Ids, controller : Registered, target : Registered]
  PROVE  PlaybackInv'
<1>1. HubTypes /\ UnopenedAbsent
  BY PlaybackParts DEF PlaybackInv
<1>2. Registered' = Registered /\ Registered \subseteq Conns
  BY DEF Registered
<1>3. HubTypes'
  BY <1>1, <1>2 DEF HubTypes
<1>4. UnopenedAbsent'
  BY <1>1 DEF UnopenedAbsent, PlayersKeep
<1>5. HubRefersToClients'
  BY <1>2 DEF HubRefersToClients
<1>. QED
  BY <1>3, <1>4, <1>5, HubStepsKeep

\* What the hub refers to before the step.
LEMMA HubRefers ==
  ASSUME PlaybackInv
  PROVE  /\ HubTypes /\ PlaybackTypeOK
         /\ active \in Registered \cup {Offline}
         /\ transfer # NoTransfer =>
              transfer \in Transfers
              /\ {transfer.source, transfer.target, transfer.controller} \subseteq Registered
         /\ commands \subseteq [id : Ids, controller : Registered, target : Registered]
<1>1. HubTypes /\ PlaybackTypeOK /\ HubRefersToClients
  BY PlaybackParts DEF PlaybackInv
<1>2. commands \subseteq [id : Ids, controller : Registered, target : Registered]
  BY <1>1 DEF HubTypes, HubRefersToClients
<1>. QED
  BY <1>1, <1>2 DEF HubTypes, HubRefersToClients

LEMMA HubKeepsInv ==
  ASSUME PlaybackInv, HubKeeps, PlayersKeep, up' \in Wires
  PROVE  PlaybackInv'
BY HubRefers, HubRefersOn, SendsNone DEF HubKeeps, hubVars, HubTypes

\* A player registers, in place of its old connection.
LEMMA RegisterKeeps ==
  ASSUME PlaybackInv, NEW c \in Conns, HubRegister(c)
  PROVE  PlaybackInv'
<1> DEFINE f == Head(up[c])
<1>0. HubTypes /\ PlaybackTypeOK /\ UnopenedAbsent
  BY HubRefers DEF PlaybackInv
<1>1. up' \in Wires /\ f \in Frames /\ f.type = "REGISTER" /\ client[c] # "absent"
  BY <1>0, TakesTypes DEF HubRegister, Takes
<1>2. f.player \in Players /\ f.holds \in BOOLEAN
  BY <1>1, FrameFields
<1>3. PICK old \in SUBSET Conns :
        /\ old = {x \in Conns \ {c} : client[x] = f.player}
        /\ Removes(old)
        /\ client' = [x \in Conns |-> IF x \in old THEN "absent"
                                      ELSE IF x = c THEN f.player ELSE client[x]]
        /\ active' = IF ActiveAfter(old) = Offline /\ f.holds THEN c ELSE ActiveAfter(old)
        /\ holds' = (holds \ (old \cup {c})) \cup (IF f.holds THEN {c} ELSE {})
        /\ PlayersKeep
  BY DEF HubRegister
<1>. HIDE DEF f
<1>4. /\ down' \in Wires /\ losses' \in 0..MaxLosses
      /\ commands' \subseteq commands
      /\ \A m \in commands' : m.controller \notin old /\ m.target \notin old
      /\ transfer' # NoTransfer =>
           transfer' = transfer /\ {transfer.source, transfer.target, transfer.controller} \cap old = {}
  BY <1>3, RemovesAll
<1>5. HubTypes'
  <2>1. client' \in [Conns -> {"absent", "new"} \cup Players] /\ holds' \subseteq Conns
    BY <1>0, <1>2, <1>3 DEF HubTypes
  <2>2. active' \in Conns \cup {Offline}
    BY <1>0, <1>3 DEF HubTypes, ActiveAfter
  <2>. QED
    BY <1>0, <1>4, <2>1, <2>2 DEF HubTypes
<1>6. UnopenedAbsent'
  BY <1>0, <1>1, <1>3 DEF UnopenedAbsent, PlayersKeep
<1>7. Registered' = (Registered \ old) \cup {c}
  BY <1>2, <1>3, PlaybackBoundsAssumption DEF Registered
<1>8. HubRefersToClients'
  BY <1>3, <1>4, <1>7 DEF PlaybackInv, HubRefersToClients, ActiveAfter
<1>. QED
  BY <1>1, <1>3, <1>4, <1>5, <1>6, <1>8, HubStepsKeep

LEMMA StateKeeps ==
  ASSUME PlaybackInv, NEW c \in Conns, HubState(c)
  PROVE  PlaybackInv'
<1>1. up' \in Wires /\ c \in Registered
  BY HubRefers, TakesTypes DEF HubState, TakesRegistered, Registered
<1>2. /\ UNCHANGED <<client, transfer, commands>> /\ PlayersKeep
      /\ holds' = holds \cup {c} \/ holds' = holds \ {c}
      /\ active' = c \/ active' = active
      /\ Sends({To(active, [type |-> "DEACTIVATE"])}, Present) \/ SendsNothing
  BY DEF HubState
<1>3. [type |-> "DEACTIVATE"] \in Frames
  BY DEF Frames
<1>4. down' \in Wires /\ losses' \in 0..MaxLosses
  BY <1>2, <1>3, HubRefers, SendsOne, SendsNone
<1>. QED
  BY <1>1, <1>2, <1>4, HubRefers, HubRefersOn DEF HubTypes

LEMMA CommandKeeps ==
  ASSUME PlaybackInv, NEW c \in Conns, HubCommand(c) \/ HubCommandResult(c)
  PROVE  PlaybackInv'
<1>1. /\ up' \in Wires /\ c \in Registered /\ PlayersKeep
      /\ Head(up[c]).id \in Ids
  BY HubRefers, TakesTypes, FrameFields DEF HubCommand, HubCommandResult, TakesRegistered, Registered
<1>2. CASE HubKeeps
  BY <1>1, <1>2, HubKeepsInv
<1>3. CASE /\ active # Offline
           /\ commands' = commands \cup {[id |-> Head(up[c]).id, controller |-> c, target |-> active]}
           /\ Sends({To(active, [type |-> "EXECUTE", id |-> Head(up[c]).id])}, Present)
           /\ UNCHANGED <<client, holds, active, transfer>>
  <2>1. [type |-> "EXECUTE", id |-> Head(up[c]).id] \in Frames
    BY <1>1 DEF Frames
  <2>2. down' \in Wires /\ losses' \in 0..MaxLosses
    BY <1>3, <2>1, HubRefers, SendsOne
  <2>3. commands' \subseteq [id : Ids, controller : Registered, target : Registered]
    BY <1>1, <1>3, HubRefers
  <2>. QED
    BY <1>1, <1>3, <2>2, <2>3, HubRefers, HubRefersOn DEF HubTypes
<1>4. CASE HubCommandResult(c)
  <2>1. /\ commands' \subseteq commands
        /\ UNCHANGED <<client, holds, active, transfer>> /\ SendsNothing
    BY <1>4 DEF HubCommandResult
  <2>2. down' \in Wires /\ losses' \in 0..MaxLosses
    BY <2>1, HubRefers, SendsNone
  <2>. QED
    BY <1>1, <2>1, <2>2, HubRefers, HubRefersOn DEF HubTypes
<1>. QED
  BY <1>2, <1>3, <1>4 DEF HubCommand

\* The hub asks the source for a snapshot.
LEMMA TransferKeeps ==
  ASSUME PlaybackInv, NEW c \in Conns, HubTransfer(c)
  PROVE  PlaybackInv'
<1> DEFINE f == Head(up[c])
<1>1. /\ up' \in Wires /\ c \in Registered /\ PlayersKeep
      /\ f.id \in Ids /\ f.target \in Players
  BY HubRefers, TakesTypes, FrameFields DEF HubTransfer, TakesRegistered, Registered
<1>2. CASE HubKeeps
  BY <1>1, <1>2, HubKeepsInv
<1>3. CASE ~HubKeeps
  <2>1. PICK x \in {y \in Conns : client[y] = f.target} :
          /\ active \in holds
          /\ transfer' = [id |-> f.id, controller |-> c, source |-> active, target |-> x,
                          stage |-> "Snapshot", snap |-> NoSnapshot]
          /\ Sends({To(active, [type |-> "REQUEST_SNAPSHOT", id |-> f.id])}, Present)
          /\ UNCHANGED <<client, holds, active, commands>>
    BY <1>3 DEF HubTransfer
  <2>2. [type |-> "REQUEST_SNAPSHOT", id |-> f.id] \in Frames
    BY <1>1 DEF Frames
  <2>. HIDE DEF f
  <2>3. down' \in Wires /\ losses' \in 0..MaxLosses
    BY <2>1, <2>2, HubRefers, SendsOne
  <2>4. active \in Registered /\ x \in Registered
    BY <1>1, <2>1, HubRefers DEF HubTypes, Offline, Conns, Registered
  <2>5. NoSnapshot \in Snapshots
    BY PlaybackBoundsAssumption DEF NoSnapshot, Snapshots, Queues
  <2>6. transfer' \in Transfers
    BY <1>1, <2>1, <2>4, <2>5 DEF Transfers, Registered
  <2>. QED
    BY <1>1, <2>1, <2>3, <2>4, <2>6, HubRefers, HubRefersOn DEF HubTypes
<1>. QED
  BY <1>2, <1>3

\* A step of the transfer that is sent on to the other player.
LEMMA AdvancesKeeps ==
  ASSUME PlaybackInv, PlayersKeep, up' \in Wires, transfer # NoTransfer,
         NEW stage \in {"Prepare", "Pause", "Start"}, NEW snap \in Snapshots, NEW to,
         NEW type \in {"INITIALIZE_PLAYER", "START_TRANSFER", "PAUSE_FOR_TRANSFER"},
         Advances(stage, snap, to, type)
  PROVE  PlaybackInv'
<1> DEFINE f == IF type \in {"INITIALIZE_PLAYER", "START_TRANSFER"}
                  THEN [type |-> type, id |-> transfer.id, snap |-> snap]
                  ELSE [type |-> type, id |-> transfer.id]
<1>1. transfer \in Transfers /\ transfer.id \in Ids
  BY HubRefers DEF Transfers
<1>2. /\ transfer' = [transfer EXCEPT !.stage = stage, !.snap = snap]
      /\ Sends({To(to, f)}, Present)
      /\ UNCHANGED <<client, holds, active, commands>>
  BY DEF Advances
<1>3. f \in Frames
  BY <1>1 DEF Frames
<1>. HIDE DEF f
<1>4. down' \in Wires /\ losses' \in 0..MaxLosses
  BY <1>2, <1>3, HubRefers, SendsOne
<1>5. /\ transfer' \in Transfers
      /\ transfer'.source = transfer.source /\ transfer'.target = transfer.target
      /\ transfer'.controller = transfer.controller
  BY <1>1, <1>2 DEF Transfers
<1>. QED
  BY <1>2, <1>4, <1>5, HubRefers, HubRefersOn DEF HubTypes

\* A transfer that is given up.
LEMMA AbortKeeps ==
  ASSUME PlaybackInv, PlayersKeep, up' \in Wires, NEW t \in Transfers, NEW resume \in BOOLEAN,
         Aborts(t, resume, Present), UNCHANGED <<client, holds, active, commands>>
  PROVE  PlaybackInv'
<1>1. transfer' = NoTransfer /\ down' \in Wires /\ losses' \in 0..MaxLosses
  BY HubRefers, AbortsTypes
<1>. QED
  BY <1>1, HubRefers, HubRefersOn DEF HubTypes

LEMMA TransferStepsKeep ==
  ASSUME PlaybackInv, NEW c \in Conns, HubSnapshot(c) \/ HubReady(c) \/ HubSourcePaused(c)
  PROVE  PlaybackInv'
<1>1. /\ up' \in Wires /\ PlayersKeep
      /\ HubSnapshot(c) \/ HubSourcePaused(c) => Head(up[c]).snap \in Snapshots
  BY HubRefers, TakesTypes, FrameFields DEF HubSnapshot, HubReady, HubSourcePaused, TakesRegistered
<1>2. CASE HubKeeps
  BY <1>1, <1>2, HubKeepsInv
<1>3. CASE HubSnapshot(c) /\ ~HubKeeps
  <2>1. Advances("Prepare", Head(up[c]).snap, transfer.target, "INITIALIZE_PLAYER") /\ transfer # NoTransfer
    BY <1>3 DEF HubSnapshot, Expected
  <2>. QED
    BY <1>1, <1>3, <2>1, AdvancesKeeps
<1>4. CASE HubReady(c) /\ ~HubKeeps
  <2>1. Advances("Pause", transfer.snap, transfer.source, "PAUSE_FOR_TRANSFER") /\ transfer # NoTransfer
    BY <1>4 DEF HubReady, Expected
  <2>2. transfer.snap \in Snapshots
    BY <2>1, HubRefers DEF Transfers
  <2>. QED
    BY <1>1, <2>1, <2>2, AdvancesKeeps
<1>5. CASE HubSourcePaused(c) /\ ~HubKeeps
  <2> DEFINE snap == Head(up[c]).snap
             t == [transfer EXCEPT !.snap = snap]
  <2>1. /\ transfer # NoTransfer
        /\ \/ Advances("Start", snap, transfer.target, "START_TRANSFER")
           \/ Aborts(t, TRUE, Present) /\ UNCHANGED <<client, holds, active, commands>>
    BY <1>5 DEF HubSourcePaused, Expected
  <2>2. t \in Transfers /\ snap \in Snapshots
    BY <1>1, <1>5, <2>1, HubRefers DEF Transfers
  <2>. HIDE DEF t, snap
  <2>. QED
    BY <1>1, <2>1, <2>2, AdvancesKeeps, AbortKeeps
<1>. QED
  BY <1>2, <1>3, <1>4, <1>5

LEMMA StartedKeeps ==
  ASSUME PlaybackInv, NEW c \in Conns, HubStarted(c)
  PROVE  PlaybackInv'
<1>1. up' \in Wires /\ c \in Registered /\ PlayersKeep
  BY HubRefers, TakesTypes DEF HubStarted, TakesRegistered, Registered
<1>2. CASE HubKeeps
  BY <1>1, <1>2, HubKeepsInv
<1>3. CASE ~HubKeeps
  <2> DEFINE f == [type |-> "TRANSFER_COMPLETE", id |-> transfer.id]
  <2>1. /\ transfer # NoTransfer /\ transfer' = NoTransfer
        /\ active' = c /\ holds' = holds \cup {c}
        /\ Sends({To(x, f) : x \in {transfer.source, transfer.target}}, Present)
        /\ UNCHANGED <<client, commands>>
    BY <1>3 DEF HubStarted, Expected
  <2>2. f \in Frames
    BY <2>1, HubRefers DEF Frames, Transfers
  <2>. HIDE DEF f
  <2>3. {To(x, f) : x \in {transfer.source, transfer.target}}
          = {To(transfer.source, f)} \cup {To(transfer.target, f)}
    OBVIOUS
  <2>4. IsFiniteSet({To(transfer.source, f)})
    BY FS_Singleton
  <2>5. IsFiniteSet({To(transfer.source, f)} \cup {To(transfer.target, f)})
    BY <2>4, FS_AddElement
  <2>6. \A g \in {To(x, f) : x \in {transfer.source, transfer.target}} : g.frame \in Frames
    BY <2>2 DEF To
  <2>7. down' \in Wires /\ losses' \in 0..MaxLosses
    BY <2>1, <2>3, <2>5, <2>6, HubRefers, SendsTypes
  <2>. QED
    BY <1>1, <2>1, <2>7, HubRefers, HubRefersOn DEF HubTypes
<1>. QED
  BY <1>2, <1>3

LEMMA FailedKeeps ==
  ASSUME PlaybackInv, NEW c \in Conns, HubFailed(c)
  PROVE  PlaybackInv'
<1>1. up' \in Wires /\ PlayersKeep
  BY HubRefers, TakesTypes DEF HubFailed, TakesRegistered
<1>2. CASE HubKeeps
  BY <1>1, <1>2, HubKeepsInv
<1>3. CASE ~HubKeeps
  <2> DEFINE resume == c = transfer.target /\ transfer.stage = "Start"
  <2>1. /\ transfer # NoTransfer
        /\ Aborts(transfer, resume, Present) /\ UNCHANGED <<client, holds, active, commands>>
    BY <1>3 DEF HubFailed, IsPlayerOf
  <2>2. resume \in BOOLEAN
    OBVIOUS
  <2>. HIDE DEF resume
  <2>. QED
    BY <1>1, <2>1, <2>2, HubRefers, AbortKeeps
<1>. QED
  BY <1>2, <1>3

LEMMA ConnectionsEnd ==
  ASSUME PlaybackInv, NEW c \in Conns, HubSeesClose(c) \/ HubEndsConnection(c)
  PROVE  PlaybackInv'
<1>0. HubTypes /\ up \in Wires /\ UnopenedAbsent
  BY PlaybackParts DEF PlaybackInv
<1>1. CASE HubSeesClose(c)
  <2>1. /\ HubTypes' /\ down' \in Wires /\ losses' \in 0..MaxLosses /\ HubRefersToClients'
        /\ \A x \in Conns : client[x] = "absent" => client'[x] = "absent"
    BY <1>1, Disconnected DEF HubSeesClose
  <2>2. UnopenedAbsent'
    BY <1>0, <1>1, <2>1 DEF UnopenedAbsent, HubSeesClose, PlayersKeep
  <2>. QED
    BY <1>0, <1>1, <2>1, <2>2, HubStepsKeep DEF HubSeesClose
<1>2. CASE HubEndsConnection(c)
  <2>1. up' \in Wires
    BY <1>0, <1>2, EmptySeq DEF HubEndsConnection, Wires
  <2>. QED
    BY <1>2, <2>1, HubKeepsInv DEF HubEndsConnection
<1>. QED
  BY <1>1, <1>2

LEMMA HubKeepsPlayback ==
  ASSUME PlaybackInv, NEW c \in Conns, Hub(c)
  PROVE  PlaybackInv'
BY RegisterKeeps, StateKeeps, CommandKeeps, TransferKeeps, TransferStepsKeep, StartedKeeps,
   FailedKeeps, ConnectionsEnd DEF Hub

-----------------------------------------------------------------------------
(* The players.                                                            *)

\* A player does not touch the hub: only types are to be shown.
LEMMA PlayerStepsKeep ==
  ASSUME PlaybackInv, UNCHANGED hubVars, opened' = opened, up' \in Wires, down' \in Wires,
         PlayerTypes', CounterTypes'
  PROVE  PlaybackInv'
<1>1. HubTypes' /\ UnopenedAbsent' /\ HubRefersToClients'
  BY PlaybackParts
  DEF PlaybackInv, hubVars, HubTypes, UnopenedAbsent, HubRefersToClients, Registered
<1>. QED
  BY <1>1, PlaybackParts DEF PlaybackInv, PlaybackTypeOK, HubTypes, Transfers, Wires, PlayerTypes, CounterTypes

\* A reply goes to the connection of the player, if it has one.
LEMMA RepliesTypes ==
  ASSUME PlaybackTypeOK, NEW p \in Players, NEW f \in Frames, Replies(p, f)
  PROVE  up' \in Wires
<1>1. up \in Wires /\ socket[p] \in Conns \cup {Offline}
  BY PlaybackParts DEF PlayerTypes
<1>2. CASE socket[p] \in Conns
  <2>1. Append(up[socket[p]], f) \in Seq(Frames)
    BY <1>1, <1>2, AppendProperties DEF Wires
  <2>. QED
    BY <1>1, <1>2, <2>1 DEF Replies, Wires
<1>3. CASE socket[p] \notin Conns
  BY <1>1, <1>3 DEF Replies, Wires
<1>. QED
  BY <1>2, <1>3

\* What a player hears is a frame.
LEMMA HearsTypes ==
  ASSUME PlaybackTypeOK, NEW p \in Players, NEW type, Hears(p, type)
  PROVE  down' \in Wires /\ Heard(p) \in Frames /\ Heard(p).type = type
<1>1. down \in Wires /\ socket[p] \in Conns
  BY PlaybackParts DEF PlayerTypes, Hears
<1>2. /\ down[socket[p]] \in Seq(Frames) /\ down[socket[p]] # <<>>
      /\ down' = [down EXCEPT ![socket[p]] = Tail(down[socket[p]])]
  BY <1>1 DEF Hears, Wires
<1>3. Head(down[socket[p]]) \in Frames /\ Tail(down[socket[p]]) \in Seq(Frames)
  BY <1>2, HeadTailProperties
<1>. QED
  BY <1>1, <1>2, <1>3 DEF Hears, Heard, Wires

\* cancelPreparation.
LEMMA CancelTypes ==
  ASSUME PlaybackTypeOK, NEW p \in Players
  PROVE  /\ CancelledPlaying(p) \in BOOLEAN
         /\ CancelledTasks(p) \subseteq tasks[p]
         /\ tasks[p] \subseteq [id : Ids, does : {"prepare", "start", "check"}, snap : Snapshots]
         /\ queue[p] \in Queues /\ playing[p] \in BOOLEAN
         /\ [queue |-> queue[p], playing |-> CancelledPlaying(p)] \in Snapshots
         /\ Capture(p) \in Snapshots
<1>1. playing[p] \in BOOLEAN /\ queue[p] \in Queues /\ CancelledPlaying(p) \in BOOLEAN
  BY DEF PlaybackTypeOK, CancelledPlaying
<1>. QED
  BY <1>1 DEF PlaybackTypeOK, CancelledTasks, Capture, Snapshots

Preparations == {Unprepared} \cup [id : Ids, role : {"source", "target"}, paused : BOOLEAN]
TaskRecords == [id : Ids, does : {"prepare", "start", "check"}, snap : Snapshots]

\* A frame that is heard changes what the player plays, prepares and works at.
LEMMA HeardKeeps ==
  ASSUME PlaybackInv, NEW p \in Players, NEW type, Hears(p, type),
         up' \in Wires, queue' = queue, plays' \in BOOLEAN,
         playing' \in [Players -> BOOLEAN], prepared' \in [Players -> Preparations],
         tasks' \in [Players -> SUBSET TaskRecords]
  PROVE  PlaybackInv'
<1>1. PlaybackTypeOK /\ PlayerTypes /\ CounterTypes
  BY PlaybackParts DEF PlaybackInv
<1>2. down' \in Wires
  BY <1>1, HearsTypes
<1>3. UNCHANGED <<hubVars, opened, asks, losses, socket, shown, changes>>
  BY DEF Hears, HubStays
<1>4. PlayerTypes'
  BY <1>1, <1>3 DEF PlayerTypes, Preparations, TaskRecords
<1>5. CounterTypes'
  BY <1>1, <1>3 DEF CounterTypes
<1>. QED
  BY <1>2, <1>3, <1>4, <1>5, PlayerStepsKeep

LEMMA ListensKeeps ==
  ASSUME PlaybackInv, NEW p \in Players, Listens(p)
  PROVE  PlaybackInv'
<1>0. /\ PlaybackTypeOK /\ up \in Wires /\ plays \in BOOLEAN
      /\ playing \in [Players -> BOOLEAN] /\ prepared \in [Players -> Preparations]
      /\ tasks \in [Players -> SUBSET TaskRecords]
  BY PlaybackParts DEF PlaybackInv, PlayerTypes, CounterTypes, Preparations, TaskRecords
<1>1. /\ CancelledPlaying(p) \in BOOLEAN /\ CancelledTasks(p) \subseteq TaskRecords
      /\ [queue |-> queue[p], playing |-> CancelledPlaying(p)] \in Snapshots
      /\ Capture(p) \in Snapshots
  BY <1>0, CancelTypes DEF TaskRecords
<1>2. CASE PlayerSnapshot(p)
  <2>1. Heard(p).id \in Ids
    BY <1>0, <1>2, HearsTypes, FrameFields DEF PlayerSnapshot
  <2>2. up' \in Wires
    <3>1. /\ [type |-> "TRANSFER_FAILED", id |-> Heard(p).id] \in Frames
          /\ [type |-> "SNAPSHOT", id |-> Heard(p).id,
              snap |-> [queue |-> queue[p], playing |-> CancelledPlaying(p)]] \in Frames
      BY <1>1, <2>1 DEF Frames
    <3>. QED
      BY <1>0, <1>2, <3>1, RepliesTypes DEF PlayerSnapshot
  <2>3. /\ playing' \in [Players -> BOOLEAN] /\ prepared' \in [Players -> Preparations]
        /\ tasks' \in [Players -> SUBSET TaskRecords]
    BY <1>0, <1>1, <1>2, <2>1 DEF PlayerSnapshot, Set, Preparations
  <2>. QED
    BY <1>0, <1>2, <2>2, <2>3, HeardKeeps DEF PlayerSnapshot
<1>3. CASE PlayerInitialize(p)
  <2>1. Heard(p).id \in Ids /\ Heard(p).snap \in Snapshots
    BY <1>0, <1>3, HearsTypes, FrameFields DEF PlayerInitialize
  <2>2. /\ playing' \in [Players -> BOOLEAN] /\ prepared' \in [Players -> Preparations]
        /\ tasks' \in [Players -> SUBSET TaskRecords]
    BY <1>0, <1>1, <1>3, <2>1 DEF PlayerInitialize, Set, Preparations, TaskRecords
  <2>. QED
    BY <1>0, <1>3, <2>2, HeardKeeps DEF PlayerInitialize
<1>4. CASE PlayerPause(p)
  <2>1. Heard(p).id \in Ids
    BY <1>0, <1>4, HearsTypes, FrameFields DEF PlayerPause
  <2>2. up' \in Wires
    <3>1. /\ [type |-> "TRANSFER_FAILED", id |-> Heard(p).id] \in Frames
          /\ [type |-> "SOURCE_PAUSED", id |-> Heard(p).id, snap |-> Capture(p)] \in Frames
      BY <1>1, <2>1 DEF Frames
    <3>. QED
      BY <1>0, <1>4, <3>1, RepliesTypes DEF PlayerPause
  <2>3. playing' \in [Players -> BOOLEAN]
    BY <1>0, <1>4 DEF PlayerPause, Set
  <2>4. prepared' \in [Players -> Preparations]
    <3>1. CASE prepared' = prepared
      BY <1>0, <3>1
    <3>2. CASE prepared' # prepared
      <4>1. prepared[p].role = "source" /\ prepared' = [prepared EXCEPT ![p].paused = TRUE]
        BY <1>4, <3>2 DEF PlayerPause
      <4>2. prepared[p] \in [id : Ids, role : {"source", "target"}, paused : BOOLEAN]
        BY <1>0, <4>1 DEF Preparations, Unprepared
      <4>. QED
        BY <1>0, <4>1, <4>2 DEF Preparations
    <3>. QED
      BY <3>1, <3>2
  <2>. QED
    BY <1>0, <1>4, <2>2, <2>3, <2>4, HeardKeeps DEF PlayerPause
<1>5. CASE PlayerStart(p)
  <2>1. Heard(p).id \in Ids /\ Heard(p).snap \in Snapshots
    BY <1>0, <1>5, HearsTypes, FrameFields DEF PlayerStart
  <2>2. tasks' \in [Players -> SUBSET TaskRecords]
    BY <1>0, <1>5, <2>1 DEF PlayerStart, Set, TaskRecords
  <2>. QED
    BY <1>0, <1>5, <2>2, HeardKeeps DEF PlayerStart
<1>6. CASE PlayerAbort(p)
  <2>1. /\ playing' \in [Players -> BOOLEAN] /\ prepared' \in [Players -> Preparations]
        /\ tasks' \in [Players -> SUBSET TaskRecords]
    BY <1>0, <1>1, <1>6 DEF PlayerAbort, Set, Preparations
  <2>. QED
    BY <1>0, <1>6, <2>1, HeardKeeps DEF PlayerAbort
<1>7. CASE PlayerComplete(p)
  <2>1. prepared' \in [Players -> Preparations]
    BY <1>0, <1>7 DEF PlayerComplete, Set, Preparations
  <2>. QED
    BY <1>0, <1>7, <2>1, HeardKeeps DEF PlayerComplete
<1>8. CASE PlayerDeactivate(p)
  <2>1. playing' \in [Players -> BOOLEAN]
    BY <1>0, <1>8 DEF PlayerDeactivate, Set
  <2>. QED
    BY <1>0, <1>8, <2>1, HeardKeeps DEF PlayerDeactivate
<1>9. CASE PlayerExecute(p)
  <2>1. [type |-> "COMMAND_RESULT", id |-> Heard(p).id] \in Frames
    BY <1>0, <1>9, HearsTypes, FrameFields, Heard(p).id \in Ids DEF PlayerExecute, Frames
  <2>2. up' \in Wires
    BY <1>0, <1>9, <2>1, RepliesTypes DEF PlayerExecute
  <2>3. playing' \in [Players -> BOOLEAN] /\ plays' \in BOOLEAN
    BY <1>0, <1>9 DEF PlayerExecute, Set
  <2>. QED
    BY <1>0, <1>9, <2>2, <2>3, HeardKeeps DEF PlayerExecute
<1>. QED
  BY <1>2, <1>3, <1>4, <1>5, <1>6, <1>7, <1>8, <1>9 DEF Listens

\* prepare and start, whenever they come to their end.
LEMMA WorksKeeps ==
  ASSUME PlaybackInv, NEW p \in Players, NEW t \in tasks[p],
         PlayerPrepared(p, t) \/ PlayerPlays(p, t) \/ PlayerStarted(p, t) \/ PlayerStartFails(p, t)
  PROVE  PlaybackInv'
<1>0. PlaybackTypeOK /\ up \in Wires /\ down \in Wires /\ PlayerTypes /\ CounterTypes
  BY PlaybackParts DEF PlaybackInv
<1>1. t \in TaskRecords /\ t.id \in Ids /\ t.snap.queue \in Queues /\ t.snap.playing \in BOOLEAN
  BY <1>0 DEF PlayerTypes, TaskRecords, Snapshots
<1>2. /\ UNCHANGED <<hubVars, opened, asks, losses, down, socket, shown, changes, plays, prepared>>
  BY DEF PlayerPrepared, PlayerPlays, PlayerStarted, PlayerStartFails, Works, HubStays
<1>3. up' \in Wires
  <2>1. /\ [type |-> "READY", id |-> t.id] \in Frames
        /\ [type |-> "TRANSFER_FAILED", id |-> t.id] \in Frames
        /\ [type |-> "STARTED", id |-> t.id] \in Frames
    BY <1>1 DEF Frames
  <2>. QED
    BY <1>0, <2>1, RepliesTypes DEF PlayerPrepared, PlayerPlays, PlayerStarted, PlayerStartFails
<1>4. queue' \in [Players -> Queues]
  BY <1>0, <1>1 DEF PlayerTypes, PlayerPrepared, PlayerPlays, PlayerStarted, PlayerStartFails, Set
<1>5. playing' \in [Players -> BOOLEAN]
  BY <1>0, <1>1 DEF PlayerTypes, PlayerPrepared, PlayerPlays, PlayerStarted, PlayerStartFails, Set
<1>6. tasks' \in [Players -> SUBSET TaskRecords]
  <2>1. [t EXCEPT !.does = "check"] \in TaskRecords
    BY <1>1 DEF TaskRecords
  <2>2. tasks \in [Players -> SUBSET TaskRecords]
    BY <1>0 DEF PlayerTypes, TaskRecords
  <2>. QED
    BY <2>1, <2>2 DEF PlayerPrepared, PlayerPlays, PlayerStarted, PlayerStartFails, Set
<1>7. PlayerTypes'
  BY <1>0, <1>2, <1>4, <1>5, <1>6 DEF PlayerTypes, TaskRecords
<1>8. CounterTypes'
  BY <1>0, <1>2 DEF CounterTypes
<1>. QED
  BY <1>0, <1>2, <1>3, <1>7, <1>8, PlayerStepsKeep

\* publishState tells the hub, or nobody.
LEMMA PublishKeeps ==
  ASSUME PlaybackInv, NEW p \in Players, Publish(p)
  PROVE  PlaybackInv'
<1> DEFINE next == [holds |-> queue[p] # 0, playing |-> playing[p],
                    lastPlaying |-> IF prepared[p] = Unprepared THEN playing[p] ELSE shown[p].lastPlaying]
           claim == playing[p] /\ ~shown[p].lastPlaying /\ prepared[p] = Unprepared
<1>0. PlaybackTypeOK /\ up \in Wires /\ down \in Wires /\ PlayerTypes /\ CounterTypes
  BY PlaybackParts DEF PlaybackInv
<1>1. next \in [holds : BOOLEAN, playing : BOOLEAN, lastPlaying : BOOLEAN]
  BY <1>0 DEF PlayerTypes
<1>2. [type |-> "STATE", holds |-> next.holds, claim |-> claim] \in Frames
  <2>1. next.holds \in BOOLEAN /\ claim \in BOOLEAN
    BY <1>1
  <2>. HIDE DEF next, claim
  <2>. QED
    BY <2>1 DEF Frames
<1>3. /\ shown' = Set(shown, p, next)
      /\ Replies(p, [type |-> "STATE", holds |-> next.holds, claim |-> claim]) \/ up' = up
      /\ UNCHANGED <<hubVars, opened, asks, losses, down, socket, playing, queue, prepared, tasks,
                     changes, plays>>
  BY DEF Publish, HubStays
<1>. HIDE DEF next, claim
<1>4. up' \in Wires
  BY <1>0, <1>2, <1>3, RepliesTypes
<1>5. PlayerTypes'
  BY <1>0, <1>1, <1>3 DEF PlayerTypes, Set
<1>6. CounterTypes'
  BY <1>0, <1>3 DEF CounterTypes
<1>. QED
  BY <1>0, <1>3, <1>4, <1>5, <1>6, PlayerStepsKeep

\* The next connection is nobody's until its player registers.
LEMMA ConnectKeeps ==
  ASSUME PlaybackInv, NEW p \in Players, Connect(p)
  PROVE  PlaybackInv'
<1> DEFINE f == [type |-> "REGISTER", player |-> p, holds |-> queue[p] # 0]
<1>0. /\ PlaybackTypeOK /\ HubTypes /\ up \in Wires /\ down \in Wires /\ PlayerTypes /\ CounterTypes
      /\ UnopenedAbsent /\ HubRefersToClients
  BY PlaybackParts DEF PlaybackInv
<1>1. /\ opened < MaxConns /\ opened' = opened + 1
      /\ socket' = Set(socket, p, opened') /\ shown' = Set(shown, p, NothingShown)
      /\ client' = [client EXCEPT ![opened'] = "new"]
      /\ up' = [up EXCEPT ![opened'] = <<f>>]
      /\ UNCHANGED <<holds, active, transfer, commands, down, playing, queue, prepared, tasks,
                     asks, changes, losses, plays>>
  BY DEF Connect, HubConnects
<1>2. opened' \in Conns /\ opened' \in 0..MaxConns /\ opened' > opened
  BY <1>0, <1>1, PlaybackBoundsAssumption DEF CounterTypes, Conns
<1>3. client[opened'] = "absent"
  BY <1>0, <1>2 DEF UnopenedAbsent
<1>4. f \in Frames
  BY DEF Frames
<1>. HIDE DEF f
<1>5. up' \in Wires
  <2>1. <<f>> \in Seq(Frames)
    BY <1>4
  <2>. QED
    BY <1>0, <1>1, <1>2, <2>1 DEF Wires
<1>6. HubTypes'
  BY <1>0, <1>1, <1>2 DEF HubTypes
<1>7. UnopenedAbsent'
  <2>1. opened \in Nat /\ \A c \in Conns : c \in Nat
    BY <1>0, PlaybackBoundsAssumption DEF CounterTypes, Conns
  <2>. QED
    BY <1>0, <1>1, <1>2, <2>1 DEF UnopenedAbsent, HubTypes
<1>8. HubRefersToClients'
  <2>1. Registered' = Registered
    BY <1>0, <1>1, <1>2, <1>3, PlaybackBoundsAssumption DEF Registered, HubTypes
  <2>. QED
    BY <1>0, <1>1, <2>1 DEF HubRefersToClients
<1>9. PlayerTypes'
  BY <1>0, <1>1, <1>2 DEF PlayerTypes, Set, NothingShown
<1>10. CounterTypes'
  BY <1>0, <1>1, <1>2 DEF CounterTypes
<1>. QED
  BY <1>0, <1>1, <1>5, <1>6, <1>7, <1>8, <1>9, <1>10, PlaybackParts
  DEF PlaybackInv, PlaybackTypeOK, HubTypes, Transfers, Wires, PlayerTypes, CounterTypes

\* A socket that closes gives the preparations of its player up.
LEMMA LeavesTypes ==
  ASSUME PlaybackTypeOK, NEW p \in Players,
         socket' = Set(socket, p, Offline), playing' = Set(playing, p, CancelledPlaying(p)),
         prepared' = Set(prepared, p, Unprepared), tasks' = Set(tasks, p, CancelledTasks(p)),
         UNCHANGED <<queue, shown>>
  PROVE  PlayerTypes'
<1>1. PlayerTypes
  BY PlaybackParts
<1>2. /\ CancelledPlaying(p) \in BOOLEAN
      /\ CancelledTasks(p) \subseteq [id : Ids, does : {"prepare", "start", "check"}, snap : Snapshots]
  BY CancelTypes
<1>. QED
  BY <1>1, <1>2 DEF PlayerTypes, Set

LEMMA DisconnectKeeps ==
  ASSUME PlaybackInv, NEW p \in Players, Disconnect(p)
  PROVE  PlaybackInv'
<1>0. PlaybackTypeOK /\ up \in Wires /\ down \in Wires /\ PlayerTypes /\ CounterTypes
  BY PlaybackParts DEF PlaybackInv
<1>1. socket[p] \in Conns
  BY <1>0 DEF Disconnect, PlayerTypes
<1>2. PICK n \in {0, Len(up[socket[p]])} :
        up' = [up EXCEPT ![socket[p]] = SubSeq(up[socket[p]], 1, n)]
  BY DEF Disconnect
<1>3. SubSeq(up[socket[p]], 1, n) \in Seq(Frames)
  <2>1. up[socket[p]] \in Seq(Frames)
    BY <1>0, <1>1 DEF Wires
  <2>2. CASE n = 0
    BY <2>2, SubSeqEmpty, EmptySeq
  <2>3. CASE n = Len(up[socket[p]])
    BY <2>1, <2>3, SubSeqFull
  <2>. QED
    BY <2>2, <2>3
<1>4. up' \in Wires
  BY <1>0, <1>2, <1>3 DEF Wires
<1>5. down' \in Wires
  BY <1>0, EmptySeq DEF Disconnect, Wires
<1>6. PlayerTypes'
  BY <1>0, LeavesTypes DEF Disconnect
<1>7. CounterTypes' /\ UNCHANGED hubVars /\ opened' = opened
  BY <1>0 DEF Disconnect, HubStays, CounterTypes
<1>. QED
  BY <1>4, <1>5, <1>6, <1>7, PlayerStepsKeep

LEMMA SessionExpiresKeeps ==
  ASSUME PlaybackInv, NEW p \in Players, SessionExpires(p)
  PROVE  PlaybackInv'
<1>0. /\ PlaybackTypeOK /\ up \in Wires /\ PlayerTypes /\ CounterTypes /\ UnopenedAbsent
      /\ socket[p] \in Conns
  BY PlaybackParts DEF PlaybackInv, SessionExpires, PlayerTypes
<1>1. /\ HubTypes' /\ down' \in Wires /\ losses' \in 0..MaxLosses /\ HubRefersToClients'
      /\ \A x \in Conns : client[x] = "absent" => client'[x] = "absent"
  BY <1>0, Disconnected DEF SessionExpires
<1>2. up' \in Wires
  BY <1>0, EmptySeq DEF SessionExpires, Wires
<1>3. PlayerTypes'
  BY <1>0, LeavesTypes DEF SessionExpires
<1>4. changes' \in 0..MaxChanges
  <2>1. changes < MaxChanges /\ changes' = changes + 1
    BY DEF SessionExpires
  <2>. QED
    BY <1>0, <2>1, PlaybackBoundsAssumption DEF CounterTypes
<1>5. CounterTypes' /\ UnopenedAbsent'
  BY <1>0, <1>1, <1>4 DEF SessionExpires, CounterTypes, UnopenedAbsent
<1>. QED
  BY <1>1, <1>2, <1>3, <1>5, PlaybackParts
  DEF PlaybackInv, PlaybackTypeOK, HubTypes, Transfers, Wires, PlayerTypes, CounterTypes

LEMMA AsksKeeps ==
  ASSUME PlaybackInv, NEW p \in Players, AsksCommand(p) \/ \E q \in Players : AsksTransfer(p, q)
  PROVE  PlaybackInv'
<1>0. PlaybackTypeOK /\ up \in Wires /\ down \in Wires /\ PlayerTypes /\ CounterTypes
  BY PlaybackParts DEF PlaybackInv
<1>1. /\ asks < MaxAsks /\ asks' = asks + 1
      /\ UNCHANGED <<hubVars, down, playerVars, opened, changes, losses, plays>>
      /\ \/ Replies(p, [type |-> "COMMAND", id |-> asks'])
         \/ \E q \in Players : Replies(p, [type |-> "TRANSFER_PLAYBACK", id |-> asks', target |-> q])
  BY DEF AsksCommand, AsksTransfer
<1>2. asks' \in Ids /\ asks' \in 0..MaxAsks
  BY <1>0, <1>1, PlaybackBoundsAssumption DEF CounterTypes, Ids
<1>3. up' \in Wires
  <2>1. /\ [type |-> "COMMAND", id |-> asks'] \in Frames
        /\ \A q \in Players : [type |-> "TRANSFER_PLAYBACK", id |-> asks', target |-> q] \in Frames
    BY <1>2 DEF Frames
  <2>. QED
    BY <1>0, <1>1, <2>1, RepliesTypes
<1>4. PlayerTypes' /\ CounterTypes'
  BY <1>0, <1>1, <1>2 DEF PlayerTypes, CounterTypes, playerVars
<1>. QED
  BY <1>0, <1>1, <1>3, <1>4, PlayerStepsKeep

LEMMA ListenerKeeps ==
  ASSUME PlaybackInv, NEW p \in Players, Listener(p)
  PROVE  PlaybackInv'
<1>0. PlaybackTypeOK /\ up \in Wires /\ down \in Wires /\ PlayerTypes /\ CounterTypes
  BY PlaybackParts DEF PlaybackInv
<1>1. /\ changes < MaxChanges /\ changes' = changes + 1
      /\ queue' = Set(queue, p, changes + 2) \/ queue' = queue
      /\ playing' = playing \/ playing' = Set(playing, p, TRUE) \/ playing' = Set(playing, p, FALSE)
      /\ plays' = plays \/ plays' = TRUE
      /\ UNCHANGED <<hubVars, opened, asks, losses, up, down, socket, prepared, tasks, shown>>
  BY DEF Listener, HubStays, wires
<1>2. changes' \in 0..MaxChanges /\ changes + 2 \in Queues
  BY <1>0, <1>1, PlaybackBoundsAssumption DEF CounterTypes, Queues
<1>3. queue' \in [Players -> Queues] /\ playing' \in [Players -> BOOLEAN]
  BY <1>0, <1>1, <1>2 DEF PlayerTypes, Set
<1>4. plays' \in BOOLEAN
  BY <1>0, <1>1 DEF CounterTypes
<1>5. PlayerTypes' /\ CounterTypes'
  BY <1>0, <1>1, <1>2, <1>3, <1>4 DEF PlayerTypes, CounterTypes
<1>. QED
  BY <1>0, <1>1, <1>5, PlayerStepsKeep

LEMMA PlaybackInductive == PlaybackInv /\ [PlaybackNext]_playbackVars => PlaybackInv'
<1> SUFFICES ASSUME PlaybackInv, [PlaybackNext]_playbackVars PROVE PlaybackInv'
  OBVIOUS
<1>1. CASE UNCHANGED playbackVars
  <2>1. PlaybackTypeOK'
    BY <1>1 DEF playbackVars, hubVars, wires, playerVars, counters, PlaybackInv, PlaybackTypeOK
  <2>2. UnopenedAbsent' /\ HubRefersToClients'
    BY <1>1 DEF playbackVars, hubVars, counters, PlaybackInv, UnopenedAbsent, HubRefersToClients, Registered
  <2>. QED
    BY <2>1, <2>2 DEF PlaybackInv
<1>2. CASE \E c \in Conns : Hub(c)
  BY <1>2, HubKeepsPlayback
<1>3. CASE \E p \in Players : Handles(p)
  BY <1>3, ListensKeeps, WorksKeeps DEF Handles
<1>4. CASE \E p \in Players : Publish(p) \/ Connect(p) \/ Disconnect(p) \/ SessionExpires(p)
  BY <1>4, PublishKeeps, ConnectKeeps, DisconnectKeeps, SessionExpiresKeeps
<1>5. CASE \E p \in Players : AsksCommand(p) \/ Listener(p) \/ \E q \in Players : AsksTransfer(p, q)
  BY <1>5, AsksKeeps, ListenerKeeps
<1>. QED
  BY <1>1, <1>2, <1>3, <1>4, <1>5 DEF PlaybackNext

LEMMA PlaybackInvariant == PlaybackSpec => []PlaybackInv
  BY PlaybackInitially, PlaybackInductive, PTL DEF PlaybackSpec

\* The hub, the frames on their way and the players keep their types.
THEOREM PlaybackTypes == PlaybackSpec => []PlaybackTypeOK
<1>1. PlaybackInv => PlaybackTypeOK
  BY DEF PlaybackInv
<1>. QED
  BY <1>1, PlaybackInvariant, PTL

\* For every number of players and connections, and whatever is lost, closed,
\* replaced or expires: the hub refers to registered clients only.
THEOREM NothingWaitsForTheGone == PlaybackSpec => []HubRefersToClients
<1>1. PlaybackInv => HubRefersToClients
  BY DEF PlaybackInv
<1>. QED
  BY <1>1, PlaybackInvariant, PTL

-----------------------------------------------------------------------------
(* Counting frames.  A set of places is counted, a frame of a connection   *)
(* is a place and so is a task of a player.                                *)

\* One, if x is in S.
In(x, S) == IF x \in S THEN 1 ELSE 0

\* The places of the frames of S on the wires W, and of the tasks of S.
Marked(W, S) == {x \in Conns \X Nat : x[2] \in DOMAIN W[x[1]] /\ W[x[1]][x[2]] \in S}
WorkingPairs(K, S) == {x \in Players \X TaskRecords : x[2] \in K[x[1]] /\ x[2] \in S}

Count(W, S) == Cardinality(Marked(W, S))
CountTasks(K, S) == Cardinality(WorkingPairs(K, S))

\* Finitely many frames are under way.
LEMMA MarkedFinite ==
  ASSUME NEW W \in Wires, NEW S
  PROVE  IsFiniteSet(Marked(W, S)) /\ Count(W, S) \in Nat
<1> DEFINE row == [c \in Conns |-> {c} \X (1..Len(W[c]))]
           rows == {row[c] : c \in Conns}
<1>1. IsFiniteSet(Conns)
  BY FS_Interval, PlaybackBoundsAssumption DEF Conns
<1>2. IsFiniteSet(rows)
  <2>1. row \in Surjection(Conns, rows)
    BY DEF Surjection
  <2>. QED
    BY <1>1, <2>1, FS_Surjection
<1>3. ASSUME NEW c \in Conns PROVE IsFiniteSet(row[c])
  <2>1. Len(W[c]) \in Nat
    BY DEF Wires
  <2>2. IsFiniteSet(1..Len(W[c])) /\ IsFiniteSet({c})
    <3>1. IsFiniteSet(1..Len(W[c]))
      BY <2>1, FS_Interval
    <3>. QED
      BY <3>1, FS_Singleton
  <2>3. IsFiniteSet({c} \X (1..Len(W[c])))
    BY <2>2, FS_Product
  <2>. QED
    BY <2>3
<1>4. IsFiniteSet(UNION rows)
  BY <1>2, <1>3, FS_UNION
<1>5. Marked(W, S) \subseteq UNION rows
  <2> SUFFICES ASSUME NEW x \in Marked(W, S) PROVE x \in row[x[1]] /\ x[1] \in Conns
    OBVIOUS
  <2>1. x \in Conns \X Nat /\ x[2] \in DOMAIN W[x[1]] /\ x[1] \in Conns
    BY DEF Marked
  <2>2. W[x[1]] \in Seq(Frames)
    BY <2>1 DEF Wires
  <2>3. x[2] \in 1..Len(W[x[1]])
    BY <2>1, <2>2
  <2>. QED
    BY <2>1, <2>3
<1>6. IsFiniteSet(Marked(W, S))
  BY <1>4, <1>5, FS_Subset
<1>. QED
  BY <1>6, FS_CardinalityType DEF Count

\* Frames that stay where they are, and some that go.
LEMMA CountKept ==
  ASSUME NEW W \in Wires, NEW V, NEW S, NEW T, NEW Z, Count(W, Z) = 0,
         \A c \in Conns : \A k \in DOMAIN V[c] :
           V[c][k] \in S => k \in DOMAIN W[c] /\ W[c][k] \in T \cup Z
  PROVE  Count(V, S) <= Count(W, T)
<1>1. Marked(W, Z) = {}
  BY MarkedFinite, FS_EmptySet DEF Count
<1>2. Marked(V, S) \subseteq Marked(W, T)
  <2> SUFFICES ASSUME NEW x \in Marked(V, S) PROVE x \in Marked(W, T)
    OBVIOUS
  <2>1. x \in Conns \X Nat /\ x[1] \in Conns /\ x[2] \in DOMAIN V[x[1]] /\ V[x[1]][x[2]] \in S
    BY DEF Marked
  <2>2. x[2] \in DOMAIN W[x[1]] /\ W[x[1]][x[2]] \in T \cup Z
    BY <2>1
  <2>3. x \notin Marked(W, Z)
    BY <1>1
  <2>. QED
    BY <2>1, <2>2, <2>3 DEF Marked
<1>. QED
  BY <1>2, MarkedFinite, FS_Subset DEF Count

\* No frame is in the empty set.
LEMMA CountNone ==
  ASSUME NEW W \in Wires
  PROVE  Count(W, {}) = 0
BY FS_EmptySet, Marked(W, {}) = {} DEF Count, Marked

\* The first frame of a connection is taken.
LEMMA CountTaken ==
  ASSUME NEW W \in Wires, NEW c \in Conns, W[c] # <<>>,
         NEW V, V = [W EXCEPT ![c] = Tail(W[c])], NEW S
  PROVE  Count(V, S) + In(Head(W[c]), S) <= Count(W, S)
<1> DEFINE A == Marked(V, S)
           B == Marked(W, S) \ {<<c, 1>>}
           g == [x \in A |-> IF x[1] = c THEN <<c, x[2] + 1>> ELSE x]
<1>1. /\ W[c] \in Seq(Frames) /\ Tail(W[c]) \in Seq(Frames)
      /\ Len(W[c]) \in Nat /\ Len(W[c]) >= 1
      /\ DOMAIN Tail(W[c]) = 1..(Len(W[c]) - 1) /\ DOMAIN W[c] = 1..Len(W[c])
      /\ \A k \in 1..(Len(W[c]) - 1) : Tail(W[c])[k] = W[c][k + 1]
      /\ Head(W[c]) = W[c][1]
  <2>1. W[c] \in Seq(Frames)
    BY DEF Wires
  <2>. QED
    BY <2>1, HeadTailProperties
<1>2. /\ \A d \in Conns : d # c => V[d] = W[d]
      /\ V[c] = Tail(W[c])
  BY DEF Wires
<1>3. ASSUME NEW x \in A PROVE g[x] \in B
  <2>1. x \in Conns \X Nat /\ x[2] \in DOMAIN V[x[1]] /\ V[x[1]][x[2]] \in S
    BY DEF Marked
  <2>2. CASE x[1] = c
    <3>0. x[2] \in DOMAIN Tail(W[c]) /\ Tail(W[c])[x[2]] \in S
      BY <1>2, <2>1, <2>2
    <3>1. x[2] \in 1..(Len(W[c]) - 1) /\ W[c][x[2] + 1] \in S
      BY <1>1, <3>0
    <3>2. x[2] + 1 \in DOMAIN W[c] /\ x[2] + 1 \in Nat /\ x[2] + 1 # 1
      BY <1>1, <3>1
    <3>3. <<c, x[2] + 1>> \in B
      BY <3>1, <3>2 DEF Marked
    <3>. QED
      BY <2>2, <3>3
  <2>3. CASE x[1] # c
    <3>1. x \in Marked(W, S) /\ x # <<c, 1>>
      BY <1>2, <2>1, <2>3 DEF Marked
    <3>. QED
      BY <2>3, <3>1
  <2>. QED
    BY <2>2, <2>3
<1>4. ASSUME NEW x \in A, NEW y \in A, g[x] = g[y] PROVE x = y
  <2>1. x \in Conns \X Nat /\ y \in Conns \X Nat
    BY DEF Marked
  <2>2. CASE x[1] = c
    <3>1. g[x] = <<c, x[2] + 1>>
      BY <2>2
    <3>2. y[1] = c
      BY <1>4, <2>1, <3>1
    <3>3. g[y] = <<c, y[2] + 1>>
      BY <3>2
    <3>4. x[2] = y[2]
      BY <1>4, <2>1, <3>1, <3>3
    <3>. QED
      BY <2>1, <2>2, <3>2, <3>4
  <2>3. CASE x[1] # c
    <3>1. g[x] = x
      BY <2>3
    <3>2. y[1] # c
      BY <1>4, <2>1, <2>3, <3>1
    <3>. QED
      BY <1>4, <3>1, <3>2
  <2>. QED
    BY <2>2, <2>3
<1>5. g \in Injection(A, B)
  BY <1>3, <1>4 DEF Injection, IsInjective
<1>6. IsFiniteSet(Marked(W, S)) /\ Count(W, S) \in Nat
  BY MarkedFinite
<1>7. /\ IsFiniteSet(B)
      /\ Cardinality(B) = IF <<c, 1>> \in Marked(W, S) THEN Count(W, S) - 1 ELSE Count(W, S)
  BY <1>6, FS_RemoveElement DEF Count
<1>8. Head(W[c]) \in S => <<c, 1>> \in Marked(W, S)
  BY <1>1 DEF Marked
<1>. HIDE DEF g, B, A
<1>9. Cardinality(A) <= Cardinality(B) /\ Cardinality(A) \in Nat
  BY <1>5, <1>7, FS_Injection, FS_CardinalityType
<1>10. Count(V, S) = Cardinality(A)
  BY DEF Count, A
<1>. QED
  BY <1>6, <1>7, <1>8, <1>9, <1>10 DEF In

\* At most one place more.
LEMMA OneMore ==
  ASSUME NEW W \in Wires, NEW V, NEW S, NEW x, Marked(V, S) \subseteq Marked(W, S) \cup {x}
  PROVE  Count(V, S) <= Count(W, S) + 1
<1>1. IsFiniteSet(Marked(W, S)) /\ Count(W, S) \in Nat
  BY MarkedFinite
<1>2. /\ IsFiniteSet(Marked(W, S) \cup {x})
      /\ Cardinality(Marked(W, S) \cup {x}) \in {Count(W, S), Count(W, S) + 1}
  BY <1>1, FS_AddElement DEF Count
<1>3. Count(V, S) <= Cardinality(Marked(W, S) \cup {x}) /\ Count(V, S) \in Nat
  BY <1>2, FS_Subset, FS_CardinalityType DEF Count
<1>. QED
  BY <1>1, <1>2, <1>3

\* A frame is put at the end of a connection.
LEMMA CountAppended ==
  ASSUME NEW W \in Wires, NEW c \in Conns, NEW f, NEW V, NEW S,
         V = [W EXCEPT ![c] = Append(W[c], f)]
  PROVE  Count(V, S) <= Count(W, S) + In(f, S)
<1>1. W[c] \in Seq(Frames) /\ Len(W[c]) \in Nat
  BY DEF Wires
<1>2. /\ DOMAIN V[c] = 1..(Len(W[c]) + 1) /\ DOMAIN W[c] = 1..Len(W[c])
      /\ \A k \in 1..Len(W[c]) : V[c][k] = W[c][k]
      /\ V[c][Len(W[c]) + 1] = f
      /\ \A d \in Conns : d # c => V[d] = W[d]
  BY <1>1, AppendProperties DEF Wires
<1>3. CASE f \in S
  <2>1. Marked(V, S) \subseteq Marked(W, S) \cup {<<c, Len(W[c]) + 1>>}
    BY <1>1, <1>2 DEF Marked
  <2>. QED
    BY <1>3, <2>1, OneMore DEF In
<1>4. CASE f \notin S
  <2>1. \A d \in Conns : \A k \in DOMAIN V[d] :
          V[d][k] \in S => k \in DOMAIN W[d] /\ W[d][k] \in S \cup {}
    BY <1>1, <1>2, <1>4
  <2>2. Count(V, S) <= Count(W, S) /\ Count(W, S) \in Nat
    BY <2>1, CountKept, CountNone, MarkedFinite
  <2>. QED
    BY <1>4, <2>2 DEF In
<1>. QED
  BY <1>3, <1>4

-----------------------------------------------------------------------------
(* Tasks, and who is heard.                                                *)

\* Finitely many tasks are under way.
LEMMA TasksFinite ==
  ASSUME NEW K, NEW S
  PROVE  IsFiniteSet(WorkingPairs(K, S)) /\ CountTasks(K, S) \in Nat
<1> DEFINE does == {"prepare", "start", "check"}
           qs == Queues \X BOOLEAN
           mkSnap == [x \in qs |-> [queue |-> x[1], playing |-> x[2]]]
           ts == (Ids \X does) \X Snapshots
           mkTask == [x \in ts |-> [id |-> x[1][1], does |-> x[1][2], snap |-> x[2]]]
<1>1. IsFiniteSet(Queues) /\ IsFiniteSet(Ids)
  BY FS_Interval, PlaybackBoundsAssumption DEF Queues, Ids
<1>2. IsFiniteSet(BOOLEAN) /\ IsFiniteSet(does)
  <2>1. IsFiniteSet({TRUE}) /\ IsFiniteSet({"prepare"})
    BY FS_Singleton
  <2>2. IsFiniteSet({TRUE} \cup {FALSE}) /\ IsFiniteSet({"prepare"} \cup {"start"})
    BY <2>1, FS_AddElement
  <2>3. IsFiniteSet(({"prepare"} \cup {"start"}) \cup {"check"})
    BY <2>2, FS_AddElement
  <2>4. does = ({"prepare"} \cup {"start"}) \cup {"check"} /\ BOOLEAN = {TRUE} \cup {FALSE}
    OBVIOUS
  <2>. QED
    BY <2>2, <2>3, <2>4
<1>3. IsFiniteSet(Snapshots)
  <2>1. IsFiniteSet(qs)
    BY <1>1, <1>2, FS_Product
  <2>2. mkSnap \in [qs -> Snapshots]
    BY DEF Snapshots
  <2>3. ASSUME NEW s \in Snapshots PROVE \E x \in qs : mkSnap[x] = s
    <3>1. s = [queue |-> s.queue, playing |-> s.playing] /\ <<s.queue, s.playing>> \in qs
      BY DEF Snapshots
    <3>. QED
      BY <3>1
  <2>4. mkSnap \in Surjection(qs, Snapshots)
    BY <2>2, <2>3 DEF Surjection
  <2>. QED
    BY <2>1, <2>4, FS_Surjection
<1>4. IsFiniteSet(TaskRecords)
  <2>1. IsFiniteSet(Ids \X does)
    BY <1>1, <1>2, FS_Product
  <2>2. IsFiniteSet(ts)
    BY <1>3, <2>1, FS_Product
  <2>3. mkTask \in [ts -> TaskRecords]
    BY DEF TaskRecords
  <2>4. ASSUME NEW s \in TaskRecords PROVE \E x \in ts : mkTask[x] = s
    <3>1. s = [id |-> s.id, does |-> s.does, snap |-> s.snap] /\ <<<<s.id, s.does>>, s.snap>> \in ts
      BY DEF TaskRecords
    <3>. QED
      BY <3>1
  <2>5. mkTask \in Surjection(ts, TaskRecords)
    BY <2>3, <2>4 DEF Surjection
  <2>. QED
    BY <2>2, <2>5, FS_Surjection
<1>5. IsFiniteSet(Players \X TaskRecords)
  BY <1>4, FS_Product, PlaybackBoundsAssumption
<1>6. IsFiniteSet(WorkingPairs(K, S))
  BY <1>5, FS_Subset DEF WorkingPairs
<1>. QED
  BY <1>6, FS_CardinalityType DEF CountTasks

\* Tasks that go on, and some that end.
LEMMA TasksKept ==
  ASSUME NEW K, NEW L, NEW S, NEW T, \A p \in Players : \A t \in TaskRecords :
           t \in L[p] /\ t \in S => t \in K[p] /\ t \in T
  PROVE  CountTasks(L, S) <= CountTasks(K, T)
<1>1. WorkingPairs(L, S) \subseteq WorkingPairs(K, T)
  BY DEF WorkingPairs
<1>. QED
  BY <1>1, TasksFinite, FS_Subset DEF CountTasks

\* A task is added.
LEMMA TaskAdded ==
  ASSUME NEW K, NEW L, NEW p \in Players, NEW u \in TaskRecords, NEW S,
         \A q \in Players : L[q] \subseteq IF q = p THEN K[p] \cup {u} ELSE K[q]
  PROVE  CountTasks(L, S) <= CountTasks(K, S) + In(u, S)
<1>0. IsFiniteSet(WorkingPairs(K, S)) /\ CountTasks(K, S) \in Nat
  BY TasksFinite
<1>1. CASE u \in S
  <2>1. WorkingPairs(L, S) \subseteq WorkingPairs(K, S) \cup {<<p, u>>}
    BY DEF WorkingPairs
  <2>2. /\ IsFiniteSet(WorkingPairs(K, S) \cup {<<p, u>>})
        /\ Cardinality(WorkingPairs(K, S) \cup {<<p, u>>}) \in {CountTasks(K, S), CountTasks(K, S) + 1}
    BY <1>0, FS_AddElement DEF CountTasks
  <2>3. CountTasks(L, S) <= Cardinality(WorkingPairs(K, S) \cup {<<p, u>>}) /\ CountTasks(L, S) \in Nat
    BY <2>1, <2>2, FS_Subset, TasksFinite DEF CountTasks
  <2>. QED
    BY <1>0, <1>1, <2>2, <2>3 DEF In
<1>2. CASE u \notin S
  BY <1>0, <1>2, TasksKept DEF In
<1>. QED
  BY <1>1, <1>2

\* A task comes to its end.
LEMMA TaskDone ==
  ASSUME NEW K, NEW L, NEW p \in Players, NEW t \in TaskRecords, t \in K[p], NEW S,
         \A q \in Players : L[q] \subseteq IF q = p THEN K[p] \ {t} ELSE K[q]
  PROVE  CountTasks(L, S) + In(t, S) <= CountTasks(K, S)
<1>0. IsFiniteSet(WorkingPairs(K, S)) /\ CountTasks(K, S) \in Nat /\ CountTasks(L, S) \in Nat
  BY TasksFinite
<1>1. CASE t \in S
  <2>1. WorkingPairs(L, S) \subseteq WorkingPairs(K, S) \ {<<p, t>>} /\ <<p, t>> \in WorkingPairs(K, S)
    BY <1>1 DEF WorkingPairs
  <2>2. /\ IsFiniteSet(WorkingPairs(K, S) \ {<<p, t>>})
        /\ Cardinality(WorkingPairs(K, S) \ {<<p, t>>}) = CountTasks(K, S) - 1
    BY <1>0, <2>1, FS_RemoveElement DEF CountTasks
  <2>3. CountTasks(L, S) <= Cardinality(WorkingPairs(K, S) \ {<<p, t>>})
    BY <2>1, <2>2, FS_Subset DEF CountTasks
  <2>. QED
    BY <1>0, <1>1, <2>2, <2>3 DEF In
<1>2. CASE t \notin S
  <2>1. CountTasks(L, S) <= CountTasks(K, S)
    BY TasksKept
  <2>. QED
    BY <1>0, <1>2, <2>1 DEF In
<1>. QED
  BY <1>1, <1>2

\* The players that are heard.
Audible(pl) == {p \in Players : pl[p]}

\* One player is set to play or not.
LEMMA AudibleSet ==
  ASSUME NEW pl \in [Players -> BOOLEAN], NEW p \in Players, NEW b \in BOOLEAN,
         NEW new, new = Set(pl, p, b)
  PROVE  /\ Cardinality(Audible(pl)) \in Nat /\ Cardinality(Audible(new)) \in Nat
         /\ Cardinality(Audible(new)) + In(p, Audible(pl)) = Cardinality(Audible(pl)) + (IF b THEN 1 ELSE 0)
<1>1. IsFiniteSet(Audible(pl)) /\ Cardinality(Audible(pl)) \in Nat
  BY FS_Subset, FS_CardinalityType, PlaybackBoundsAssumption DEF Audible
<1>2. CASE b = TRUE
  <2>1. Audible(new) = Audible(pl) \cup {p}
    BY <1>2 DEF Audible, Set
  <2>2. Cardinality(Audible(new)) = IF p \in Audible(pl) THEN Cardinality(Audible(pl))
                                    ELSE Cardinality(Audible(pl)) + 1
    BY <1>1, <2>1, FS_AddElement
  <2>3. Cardinality(Audible(new)) \in Nat /\ (IF b THEN 1 ELSE 0) = 1
    BY <1>1, <1>2, <2>2
  <2>. QED
    BY <1>1, <2>2, <2>3 DEF In
<1>3. CASE b = FALSE
  <2>1. Audible(new) = Audible(pl) \ {p}
    BY <1>3 DEF Audible, Set
  <2>2. /\ IsFiniteSet(Audible(new))
        /\ Cardinality(Audible(new)) = IF p \in Audible(pl) THEN Cardinality(Audible(pl)) - 1
                                       ELSE Cardinality(Audible(pl))
    BY <1>1, <2>1, FS_RemoveElement
  <2>3. Cardinality(Audible(new)) \in Nat
    BY <2>2, FS_CardinalityType
  <2>. QED
    BY <1>1, <1>3, <2>2, <2>3 DEF In
<1>. QED
  BY <1>2, <1>3

-----------------------------------------------------------------------------
(* What is on its way for a transfer.                                      *)

\* Everything of the transfer i: a frame, or a task that answers one.
Thread(i) ==
  [up    |-> {f \in Frames : f.type \in {"TRANSFER_PLAYBACK", "SNAPSHOT", "READY", "SOURCE_PAUSED",
                                         "STARTED", "TRANSFER_FAILED"} /\ f.id = i},
   down  |-> {f \in Frames : f.type \in {"REQUEST_SNAPSHOT", "INITIALIZE_PLAYER",
                                         "PAUSE_FOR_TRANSFER", "START_TRANSFER"} /\ f.id = i},
   tasks |-> {k \in TaskRecords : k.id = i}]

Starting(t) == t # NoTransfer /\ t.stage = "Start"

\* What a transfer whose target was told to start has left behind.
Stale(t) ==
  [up    |-> {f \in Frames : f.type \in {"TRANSFER_PLAYBACK", "SNAPSHOT", "READY", "SOURCE_PAUSED"}
                             /\ f.id = t.id},
   down  |-> {f \in Frames : /\ f.id = t.id
                             /\ \/ f.type \in {"REQUEST_SNAPSHOT", "INITIALIZE_PLAYER",
                                               "PAUSE_FOR_TRANSFER"}
                                \/ f.type = "START_TRANSFER" /\ f.snap # t.snap},
   tasks |-> {k \in TaskRecords : /\ k.id = t.id
                                  /\ \/ k.does = "prepare"
                                     \/ k.does = "start" /\ k.snap # t.snap}]

\* What will make a player play: the source is paused and nobody has been told
\* yet, the target is to start, or the source is to play on.
Loud(t) ==
  [up    |-> {f \in Frames : \/ f.type = "SOURCE_PAUSED" /\ f.snap.playing
                             \/ /\ f.type = "TRANSFER_FAILED" /\ f.id = t.id
                                /\ Starting(t) /\ t.snap.playing},
   down  |-> {f \in Frames : \/ f.type = "START_TRANSFER" /\ f.snap.playing
                             \/ f.type = "ABORT_TRANSFER" /\ f.resume},
   tasks |-> {k \in TaskRecords : k.does = "start" /\ k.snap.playing}]

Items(W, V, K, C) == Count(W, C.up) + Count(V, C.down) + CountTasks(K, C.tasks)

\* The frames that move nothing are not among them.
Moving(C) ==
  /\ \A f \in C.up : f.type \notin {"REGISTER", "STATE", "COMMAND", "COMMAND_RESULT"}
  /\ \A f \in C.down : /\ f.type \notin {"EXECUTE", "TRANSFER_COMPLETE", "DEACTIVATE"}
                       /\ f.type = "ABORT_TRANSFER" => f.resume

\* There is one thing under way for a transfer, nothing for one that nobody has
\* asked for; once the target is told to start, that is all there is; and of the
\* players that are heard and what will make one play, there is one.
OneToken ==
  /\ \A i \in Nat : /\ Items(up, down, tasks, Thread(i)) <= 1
                    /\ i > asks => Items(up, down, tasks, Thread(i)) = 0
  /\ transfer # NoTransfer => transfer.id <= asks
  /\ Starting(transfer) => Items(up, down, tasks, Stale(transfer)) = 0
  /\ plays \/ Cardinality(Audible(playing)) + Items(up, down, tasks, Loud(transfer)) <= 1

\* What is counted for a transfer leaves the frames out that move nothing.
LEMMA AllMoving ==
  /\ \A i : Moving(Thread(i))
  /\ \A t : Moving(Stale(t)) /\ Moving(Loud(t))
<1>1. \A i : Moving(Thread(i))
  BY DEF Thread, Moving
<1>2. \A t : Moving(Stale(t))
  BY DEF Stale, Moving
<1>3. \A t : Moving(Loud(t))
  BY DEF Loud, Moving
<1>. QED
  BY <1>1, <1>2, <1>3

\* The items are counted by a number.
LEMMA ItemsCounted ==
  ASSUME NEW W \in Wires, NEW V \in Wires, NEW K, NEW C
  PROVE  Items(W, V, K, C) \in Nat
BY MarkedFinite, TasksFinite DEF Items

\* Fewer kinds of frames, fewer frames.
LEMMA MonotoneCount ==
  ASSUME NEW W \in Wires, NEW S, NEW T, S \subseteq T
  PROVE  Count(W, S) <= Count(W, T)
BY CountKept, CountNone

\* Not more makes a player play when the target is not to start.
LEMMA FewerLoud ==
  ASSUME NEW W \in Wires, NEW V \in Wires, NEW K, NEW s, NEW t, ~Starting(s)
  PROVE  Items(W, V, K, Loud(s)) <= Items(W, V, K, Loud(t))
<1>1. Loud(s).up \subseteq Loud(t).up /\ Loud(s).down = Loud(t).down /\ Loud(s).tasks = Loud(t).tasks
  BY DEF Loud
<1>2. Count(W, Loud(s).up) <= Count(W, Loud(t).up)
  BY <1>1, MonotoneCount
<1>. QED
  BY <1>1, <1>2, MarkedFinite, TasksFinite DEF Items

\* A step under which nothing is added.
LEMMA TokenStep ==
  ASSUME PlaybackTypeOK, PlaybackTypeOK', OneToken, asks' >= asks, plays => plays',
         transfer' = transfer \/ ~Starting(transfer'),
         transfer' # NoTransfer => transfer'.id <= asks',
         \A i \in Nat : Items(up', down', tasks', Thread(i)) <= Items(up, down, tasks, Thread(i)),
         Starting(transfer) =>
           Items(up', down', tasks', Stale(transfer)) <= Items(up, down, tasks, Stale(transfer)),
         \/ plays'
         \/ Cardinality(Audible(playing')) + Items(up', down', tasks', Loud(transfer))
              <= Cardinality(Audible(playing)) + Items(up, down, tasks, Loud(transfer))
  PROVE  OneToken'
<1>1. up \in Wires /\ down \in Wires /\ up' \in Wires /\ down' \in Wires
  BY DEF PlaybackTypeOK, Wires
<1>2. \A C : Items(up, down, tasks, C) \in Nat /\ Items(up', down', tasks', C) \in Nat
  BY <1>1, ItemsCounted
<1>3. Cardinality(Audible(playing)) \in Nat /\ Cardinality(Audible(playing')) \in Nat
  BY FS_Subset, FS_CardinalityType, PlaybackBoundsAssumption DEF Audible
<1>4. \A i \in Nat : /\ Items(up', down', tasks', Thread(i)) <= 1
                     /\ i > asks' => Items(up', down', tasks', Thread(i)) = 0
  <2>1. asks \in Nat /\ asks' \in Nat
    BY PlaybackBoundsAssumption DEF PlaybackTypeOK
  <2>. QED
    BY <1>2, <2>1 DEF OneToken
<1>5. Starting(transfer') => Items(up', down', tasks', Stale(transfer')) = 0
  <2> SUFFICES ASSUME Starting(transfer') PROVE Items(up', down', tasks', Stale(transfer')) = 0
    OBVIOUS
  <2>1. transfer' = transfer /\ Starting(transfer)
    OBVIOUS
  <2>2. Items(up', down', tasks', Stale(transfer)) = 0
    BY <1>2, <2>1 DEF OneToken
  <2>. QED
    BY <2>1, <2>2
<1>6. plays' \/ Cardinality(Audible(playing')) + Items(up', down', tasks', Loud(transfer')) <= 1
  <2>1. Items(up', down', tasks', Loud(transfer')) <= Items(up', down', tasks', Loud(transfer))
    <3>1. CASE transfer' = transfer
      BY <1>2, <3>1
    <3>2. CASE ~Starting(transfer')
      BY <1>1, <3>2, FewerLoud
    <3>. QED
      BY <3>1, <3>2
  <2>2. plays \/ Cardinality(Audible(playing)) + Items(up, down, tasks, Loud(transfer)) <= 1
    BY DEF OneToken
  <2>. QED
    BY <1>2, <1>3, <2>1, <2>2
<1>. QED
  BY <1>4, <1>5, <1>6 DEF OneToken

-----------------------------------------------------------------------------
(* What the hub's steps move.                                              *)

\* The hub takes a frame: there is one less.
LEMMA Taken ==
  ASSUME PlaybackTypeOK, NEW c \in Conns, NEW type, Takes(c, type), NEW S
  PROVE  Count(up', S) + In(Head(up[c]), S) <= Count(up, S)
<1>1. up \in Wires /\ up[c] # <<>> /\ up' = [up EXCEPT ![c] = Tail(up[c])]
  BY DEF Takes, PlaybackTypeOK, Wires
<1>. QED
  BY <1>1, CountTaken

\* The hub takes a frame: there are no more of any kind.
LEMMA Fewer ==
  ASSUME PlaybackTypeOK, NEW c \in Conns, NEW type, Takes(c, type)
  PROVE  \A S : Count(up', S) <= Count(up, S)
<1> SUFFICES ASSUME NEW S PROVE Count(up', S) <= Count(up, S)
  OBVIOUS
<1>1. up \in Wires /\ up' \in Wires
  BY TakesTypes DEF PlaybackTypeOK, Wires
<1>. QED
  BY <1>1, Taken, MarkedFinite DEF In

\* send_frame_locked: of the frames, at most one is in S.
LEMMA SendsOnly ==
  ASSUME PlaybackTypeOK, NEW frames, NEW present, Sends(frames, present), NEW S, NEW h,
         \A f \in frames : f.frame \in S => f = h
  PROVE  Count(down', S) <= Count(down, S) + In(h.frame, S)
<1>1. PICK sent \in SUBSET frames :
        down' = [c \in Conns |->
             IF c \in present /\ \E f \in sent : f.to = c
               THEN Append(down[c], (CHOOSE f \in sent : f.to = c).frame)
               ELSE down[c]]
  BY DEF Sends
<1>2. down \in Wires
  BY DEF PlaybackTypeOK, Wires
<1>3. ASSUME NEW c \in Conns, NEW k \in DOMAIN down'[c], down'[c][k] \in S
      PROVE  \/ k \in DOMAIN down[c] /\ down[c][k] \in S
             \/ h.frame \in S /\ c = h.to /\ k = Len(down[c]) + 1
  <2>1. CASE down'[c] = down[c]
    BY <1>3, <2>1
  <2>2. CASE down'[c] # down[c]
    <3>1. PICK f \in sent : f.to = c /\ down'[c] = Append(down[c], f.frame)
      BY <1>1, <2>2
    <3>2. down[c] \in Seq(Frames) /\ Len(down[c]) \in Nat
      BY <1>2 DEF Wires
    <3>3. /\ DOMAIN down'[c] = 1..(Len(down[c]) + 1) /\ DOMAIN down[c] = 1..Len(down[c])
          /\ \A j \in 1..Len(down[c]) : down'[c][j] = down[c][j]
          /\ down'[c][Len(down[c]) + 1] = f.frame
      BY <3>1, <3>2, AppendProperties
    <3>4. CASE k = Len(down[c]) + 1
      BY <1>3, <3>1, <3>3, <3>4
    <3>5. CASE k # Len(down[c]) + 1
      <4>1. k \in 1..Len(down[c])
        BY <3>2, <3>3, <3>5
      <4>. QED
        BY <1>3, <3>3, <4>1
    <3>. QED
      BY <3>4, <3>5
  <2>. QED
    BY <2>1, <2>2
<1>4. CASE h.frame \in S
  <2>1. Marked(down', S) \subseteq Marked(down, S) \cup {<<h.to, Len(down[h.to]) + 1>>}
    <3> SUFFICES ASSUME NEW x \in Marked(down', S), x \notin Marked(down, S)
                 PROVE  x = <<h.to, Len(down[h.to]) + 1>>
      OBVIOUS
    <3>1. x \in Conns \X Nat /\ x[1] \in Conns /\ x[2] \in DOMAIN down'[x[1]] /\ down'[x[1]][x[2]] \in S
      BY DEF Marked
    <3>2. ~(x[2] \in DOMAIN down[x[1]] /\ down[x[1]][x[2]] \in S)
      BY <3>1 DEF Marked
    <3>3. x[1] = h.to /\ x[2] = Len(down[x[1]]) + 1
      BY <1>3, <3>1, <3>2
    <3>. QED
      BY <3>1, <3>3
  <2>. QED
    BY <1>2, <1>4, <2>1, OneMore DEF In
<1>5. CASE h.frame \notin S
  <2>1. \A c \in Conns : \A k \in DOMAIN down'[c] :
          down'[c][k] \in S => k \in DOMAIN down[c] /\ down[c][k] \in S \cup {}
    BY <1>3, <1>5
  <2>2. Count(down', S) <= Count(down, S) /\ Count(down, S) \in Nat
    BY <1>2, <2>1, CountKept, CountNone, MarkedFinite
  <2>. QED
    BY <1>5, <2>2 DEF In
<1>. QED
  BY <1>4, <1>5

\* None of the frames is in S.
LEMMA SendsHarmless ==
  ASSUME PlaybackTypeOK, NEW frames, NEW present, Sends(frames, present), NEW S,
         \A f \in frames : f.frame \notin S
  PROVE  Count(down', S) <= Count(down, S)
<1>1. PICK g : g \notin S    \* no set holds everything
  <2>1. {x \in S : x \notin x} \notin S
    OBVIOUS
  <2>. QED
    BY <2>1
<1>2. Count(down', S) <= Count(down, S) + In(To(0, g).frame, S)
  BY SendsOnly
<1>3. In(To(0, g).frame, S) = 0
  BY <1>1 DEF To, In
<1>4. Count(down, S) \in Nat
  BY MarkedFinite DEF PlaybackTypeOK, Wires
<1>. QED
  BY <1>2, <1>3, <1>4

\* send_frame_locked, of one frame.
LEMMA SendsSingle ==
  ASSUME PlaybackTypeOK, NEW x, NEW f, NEW present, Sends({To(x, f)}, present), NEW S
  PROVE  Count(down', S) <= Count(down, S) + In(f, S)
<1>1. To(x, f).frame = f
  BY DEF To
<1>2. \A g \in {To(x, f)} : g.frame \in S => g = To(x, f)
  OBVIOUS
<1>3. Count(down', S) <= Count(down, S) + In(To(x, f).frame, S)
  BY <1>2, SendsOnly
<1>. QED
  BY <1>1, <1>3

\* Nothing is sent.
LEMMA KeptDown ==
  ASSUME PlaybackTypeOK, SendsNothing, NEW S
  PROVE  Count(down', S) <= Count(down, S)
<1>1. down' = down /\ Count(down, S) \in Nat
  BY MarkedFinite DEF SendsNothing, PlaybackTypeOK, Wires
<1>. QED
  BY <1>1

\* abort_transfer_locked: only the source may play on.
LEMMA AbortsMove ==
  ASSUME PlaybackTypeOK, NEW t \in Transfers, NEW resume \in BOOLEAN, NEW present,
         Aborts(t, resume, present), NEW C, Moving(C)
  PROVE  Count(down', C.down) <= Count(down, C.down)
           + In([type |-> "ABORT_TRANSFER", id |-> t.id, resume |-> resume /\ t.snap.playing], C.down)
<1> DEFINE f == [type |-> "ABORT_TRANSFER", id |-> t.id, resume |-> FALSE]
           g == [type |-> "ABORT_TRANSFER", id |-> t.id, resume |-> resume /\ t.snap.playing]
<1>1. Sends({To(t.target, f), To(t.source, g)}, present)
  BY DEF Aborts
<1>2. f \notin C.down
  BY DEF Moving
<1>. HIDE DEF f, g
<1>3. To(t.target, f).frame = f /\ To(t.source, g).frame = g
  BY DEF To
<1>4. \A h \in {To(t.target, f), To(t.source, g)} : h.frame \in C.down => h = To(t.source, g)
  BY <1>2, <1>3
<1>5. Count(down', C.down) <= Count(down, C.down) + In(To(t.source, g).frame, C.down)
  BY <1>1, <1>4, SendsOnly
<1>. QED
  BY <1>3, <1>5 DEF g

\* An abort that nobody is to play on after.
LEMMA AbortsQuietly ==
  ASSUME PlaybackTypeOK, NEW t \in Transfers, NEW resume \in BOOLEAN, NEW present,
         Aborts(t, resume, present), NEW C, Moving(C), ~(resume /\ t.snap.playing)
  PROVE  Count(down', C.down) <= Count(down, C.down)
<1> DEFINE g == [type |-> "ABORT_TRANSFER", id |-> t.id, resume |-> resume /\ t.snap.playing]
<1>1. Count(down', C.down) <= Count(down, C.down) + In(g, C.down)
  BY AbortsMove
<1>2. g \notin C.down
  BY DEF Moving
<1>3. Count(down, C.down) \in Nat
  BY MarkedFinite DEF PlaybackTypeOK, Wires
<1>. QED
  BY <1>1, <1>2, <1>3 DEF In

\* remove_client_locked tells nobody to play on.
LEMMA RemovesQuietly ==
  ASSUME PlaybackInv, NEW gone \in SUBSET Conns, Removes(gone)
  PROVE  /\ transfer' = transfer \/ transfer' = NoTransfer
         /\ \A C : Moving(C) => Count(down', C.down) <= Count(down, C.down)
<1>0. PlaybackTypeOK /\ HubTypes
  BY PlaybackParts DEF PlaybackInv
<1>1. CASE \E c \in gone : TakesPart(c)
  <2>1. transfer \in Transfers /\ Aborts(transfer, FALSE, Present \ gone)
    BY <1>0, <1>1 DEF TakesPart, HubTypes, Removes
  <2>2. \A C : Moving(C) => Count(down', C.down) <= Count(down, C.down)
    BY <1>0, <2>1, AbortsQuietly
  <2>. QED
    BY <2>1, <2>2 DEF Aborts
<1>2. CASE ~\E c \in gone : TakesPart(c)
  <2>1. transfer' = transfer /\ SendsNothing
    BY <1>2 DEF Removes
  <2>. QED
    BY <1>0, <2>1, KeptDown
<1>. QED
  BY <1>1, <1>2

\* A step that only takes away, among what moves something.
LEMMA QuietStep ==
  ASSUME PlaybackTypeOK, PlaybackTypeOK', OneToken, asks' >= asks, plays => plays',
         transfer' \in {transfer, NoTransfer},
         \A C : Moving(C) => Items(up', down', tasks', C) <= Items(up, down, tasks, C),
         plays' \/ Cardinality(Audible(playing')) <= Cardinality(Audible(playing))
  PROVE  OneToken'
<1>1. transfer' = transfer \/ ~Starting(transfer')
  BY DEF Starting
<1>2. asks \in Nat /\ asks' \in Nat /\ (transfer # NoTransfer => transfer.id \in Nat)
  BY PlaybackBoundsAssumption DEF PlaybackTypeOK, Ids
<1>3. transfer' # NoTransfer => transfer'.id <= asks'
  BY <1>2 DEF OneToken
<1>4. /\ \A i \in Nat : Items(up', down', tasks', Thread(i)) <= Items(up, down, tasks, Thread(i))
      /\ Items(up', down', tasks', Stale(transfer)) <= Items(up, down, tasks, Stale(transfer))
      /\ Items(up', down', tasks', Loud(transfer)) <= Items(up, down, tasks, Loud(transfer))
  BY AllMoving
<1>5. Cardinality(Audible(playing)) \in Nat /\ Cardinality(Audible(playing')) \in Nat
  BY FS_Subset, FS_CardinalityType, PlaybackBoundsAssumption DEF Audible
<1>6. \A C : Items(up, down, tasks, C) \in Nat /\ Items(up', down', tasks', C) \in Nat
  BY ItemsCounted DEF PlaybackTypeOK, Wires
<1>7. \/ plays'
      \/ Cardinality(Audible(playing')) + Items(up', down', tasks', Loud(transfer))
              <= Cardinality(Audible(playing)) + Items(up, down, tasks, Loud(transfer))
  BY <1>4, <1>5, <1>6
<1>. QED
  BY <1>1, <1>3, <1>4, <1>7, TokenStep

\* A step of the hub that only takes away.
LEMMA HubQuiet ==
  ASSUME PlaybackTypeOK, PlaybackTypeOK', OneToken, PlayersKeep,
         transfer' \in {transfer, NoTransfer},
         \A S : Count(up', S) <= Count(up, S),
         \A C : Moving(C) => Count(down', C.down) <= Count(down, C.down)
  PROVE  OneToken'
<1>1. UNCHANGED <<tasks, playing, asks, plays>>
  BY DEF PlayersKeep, playerVars
<1>2. up \in Wires /\ down \in Wires /\ up' \in Wires /\ down' \in Wires
  BY DEF PlaybackTypeOK, Wires
<1>3. ASSUME NEW C, Moving(C) PROVE Items(up', down', tasks', C) <= Items(up, down, tasks, C)
  <2>1. /\ Count(up, C.up) \in Nat /\ Count(up', C.up) \in Nat
        /\ Count(down, C.down) \in Nat /\ Count(down', C.down) \in Nat
        /\ CountTasks(tasks, C.tasks) \in Nat
    BY <1>2, MarkedFinite, TasksFinite
  <2>2. Count(up', C.up) <= Count(up, C.up) /\ Count(down', C.down) <= Count(down, C.down)
    BY <1>3
  <2>. QED
    BY <1>1, <2>1, <2>2 DEF Items
<1>4. Cardinality(Audible(playing)) \in Nat
  BY FS_Subset, FS_CardinalityType, PlaybackBoundsAssumption DEF Audible
<1>5. asks' >= asks
  BY <1>1, PlaybackBoundsAssumption DEF PlaybackTypeOK
<1>6. Cardinality(Audible(playing')) <= Cardinality(Audible(playing))
  BY <1>1, <1>4
<1>. QED
  BY <1>1, <1>3, <1>5, <1>6, QuietStep

\* The steps of the hub that start nothing.
LEMMA HubQuietSteps ==
  ASSUME PlaybackInv, PlaybackInv', OneToken, NEW c \in Conns,
         \/ HubRegister(c) \/ HubState(c) \/ HubCommand(c) \/ HubCommandResult(c)
         \/ HubStarted(c) \/ HubSeesClose(c) \/ HubEndsConnection(c)
         \/ (\E type : Takes(c, type)) /\ HubKeeps /\ PlayersKeep
  PROVE  OneToken'
<1>0. PlaybackTypeOK /\ PlaybackTypeOK'
  BY DEF PlaybackInv
<1>1. CASE \E type : Takes(c, type) /\ HubKeeps /\ PlayersKeep
  BY <1>0, <1>1, Fewer, KeptDown, HubQuiet DEF HubKeeps, hubVars
<1>2. CASE HubRegister(c)
  <2>1. \E old \in SUBSET Conns : Removes(old)
    <3>1. {x \in Conns \ {c} : client[x] = Head(up[c]).player} \in SUBSET Conns
      OBVIOUS
    <3>. QED
      BY <1>2, <3>1 DEF HubRegister
  <2>2. /\ transfer' \in {transfer, NoTransfer}
        /\ \A C : Moving(C) => Count(down', C.down) <= Count(down, C.down)
    BY <2>1, RemovesQuietly
  <2>. QED
    BY <1>0, <1>2, <2>2, Fewer, HubQuiet DEF HubRegister
<1>3. CASE HubState(c)
  <2>1. /\ transfer' = transfer
        /\ Sends({To(active, [type |-> "DEACTIVATE"])}, Present) \/ SendsNothing
    BY <1>3 DEF HubState
  <2>2. \A C : Moving(C) => [type |-> "DEACTIVATE"] \notin C.down
    BY DEF Moving
  <2>3. ASSUME NEW C, Moving(C) PROVE Count(down', C.down) <= Count(down, C.down)
    BY <1>0, <2>1, <2>2, <2>3, SendsHarmless, KeptDown DEF To
  <2>. QED
    BY <1>0, <1>3, <2>1, <2>3, Fewer, HubQuiet DEF HubState, TakesRegistered
<1>4. CASE HubCommand(c)
  <2> DEFINE g == [type |-> "EXECUTE", id |-> Head(up[c]).id]
  <2>1. /\ transfer' = transfer
        /\ Sends({To(active, g)}, Present) \/ SendsNothing
    BY <1>4 DEF HubCommand, HubKeeps, hubVars
  <2>2. \A C : Moving(C) => g \notin C.down
    BY DEF Moving
  <2>. HIDE DEF g
  <2>3. ASSUME NEW C, Moving(C) PROVE Count(down', C.down) <= Count(down, C.down)
    BY <1>0, <2>1, <2>2, <2>3, SendsHarmless, KeptDown DEF To
  <2>. QED
    BY <1>0, <1>4, <2>1, <2>3, Fewer, HubQuiet DEF HubCommand, TakesRegistered
<1>5. CASE HubCommandResult(c)
  BY <1>0, <1>5, Fewer, KeptDown, HubQuiet DEF HubCommandResult, TakesRegistered
<1>6. CASE HubStarted(c)
  <2> DEFINE g == [type |-> "TRANSFER_COMPLETE", id |-> transfer.id]
  <2>1. /\ transfer' \in {transfer, NoTransfer}
        /\ \/ Sends({To(x, g) : x \in {transfer.source, transfer.target}}, Present)
           \/ SendsNothing
    BY <1>6 DEF HubStarted, HubKeeps, hubVars
  <2>2. \A C : Moving(C) => g \notin C.down
    BY DEF Moving
  <2>. HIDE DEF g
  <2>3. ASSUME NEW C, Moving(C) PROVE Count(down', C.down) <= Count(down, C.down)
    BY <1>0, <2>1, <2>2, <2>3, SendsHarmless, KeptDown DEF To
  <2>. QED
    BY <1>0, <1>6, <2>1, <2>3, Fewer, HubQuiet DEF HubStarted, TakesRegistered
<1>7. CASE HubSeesClose(c)
  <2>1. Removes({c}) /\ up' = up /\ PlayersKeep
    BY <1>7 DEF HubSeesClose, HubDisconnects
  <2>2. /\ transfer' \in {transfer, NoTransfer}
        /\ \A C : Moving(C) => Count(down', C.down) <= Count(down, C.down)
    BY <2>1, RemovesQuietly
  <2>3. \A S : Count(up, S) \in Nat
    BY <1>0, MarkedFinite DEF PlaybackTypeOK, Wires
  <2>. QED
    BY <1>0, <2>1, <2>2, <2>3, HubQuiet
<1>8. CASE HubEndsConnection(c)
  <2>1. up' = [up EXCEPT ![c] = <<>>] /\ HubKeeps /\ PlayersKeep /\ up \in Wires
    BY <1>0, <1>8 DEF HubEndsConnection, PlaybackTypeOK, Wires
  <2>2. ASSUME NEW S PROVE Count(up', S) <= Count(up, S)
    <3>1. \A d \in Conns : \A k \in DOMAIN up'[d] :
            up'[d][k] \in S => k \in DOMAIN up[d] /\ up[d][k] \in S \cup {}
      BY <2>1 DEF Wires
    <3>. QED
      BY <2>1, <3>1, CountKept, CountNone
  <2>. QED
    BY <1>0, <2>1, <2>2, KeptDown, HubQuiet DEF HubKeeps, hubVars
<1>. QED
  BY <1>1, <1>2, <1>3, <1>4, <1>5, <1>6, <1>7, <1>8

\* What belongs to a transfer, among frames and tasks.
LEMMA Belongs ==
  ASSUME NEW f \in Frames, NEW i, NEW t
  PROVE  /\ f \in Thread(i).up <=>
              f.type \in {"TRANSFER_PLAYBACK", "SNAPSHOT", "READY", "SOURCE_PAUSED", "STARTED",
                          "TRANSFER_FAILED"} /\ f.id = i
         /\ f \in Thread(i).down <=>
              f.type \in {"REQUEST_SNAPSHOT", "INITIALIZE_PLAYER", "PAUSE_FOR_TRANSFER",
                          "START_TRANSFER"} /\ f.id = i
         /\ f \in Stale(t).up <=>
              f.type \in {"TRANSFER_PLAYBACK", "SNAPSHOT", "READY", "SOURCE_PAUSED"} /\ f.id = t.id
         /\ f \in Stale(t).down <=>
              /\ f.id = t.id
              /\ \/ f.type \in {"REQUEST_SNAPSHOT", "INITIALIZE_PLAYER", "PAUSE_FOR_TRANSFER"}
                 \/ f.type = "START_TRANSFER" /\ f.snap # t.snap
         /\ f \in Loud(t).up <=>
              \/ f.type = "SOURCE_PAUSED" /\ f.snap.playing
              \/ f.type = "TRANSFER_FAILED" /\ f.id = t.id /\ Starting(t) /\ t.snap.playing
         /\ f \in Loud(t).down <=>
              \/ f.type = "START_TRANSFER" /\ f.snap.playing
              \/ f.type = "ABORT_TRANSFER" /\ f.resume
BY DEF Thread, Stale, Loud

\* ... and among its tasks.
LEMMA TaskBelongs ==
  ASSUME NEW k \in TaskRecords, NEW i, NEW t
  PROVE  /\ k \in Thread(i).tasks <=> k.id = i
         /\ k \in Stale(t).tasks <=>
              k.id = t.id /\ (k.does = "prepare" \/ (k.does = "start" /\ k.snap # t.snap))
         /\ k \in Loud(t).tasks <=> k.does = "start" /\ k.snap.playing
BY DEF Thread, Stale, Loud

\* All counts are numbers.
LEMMA CountsTyped ==
  ASSUME PlaybackTypeOK, PlaybackTypeOK'
  PROVE  /\ \A S : /\ Count(up, S) \in Nat /\ Count(up', S) \in Nat
                   /\ Count(down, S) \in Nat /\ Count(down', S) \in Nat
                   /\ CountTasks(tasks, S) \in Nat /\ CountTasks(tasks', S) \in Nat
         /\ \A C : Items(up, down, tasks, C) \in Nat /\ Items(up', down', tasks', C) \in Nat
         /\ Cardinality(Audible(playing)) \in Nat /\ Cardinality(Audible(playing')) \in Nat
         /\ \A x, S : In(x, S) \in {0, 1}
<1>1. up \in Wires /\ down \in Wires /\ up' \in Wires /\ down' \in Wires
  BY DEF PlaybackTypeOK, Wires
<1>2. /\ \A C : Items(up, down, tasks, C) \in Nat /\ Items(up', down', tasks', C) \in Nat
      /\ \A S : /\ Count(up, S) \in Nat /\ Count(up', S) \in Nat
                /\ Count(down, S) \in Nat /\ Count(down', S) \in Nat
                /\ CountTasks(tasks, S) \in Nat /\ CountTasks(tasks', S) \in Nat
  BY <1>1, ItemsCounted, MarkedFinite, TasksFinite
<1>3. Cardinality(Audible(playing)) \in Nat /\ Cardinality(Audible(playing')) \in Nat
  BY FS_Subset, FS_CardinalityType, PlaybackBoundsAssumption DEF Audible
<1>. QED
  BY <1>2, <1>3 DEF In

\* The hub takes one frame and sends another.
LEMMA HubMoves ==
  ASSUME PlaybackTypeOK, PlaybackTypeOK', NEW c \in Conns, NEW type, Takes(c, type), PlayersKeep,
         NEW g, NEW C, Count(down', C.down) <= Count(down, C.down) + In(g, C.down)
  PROVE  Items(up', down', tasks', C) + In(Head(up[c]), C.up)
           <= Items(up, down, tasks, C) + In(g, C.down)
<1>1. tasks' = tasks
  BY DEF PlayersKeep, playerVars
<1>2. Count(up', C.up) + In(Head(up[c]), C.up) <= Count(up, C.up)
  BY Taken
<1>. QED
  BY <1>1, <1>2, CountsTyped DEF Items

\* The frame of a transfer is answered by the next one, before the target starts.
LEMMA HubRelays ==
  ASSUME PlaybackTypeOK, PlaybackTypeOK', OneToken, NEW c \in Conns,
         NEW type \in {"TRANSFER_PLAYBACK", "SNAPSHOT", "READY"}, Takes(c, type), PlayersKeep,
         NEW x, NEW g \in Frames, Sends({To(x, g)}, Present),
         g.type \in {"REQUEST_SNAPSHOT", "INITIALIZE_PLAYER", "PAUSE_FOR_TRANSFER"},
         g.id = Head(up[c]).id, transfer' # NoTransfer, transfer'.id = g.id,
         ~Starting(transfer), ~Starting(transfer')
  PROVE  OneToken'
<1> DEFINE f == Head(up[c])
<1>1. f \in Frames /\ f.type = type /\ f.id \in Nat
  BY TakesTypes, FrameFields, PlaybackBoundsAssumption DEF Ids
<1>2. ASSUME NEW C
      PROVE  Items(up', down', tasks', C) + In(f, C.up) <= Items(up, down, tasks, C) + In(g, C.down)
  BY SendsSingle, HubMoves
<1>3. UNCHANGED <<playing, asks, plays>> /\ asks \in Nat
  BY PlaybackBoundsAssumption DEF PlayersKeep, playerVars, PlaybackTypeOK
<1>. HIDE DEF f
<1>4. ASSUME NEW i \in Nat
      PROVE  Items(up', down', tasks', Thread(i)) <= Items(up, down, tasks, Thread(i))
  <2>1. f \in Thread(i).up <=> g \in Thread(i).down
    BY <1>1, Belongs DEF f
  <2>2. In(f, Thread(i).up) = In(g, Thread(i).down) /\ In(f, Thread(i).up) \in {0, 1}
    BY <2>1 DEF In
  <2>. QED
    BY <1>2, <2>2, CountsTyped
<1>5. transfer'.id <= asks'
  <2>1. f \in Thread(f.id).up /\ Items(up', down', tasks', Thread(f.id)) <= 1
    BY <1>1, <1>4, Belongs, CountsTyped DEF OneToken
  <2>2. In(f, Thread(f.id).up) = 1
    BY <2>1 DEF In
  <2>3. Items(up', down', tasks', Thread(f.id)) + 1
          <= Items(up, down, tasks, Thread(f.id)) + In(g, Thread(f.id).down)
    BY <1>2, <2>2
  <2>4. Count(up', Thread(f.id).up) + 1 <= Count(up, Thread(f.id).up)
    BY <2>2, Taken DEF f
  <2>5. Items(up, down, tasks, Thread(f.id)) # 0
    BY <2>4, CountsTyped DEF Items
  <2>. QED
    BY <1>1, <1>3, <2>5 DEF OneToken, f
<1>6. Items(up', down', tasks', Loud(transfer)) <= Items(up, down, tasks, Loud(transfer))
  <2>1. In(g, Loud(transfer).down) = 0
    BY Belongs DEF In
  <2>. QED
    BY <1>2, <2>1, CountsTyped
<1>7. Cardinality(Audible(playing')) + Items(up', down', tasks', Loud(transfer))
        <= Cardinality(Audible(playing)) + Items(up, down, tasks, Loud(transfer))
  BY <1>3, <1>6, CountsTyped
<1>. QED
  BY <1>3, <1>4, <1>5, <1>7, TokenStep

\* The request becomes the question for a snapshot.
LEMMA HubTransferMoves ==
  ASSUME PlaybackInv, PlaybackInv', OneToken, NEW c \in Conns, HubTransfer(c)
  PROVE  OneToken'
<1> DEFINE f == Head(up[c])
           g == [type |-> "REQUEST_SNAPSHOT", id |-> f.id]
<1>0. PlaybackTypeOK /\ PlaybackTypeOK'
  BY DEF PlaybackInv
<1>1. Takes(c, "TRANSFER_PLAYBACK") /\ PlayersKeep
  BY DEF HubTransfer, TakesRegistered
<1>2. CASE HubKeeps
  BY <1>1, <1>2, HubQuietSteps
<1>3. CASE ~HubKeeps
  <2>1. PICK x : /\ transfer = NoTransfer
                 /\ transfer' = [id |-> f.id, controller |-> c, source |-> active, target |-> x,
                                 stage |-> "Snapshot", snap |-> NoSnapshot]
                 /\ Sends({To(active, g)}, Present)
    BY <1>3 DEF HubTransfer
  <2>2. f.id \in Ids
    BY <1>0, <1>1, TakesTypes, FrameFields
  <2>3. g \in Frames /\ g.type = "REQUEST_SNAPSHOT" /\ g.id = f.id
    BY <2>2 DEF Frames
  <2>4. ~Starting(transfer) /\ ~Starting(transfer') /\ transfer'.id = g.id
    BY <2>1 DEF Starting
  <2>5. transfer' # NoTransfer
    <3>1. f.id # 0
      BY <2>2 DEF Ids
    <3>. QED
      BY <2>1, <3>1 DEF NoTransfer
  <2>. HIDE DEF f, g
  <2>. QED
    BY <1>0, <1>1, <2>1, <2>3, <2>4, <2>5, HubRelays DEF f
<1>. QED
  BY <1>2, <1>3

\* The transfer moves on, to prepare or to pause.
LEMMA HubAdvances ==
  ASSUME PlaybackInv, PlaybackInv', OneToken, NEW c \in Conns, NEW from \in {"SNAPSHOT", "READY"},
         Takes(c, from), PlayersKeep,
         transfer # NoTransfer, transfer.id = Head(up[c]).id, transfer.stage # "Start",
         NEW stage \in {"Prepare", "Pause"}, NEW snap \in Snapshots, NEW to,
         NEW type \in {"INITIALIZE_PLAYER", "PAUSE_FOR_TRANSFER"}, Advances(stage, snap, to, type)
  PROVE  OneToken'
<1> DEFINE g == IF type \in {"INITIALIZE_PLAYER", "START_TRANSFER"}
                  THEN [type |-> type, id |-> transfer.id, snap |-> snap]
                  ELSE [type |-> type, id |-> transfer.id]
<1>1. PlaybackTypeOK /\ PlaybackTypeOK' /\ transfer \in Transfers
  BY HubRefers DEF PlaybackInv
<1>2. /\ transfer' = [transfer EXCEPT !.stage = stage, !.snap = snap]
      /\ Sends({To(to, g)}, Present)
  BY DEF Advances
<1>3. g \in Frames /\ g.type = type /\ g.id = transfer.id
  BY <1>1 DEF Frames, Transfers
<1>4. transfer'.id = g.id /\ transfer'.stage = stage /\ transfer' \in Transfers
  BY <1>1, <1>2, <1>3 DEF Transfers
<1>5. transfer' # NoTransfer /\ ~Starting(transfer) /\ ~Starting(transfer')
  <2>1. transfer'.id # 0
    BY <1>4 DEF Transfers, Ids
  <2>. QED
    BY <1>4, <2>1 DEF Starting, NoTransfer
<1>. HIDE DEF g
<1>. QED
  BY <1>1, <1>2, <1>3, <1>4, <1>5, HubRelays

\* The snapshot and the ready target move the transfer on.
LEMMA HubSnapshotMoves ==
  ASSUME PlaybackInv, PlaybackInv', OneToken, NEW c \in Conns, HubSnapshot(c) \/ HubReady(c)
  PROVE  OneToken'
<1> DEFINE f == Head(up[c])
<1>0. PlaybackTypeOK /\ PlaybackTypeOK'
  BY DEF PlaybackInv
<1>1. CASE HubKeeps
  BY <1>1, HubQuietSteps DEF HubSnapshot, HubReady, TakesRegistered
<1>2. CASE HubSnapshot(c) /\ ~HubKeeps
  <2>1. /\ Advances("Prepare", f.snap, transfer.target, "INITIALIZE_PLAYER")
        /\ transfer # NoTransfer /\ transfer.id = f.id /\ transfer.stage # "Start"
        /\ Takes(c, "SNAPSHOT") /\ PlayersKeep
    BY <1>2 DEF HubSnapshot, Expected, TakesRegistered
  <2>2. f.snap \in Snapshots
    BY <1>0, <2>1, TakesTypes, FrameFields
  <2>. QED
    BY <2>1, <2>2, HubAdvances
<1>3. CASE HubReady(c) /\ ~HubKeeps
  <2>1. /\ Advances("Pause", transfer.snap, transfer.source, "PAUSE_FOR_TRANSFER")
        /\ transfer # NoTransfer /\ transfer.id = f.id /\ transfer.stage # "Start"
        /\ Takes(c, "READY") /\ PlayersKeep
    BY <1>3 DEF HubReady, Expected, TakesRegistered
  <2>2. transfer.snap \in Snapshots
    BY <2>1, HubRefers DEF Transfers
  <2>. QED
    BY <2>1, <2>2, HubAdvances
<1>. QED
  BY <1>1, <1>2, <1>3

\* The target is told to start: what the transfer leaves behind is gone.
LEMMA HubTellsStart ==
  ASSUME PlaybackInv, PlaybackInv', OneToken, NEW c \in Conns, Takes(c, "SOURCE_PAUSED"), PlayersKeep,
         transfer # NoTransfer, transfer.id = Head(up[c]).id,
         Advances("Start", Head(up[c]).snap, transfer.target, "START_TRANSFER")
  PROVE  OneToken'
<1> DEFINE f == Head(up[c])
           g == [type |-> "START_TRANSFER", id |-> transfer.id, snap |-> f.snap]
<1>0. PlaybackTypeOK /\ PlaybackTypeOK' /\ transfer \in Transfers /\ up' \in Wires
  BY HubRefers DEF PlaybackInv, PlaybackTypeOK, Wires
<1>1. f \in Frames /\ f.type = "SOURCE_PAUSED" /\ f.id \in Nat /\ f.snap \in Snapshots
  BY <1>0, TakesTypes, FrameFields, PlaybackBoundsAssumption DEF Ids
<1>2. /\ transfer' = [transfer EXCEPT !.stage = "Start", !.snap = f.snap]
      /\ Sends({To(transfer.target, g)}, Present)
  BY DEF Advances
<1>3. g \in Frames /\ g.type = "START_TRANSFER" /\ g.id = f.id /\ g.snap = f.snap
  BY <1>0, <1>1 DEF Frames, Transfers
<1>4. transfer'.id = f.id /\ transfer'.snap = f.snap /\ transfer'.stage = "Start"
  BY <1>0, <1>2 DEF Transfers
<1>5. UNCHANGED <<playing, asks, plays, tasks>> /\ asks \in Nat
  BY <1>0, PlaybackBoundsAssumption DEF PlayersKeep, playerVars, PlaybackTypeOK
<1>. HIDE DEF f, g
<1>6. ASSUME NEW C
      PROVE  Items(up', down', tasks', C) + In(f, C.up) <= Items(up, down, tasks, C) + In(g, C.down)
  BY <1>0, <1>2, SendsSingle, HubMoves DEF f
<1>7. \A i \in Nat : /\ Items(up', down', tasks', Thread(i)) <= 1
                     /\ i > asks' => Items(up', down', tasks', Thread(i)) = 0
  <2> SUFFICES ASSUME NEW i \in Nat
               PROVE  /\ Items(up', down', tasks', Thread(i)) <= 1
                      /\ i > asks' => Items(up', down', tasks', Thread(i)) = 0
    OBVIOUS
  <2>1. f \in Thread(i).up <=> g \in Thread(i).down
    BY <1>1, <1>3, Belongs
  <2>2. In(f, Thread(i).up) = In(g, Thread(i).down) /\ In(f, Thread(i).up) \in {0, 1}
    BY <2>1 DEF In
  <2>3. Items(up', down', tasks', Thread(i)) <= Items(up, down, tasks, Thread(i))
    BY <1>0, <1>6, <2>2, CountsTyped
  <2>. QED
    BY <1>0, <1>5, <2>3, CountsTyped DEF OneToken
<1>8. Count(up', Thread(f.id).up) = 0
  <2>1. In(f, Thread(f.id).up) = 1
    BY <1>1, Belongs DEF In
  <2>2. Count(up', Thread(f.id).up) + 1 <= Count(up, Thread(f.id).up)
    BY <1>0, <2>1, Taken DEF f
  <2>3. Items(up, down, tasks, Thread(f.id)) <= 1
    BY <1>1 DEF OneToken
  <2>4. /\ Count(up, Thread(f.id).up) \in Nat /\ Count(up', Thread(f.id).up) \in Nat
        /\ Count(down, Thread(f.id).down) \in Nat /\ CountTasks(tasks, Thread(f.id).tasks) \in Nat
    BY <1>0, CountsTyped
  <2>5. Count(up, Thread(f.id).up) <= 1
    BY <2>3, <2>4 DEF Items
  <2>. QED
    BY <2>2, <2>4, <2>5
<1>9. Items(up', down', tasks', Stale(transfer')) = 0
  <2>1. /\ Stale(transfer').up \subseteq Thread(f.id).up
        /\ Stale(transfer').down \subseteq Thread(f.id).down
        /\ Stale(transfer').tasks \subseteq Thread(f.id).tasks
    BY <1>4 DEF Stale, Thread
  <2>2. In(f, Stale(transfer').up) = 1 /\ In(g, Stale(transfer').down) = 0
    BY <1>1, <1>3, <1>4, Belongs DEF In
  <2>3. /\ Count(up, Stale(transfer').up) <= Count(up, Thread(f.id).up)
        /\ Count(down, Stale(transfer').down) <= Count(down, Thread(f.id).down)
        /\ CountTasks(tasks, Stale(transfer').tasks) <= CountTasks(tasks, Thread(f.id).tasks)
    BY <1>0, <2>1, MonotoneCount, TasksKept DEF PlaybackTypeOK, Wires
  <2>4. Items(up, down, tasks, Stale(transfer')) <= 1
    <3>1. Items(up, down, tasks, Thread(f.id)) <= 1
      BY <1>1 DEF OneToken
    <3>. QED
      BY <1>0, <2>3, <3>1, CountsTyped DEF Items
  <2>5. Items(up', down', tasks', Stale(transfer')) + 1 <= Items(up, down, tasks, Stale(transfer'))
    BY <1>0, <1>6, <2>2, CountsTyped
  <2>. QED
    BY <1>0, <2>4, <2>5, CountsTyped
<1>10. Items(up', down', tasks', Loud(transfer')) <= Items(up, down, tasks, Loud(transfer))
  <2>1. In(f, Loud(transfer).up) = In(g, Loud(transfer).down) /\ In(f, Loud(transfer).up) \in {0, 1}
    <3>1. f \in Loud(transfer).up <=> g \in Loud(transfer).down
      BY <1>1, <1>3, Belongs
    <3>. QED
      BY <3>1 DEF In
  <2>2. Items(up', down', tasks', Loud(transfer)) <= Items(up, down, tasks, Loud(transfer))
    BY <1>0, <1>6, <2>1, CountsTyped
  <2>3. Loud(transfer').up \subseteq Loud(transfer).up \cup Thread(f.id).up
    BY <1>4 DEF Loud, Thread
  <2>4. Count(up', Loud(transfer').up) <= Count(up', Loud(transfer).up)
    BY <1>0, <1>8, <2>3, CountKept
  <2>5. Loud(transfer').down = Loud(transfer).down /\ Loud(transfer').tasks = Loud(transfer).tasks
    BY DEF Loud
  <2>6. Items(up', down', tasks', Loud(transfer')) <= Items(up', down', tasks', Loud(transfer))
    BY <1>0, <2>4, <2>5, CountsTyped DEF Items
  <2>. QED
    BY <1>0, <2>2, <2>6, CountsTyped
<1>11. plays' \/ Cardinality(Audible(playing')) + Items(up', down', tasks', Loud(transfer')) <= 1
  <2>1. plays \/ Cardinality(Audible(playing)) + Items(up, down, tasks, Loud(transfer)) <= 1
    BY DEF OneToken
  <2>. QED
    BY <1>0, <1>5, <1>10, <2>1, CountsTyped
<1>12. transfer'.id <= asks'
  BY <1>4, <1>5 DEF OneToken, f
<1>. QED
  BY <1>7, <1>9, <1>11, <1>12 DEF OneToken

\* The source has paused: the target is to start, or the source to play on.
LEMMA HubSourcePausedMoves ==
  ASSUME PlaybackInv, PlaybackInv', OneToken, NEW c \in Conns, HubSourcePaused(c)
  PROVE  OneToken'
<1> DEFINE f == Head(up[c])
           t == [transfer EXCEPT !.snap = f.snap]
<1>0. PlaybackTypeOK /\ PlaybackTypeOK' /\ Takes(c, "SOURCE_PAUSED") /\ PlayersKeep
  BY DEF PlaybackInv, HubSourcePaused, TakesRegistered
<1>1. CASE HubKeeps
  BY <1>0, <1>1, HubQuietSteps
<1>2. CASE /\ transfer # NoTransfer /\ transfer.id = f.id
           /\ Advances("Start", f.snap, transfer.target, "START_TRANSFER")
  BY <1>0, <1>2, HubTellsStart
<1>3. CASE transfer # NoTransfer /\ Aborts(t, TRUE, Present)
  <2>1. f \in Frames /\ f.type = "SOURCE_PAUSED" /\ f.snap \in Snapshots
    BY <1>0, TakesTypes, FrameFields
  <2>2. t \in Transfers /\ t.snap = f.snap /\ t.id \in Ids
    BY <1>3, <2>1, HubRefers DEF Transfers
  <2> DEFINE g == [type |-> "ABORT_TRANSFER", id |-> t.id, resume |-> TRUE /\ t.snap.playing]
  <2>3. g \in Frames /\ g.type = "ABORT_TRANSFER" /\ g.resume = f.snap.playing
    BY <2>1, <2>2 DEF Frames, Snapshots
  <2>4. \A C : Moving(C) => Count(down', C.down) <= Count(down, C.down) + In(g, C.down)
    <3>. HIDE DEF t
    <3>. QED
      BY <1>0, <1>3, <2>2, AbortsMove
  <2>5. transfer' = NoTransfer /\ UNCHANGED <<playing, asks, plays>> /\ asks \in Nat
    BY <1>0, <1>3, PlaybackBoundsAssumption DEF Aborts, PlayersKeep, playerVars, PlaybackTypeOK
  <2>. HIDE DEF f, g, t
  <2>6. \A C : Moving(C) => Items(up', down', tasks', C) + In(f, C.up)
                              <= Items(up, down, tasks, C) + In(g, C.down)
    BY <1>0, <2>4, HubMoves DEF f
  <2>7. \A i \in Nat : Items(up', down', tasks', Thread(i)) <= Items(up, down, tasks, Thread(i))
    <3>1. \A i \in Nat : In(g, Thread(i).down) = 0
      BY <2>3, Belongs DEF In
    <3>. QED
      BY <1>0, <2>6, <3>1, AllMoving, CountsTyped
  <2>8. Items(up', down', tasks', Stale(transfer)) <= Items(up, down, tasks, Stale(transfer))
    <3>1. In(g, Stale(transfer).down) = 0
      BY <2>3, Belongs DEF In
    <3>. QED
      BY <1>0, <2>6, <3>1, AllMoving, CountsTyped
  <2>9. Items(up', down', tasks', Loud(transfer)) <= Items(up, down, tasks, Loud(transfer))
    <3>1. f \in Loud(transfer).up <=> g \in Loud(transfer).down
      BY <2>1, <2>3, Belongs
    <3>2. In(f, Loud(transfer).up) = In(g, Loud(transfer).down) /\ In(f, Loud(transfer).up) \in {0, 1}
      BY <3>1 DEF In
    <3>. QED
      BY <1>0, <2>6, <3>2, AllMoving, CountsTyped
  <2>10. Cardinality(Audible(playing')) + Items(up', down', tasks', Loud(transfer))
           <= Cardinality(Audible(playing)) + Items(up, down, tasks, Loud(transfer))
    BY <1>0, <2>5, <2>9, CountsTyped
  <2>11. ~Starting(transfer')
    BY <2>5 DEF Starting
  <2>. QED
    BY <1>0, <2>5, <2>7, <2>8, <2>10, <2>11, TokenStep
<1>. QED
  BY <1>1, <1>2, <1>3 DEF HubSourcePaused, Expected

\* The target could not start, and the source plays on.
LEMMA HubFailedMoves ==
  ASSUME PlaybackInv, PlaybackInv', OneToken, NEW c \in Conns, HubFailed(c)
  PROVE  OneToken'
<1> DEFINE f == Head(up[c])
           resume == c = transfer.target /\ transfer.stage = "Start"
<1>0. PlaybackTypeOK /\ PlaybackTypeOK' /\ Takes(c, "TRANSFER_FAILED") /\ PlayersKeep
  BY DEF PlaybackInv, HubFailed, TakesRegistered
<1>1. CASE HubKeeps
  BY <1>0, <1>1, HubQuietSteps
<1>2. CASE ~HubKeeps
  <2>1. transfer # NoTransfer /\ transfer.id = f.id /\ Aborts(transfer, resume, Present)
    BY <1>2 DEF HubFailed, IsPlayerOf
  <2>2. f \in Frames /\ f.type = "TRANSFER_FAILED" /\ transfer \in Transfers /\ transfer.id \in Ids
    BY <1>0, <2>1, TakesTypes, FrameFields, HubRefers DEF Transfers
  <2> DEFINE g == [type |-> "ABORT_TRANSFER", id |-> transfer.id, resume |-> resume /\ transfer.snap.playing]
  <2>3. g \in Frames /\ g.type = "ABORT_TRANSFER" /\ (g.resume => Starting(transfer) /\ transfer.snap.playing)
    BY <2>1, <2>2 DEF Frames, Starting
  <2>4. \A C : Moving(C) => Count(down', C.down) <= Count(down, C.down) + In(g, C.down)
    <3>1. resume \in BOOLEAN
      OBVIOUS
    <3>. HIDE DEF resume
    <3>. QED
      BY <1>0, <2>1, <2>2, <3>1, AbortsMove
  <2>5. transfer' = NoTransfer /\ UNCHANGED <<playing, asks, plays>> /\ asks \in Nat
    BY <1>0, <2>1, PlaybackBoundsAssumption DEF Aborts, PlayersKeep, playerVars, PlaybackTypeOK
  <2>. HIDE DEF f, g, resume
  <2>6. \A C : Moving(C) => Items(up', down', tasks', C) + In(f, C.up)
                              <= Items(up, down, tasks, C) + In(g, C.down)
    BY <1>0, <2>4, HubMoves DEF f
  <2>7. \A i \in Nat : Items(up', down', tasks', Thread(i)) <= Items(up, down, tasks, Thread(i))
    <3>1. \A i \in Nat : In(g, Thread(i).down) = 0
      BY <2>3, Belongs DEF In
    <3>. QED
      BY <1>0, <2>6, <3>1, AllMoving, CountsTyped
  <2>8. Items(up', down', tasks', Stale(transfer)) <= Items(up, down, tasks, Stale(transfer))
    <3>1. In(g, Stale(transfer).down) = 0
      BY <2>3, Belongs DEF In
    <3>. QED
      BY <1>0, <2>6, <3>1, AllMoving, CountsTyped
  <2>9. Items(up', down', tasks', Loud(transfer)) <= Items(up, down, tasks, Loud(transfer))
    <3>1. g \in Loud(transfer).down => f \in Loud(transfer).up
      BY <2>1, <2>2, <2>3, Belongs
    <3>2. In(g, Loud(transfer).down) <= In(f, Loud(transfer).up)
      BY <3>1 DEF In
    <3>. QED
      BY <1>0, <2>6, <3>2, AllMoving, CountsTyped
  <2>10. Cardinality(Audible(playing')) + Items(up', down', tasks', Loud(transfer))
           <= Cardinality(Audible(playing)) + Items(up, down, tasks, Loud(transfer))
    BY <1>0, <2>5, <2>9, CountsTyped
  <2>11. ~Starting(transfer')
    BY <2>5 DEF Starting
  <2>. QED
    BY <1>0, <2>5, <2>7, <2>8, <2>10, <2>11, TokenStep
<1>. QED
  BY <1>1, <1>2

\* Whatever the hub does, the token stays one.
LEMMA HubKeepsToken ==
  ASSUME PlaybackInv, PlaybackInv', OneToken, NEW c \in Conns, Hub(c)
  PROVE  OneToken'
BY HubQuietSteps, HubTransferMoves, HubSnapshotMoves, HubSourcePausedMoves, HubFailedMoves DEF Hub

-----------------------------------------------------------------------------
(* What the players' steps move.                                           *)

\* A player hears a frame: there is one less.
LEMMA HeardTaken ==
  ASSUME PlaybackTypeOK, NEW p \in Players, NEW type, Hears(p, type), NEW S
  PROVE  Count(down', S) + In(Heard(p), S) <= Count(down, S)
<1>1. socket[p] \in Conns /\ down \in Wires
  BY DEF Hears, PlaybackTypeOK, Wires
<1>2. down[socket[p]] # <<>> /\ down' = [down EXCEPT ![socket[p]] = Tail(down[socket[p]])]
  BY DEF Hears
<1>. QED
  BY <1>1, <1>2, CountTaken DEF Heard

\* A player that is not connected tells nobody.
LEMMA Replied ==
  ASSUME PlaybackTypeOK, NEW p \in Players, NEW f, Replies(p, f), NEW S
  PROVE  Count(up', S) <= Count(up, S) + In(f, S)
<1>1. up \in Wires /\ socket[p] \in Conns \cup {Offline} /\ Count(up, S) \in Nat
  BY MarkedFinite DEF PlaybackTypeOK, Wires
<1>2. CASE socket[p] \in Conns
  BY <1>1, <1>2, CountAppended DEF Replies
<1>3. CASE socket[p] \notin Conns
  <2>1. up' = up
    BY <1>1, <1>3 DEF Replies, Wires
  <2>. QED
    BY <1>1, <2>1 DEF In
<1>. QED
  BY <1>2, <1>3

\* A step of a player, which does not touch the transfer.
LEMMA PlayerStep ==
  ASSUME PlaybackTypeOK, PlaybackTypeOK', OneToken, UNCHANGED <<transfer, asks>>, plays => plays',
         \A i \in Nat : Items(up', down', tasks', Thread(i)) <= Items(up, down, tasks, Thread(i)),
         Starting(transfer) =>
           Items(up', down', tasks', Stale(transfer)) <= Items(up, down, tasks, Stale(transfer)),
         \/ plays'
         \/ Cardinality(Audible(playing')) + Items(up', down', tasks', Loud(transfer))
              <= Cardinality(Audible(playing)) + Items(up, down, tasks, Loud(transfer))
  PROVE  OneToken'
<1>1. asks' >= asks
  BY PlaybackBoundsAssumption DEF PlaybackTypeOK
<1>2. transfer' # NoTransfer => transfer'.id <= asks'
  BY DEF OneToken
<1>. QED
  BY <1>1, <1>2, TokenStep

\* What the player had under way is given up, and it may fall silent.
LEMMA Cancels ==
  ASSUME PlaybackTypeOK, PlaybackTypeOK', NEW p \in Players
  PROVE  /\ tasks' = Set(tasks, p, CancelledTasks(p)) =>
              \A S : CountTasks(tasks', S) <= CountTasks(tasks, S)
         /\ playing' \in {Set(playing, p, CancelledPlaying(p)), Set(playing, p, FALSE), playing} =>
              Cardinality(Audible(playing')) <= Cardinality(Audible(playing))
<1>1. ASSUME tasks' = Set(tasks, p, CancelledTasks(p)), NEW S
      PROVE  CountTasks(tasks', S) <= CountTasks(tasks, S)
  <2>1. \A q \in Players : \A t \in TaskRecords : t \in tasks'[q] /\ t \in S => t \in tasks[q] /\ t \in S
    BY <1>1 DEF Set, CancelledTasks, PlaybackTypeOK
  <2>. QED
    BY <2>1, TasksKept
<1>2. ASSUME playing' \in {Set(playing, p, CancelledPlaying(p)), Set(playing, p, FALSE), playing}
      PROVE  Cardinality(Audible(playing')) <= Cardinality(Audible(playing))
  <2>0. playing \in [Players -> BOOLEAN] /\ CancelledPlaying(p) \in {FALSE, playing[p]}
    BY DEF CancelledPlaying, PlaybackTypeOK
  <2>1. Audible(playing') \subseteq Audible(playing)
    <3>1. \A q \in Players : playing'[q] \in {FALSE, playing[q]}
      BY <1>2, <2>0 DEF Set
    <3>. QED
      BY <2>0, <3>1 DEF Audible
  <2>2. IsFiniteSet(Audible(playing))
    BY FS_Subset, PlaybackBoundsAssumption DEF Audible
  <2>. QED
    BY <2>1, <2>2, FS_Subset
<1>. QED
  BY <1>1, <1>2

\* What makes no player play on, among what answers a frame of the transfer: only
\* a failure may, and not of a transfer that has left the frame behind.
LEMMA AnswerSteps ==
  ASSUME PlaybackTypeOK, PlaybackTypeOK', OneToken, UNCHANGED <<transfer, asks, plays>>,
         NEW h \in Frames, NEW r \in Frames,
         h.type \in {"REQUEST_SNAPSHOT", "PAUSE_FOR_TRANSFER"},
         r.type \in {"SNAPSHOT", "TRANSFER_FAILED", "SOURCE_PAUSED"}, r.id = h.id,
         \A C : Items(up', down', tasks', C) + In(h, C.down) <= Items(up, down, tasks, C) + In(r, C.up),
         Cardinality(Audible(playing')) + (IF r.type = "SOURCE_PAUSED" /\ r.snap.playing THEN 1 ELSE 0)
           <= Cardinality(Audible(playing))
  PROVE  OneToken'
<1>1. \A i \in Nat : Items(up', down', tasks', Thread(i)) <= Items(up, down, tasks, Thread(i))
  <2>1. \A i \in Nat : In(h, Thread(i).down) = In(r, Thread(i).up)
    BY Belongs DEF In
  <2>. QED
    BY <2>1, CountsTyped
<1>2. Items(up', down', tasks', Stale(transfer)) <= Items(up, down, tasks, Stale(transfer))
  <2>1. In(r, Stale(transfer).up) <= In(h, Stale(transfer).down)
    BY Belongs DEF In
  <2>. QED
    BY <2>1, CountsTyped
<1>3. Cardinality(Audible(playing')) + Items(up', down', tasks', Loud(transfer))
        <= Cardinality(Audible(playing)) + Items(up, down, tasks, Loud(transfer))
  <2>1. In(h, Loud(transfer).down) = 0
    BY Belongs DEF In
  <2>2. CASE r.type = "TRANSFER_FAILED" /\ r.id = transfer.id /\ Starting(transfer)
    <3>1. In(h, Stale(transfer).down) = 1 /\ In(r, Stale(transfer).up) = 0
      BY <2>2, Belongs DEF In
    <3>2. Items(up, down, tasks, Stale(transfer)) = 0
      BY <2>2 DEF OneToken
    <3>3. Items(up', down', tasks', Stale(transfer)) + 1 <= 0
      BY <3>1, <3>2, CountsTyped
    <3>. QED
      BY <3>3, CountsTyped
  <2>3. CASE ~(r.type = "TRANSFER_FAILED" /\ r.id = transfer.id /\ Starting(transfer))
    <3>1. In(r, Loud(transfer).up) = IF r.type = "SOURCE_PAUSED" /\ r.snap.playing THEN 1 ELSE 0
      BY <2>3, Belongs DEF In
    <3>. QED
      BY <2>1, <3>1, CountsTyped
  <2>. QED
    BY <2>2, <2>3
<1>. QED
  BY <1>1, <1>2, <1>3, PlayerStep

\* The source answers with a snapshot or fails.
LEMMA PlayerSnapshotMoves ==
  ASSUME PlaybackInv, PlaybackInv', OneToken, NEW p \in Players, PlayerSnapshot(p)
  PROVE  OneToken'
<1>0. /\ PlaybackTypeOK /\ PlaybackTypeOK' /\ Hears(p, "REQUEST_SNAPSHOT")
      /\ UNCHANGED <<transfer, asks, plays>>
  BY DEF PlaybackInv, PlayerSnapshot, Hears, HubStays, hubVars
<1> DEFINE h == Heard(p)
<1>1. h \in Frames /\ h.type = "REQUEST_SNAPSHOT" /\ h.id \in Ids
  BY <1>0, HearsTypes, FrameFields
<1>2. PICK r \in Frames : r.type \in {"SNAPSHOT", "TRANSFER_FAILED"} /\ r.id = h.id /\ Replies(p, r)
  <2>1. /\ [type |-> "TRANSFER_FAILED", id |-> h.id] \in Frames
        /\ [type |-> "SNAPSHOT", id |-> h.id,
            snap |-> [queue |-> queue[p], playing |-> CancelledPlaying(p)]] \in Frames
    BY <1>0, <1>1, CancelTypes DEF Frames
  <2>. QED
    BY <2>1 DEF PlayerSnapshot
<1>. HIDE DEF h
<1>3. ASSUME NEW C
      PROVE  Items(up', down', tasks', C) + In(h, C.down) <= Items(up, down, tasks, C) + In(r, C.up)
  <2>1. CountTasks(tasks', C.tasks) <= CountTasks(tasks, C.tasks)
    BY <1>0, Cancels DEF PlayerSnapshot
  <2>2. Count(down', C.down) + In(h, C.down) <= Count(down, C.down)
    BY <1>0, HeardTaken DEF h
  <2>3. Count(up', C.up) <= Count(up, C.up) + In(r, C.up)
    BY <1>0, <1>2, Replied
  <2>. QED
    BY <1>0, <2>1, <2>2, <2>3, CountsTyped DEF Items
<1>4. Cardinality(Audible(playing')) <= Cardinality(Audible(playing))
  BY <1>0, Cancels DEF PlayerSnapshot
<1>5. Cardinality(Audible(playing')) + (IF r.type = "SOURCE_PAUSED" /\ r.snap.playing THEN 1 ELSE 0)
        <= Cardinality(Audible(playing))
  BY <1>0, <1>2, <1>4, CountsTyped
<1>. QED
  BY <1>0, <1>1, <1>2, <1>3, <1>5, AnswerSteps

\* The source falls silent and says so, or fails.
LEMMA PlayerPauseMoves ==
  ASSUME PlaybackInv, PlaybackInv', OneToken, NEW p \in Players, PlayerPause(p)
  PROVE  OneToken'
<1>0. /\ PlaybackTypeOK /\ PlaybackTypeOK' /\ Hears(p, "PAUSE_FOR_TRANSFER")
      /\ UNCHANGED <<transfer, asks, plays, tasks>>
  BY DEF PlaybackInv, PlayerPause, Hears, HubStays, hubVars
<1> DEFINE h == Heard(p)
<1>1. h \in Frames /\ h.type = "PAUSE_FOR_TRANSFER" /\ h.id \in Ids
  BY <1>0, HearsTypes, FrameFields
<1>2. \A S : Count(down', S) + In(h, S) <= Count(down, S)
  BY <1>0, HeardTaken
<1>3. CASE up' = up /\ playing' = playing
  <2>1. ASSUME NEW C PROVE Items(up', down', tasks', C) <= Items(up, down, tasks, C)
    <3>. HIDE DEF h
    <3>. QED
      BY <1>0, <1>2, <1>3, CountsTyped DEF Items
  <2>2. Cardinality(Audible(playing')) + Items(up', down', tasks', Loud(transfer))
          <= Cardinality(Audible(playing)) + Items(up, down, tasks, Loud(transfer))
    BY <1>0, <1>3, <2>1, CountsTyped
  <2>. QED
    BY <1>0, <2>1, <2>2, PlayerStep
<1>4. CASE \E r \in Frames :
             /\ Replies(p, r) /\ r.id = h.id
             /\ \/ r.type = "TRANSFER_FAILED" /\ playing' = playing
                \/ r.type = "SOURCE_PAUSED" /\ r.snap = Capture(p) /\ playing' = Set(playing, p, FALSE)
  <2>. HIDE DEF h
  <2>1. PICK r \in Frames :
          /\ Replies(p, r) /\ r.id = h.id
          /\ \/ r.type = "TRANSFER_FAILED" /\ playing' = playing
             \/ r.type = "SOURCE_PAUSED" /\ r.snap = Capture(p) /\ playing' = Set(playing, p, FALSE)
    BY <1>4
  <2>2. ASSUME NEW C
        PROVE  Items(up', down', tasks', C) + In(h, C.down) <= Items(up, down, tasks, C) + In(r, C.up)
    <3>1. Count(up', C.up) <= Count(up, C.up) + In(r, C.up)
      BY <1>0, <2>1, Replied
    <3>. QED
      BY <1>0, <1>2, <3>1, CountsTyped DEF Items
  <2>3. Cardinality(Audible(playing')) + (IF r.type = "SOURCE_PAUSED" /\ r.snap.playing THEN 1 ELSE 0)
          <= Cardinality(Audible(playing))
    <3>1. CASE r.type = "TRANSFER_FAILED" /\ playing' = playing
      BY <1>0, <3>1, CountsTyped
    <3>2. CASE r.type = "SOURCE_PAUSED" /\ r.snap = Capture(p) /\ playing' = Set(playing, p, FALSE)
      <4>1. r.snap.playing = playing[p] /\ playing \in [Players -> BOOLEAN]
        BY <1>0, <3>2 DEF Capture, PlaybackTypeOK
      <4>2. Cardinality(Audible(playing')) + In(p, Audible(playing))
              = Cardinality(Audible(playing)) + (IF FALSE THEN 1 ELSE 0)
        BY <3>2, <4>1, AudibleSet
      <4>3. In(p, Audible(playing)) = IF r.type = "SOURCE_PAUSED" /\ r.snap.playing THEN 1 ELSE 0
        BY <3>2, <4>1 DEF In, Audible
      <4>. QED
        BY <1>0, <4>2, <4>3, CountsTyped
    <3>. QED
      BY <2>1, <3>1, <3>2
  <2>. QED
    BY <1>0, <1>1, <2>1, <2>2, <2>3, AnswerSteps
<1>. QED
  <2>1. /\ [type |-> "TRANSFER_FAILED", id |-> h.id] \in Frames
        /\ [type |-> "SOURCE_PAUSED", id |-> h.id, snap |-> Capture(p)] \in Frames
    BY <1>0, <1>1, CancelTypes DEF Frames
  <2>. QED
    BY <1>3, <1>4, <2>1 DEF PlayerPause

\* The frame becomes the prepare of the target.
LEMMA PlayerInitializeMoves ==
  ASSUME PlaybackInv, PlaybackInv', OneToken, NEW p \in Players, PlayerInitialize(p)
  PROVE  OneToken'
<1>0. /\ PlaybackTypeOK /\ PlaybackTypeOK' /\ Hears(p, "INITIALIZE_PLAYER")
      /\ UNCHANGED <<transfer, asks, plays, up>>
  BY DEF PlaybackInv, PlayerInitialize, Hears, HubStays, hubVars
<1> DEFINE h == Heard(p)
           k == [id |-> h.id, does |-> "prepare", snap |-> h.snap]
<1>1. h \in Frames /\ h.type = "INITIALIZE_PLAYER" /\ h.id \in Ids /\ h.snap \in Snapshots
  BY <1>0, HearsTypes, FrameFields
<1>2. k \in TaskRecords /\ k.id = h.id /\ k.does = "prepare"
  BY <1>1 DEF TaskRecords
<1>3. \A q \in Players : tasks'[q] \subseteq IF q = p THEN tasks[p] \cup {k} ELSE tasks[q]
  BY <1>0 DEF PlayerInitialize, Set, CancelledTasks, PlaybackTypeOK
<1>. HIDE DEF h, k
<1>4. ASSUME NEW C
      PROVE  Items(up', down', tasks', C) + In(h, C.down) <= Items(up, down, tasks, C) + In(k, C.tasks)
  <2>1. CountTasks(tasks', C.tasks) <= CountTasks(tasks, C.tasks) + In(k, C.tasks)
    BY <1>2, <1>3, TaskAdded
  <2>2. Count(down', C.down) + In(h, C.down) <= Count(down, C.down)
    BY <1>0, HeardTaken DEF h
  <2>. QED
    BY <1>0, <2>1, <2>2, CountsTyped DEF Items
<1>5. \A i \in Nat : Items(up', down', tasks', Thread(i)) <= Items(up, down, tasks, Thread(i))
  <2>1. \A i \in Nat : In(h, Thread(i).down) = In(k, Thread(i).tasks)
    BY <1>1, <1>2, Belongs, TaskBelongs DEF In
  <2>. QED
    BY <1>0, <1>4, <2>1, CountsTyped
<1>6. Items(up', down', tasks', Stale(transfer)) <= Items(up, down, tasks, Stale(transfer))
  <2>1. In(k, Stale(transfer).tasks) <= In(h, Stale(transfer).down)
    BY <1>1, <1>2, Belongs, TaskBelongs DEF In
  <2>. QED
    BY <1>0, <1>4, <2>1, CountsTyped
<1>7. Items(up', down', tasks', Loud(transfer)) <= Items(up, down, tasks, Loud(transfer))
  <2>1. In(k, Loud(transfer).tasks) = 0
    BY <1>2, TaskBelongs DEF In
  <2>. QED
    BY <1>0, <1>4, <2>1, CountsTyped
<1>8. Cardinality(Audible(playing')) <= Cardinality(Audible(playing))
  BY <1>0, Cancels DEF PlayerInitialize
<1>9. Cardinality(Audible(playing')) + Items(up', down', tasks', Loud(transfer))
        <= Cardinality(Audible(playing)) + Items(up, down, tasks, Loud(transfer))
  BY <1>0, <1>7, <1>8, CountsTyped
<1>. QED
  BY <1>0, <1>5, <1>6, <1>9, PlayerStep

\* The frame becomes the start of the target, or nothing.
LEMMA PlayerStartMoves ==
  ASSUME PlaybackInv, PlaybackInv', OneToken, NEW p \in Players, PlayerStart(p)
  PROVE  OneToken'
<1>0. /\ PlaybackTypeOK /\ PlaybackTypeOK' /\ Hears(p, "START_TRANSFER")
      /\ UNCHANGED <<transfer, asks, plays, up, playing>>
  BY DEF PlaybackInv, PlayerStart, Hears, HubStays, hubVars
<1> DEFINE h == Heard(p)
           k == [id |-> h.id, does |-> "start", snap |-> h.snap]
<1>1. h \in Frames /\ h.type = "START_TRANSFER" /\ h.id \in Ids /\ h.snap \in Snapshots
  BY <1>0, HearsTypes, FrameFields
<1>2. k \in TaskRecords /\ k.id = h.id /\ k.does = "start" /\ k.snap = h.snap
  BY <1>1 DEF TaskRecords
<1>3. \A q \in Players : tasks'[q] \subseteq IF q = p THEN tasks[p] \cup {k} ELSE tasks[q]
  BY <1>0 DEF PlayerStart, Set, PlaybackTypeOK
<1>. HIDE DEF h, k
<1>4. ASSUME NEW C
      PROVE  Items(up', down', tasks', C) + In(h, C.down) <= Items(up, down, tasks, C) + In(k, C.tasks)
  <2>1. CountTasks(tasks', C.tasks) <= CountTasks(tasks, C.tasks) + In(k, C.tasks)
    BY <1>2, <1>3, TaskAdded
  <2>2. Count(down', C.down) + In(h, C.down) <= Count(down, C.down)
    BY <1>0, HeardTaken DEF h
  <2>. QED
    BY <1>0, <2>1, <2>2, CountsTyped DEF Items
<1>5. \A i \in Nat : Items(up', down', tasks', Thread(i)) <= Items(up, down, tasks, Thread(i))
  <2>1. \A i \in Nat : In(h, Thread(i).down) = In(k, Thread(i).tasks)
    BY <1>1, <1>2, Belongs, TaskBelongs DEF In
  <2>. QED
    BY <1>0, <1>4, <2>1, CountsTyped
<1>6. Items(up', down', tasks', Stale(transfer)) <= Items(up, down, tasks, Stale(transfer))
  <2>1. In(k, Stale(transfer).tasks) = In(h, Stale(transfer).down)
    BY <1>1, <1>2, Belongs, TaskBelongs DEF In
  <2>. QED
    BY <1>0, <1>4, <2>1, CountsTyped
<1>7. Items(up', down', tasks', Loud(transfer)) <= Items(up, down, tasks, Loud(transfer))
  <2>1. In(k, Loud(transfer).tasks) = In(h, Loud(transfer).down)
    BY <1>1, <1>2, Belongs, TaskBelongs DEF In
  <2>. QED
    BY <1>0, <1>4, <2>1, CountsTyped
<1>8. Cardinality(Audible(playing')) + Items(up', down', tasks', Loud(transfer))
        <= Cardinality(Audible(playing)) + Items(up, down, tasks, Loud(transfer))
  BY <1>0, <1>7, CountsTyped
<1>. QED
  BY <1>0, <1>5, <1>6, <1>8, PlayerStep

\* The source plays on: the frame that told it so is gone.
LEMMA PlayerAbortMoves ==
  ASSUME PlaybackInv, PlaybackInv', OneToken, NEW p \in Players, PlayerAbort(p)
  PROVE  OneToken'
<1>0. /\ PlaybackTypeOK /\ PlaybackTypeOK' /\ Hears(p, "ABORT_TRANSFER")
      /\ UNCHANGED <<transfer, asks, plays, up>> /\ playing \in [Players -> BOOLEAN]
  BY DEF PlaybackInv, PlayerAbort, Hears, HubStays, hubVars, PlaybackTypeOK
<1> DEFINE h == Heard(p)
<1>1. h \in Frames /\ h.type = "ABORT_TRANSFER" /\ h.resume \in BOOLEAN
  BY <1>0, HearsTypes, FrameFields
<1>2. \A S : CountTasks(tasks', S) <= CountTasks(tasks, S)
  <2>1. tasks' = tasks \/ tasks' = Set(tasks, p, CancelledTasks(p))
    BY DEF PlayerAbort
  <2>2. CASE tasks' = tasks
    BY <1>0, <2>2, CountsTyped
  <2>3. CASE tasks' = Set(tasks, p, CancelledTasks(p))
    BY <1>0, <2>3, Cancels
  <2>. QED
    BY <2>1, <2>2, <2>3
<1>3. Cardinality(Audible(playing')) <= Cardinality(Audible(playing)) + In(h, Loud(transfer).down)
  <2>1. In(h, Loud(transfer).down) = IF h.resume THEN 1 ELSE 0
    BY <1>1, Belongs DEF In
  <2>2. CASE playing' = playing
    BY <1>0, <2>1, <2>2, CountsTyped
  <2>3. CASE playing' # playing
    <3> DEFINE b == \/ CancelledPlaying(p)
                    \/ h.resume /\ prepared[p].paused /\ prepared[p].role = "source"
    <3>1. playing' = Set(playing, p, b)
      BY <2>3 DEF PlayerAbort
    <3>2. b \in BOOLEAN /\ (b => playing[p] \/ h.resume)
      BY DEF CancelledPlaying
    <3>. HIDE DEF b, h
    <3>3. Cardinality(Audible(playing')) + In(p, Audible(playing))
            = Cardinality(Audible(playing)) + (IF b THEN 1 ELSE 0)
      BY <1>0, <3>1, <3>2, AudibleSet
    <3>4. (IF b THEN 1 ELSE 0) <= In(p, Audible(playing)) + In(h, Loud(transfer).down)
      <4>1. p \in Audible(playing) <=> playing[p]
        BY DEF Audible
      <4>2. b => p \in Audible(playing) \/ h \in Loud(transfer).down
        BY <1>1, <3>2, <4>1, Belongs
      <4>. QED
        BY <4>2 DEF In
    <3>5. (IF b THEN 1 ELSE 0) \in Nat
      OBVIOUS
    <3>. QED
      BY <1>0, <3>3, <3>4, <3>5, CountsTyped
  <2>. QED
    BY <2>2, <2>3
<1>. HIDE DEF h
<1>4. ASSUME NEW C PROVE Items(up', down', tasks', C) + In(h, C.down) <= Items(up, down, tasks, C)
  <2>1. Count(down', C.down) + In(h, C.down) <= Count(down, C.down)
    BY <1>0, HeardTaken DEF h
  <2>. QED
    BY <1>0, <1>2, <2>1, CountsTyped DEF Items
<1>5. \A C : Items(up', down', tasks', C) <= Items(up, down, tasks, C)
  BY <1>0, <1>4, CountsTyped
<1>6. Cardinality(Audible(playing')) + Items(up', down', tasks', Loud(transfer))
        <= Cardinality(Audible(playing)) + Items(up, down, tasks, Loud(transfer))
  BY <1>0, <1>3, <1>4, CountsTyped
<1>. QED
  BY <1>0, <1>5, <1>6, PlayerStep

\* The frames that move nothing; a command to play is somebody who presses play.
LEMMA ListensQuietly ==
  ASSUME PlaybackInv, PlaybackInv', OneToken, NEW p \in Players,
         PlayerComplete(p) \/ PlayerDeactivate(p) \/ PlayerExecute(p)
  PROVE  OneToken'
<1>0. /\ PlaybackTypeOK /\ PlaybackTypeOK' /\ (\E type : Hears(p, type))
      /\ UNCHANGED <<transfer, asks, tasks>> /\ asks \in Nat
  <2>0. PlaybackTypeOK /\ PlaybackTypeOK'
    BY DEF PlaybackInv
  <2>1. asks \in Nat
    BY <2>0, PlaybackBoundsAssumption DEF PlaybackTypeOK
  <2>2. (\E type : Hears(p, type)) /\ tasks' = tasks
    BY DEF PlayerComplete, PlayerDeactivate, PlayerExecute
  <2>3. UNCHANGED <<transfer, asks>>
    BY <2>2 DEF Hears, HubStays, hubVars
  <2>. QED
    BY <2>0, <2>1, <2>2, <2>3
<1>1. \A S : Count(down', S) <= Count(down, S)
  BY <1>0, HeardTaken, CountsTyped
<1>2. \A C : Moving(C) => Count(up', C.up) <= Count(up, C.up)
  <2> DEFINE r == [type |-> "COMMAND_RESULT", id |-> Heard(p).id]
  <2>1. up' = up \/ Replies(p, r)
    BY DEF PlayerComplete, PlayerDeactivate, PlayerExecute
  <2>2. \A C : Moving(C) => In(r, C.up) = 0
    BY DEF Moving, In
  <2>. HIDE DEF r
  <2>. QED
    BY <1>0, <2>1, <2>2, Replied, CountsTyped
<1>3. \A C : Moving(C) => Items(up', down', tasks', C) <= Items(up, down, tasks, C)
  BY <1>0, <1>1, <1>2, CountsTyped DEF Items
<1>4. (plays => plays') /\ (plays' \/ Cardinality(Audible(playing')) <= Cardinality(Audible(playing)))
  <2>1. plays' \/ playing' \in {Set(playing, p, FALSE), playing}
    BY DEF PlayerComplete, PlayerDeactivate, PlayerExecute
  <2>2. plays => plays'
    BY DEF PlayerComplete, PlayerDeactivate, PlayerExecute
  <2>. QED
    BY <1>0, <2>1, <2>2, Cancels
<1>. QED
  BY <1>0, <1>3, <1>4, QuietStep

\* prepare, whichever way it ends.
LEMMA PreparedMoves ==
  ASSUME PlaybackInv, PlaybackInv', OneToken, NEW p \in Players, NEW k \in tasks[p], PlayerPrepared(p, k)
  PROVE  OneToken'
<1>0. PlaybackTypeOK /\ PlaybackTypeOK' /\ UNCHANGED <<transfer, asks, plays, down>>
  BY DEF PlaybackInv, PlayerPrepared, Works, HubStays, hubVars
<1>1. k \in TaskRecords /\ k.id \in Ids /\ k.does = "prepare"
  BY <1>0 DEF PlaybackTypeOK, TaskRecords, PlayerPrepared
<1>2. PICK r \in Frames : r.type \in {"READY", "TRANSFER_FAILED"} /\ r.id = k.id /\ Replies(p, r)
  <2>1. [type |-> "READY", id |-> k.id] \in Frames /\ [type |-> "TRANSFER_FAILED", id |-> k.id] \in Frames
    BY <1>1 DEF Frames
  <2>. QED
    BY <2>1 DEF PlayerPrepared
<1>3. ASSUME NEW C
      PROVE  Items(up', down', tasks', C) + In(k, C.tasks) <= Items(up, down, tasks, C) + In(r, C.up)
  <2>1. CountTasks(tasks', C.tasks) + In(k, C.tasks) <= CountTasks(tasks, C.tasks)
    <3>1. \A q \in Players : tasks'[q] \subseteq IF q = p THEN tasks[p] \ {k} ELSE tasks[q]
      BY <1>0 DEF PlayerPrepared, Set, PlaybackTypeOK
    <3>. QED
      BY <1>1, <3>1, TaskDone
  <2>2. Count(up', C.up) <= Count(up, C.up) + In(r, C.up)
    BY <1>0, <1>2, Replied
  <2>. QED
    BY <1>0, <2>1, <2>2, CountsTyped DEF Items
<1>4. \A i \in Nat : Items(up', down', tasks', Thread(i)) <= Items(up, down, tasks, Thread(i))
  <2>1. \A i \in Nat : In(k, Thread(i).tasks) = In(r, Thread(i).up)
    BY <1>1, <1>2, Belongs, TaskBelongs DEF In
  <2>. QED
    BY <1>0, <1>3, <2>1, CountsTyped
<1>5. Items(up', down', tasks', Stale(transfer)) <= Items(up, down, tasks, Stale(transfer))
  <2>1. In(r, Stale(transfer).up) <= In(k, Stale(transfer).tasks)
    BY <1>0, <1>1, <1>2, Belongs, TaskBelongs DEF In
  <2>. QED
    BY <1>0, <1>3, <2>1, CountsTyped
<1>6. Items(up', down', tasks', Loud(transfer)) <= Items(up, down, tasks, Loud(transfer))
  <2>1. CASE r.type = "TRANSFER_FAILED" /\ r.id = transfer.id /\ Starting(transfer)
    <3>1. In(k, Stale(transfer).tasks) = 1 /\ In(r, Stale(transfer).up) = 0
      <4>1. k \in Stale(transfer).tasks <=>
              k.id = transfer.id /\ (k.does = "prepare" \/ (k.does = "start" /\ k.snap # transfer.snap))
        BY <1>1, TaskBelongs
      <4>2. k \in Stale(transfer).tasks
        BY <1>1, <1>2, <2>1, <4>1
      <4>3. r \notin Stale(transfer).up
        BY <1>2, <2>1, Belongs
      <4>. QED
        BY <4>2, <4>3 DEF In
    <3>2. Items(up, down, tasks, Stale(transfer)) = 0
      BY <2>1 DEF OneToken
    <3>3. Items(up', down', tasks', Stale(transfer)) + 1 <= 0
      BY <1>3, <3>1, <3>2
    <3>. QED
      BY <1>0, <3>3, CountsTyped
  <2>2. CASE ~(r.type = "TRANSFER_FAILED" /\ r.id = transfer.id /\ Starting(transfer))
    <3>1. In(r, Loud(transfer).up) = 0
      BY <1>2, <2>2, Belongs DEF In
    <3>. QED
      BY <1>0, <1>3, <3>1, CountsTyped
  <2>. QED
    BY <2>1, <2>2
<1>7. Cardinality(Audible(playing')) <= Cardinality(Audible(playing))
  BY <1>0, Cancels DEF PlayerPrepared
<1>8. Cardinality(Audible(playing')) + Items(up', down', tasks', Loud(transfer))
        <= Cardinality(Audible(playing)) + Items(up, down, tasks, Loud(transfer))
  BY <1>0, <1>6, <1>7, CountsTyped
<1>. QED
  BY <1>0, <1>4, <1>5, <1>8, PlayerStep

\* start plays: what was to make the player play now does.
LEMMA PlaysMoves ==
  ASSUME PlaybackInv, PlaybackInv', OneToken, NEW p \in Players, NEW k \in tasks[p], PlayerPlays(p, k)
  PROVE  OneToken'
<1> DEFINE m == [k EXCEPT !.does = "check"]
           rest == [tasks EXCEPT ![p] = tasks[p] \ {k}]
<1>0. PlaybackTypeOK /\ PlaybackTypeOK' /\ UNCHANGED <<transfer, asks, plays, down, up>>
  BY DEF PlaybackInv, PlayerPlays, Works, HubStays, hubVars
<1>1. /\ k \in TaskRecords /\ k.does = "start" /\ k.snap.playing \in BOOLEAN
      /\ m \in TaskRecords /\ m.id = k.id /\ m.does = "check"
  <2>1. k \in TaskRecords /\ k.does = "start"
    BY <1>0 DEF PlaybackTypeOK, TaskRecords, PlayerPlays
  <2>. QED
    BY <2>1 DEF TaskRecords, Snapshots
<1>. HIDE DEF m
<1>2. ASSUME NEW C
      PROVE  Items(up', down', tasks', C) + In(k, C.tasks) <= Items(up, down, tasks, C) + In(m, C.tasks)
  <2>1. \A q \in Players : rest[q] \subseteq IF q = p THEN tasks[p] \ {k} ELSE tasks[q]
    BY <1>0 DEF PlaybackTypeOK
  <2>2. \A q \in Players : tasks'[q] \subseteq IF q = p THEN rest[p] \cup {m} ELSE rest[q]
    BY <1>0 DEF PlaybackTypeOK, Set, PlayerPlays, m
  <2>. HIDE DEF rest
  <2>3. CountTasks(rest, C.tasks) + In(k, C.tasks) <= CountTasks(tasks, C.tasks)
    BY <1>1, <2>1, TaskDone
  <2>4. CountTasks(tasks', C.tasks) <= CountTasks(rest, C.tasks) + In(m, C.tasks)
    BY <1>1, <2>2, TaskAdded
  <2>5. CountTasks(rest, C.tasks) \in Nat
    BY TasksFinite
  <2>6. CountTasks(tasks', C.tasks) + In(k, C.tasks) <= CountTasks(tasks, C.tasks) + In(m, C.tasks)
    BY <1>0, <2>3, <2>4, <2>5, CountsTyped
  <2>. QED
    BY <1>0, <2>6, CountsTyped DEF Items
<1>3. \A i \in Nat : Items(up', down', tasks', Thread(i)) <= Items(up, down, tasks, Thread(i))
  <2>1. \A i \in Nat : In(k, Thread(i).tasks) = In(m, Thread(i).tasks)
    BY <1>1, TaskBelongs DEF In
  <2>. QED
    BY <1>0, <1>2, <2>1, CountsTyped
<1>4. Items(up', down', tasks', Stale(transfer)) <= Items(up, down, tasks, Stale(transfer))
  <2>1. In(m, Stale(transfer).tasks) = 0
    BY <1>1, TaskBelongs DEF In
  <2>. QED
    BY <1>0, <1>2, <2>1, CountsTyped
<1>5. Cardinality(Audible(playing')) + Items(up', down', tasks', Loud(transfer))
        <= Cardinality(Audible(playing)) + Items(up, down, tasks, Loud(transfer))
  <2>1. In(m, Loud(transfer).tasks) = 0 /\ In(k, Loud(transfer).tasks) = IF k.snap.playing THEN 1 ELSE 0
    BY <1>0, <1>1, TaskBelongs DEF In
  <2>2. Cardinality(Audible(playing')) + In(p, Audible(playing))
          = Cardinality(Audible(playing)) + (IF k.snap.playing THEN 1 ELSE 0)
    <3>1. playing \in [Players -> BOOLEAN] /\ playing' = Set(playing, p, k.snap.playing)
      BY <1>0 DEF PlaybackTypeOK, PlayerPlays
    <3>. QED
      BY <1>1, <3>1, AudibleSet
  <2>3. Cardinality(Audible(playing')) <= Cardinality(Audible(playing)) + In(k, Loud(transfer).tasks)
    BY <1>0, <2>1, <2>2, CountsTyped
  <2>4. Items(up', down', tasks', Loud(transfer)) + In(k, Loud(transfer).tasks)
          <= Items(up, down, tasks, Loud(transfer))
    BY <1>0, <1>2, <2>1, CountsTyped
  <2>. QED
    BY <1>0, <2>3, <2>4, CountsTyped
<1>. QED
  BY <1>0, <1>3, <1>4, <1>5, PlayerStep

\* start has looked whether it was cancelled.
LEMMA StartedMoves ==
  ASSUME PlaybackInv, PlaybackInv', OneToken, NEW p \in Players, NEW k \in tasks[p], PlayerStarted(p, k)
  PROVE  OneToken'
<1>0. PlaybackTypeOK /\ PlaybackTypeOK' /\ UNCHANGED <<transfer, asks, plays, down>>
  BY DEF PlaybackInv, PlayerStarted, Works, HubStays, hubVars
<1> DEFINE r == [type |-> "STARTED", id |-> k.id]
<1>1. k \in TaskRecords /\ k.id \in Ids
  BY <1>0 DEF PlaybackTypeOK, TaskRecords
<1>2. r \in Frames /\ r.type = "STARTED" /\ r.id = k.id /\ (up' = up \/ Replies(p, r))
  BY <1>1 DEF Frames, PlayerStarted
<1>. HIDE DEF r
<1>3. ASSUME NEW C
      PROVE  Items(up', down', tasks', C) + In(k, C.tasks) <= Items(up, down, tasks, C) + In(r, C.up)
  <2>1. CountTasks(tasks', C.tasks) + In(k, C.tasks) <= CountTasks(tasks, C.tasks)
    <3>1. \A q \in Players : tasks'[q] \subseteq IF q = p THEN tasks[p] \ {k} ELSE tasks[q]
      BY <1>0 DEF PlayerStarted, Set, PlaybackTypeOK
    <3>. QED
      BY <1>1, <3>1, TaskDone
  <2>2. Count(up', C.up) <= Count(up, C.up) + In(r, C.up)
    BY <1>0, <1>2, Replied, CountsTyped
  <2>. QED
    BY <1>0, <2>1, <2>2, CountsTyped DEF Items
<1>4. \A i \in Nat : Items(up', down', tasks', Thread(i)) <= Items(up, down, tasks, Thread(i))
  <2>1. \A i \in Nat : In(k, Thread(i).tasks) = In(r, Thread(i).up)
    BY <1>1, <1>2, Belongs, TaskBelongs DEF In
  <2>. QED
    BY <1>0, <1>3, <2>1, CountsTyped
<1>5. /\ Items(up', down', tasks', Stale(transfer)) <= Items(up, down, tasks, Stale(transfer))
      /\ Items(up', down', tasks', Loud(transfer)) <= Items(up, down, tasks, Loud(transfer))
  <2>1. In(r, Stale(transfer).up) = 0 /\ In(r, Loud(transfer).up) = 0
    BY <1>2, Belongs DEF In
  <2>. QED
    BY <1>0, <1>3, <2>1, CountsTyped
<1>6. Cardinality(Audible(playing')) <= Cardinality(Audible(playing))
  <2>1. playing' \in {Set(playing, p, FALSE), playing}
    BY DEF PlayerStarted
  <2>. QED
    BY <1>0, <2>1, Cancels
<1>7. Cardinality(Audible(playing')) + Items(up', down', tasks', Loud(transfer))
        <= Cardinality(Audible(playing)) + Items(up, down, tasks, Loud(transfer))
  BY <1>0, <1>5, <1>6, CountsTyped
<1>. QED
  BY <1>0, <1>4, <1>5, <1>7, PlayerStep

\* start fails: of the snapshot of the transfer, which the source is to play on from.
LEMMA StartFailsMoves ==
  ASSUME PlaybackInv, PlaybackInv', OneToken, NEW p \in Players, NEW k \in tasks[p], PlayerStartFails(p, k)
  PROVE  OneToken'
<1>0. PlaybackTypeOK /\ PlaybackTypeOK' /\ UNCHANGED <<transfer, asks, plays, down>>
  BY DEF PlaybackInv, PlayerStartFails, Works, HubStays, hubVars
<1> DEFINE r == [type |-> "TRANSFER_FAILED", id |-> k.id]
<1>1. k \in TaskRecords /\ k.id \in Ids /\ k.does = "start"
  BY <1>0 DEF PlaybackTypeOK, TaskRecords, PlayerStartFails
<1>2. r \in Frames /\ r.type = "TRANSFER_FAILED" /\ r.id = k.id /\ (up' = up \/ Replies(p, r))
  BY <1>1 DEF Frames, PlayerStartFails
<1>. HIDE DEF r
<1>3. ASSUME NEW C
      PROVE  Items(up', down', tasks', C) + In(k, C.tasks) <= Items(up, down, tasks, C) + In(r, C.up)
  <2>1. CountTasks(tasks', C.tasks) + In(k, C.tasks) <= CountTasks(tasks, C.tasks)
    <3>1. \A q \in Players : tasks'[q] \subseteq IF q = p THEN tasks[p] \ {k} ELSE tasks[q]
      BY <1>0 DEF PlayerStartFails, Set, PlaybackTypeOK
    <3>. QED
      BY <1>1, <3>1, TaskDone
  <2>2. Count(up', C.up) <= Count(up, C.up) + In(r, C.up)
    BY <1>0, <1>2, Replied, CountsTyped
  <2>. QED
    BY <1>0, <2>1, <2>2, CountsTyped DEF Items
<1>4. \A i \in Nat : Items(up', down', tasks', Thread(i)) <= Items(up, down, tasks, Thread(i))
  <2>1. \A i \in Nat : In(k, Thread(i).tasks) = In(r, Thread(i).up)
    BY <1>1, <1>2, Belongs, TaskBelongs DEF In
  <2>. QED
    BY <1>0, <1>3, <2>1, CountsTyped
<1>5. In(r, Stale(transfer).up) = 0
  BY <1>2, Belongs DEF In
<1>6. Items(up', down', tasks', Stale(transfer)) <= Items(up, down, tasks, Stale(transfer))
  BY <1>0, <1>3, <1>5, CountsTyped
<1>7. Items(up', down', tasks', Loud(transfer)) <= Items(up, down, tasks, Loud(transfer))
  <2>1. CASE r.id = transfer.id /\ Starting(transfer)
    <3>1. Items(up, down, tasks, Stale(transfer)) = 0
      BY <2>1 DEF OneToken
    <3>2. In(k, Stale(transfer).tasks) = 0
      <4>1. Items(up', down', tasks', Stale(transfer)) + In(k, Stale(transfer).tasks) <= 0
        BY <1>3, <1>5, <3>1
      <4>. QED
        BY <1>0, <4>1, CountsTyped
    <3>3. k \notin Stale(transfer).tasks
      BY <3>2 DEF In
    <3>4. k.snap = transfer.snap
      <4>1. k \in Stale(transfer).tasks <=>
              k.id = transfer.id /\ (k.does = "prepare" \/ (k.does = "start" /\ k.snap # transfer.snap))
        BY <1>1, TaskBelongs
      <4>. QED
        BY <1>1, <1>2, <2>1, <3>3, <4>1
    <3>5. In(k, Loud(transfer).tasks) = In(r, Loud(transfer).up)
      BY <1>0, <1>1, <1>2, <2>1, <3>4, Belongs, TaskBelongs DEF In
    <3>. QED
      BY <1>0, <1>3, <3>5, CountsTyped
  <2>2. CASE ~(r.id = transfer.id /\ Starting(transfer))
    <3>1. In(r, Loud(transfer).up) = 0
      BY <1>2, <2>2, Belongs DEF In
    <3>. QED
      BY <1>0, <1>3, <3>1, CountsTyped
  <2>. QED
    BY <2>1, <2>2
<1>8. Cardinality(Audible(playing')) <= Cardinality(Audible(playing))
  BY <1>0, Cancels DEF PlayerStartFails
<1>9. Cardinality(Audible(playing')) + Items(up', down', tasks', Loud(transfer))
        <= Cardinality(Audible(playing)) + Items(up, down, tasks, Loud(transfer))
  BY <1>0, <1>7, <1>8, CountsTyped
<1>. QED
  BY <1>0, <1>4, <1>6, <1>9, PlayerStep

\* Whatever a player handles, the token stays one.
LEMMA HandlesKeepsToken ==
  ASSUME PlaybackInv, PlaybackInv', OneToken, NEW p \in Players, Handles(p)
  PROVE  OneToken'
BY PlayerSnapshotMoves, PlayerInitializeMoves, PlayerPauseMoves, PlayerStartMoves, PlayerAbortMoves,
   ListensQuietly, PreparedMoves, PlaysMoves, StartedMoves, StartFailsMoves DEF Handles, Listens

-----------------------------------------------------------------------------
(* Connections, questions and the listener, and the invariant.             *)

\* A state moves nothing.
LEMMA PublishMoves ==
  ASSUME PlaybackInv, PlaybackInv', OneToken, NEW p \in Players, Publish(p)
  PROVE  OneToken'
<1>0. /\ PlaybackTypeOK /\ PlaybackTypeOK'
      /\ UNCHANGED <<transfer, asks, plays, down, tasks, playing>>
  BY DEF PlaybackInv, Publish, HubStays, hubVars
<1>1. up' = up \/ \E b, claim : Replies(p, [type |-> "STATE", holds |-> b, claim |-> claim])
  BY DEF Publish
<1>2. ASSUME NEW C, Moving(C) PROVE Count(up', C.up) <= Count(up, C.up)
  <2>1. CASE up' = up
    BY <1>0, <2>1, CountsTyped
  <2>2. CASE \E b, claim : Replies(p, [type |-> "STATE", holds |-> b, claim |-> claim])
    <3>1. PICK r : Replies(p, r) /\ r.type = "STATE"
      BY <2>2
    <3>2. In(r, C.up) = 0
      BY <1>2, <3>1 DEF Moving, In
    <3>. QED
      BY <1>0, <3>1, <3>2, Replied, CountsTyped
  <2>. QED
    BY <1>1, <2>1, <2>2
<1>3. \A C : Moving(C) => Items(up', down', tasks', C) <= Items(up, down, tasks, C)
  BY <1>0, <1>2, CountsTyped DEF Items
<1>4. asks' >= asks /\ Cardinality(Audible(playing')) <= Cardinality(Audible(playing))
  <2>1. asks \in Nat
    BY <1>0, PlaybackBoundsAssumption DEF PlaybackTypeOK
  <2>. QED
    BY <1>0, <2>1, CountsTyped
<1>. QED
  BY <1>0, <1>3, <1>4, QuietStep

\* A registration moves nothing, and its connection was not in use.
LEMMA ConnectMoves ==
  ASSUME PlaybackInv, PlaybackInv', OneToken, NEW p \in Players, Connect(p)
  PROVE  OneToken'
<1> DEFINE r == [type |-> "REGISTER", player |-> p, holds |-> queue[p] # 0]
<1>0. /\ PlaybackTypeOK /\ PlaybackTypeOK'
      /\ UNCHANGED <<transfer, asks, plays, down, tasks, playing>>
      /\ up \in Wires /\ up' = [up EXCEPT ![opened'] = <<r>>]
  BY DEF PlaybackInv, Connect, PlaybackTypeOK, Wires
<1>1. ASSUME NEW C, Moving(C) PROVE Count(up', C.up) <= Count(up, C.up)
  <2>1. r \notin C.up
    BY <1>1 DEF Moving
  <2>. HIDE DEF r
  <2>2. \A c \in Conns : \A k \in DOMAIN up'[c] :
          up'[c][k] \in C.up => k \in DOMAIN up[c] /\ up[c][k] \in C.up \cup {}
    <3>1. \A c \in Conns : up'[c] = up[c] \/ up'[c] = <<r>>
      BY <1>0 DEF Wires
    <3>2. DOMAIN <<r>> = {1} /\ <<r>>[1] = r
      OBVIOUS
    <3>. QED
      BY <2>1, <3>1, <3>2
  <2>. QED
    BY <1>0, <2>2, CountKept, CountNone
<1>2. ASSUME NEW C, Moving(C) PROVE Items(up', down', tasks', C) <= Items(up, down, tasks, C)
  <2>1. Count(up', C.up) <= Count(up, C.up) /\ down' = down /\ tasks' = tasks
    BY <1>0, <1>1, <1>2
  <2>2. PlaybackTypeOK /\ PlaybackTypeOK'
    BY <1>0
  <2>. QED
    BY <2>1, <2>2, CountsTyped DEF Items
<1>3. asks' >= asks /\ Cardinality(Audible(playing')) <= Cardinality(Audible(playing))
  <2>1. asks \in Nat
    BY <1>0, PlaybackBoundsAssumption DEF PlaybackTypeOK
  <2>. QED
    BY <1>0, <2>1, CountsTyped
<1>. QED
  BY <1>0, <1>2, <1>3, QuietStep

\* The socket closes, and with it goes what is on its way.
LEMMA LeavesMoves ==
  ASSUME PlaybackInv, PlaybackInv', OneToken, NEW p \in Players, Disconnect(p) \/ SessionExpires(p)
  PROVE  OneToken'
<1>0. PlaybackTypeOK /\ PlaybackTypeOK' /\ up \in Wires /\ down \in Wires /\ socket[p] \in Conns
  BY DEF PlaybackInv, PlaybackTypeOK, Wires, Disconnect, SessionExpires
<1>1. /\ UNCHANGED <<asks, plays>> /\ playing' = Set(playing, p, CancelledPlaying(p))
      /\ tasks' = Set(tasks, p, CancelledTasks(p))
  BY DEF Disconnect, SessionExpires, HubStays
<1>2. up' = up \/ up' = [up EXCEPT ![socket[p]] = <<>>]
  <2>1. CASE SessionExpires(p)
    BY <2>1 DEF SessionExpires
  <2>2. CASE Disconnect(p)
    <3>1. PICK n \in {0, Len(up[socket[p]])} :
            up' = [up EXCEPT ![socket[p]] = SubSeq(up[socket[p]], 1, n)]
      BY <2>2 DEF Disconnect
    <3>2. up[socket[p]] \in Seq(Frames)
      BY <1>0 DEF Wires
    <3>3. CASE n = 0
      <4>1. SubSeq(up[socket[p]], 1, 0) = <<>>
        BY SubSeqEmpty
      <4>. QED
        BY <3>1, <3>3, <4>1
    <3>4. CASE n = Len(up[socket[p]])
      <4>1. SubSeq(up[socket[p]], 1, n) = up[socket[p]]
        BY <3>2, <3>4, SubSeqFull
      <4>. QED
        BY <1>0, <3>1, <4>1 DEF Wires
    <3>. QED
      BY <3>3, <3>4
  <2>. QED
    BY <2>1, <2>2
<1>3. ASSUME NEW S PROVE Count(up', S) <= Count(up, S)
  <2>1. \A c \in Conns : \A k \in DOMAIN up'[c] :
          up'[c][k] \in S => k \in DOMAIN up[c] /\ up[c][k] \in S \cup {}
    <3>1. \A c \in Conns : up'[c] = up[c] \/ up'[c] = <<>>
      BY <1>0, <1>2 DEF Wires
    <3>2. DOMAIN <<>> = {}
      OBVIOUS
    <3>. QED
      BY <3>1, <3>2
  <2>. QED
    BY <1>0, <2>1, CountKept, CountNone
<1>4. /\ transfer' \in {transfer, NoTransfer}
      /\ \A C : Moving(C) => Count(down', C.down) <= Count(down, C.down)
  <2>1. CASE SessionExpires(p)
    <3>1. Removes({socket[p]}) /\ {socket[p]} \in SUBSET Conns
      BY <1>0, <2>1 DEF SessionExpires, HubDisconnects
    <3>. QED
      BY <3>1, RemovesQuietly
  <2>2. CASE Disconnect(p)
    <3>1. transfer' = transfer /\ down' = [down EXCEPT ![socket[p]] = <<>>]
      BY <2>2 DEF Disconnect, HubStays, hubVars
    <3>2. ASSUME NEW S PROVE Count(down', S) <= Count(down, S)
      <4>1. \A c \in Conns : \A k \in DOMAIN down'[c] :
              down'[c][k] \in S => k \in DOMAIN down[c] /\ down[c][k] \in S \cup {}
        BY <1>0, <3>1 DEF Wires
      <4>. QED
        BY <1>0, <4>1, CountKept, CountNone
    <3>. QED
      BY <3>1, <3>2
  <2>. QED
    BY <2>1, <2>2
<1>5. \A S : CountTasks(tasks', S) <= CountTasks(tasks, S)
  BY <1>0, <1>1, Cancels
<1>6. \A C : Moving(C) => Items(up', down', tasks', C) <= Items(up, down, tasks, C)
  BY <1>0, <1>3, <1>4, <1>5, CountsTyped DEF Items
<1>7. Cardinality(Audible(playing')) <= Cardinality(Audible(playing))
  BY <1>0, <1>1, Cancels
<1>8. asks' >= asks
  BY <1>0, <1>1, PlaybackBoundsAssumption DEF PlaybackTypeOK
<1>. QED
  BY <1>0, <1>1, <1>4, <1>6, <1>7, <1>8, QuietStep

\* A transfer is asked for: the first thing under way for it.
LEMMA AsksMoves ==
  ASSUME PlaybackInv, PlaybackInv', OneToken, NEW p \in Players,
         AsksCommand(p) \/ \E q \in Players : AsksTransfer(p, q)
  PROVE  OneToken'
<1>0. /\ PlaybackTypeOK /\ PlaybackTypeOK' /\ asks' = asks + 1
      /\ UNCHANGED <<transfer, down, tasks, playing, plays>>
  BY DEF PlaybackInv, AsksCommand, AsksTransfer, hubVars, playerVars
<1>1. asks \in Nat /\ asks' \in Ids /\ (transfer # NoTransfer => transfer.id \in Nat)
  BY <1>0, PlaybackBoundsAssumption DEF PlaybackTypeOK, Ids, AsksCommand, AsksTransfer
<1>2. PICK r \in Frames : r.type \in {"COMMAND", "TRANSFER_PLAYBACK"} /\ r.id = asks' /\ Replies(p, r)
  <2>1. CASE AsksCommand(p)
    BY <1>1, <2>1, [type |-> "COMMAND", id |-> asks'] \in Frames DEF AsksCommand, Frames
  <2>2. CASE \E q \in Players : AsksTransfer(p, q)
    <3>1. PICK q \in Players : AsksTransfer(p, q)
      BY <2>2
    <3>2. [type |-> "TRANSFER_PLAYBACK", id |-> asks', target |-> q] \in Frames
      BY <1>1 DEF Frames
    <3>. QED
      BY <3>1, <3>2 DEF AsksTransfer
  <2>. QED
    BY <2>1, <2>2
<1>3. ASSUME NEW C PROVE Items(up', down', tasks', C) <= Items(up, down, tasks, C) + In(r, C.up)
  <2>1. Count(up', C.up) <= Count(up, C.up) + In(r, C.up)
    BY <1>0, <1>2, Replied
  <2>. QED
    BY <1>0, <2>1, CountsTyped DEF Items
<1>4. \A i \in Nat : /\ Items(up', down', tasks', Thread(i)) <= 1
                     /\ i > asks' => Items(up', down', tasks', Thread(i)) = 0
  <2> SUFFICES ASSUME NEW i \in Nat
               PROVE  /\ Items(up', down', tasks', Thread(i)) <= 1
                      /\ i > asks' => Items(up', down', tasks', Thread(i)) = 0
    OBVIOUS
  <2>1. /\ Items(up, down, tasks, Thread(i)) <= 1
        /\ i > asks => Items(up, down, tasks, Thread(i)) = 0
    BY DEF OneToken
  <2>2. CASE i = asks'
    <3>1. Items(up, down, tasks, Thread(i)) = 0
      BY <1>0, <1>1, <2>1, <2>2
    <3>. QED
      BY <1>0, <1>1, <1>3, <2>2, <3>1, CountsTyped
  <2>3. CASE i # asks'
    <3>1. In(r, Thread(i).up) = 0
      BY <1>2, <2>3, Belongs DEF In
    <3>2. Items(up', down', tasks', Thread(i)) <= Items(up, down, tasks, Thread(i))
      BY <1>0, <1>3, <3>1, CountsTyped
    <3>. QED
      BY <1>0, <1>1, <2>1, <3>2, CountsTyped
  <2>. QED
    BY <2>2, <2>3
<1>5. transfer' # NoTransfer => transfer'.id <= asks'
  BY <1>0, <1>1 DEF OneToken
<1>6. Starting(transfer') => Items(up', down', tasks', Stale(transfer')) = 0
  <2> SUFFICES ASSUME Starting(transfer) PROVE Items(up', down', tasks', Stale(transfer)) = 0
    BY <1>0
  <2>1. transfer.id # asks' /\ Items(up, down, tasks, Stale(transfer)) = 0
    BY <1>0, <1>1 DEF OneToken, Starting
  <2>2. In(r, Stale(transfer).up) = 0
    BY <1>2, <2>1, Belongs DEF In
  <2>. QED
    BY <1>0, <1>3, <2>1, <2>2, CountsTyped
<1>7. plays' \/ Cardinality(Audible(playing')) + Items(up', down', tasks', Loud(transfer')) <= 1
  <2>1. In(r, Loud(transfer).up) = 0
    BY <1>2, Belongs DEF In
  <2>2. Items(up', down', tasks', Loud(transfer)) <= Items(up, down, tasks, Loud(transfer))
    BY <1>0, <1>3, <2>1, CountsTyped
  <2>3. plays \/ Cardinality(Audible(playing)) + Items(up, down, tasks, Loud(transfer)) <= 1
    BY DEF OneToken
  <2>. QED
    BY <1>0, <2>2, <2>3, CountsTyped
<1>. QED
  BY <1>4, <1>5, <1>6, <1>7 DEF OneToken

\* The listener makes a player play only by pressing play.
LEMMA ListenerMoves ==
  ASSUME PlaybackInv, PlaybackInv', OneToken, NEW p \in Players, Listener(p)
  PROVE  OneToken'
<1>0. /\ PlaybackTypeOK /\ PlaybackTypeOK'
      /\ UNCHANGED <<transfer, asks, up, down, tasks>>
  BY DEF PlaybackInv, Listener, HubStays, hubVars, wires
<1>1. /\ plays' \/ playing' \in {Set(playing, p, FALSE), playing}
      /\ plays => plays'
  <2>1. \/ UNCHANGED <<playing, plays>>
        \/ playing' = Set(playing, p, FALSE) /\ plays' = plays
        \/ plays' = TRUE
    BY DEF Listener
  <2>2. CASE UNCHANGED <<playing, plays>>
    BY <2>2
  <2>3. CASE playing' = Set(playing, p, FALSE) /\ plays' = plays
    BY <2>3
  <2>4. CASE plays' = TRUE
    BY <2>4
  <2>. QED
    BY <2>1, <2>2, <2>3, <2>4
<1>2. plays' \/ Cardinality(Audible(playing')) <= Cardinality(Audible(playing))
  BY <1>0, <1>1, Cancels
<1>3. \A C : Items(up', down', tasks', C) <= Items(up, down, tasks, C)
  BY <1>0, CountsTyped
<1>4. asks' >= asks
  BY <1>0, PlaybackBoundsAssumption DEF PlaybackTypeOK
<1>. QED
  BY <1>0, <1>1, <1>2, <1>3, <1>4, QuietStep

\* One player plays at first, and nothing is under way.
LEMMA OneTokenInitially == PlaybackInit => OneToken
<1> SUFFICES ASSUME PlaybackInit PROVE OneToken
  OBVIOUS
<1> DEFINE n == Cardinality(Players)
           seats == CHOOSE f \in [Players -> 1..n] : \A p, q \in Players : f[p] = f[q] => p = q
<1>1. /\ transfer = NoTransfer /\ asks = 0
      /\ up = [c \in Conns |-> <<>>] /\ down = [c \in Conns |-> <<>>] /\ tasks = [p \in Players |-> {}]
      /\ playing = [p \in Players |-> seats[p] = 1]
  BY DEF PlaybackInit
<1>2. \A C : Items(up, down, tasks, C) = 0
  <2> SUFFICES ASSUME NEW C PROVE Items(up, down, tasks, C) = 0
    OBVIOUS
  <2>1. Marked(up, C.up) = {} /\ Marked(down, C.down) = {} /\ WorkingPairs(tasks, C.tasks) = {}
    BY <1>1 DEF Marked, WorkingPairs
  <2>. QED
    BY <2>1, FS_EmptySet DEF Items, Count, CountTasks
<1>3. \A p, q \in Players : seats[p] = seats[q] => p = q
  BY SeatsTaken
<1>. HIDE DEF seats, n
<1>4. \A p, q \in Audible(playing) : p = q
  BY <1>1, <1>3 DEF Audible
<1>5. Cardinality(Audible(playing)) <= 1
  <2>1. CASE Audible(playing) = {}
    BY <2>1, FS_EmptySet
  <2>2. CASE Audible(playing) # {}
    <3>1. PICK p : Audible(playing) = {p}
      BY <1>4, <2>2
    <3>2. Cardinality({p}) = 1
      BY FS_Singleton
    <3>. QED
      BY <3>1, <3>2
  <2>. QED
    BY <2>1, <2>2
<1>6. Cardinality(Audible(playing)) \in Nat
  BY FS_Subset, FS_CardinalityType, PlaybackBoundsAssumption DEF Audible
<1>7. ~Starting(transfer)
  BY <1>1 DEF Starting
<1>8. Cardinality(Audible(playing)) + Items(up, down, tasks, Loud(transfer)) <= 1
  BY <1>2, <1>5, <1>6
<1>9. \A i \in Nat : Items(up, down, tasks, Thread(i)) <= 1 /\ Items(up, down, tasks, Thread(i)) = 0
  BY <1>2
<1>. QED
  BY <1>1, <1>7, <1>8, <1>9 DEF OneToken

\* Every step keeps the token one.
LEMMA OneTokenInductive ==
  PlaybackInv /\ PlaybackInv' /\ OneToken /\ [PlaybackNext]_playbackVars => OneToken'
<1> SUFFICES ASSUME PlaybackInv, PlaybackInv', OneToken, [PlaybackNext]_playbackVars PROVE OneToken'
  OBVIOUS
<1>1. CASE UNCHANGED playbackVars
  BY <1>1 DEF playbackVars, hubVars, wires, playerVars, counters, OneToken
<1>2. CASE \E c \in Conns : Hub(c)
  BY <1>2, HubKeepsToken
<1>3. CASE \E p \in Players : Handles(p)
  BY <1>3, HandlesKeepsToken
<1>4. CASE \E p \in Players : Publish(p) \/ Connect(p) \/ Disconnect(p) \/ SessionExpires(p)
  BY <1>4, PublishMoves, ConnectMoves, LeavesMoves
<1>5. CASE \E p \in Players : AsksCommand(p) \/ Listener(p) \/ \E q \in Players : AsksTransfer(p, q)
  BY <1>5, AsksMoves, ListenerMoves
<1>. QED
  BY <1>1, <1>2, <1>3, <1>4, <1>5 DEF PlaybackNext

\* "Single-player continuity", for every number of players, connections, transfers
\* that cross, frames lost and sessions that expire: unless somebody presses play,
\* a second player is never audible.
THEOREM OneAudible == PlaybackSpec => []OnePlayerAudible
<1>1. PlaybackInv /\ OneToken => OnePlayerAudible
  <2> SUFFICES ASSUME PlaybackInv, OneToken, ~plays, NEW p \in Players, NEW q \in Players,
                      playing[p], playing[q]
               PROVE  p = q
    BY DEF OnePlayerAudible
  <2>1. up \in Wires /\ down \in Wires
    BY DEF PlaybackInv, PlaybackTypeOK, Wires
  <2>2. Items(up, down, tasks, Loud(transfer)) \in Nat
    BY <2>1, ItemsCounted
  <2>3. IsFiniteSet(Audible(playing)) /\ Cardinality(Audible(playing)) \in Nat
    BY FS_Subset, FS_CardinalityType, PlaybackBoundsAssumption DEF Audible
  <2>4. Cardinality(Audible(playing)) <= 1
    BY <2>2, <2>3 DEF OneToken
  <2>5. p \in Audible(playing) /\ q \in Audible(playing)
    BY DEF Audible
  <2>6. Cardinality(Audible(playing)) # 0
    BY <2>3, <2>5, FS_EmptySet
  <2>7. \E x : Audible(playing) = {x}
    BY <2>3, <2>4, <2>6, FS_Singleton, Cardinality(Audible(playing)) = 1
  <2>. QED
    BY <2>5, <2>7
<1>. QED
  BY <1>1, PlaybackInvariant, OneTokenInitially, OneTokenInductive, PTL DEF PlaybackSpec
=============================================================================
