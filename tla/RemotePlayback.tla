--------------------------- MODULE RemotePlayback ---------------------------
(***************************************************************************)
(* One account's players and the hub between them: remote/mod.rs and the   *)
(* socket loop of routes/remote_cast.rs on the server, useRemoteSession.ts *)
(* in each player.                                                         *)
(*                                                                         *)
(* A player has one socket at a time, a connection of the hub.  Frames of  *)
(* a connection keep their order; try_send drops a frame when the channel  *)
(* is full, which is a choice here.  Frames that only show something       *)
(* (DEVICES, ERROR, the results) are left out, and every player accepts    *)
(* transfers.  A queue is its version, and 0 is an empty one.              *)
(***************************************************************************)
EXTENDS Naturals, FiniteSets, Sequences

CONSTANTS
  Players,
  MaxConns,      \* bound: connections
  MaxAsks,       \* bound: transfers and commands asked for
  MaxChanges,    \* bound: what a listener does at a player, and expired sessions
  MaxLosses      \* bound: frames that find a full channel

ASSUME PlaybackBoundsAssumption ==
  /\ {MaxConns, MaxAsks, MaxChanges, MaxLosses} \subseteq Nat
  /\ IsFiniteSet(Players) /\ Cardinality(Players) \in 1..MaxConns
  /\ "absent" \notin Players /\ "new" \notin Players

Conns == 1..MaxConns
Queues == 0..(MaxChanges + 1)
Ids == 1..MaxAsks
Offline == 0
NoTransfer == [id |-> 0]
NoSnapshot == [queue |-> 0, playing |-> FALSE]
Unprepared == [id |-> 0, role |-> "none", paused |-> FALSE]

VARIABLES
  client,     \* the hub's clients: "absent", "new" or the registered player
  holds,      \* clients whose last state has a current track
  active,     \* active_player_by_user
  transfer,   \* transfers_by_user
  commands,   \* commands
  up, down,   \* frames of each connection, to the hub and to the player
  socket,     \* connection of each player
  playing, queue,
  prepared,   \* the transfer a player takes part in, and how
  tasks,      \* prepare and start under way at a target
  shown,      \* lastState and lastPlaying of publishState
  opened, asks, changes, losses,
  plays       \* history: somebody pressed play

hubVars    == <<client, holds, active, transfer, commands>>
wires      == <<up, down>>
playerVars == <<socket, playing, queue, prepared, tasks, shown>>
counters   == <<opened, asks, changes, losses, plays>>
playbackVars == <<hubVars, wires, playerVars, counters>>

Snapshots == [queue : Queues, playing : BOOLEAN]

Frames ==
  [type : {"REGISTER"}, player : Players, holds : BOOLEAN]
  \cup [type : {"STATE"}, holds : BOOLEAN, claim : BOOLEAN]
  \cup [type : {"TRANSFER_PLAYBACK"}, id : Ids, target : Players]
  \cup [type : {"COMMAND", "COMMAND_RESULT", "READY", "STARTED", "TRANSFER_FAILED", "EXECUTE",
                "REQUEST_SNAPSHOT", "PAUSE_FOR_TRANSFER", "TRANSFER_COMPLETE"}, id : Ids]
  \cup [type : {"SNAPSHOT", "SOURCE_PAUSED", "INITIALIZE_PLAYER", "START_TRANSFER"},
        id : Ids, snap : Snapshots]
  \cup [type : {"ABORT_TRANSFER"}, id : Ids, resume : BOOLEAN]
  \cup [type : {"DEACTIVATE", "CLOSE"}]

PlaybackTypeOK ==
  /\ client \in [Conns -> {"absent", "new"} \cup Players]
  /\ holds \subseteq Conns
  /\ active \in Conns \cup {Offline}
  /\ transfer \in {NoTransfer}
       \cup [id : Ids, controller : Conns, source : Conns, target : Conns,
             stage : {"Snapshot", "Prepare", "Pause", "Start"}, snap : Snapshots]
  /\ commands \subseteq [id : Ids, controller : Conns, target : Conns]
  /\ up \in [Conns -> Seq(Frames)] /\ down \in [Conns -> Seq(Frames)]
  /\ socket \in [Players -> Conns \cup {Offline}]
  /\ playing \in [Players -> BOOLEAN] /\ queue \in [Players -> Queues]
  /\ prepared \in [Players -> {Unprepared}
                     \cup [id : Ids, role : {"source", "target"}, paused : BOOLEAN]]
  /\ tasks \in [Players -> SUBSET [id : Ids, does : {"prepare", "start", "check"},
                                   snap : Snapshots]]
  /\ shown \in [Players -> [holds : BOOLEAN, playing : BOOLEAN, lastPlaying : BOOLEAN]]
  /\ opened \in 0..MaxConns /\ asks \in 0..MaxAsks /\ changes \in 0..MaxChanges
  /\ losses \in 0..MaxLosses /\ plays \in BOOLEAN

NothingShown == [holds |-> FALSE, playing |-> FALSE, lastPlaying |-> FALSE]

\* The players are registered, in turn, and the first one plays a queue.
PlaybackInit ==
  LET n == Cardinality(Players)
      seats == CHOOSE f \in [Players -> 1..n] : \A p, q \in Players : f[p] = f[q] => p = q
      first(p) == seats[p] = 1
  IN /\ client = [c \in Conns |-> IF c <= n THEN CHOOSE p \in Players : seats[p] = c
                                  ELSE "absent"]
     /\ holds = {1} /\ active = 1 /\ transfer = NoTransfer /\ commands = {}
     /\ up = [c \in Conns |-> <<>>] /\ down = [c \in Conns |-> <<>>]
     /\ socket = seats
     /\ playing = [p \in Players |-> first(p)]
     /\ queue = [p \in Players |-> IF first(p) THEN 1 ELSE 0]
     /\ prepared = [p \in Players |-> Unprepared]
     /\ tasks = [p \in Players |-> {}]
     /\ shown = [p \in Players |-> [holds |-> first(p), playing |-> first(p),
                                    lastPlaying |-> first(p)]]
     /\ opened = n /\ asks = 0 /\ changes = 0 /\ losses = 0 /\ plays = FALSE

-----------------------------------------------------------------------------
(* The hub: one frame at a time, under its mutex.                          *)

Present == {c \in Conns : client[c] # "absent"}
Registered == {c \in Conns : client[c] \in Players}

To(c, f) == [to |-> c, frame |-> f]

\* send_frame_locked: to the clients that are there; a full channel loses it.
Sends(frames, present) ==
  \E sent \in {s \in SUBSET frames : losses + Cardinality(frames \ s) <= MaxLosses} :
    /\ losses' = losses + Cardinality(frames \ sent)
    /\ down' = [c \in Conns |->
         IF c \in present /\ \E f \in sent : f.to = c
           THEN Append(down[c], (CHOOSE f \in sent : f.to = c).frame)
           ELSE down[c]]

SendsNothing == UNCHANGED <<down, losses>>

\* abort_transfer_locked
Aborts(t, resume, present) ==
  /\ transfer' = NoTransfer
  /\ Sends({ To(t.target, [type |-> "ABORT_TRANSFER", id |-> t.id, resume |-> FALSE]),
             To(t.source, [type |-> "ABORT_TRANSFER", id |-> t.id,
                           resume |-> resume /\ t.snap.playing]) }, present)

IsPlayerOf(c) == transfer # NoTransfer /\ c \in {transfer.source, transfer.target}

\* The target is not asked about.
TakesPartButTarget(c) == transfer # NoTransfer /\ c \in {transfer.source, transfer.controller}

TakesPart(c) ==
  transfer # NoTransfer /\ c \in {transfer.source, transfer.target, transfer.controller}

\* The active player outlives its connection.
ActiveStays(gone) == active

ActiveAfter(gone) == IF active \in gone THEN Offline ELSE active

\* The source is told to play on whoever has gone.
RemovesAndResumes(gone) ==
  /\ commands' = {m \in commands : m.controller \notin gone /\ m.target \notin gone}
  /\ IF \E c \in gone : TakesPart(c)
       THEN Aborts(transfer, TRUE, Present \ gone)
       ELSE transfer' = transfer /\ SendsNothing

\* remove_client_locked: what waits for the clients that go is given up.
Removes(gone) ==
  /\ commands' = {m \in commands : m.controller \notin gone /\ m.target \notin gone}
  /\ IF \E c \in gone : TakesPart(c)
       THEN Aborts(transfer, FALSE, Present \ gone)
       ELSE transfer' = transfer /\ SendsNothing

\* The next frame of a client.
Takes(c, type) ==
  /\ client[c] # "absent" /\ up[c] # <<>> /\ Head(up[c]).type = type
  /\ up' = [up EXCEPT ![c] = Tail(@)]

\* Every frame but REGISTER is for registered players.
TakesRegistered(c, type) == Takes(c, type) /\ client[c] \in Players

HubKeeps == UNCHANGED hubVars /\ SendsNothing
PlayersKeep == UNCHANGED <<playerVars, opened, asks, changes, plays>>

HubConnects(c) == client' = [client EXCEPT ![c] = "new"]

\* A player that registers on a new connection replaces its old one, whose
\* socket is not closed.
HubRegister(c) ==
  /\ Takes(c, "REGISTER")
  /\ LET f == Head(up[c])
         old == {x \in Conns \ {c} : client[x] = f.player}
     IN /\ Removes(old)
        /\ client' = [x \in Conns |-> IF x \in old THEN "absent"
                                      ELSE IF x = c THEN f.player ELSE client[x]]
        /\ active' = IF ActiveAfter(old) = Offline /\ f.holds THEN c ELSE ActiveAfter(old)
        /\ holds' = (holds \ (old \cup {c})) \cup (IF f.holds THEN {c} ELSE {})
  /\ PlayersKeep

\* A claim makes the player the active one, unless a transfer is under way.
HubState(c) ==
  /\ TakesRegistered(c, "STATE")
  /\ LET f == Head(up[c])
         claims == f.claim /\ transfer = NoTransfer
     IN /\ holds' = IF f.holds THEN holds \cup {c} ELSE holds \ {c}
        /\ active' = IF claims \/ (active = Offline /\ f.holds) THEN c ELSE active
        /\ IF claims /\ active \notin {Offline, c}
             THEN Sends({To(active, [type |-> "DEACTIVATE"])}, Present)
             ELSE SendsNothing
  /\ UNCHANGED <<client, transfer, commands>>
  /\ PlayersKeep

HubCommand(c) ==
  /\ TakesRegistered(c, "COMMAND")
  /\ LET f == Head(up[c]) IN
       IF transfer = NoTransfer /\ active # Offline
         THEN /\ commands' = commands \cup {[id |-> f.id, controller |-> c, target |-> active]}
              /\ Sends({To(active, [type |-> "EXECUTE", id |-> f.id])}, Present)
              /\ UNCHANGED <<client, holds, active, transfer>>
         ELSE HubKeeps
  /\ PlayersKeep

HubCommandResult(c) ==
  /\ TakesRegistered(c, "COMMAND_RESULT")
  /\ commands' = {m \in commands : ~(m.id = Head(up[c]).id /\ m.target = c)}
  /\ UNCHANGED <<client, holds, active, transfer>> /\ SendsNothing
  /\ PlayersKeep

HubTransfer(c) ==
  /\ TakesRegistered(c, "TRANSFER_PLAYBACK")
  /\ LET f == Head(up[c])
         targets == {x \in Conns : client[x] = f.target}
     IN IF transfer = NoTransfer /\ active \in holds /\ targets \notin {{}, {active}}
          THEN \E x \in targets :
                 /\ transfer' = [id |-> f.id, controller |-> c, source |-> active, target |-> x,
                                 stage |-> "Snapshot", snap |-> NoSnapshot]
                 /\ Sends({To(active, [type |-> "REQUEST_SNAPSHOT", id |-> f.id])}, Present)
                 /\ UNCHANGED <<client, holds, active, commands>>
          ELSE HubKeeps
  /\ PlayersKeep

\* A step of the transfer is taken from the player it is expected of.
Expected(c, role, stage) ==
  /\ transfer # NoTransfer /\ transfer.id = Head(up[c]).id
  /\ transfer.stage = stage
  /\ c = IF role = "source" THEN transfer.source ELSE transfer.target

Advances(stage, snap, to, type) ==
  /\ transfer' = [transfer EXCEPT !.stage = stage, !.snap = snap]
  /\ Sends({To(to, IF type \in {"INITIALIZE_PLAYER", "START_TRANSFER"}
                     THEN [type |-> type, id |-> transfer.id, snap |-> snap]
                     ELSE [type |-> type, id |-> transfer.id])}, Present)
  /\ UNCHANGED <<client, holds, active, commands>>

HubSnapshot(c) ==
  /\ TakesRegistered(c, "SNAPSHOT")
  /\ IF Expected(c, "source", "Snapshot")
       THEN Advances("Prepare", Head(up[c]).snap, transfer.target, "INITIALIZE_PLAYER")
       ELSE HubKeeps
  /\ PlayersKeep

HubReady(c) ==
  /\ TakesRegistered(c, "READY")
  /\ IF Expected(c, "target", "Prepare")
       THEN Advances("Pause", transfer.snap, transfer.source, "PAUSE_FOR_TRANSFER")
       ELSE HubKeeps
  /\ PlayersKeep

\* The queue of the source must be the one the target has loaded.
HubSourcePaused(c) ==
  /\ TakesRegistered(c, "SOURCE_PAUSED")
  /\ LET snap == Head(up[c]).snap IN
       IF ~Expected(c, "source", "Pause") THEN HubKeeps
       ELSE IF transfer.snap.queue = snap.queue
         THEN Advances("Start", snap, transfer.target, "START_TRANSFER")
         ELSE /\ Aborts([transfer EXCEPT !.snap = snap], TRUE, Present)
              /\ UNCHANGED <<client, holds, active, commands>>
  /\ PlayersKeep

HubStarted(c) ==
  /\ TakesRegistered(c, "STARTED")
  /\ IF Expected(c, "target", "Start")
       THEN /\ transfer' = NoTransfer
            /\ active' = c
            /\ holds' = holds \cup {c}
            /\ Sends({To(x, [type |-> "TRANSFER_COMPLETE", id |-> transfer.id])
                        : x \in {transfer.source, transfer.target}}, Present)
            /\ UNCHANGED <<client, commands>>
       ELSE HubKeeps
  /\ PlayersKeep

HubFailed(c) ==
  /\ TakesRegistered(c, "TRANSFER_FAILED")
  /\ IF IsPlayerOf(c) /\ transfer.id = Head(up[c]).id
       THEN /\ Aborts(transfer, c = transfer.target /\ transfer.stage = "Start", Present)
            /\ UNCHANGED <<client, holds, active, commands>>
       ELSE HubKeeps
  /\ PlayersKeep

\* disconnect_client: the player has closed, or the session has expired and the
\* hub closes the socket.
HubDisconnects(c) ==
  /\ client[c] # "absent"
  /\ Removes({c})
  /\ client' = [client EXCEPT ![c] = "absent"]
  /\ active' = ActiveAfter({c})
  /\ holds' = holds \ {c}

HubSeesClose(c) ==
  /\ up[c] = <<>> /\ \A p \in Players : socket[p] # c
  /\ HubDisconnects(c)
  /\ UNCHANGED up /\ PlayersKeep

\* A frame on a connection the hub has removed ends it.
HubEndsConnection(c) ==
  /\ client[c] = "absent" /\ up[c] # <<>>
  /\ up' = [up EXCEPT ![c] = <<>>]
  /\ HubKeeps /\ PlayersKeep

Hub(c) ==
  \/ HubRegister(c) \/ HubState(c) \/ HubCommand(c) \/ HubCommandResult(c) \/ HubTransfer(c)
  \/ HubSnapshot(c) \/ HubReady(c) \/ HubSourcePaused(c) \/ HubStarted(c) \/ HubFailed(c)
  \/ HubSeesClose(c) \/ HubEndsConnection(c)

-----------------------------------------------------------------------------
(* A player.                                                               *)

HubStays == UNCHANGED <<hubVars, opened, asks, losses>>

Replies(p, f) == up' = [up EXCEPT ![socket[p]] = Append(@, f)]
Set(f, p, v) == [f EXCEPT ![p] = v]

\* cancelPreparation: the next values of what it may change.
CancelledPlaying(p) == IF prepared[p].role = "target" THEN FALSE ELSE playing[p]
CancelledTasks(p) == {t \in tasks[p] : t.does # "prepare"}

Capture(p) == [queue |-> queue[p], playing |-> playing[p]]

Hears(p, type) ==
  /\ socket[p] # Offline /\ down[socket[p]] # <<>> /\ Head(down[socket[p]]).type = type
  /\ down' = [down EXCEPT ![socket[p]] = Tail(@)]
  /\ HubStays /\ UNCHANGED <<socket, shown, changes>>

Heard(p) == Head(down[socket[p]])

PlayerSnapshot(p) ==
  /\ Hears(p, "REQUEST_SNAPSHOT")
  /\ prepared' = Set(prepared, p, [id |-> Heard(p).id, role |-> "source", paused |-> FALSE])
  /\ playing' = Set(playing, p, CancelledPlaying(p))
  /\ tasks' = Set(tasks, p, CancelledTasks(p))
  /\ \/ /\ queue[p] # 0
        /\ Replies(p, [type |-> "SNAPSHOT", id |-> Heard(p).id,
                       snap |-> [queue |-> queue[p], playing |-> CancelledPlaying(p)]])
     \/ Replies(p, [type |-> "TRANSFER_FAILED", id |-> Heard(p).id])
  /\ UNCHANGED <<queue, plays>>

PlayerInitialize(p) ==
  /\ Hears(p, "INITIALIZE_PLAYER")
  /\ prepared' = Set(prepared, p, [id |-> Heard(p).id, role |-> "target", paused |-> FALSE])
  /\ playing' = Set(playing, p, CancelledPlaying(p))
  /\ tasks' = Set(tasks, p, CancelledTasks(p) \cup
                  {[id |-> Heard(p).id, does |-> "prepare", snap |-> Heard(p).snap]})
  /\ UNCHANGED <<up, queue, plays>>

\* The source pauses and says where; or cannot capture its queue.
PlayerPause(p) ==
  /\ Hears(p, "PAUSE_FOR_TRANSFER")
  /\ IF prepared[p].id = Heard(p).id /\ prepared[p].role = "source"
       THEN \/ /\ queue[p] # 0
               /\ Replies(p, [type |-> "SOURCE_PAUSED", id |-> Heard(p).id, snap |-> Capture(p)])
               /\ playing' = Set(playing, p, FALSE)
               /\ prepared' = [prepared EXCEPT ![p].paused = TRUE]
            \/ /\ Replies(p, [type |-> "TRANSFER_FAILED", id |-> Heard(p).id])
               /\ UNCHANGED <<playing, prepared>>
       ELSE UNCHANGED <<up, playing, prepared>>
  /\ UNCHANGED <<queue, tasks, plays>>

PlayerStart(p) ==
  /\ Hears(p, "START_TRANSFER")
  /\ tasks' = IF prepared[p].id = Heard(p).id /\ prepared[p].role = "target"
                THEN Set(tasks, p, tasks[p] \cup
                         {[id |-> Heard(p).id, does |-> "start", snap |-> Heard(p).snap]})
                ELSE tasks
  /\ UNCHANGED <<up, playing, queue, prepared, plays>>

\* A source that has paused plays on when it is told to.
PlayerAbort(p) ==
  /\ Hears(p, "ABORT_TRANSFER")
  /\ IF prepared[p].id = Heard(p).id
       THEN /\ playing' = Set(playing, p, \/ CancelledPlaying(p)
                                          \/ /\ Heard(p).resume /\ prepared[p].paused
                                             /\ prepared[p].role = "source")
            /\ prepared' = Set(prepared, p, Unprepared)
            /\ tasks' = Set(tasks, p, CancelledTasks(p))
       ELSE UNCHANGED <<playing, prepared, tasks>>
  /\ UNCHANGED <<up, queue, plays>>

PlayerComplete(p) ==
  /\ Hears(p, "TRANSFER_COMPLETE")
  /\ prepared' = IF prepared[p].id = Heard(p).id THEN Set(prepared, p, Unprepared) ELSE prepared
  /\ UNCHANGED <<up, playing, queue, tasks, plays>>

PlayerDeactivate(p) ==
  /\ Hears(p, "DEACTIVATE")
  /\ playing' = Set(playing, p, FALSE)
  /\ UNCHANGED <<up, queue, prepared, tasks, plays>>

\* A command: PLAY, or one that does not matter here.
PlayerExecute(p) ==
  /\ Hears(p, "EXECUTE")
  /\ \/ UNCHANGED <<playing, plays>>
     \/ queue[p] # 0 /\ playing' = Set(playing, p, TRUE) /\ plays' = TRUE
  /\ Replies(p, [type |-> "COMMAND_RESULT", id |-> Heard(p).id])
  /\ UNCHANGED <<queue, prepared, tasks>>

Works(p, t) ==
  /\ t \in tasks[p] /\ HubStays
  /\ UNCHANGED <<down, socket, shown, changes, plays>>

\* prepare loads the queue, paused; or fails.
PlayerPrepared(p, t) ==
  /\ Works(p, t) /\ t.does = "prepare"
  /\ tasks' = Set(tasks, p, tasks[p] \ {t})
  /\ playing' = Set(playing, p, FALSE)
  /\ \/ queue' = Set(queue, p, t.snap.queue) /\ Replies(p, [type |-> "READY", id |-> t.id])
     \/ queue' = queue /\ Replies(p, [type |-> "TRANSFER_FAILED", id |-> t.id])
  /\ UNCHANGED prepared

\* start plays the loaded queue, if it is still the one...
PlayerPlays(p, t) ==
  /\ Works(p, t) /\ t.does = "start" /\ queue[p] = t.snap.queue
  /\ playing' = Set(playing, p, t.snap.playing)
  /\ tasks' = Set(tasks, p, (tasks[p] \ {t}) \cup {[t EXCEPT !.does = "check"]})
  /\ UNCHANGED <<up, queue, prepared>>

\* ... and then looks whether the transfer was cancelled meanwhile.
PlayerStarted(p, t) ==
  /\ Works(p, t) /\ t.does = "check"
  /\ IF prepared[p].id # t.id
       THEN playing' = Set(playing, p, FALSE) /\ up' = up
       ELSE playing' = playing /\ Replies(p, [type |-> "STARTED", id |-> t.id])
  /\ tasks' = Set(tasks, p, tasks[p] \ {t})
  /\ UNCHANGED <<queue, prepared>>

\* Autoplay is refused, or the queue is another: paused first, then told.
PlayerStartFails(p, t) ==
  /\ Works(p, t) /\ t.does = "start"
  /\ playing' = Set(playing, p, FALSE)
  /\ tasks' = Set(tasks, p, tasks[p] \ {t})
  /\ IF socket[p] # Offline THEN Replies(p, [type |-> "TRANSFER_FAILED", id |-> t.id]) ELSE up' = up
  /\ UNCHANGED <<queue, prepared>>

Listens(p) ==
  \/ PlayerSnapshot(p) \/ PlayerInitialize(p) \/ PlayerPause(p) \/ PlayerStart(p)
  \/ PlayerAbort(p) \/ PlayerComplete(p) \/ PlayerDeactivate(p) \/ PlayerExecute(p)

Handles(p) ==
  \/ Listens(p)
  \/ \E t \in tasks[p] : PlayerPrepared(p, t) \/ PlayerPlays(p, t) \/ PlayerStarted(p, t)
                         \/ PlayerStartFails(p, t)

\* publishState, twice a second: a player that has begun to play claims the
\* account, but not while it takes part in a transfer.
Publish(p) ==
  /\ socket[p] # Offline
  /\ LET free == prepared[p] = Unprepared
         last == shown[p]
         next == [holds |-> queue[p] # 0, playing |-> playing[p],
                  lastPlaying |-> IF free THEN playing[p] ELSE last.lastPlaying]
         claim == playing[p] /\ ~last.lastPlaying /\ free
     IN /\ next # last
        /\ shown' = Set(shown, p, next)
        /\ IF claim \/ next.holds # last.holds \/ next.playing # last.playing
             THEN Replies(p, [type |-> "STATE", holds |-> next.holds, claim |-> claim])
             ELSE up' = up
  /\ HubStays
  /\ UNCHANGED <<down, socket, playing, queue, prepared, tasks, changes, plays>>

\* onopen registers; the first state is published again.
Connect(p) ==
  /\ socket[p] = Offline /\ opened < MaxConns
  /\ opened' = opened + 1
  /\ socket' = Set(socket, p, opened')
  /\ HubConnects(opened')
  /\ up' = [up EXCEPT ![opened'] =
              <<[type |-> "REGISTER", player |-> p, holds |-> queue[p] # 0]>>]
  /\ shown' = Set(shown, p, NothingShown)
  /\ UNCHANGED <<holds, active, transfer, commands, down, playing, queue, prepared, tasks,
                 asks, changes, losses, plays>>

\* The socket closes: the frames on their way to the hub still arrive, or not.
Disconnect(p) ==
  /\ socket[p] # Offline
  /\ \E n \in {0, Len(up[socket[p]])} : up' = [up EXCEPT ![socket[p]] = SubSeq(@, 1, n)]
  /\ down' = [down EXCEPT ![socket[p]] = <<>>]
  /\ socket' = Set(socket, p, Offline)
  /\ playing' = Set(playing, p, CancelledPlaying(p))
  /\ prepared' = Set(prepared, p, Unprepared)
  /\ tasks' = Set(tasks, p, CancelledTasks(p))
  /\ HubStays
  /\ UNCHANGED <<queue, shown, changes, plays>>

\* The session has expired: the hub removes the client and closes its socket.
SessionExpires(p) ==
  /\ socket[p] # Offline /\ HubDisconnects(socket[p])
  /\ changes < MaxChanges /\ changes' = changes + 1
  /\ up' = [up EXCEPT ![socket[p]] = <<>>]
  /\ socket' = Set(socket, p, Offline)
  /\ playing' = Set(playing, p, CancelledPlaying(p))
  /\ prepared' = Set(prepared, p, Unprepared)
  /\ tasks' = Set(tasks, p, CancelledTasks(p))
  /\ UNCHANGED <<queue, shown, opened, asks, plays>>

AsksTransfer(p, q) ==
  /\ socket[p] # Offline /\ asks < MaxAsks
  /\ asks' = asks + 1
  /\ Replies(p, [type |-> "TRANSFER_PLAYBACK", id |-> asks', target |-> q])
  /\ UNCHANGED <<hubVars, down, playerVars, opened, changes, losses, plays>>

AsksCommand(p) ==
  /\ socket[p] # Offline /\ asks < MaxAsks
  /\ asks' = asks + 1
  /\ Replies(p, [type |-> "COMMAND", id |-> asks'])
  /\ UNCHANGED <<hubVars, down, playerVars, opened, changes, losses, plays>>

\* The listener, at the player itself.
Listener(p) ==
  /\ changes < MaxChanges /\ queue[p] # 0
  /\ changes' = changes + 1
  /\ \/ queue' = Set(queue, p, changes + 2) /\ UNCHANGED <<playing, plays>>
     \/ playing' = Set(playing, p, FALSE) /\ UNCHANGED <<queue, plays>>
     \/ playing' = Set(playing, p, TRUE) /\ plays' = TRUE /\ UNCHANGED queue
  /\ HubStays
  /\ UNCHANGED <<wires, socket, prepared, tasks, shown>>

PlaybackNext ==
  \/ \E c \in Conns : Hub(c)
  \/ \E p \in Players :
       \/ Handles(p) \/ Publish(p) \/ Connect(p) \/ Disconnect(p) \/ SessionExpires(p)
       \/ AsksCommand(p) \/ Listener(p)
       \/ \E q \in Players : AsksTransfer(p, q)

\* Of the frames that have arrived and the work under way, some goes on: socket
\* loops and event loops are polled, and prepare has a limit of 12 seconds.
Handling == (\E c \in Conns : Hub(c)) \/ (\E p \in Players : Handles(p))

PlaybackFairness == WF_playbackVars(Handling)

PlaybackSpec == PlaybackInit /\ [][PlaybackNext]_playbackVars /\ PlaybackFairness

-----------------------------------------------------------------------------
(* Properties                                                              *)

\* "Single-player continuity" (architecture.md): a transfer never makes a second
\* player audible, whatever fails, disconnects or crosses it, unless somebody
\* presses play meanwhile.
OnePlayerAudible ==
  plays \/ \A p, q \in Players : playing[p] /\ playing[q] => p = q

\* The active player, the transfer and the pending commands are of clients that
\* are registered: nothing waits for one that has gone (remove_client_locked).
HubRefersToClients ==
  /\ active \in Registered \cup {Offline}
  /\ transfer # NoTransfer => {transfer.source, transfer.target, transfer.controller} \subseteq Registered
  /\ \A m \in commands : {m.controller, m.target} \subseteq Registered

\* A transfer comes to an end, unless a frame was lost in a full channel: the
\* hub itself has no timeout for it.
TransferEnds ==
  transfer # NoTransfer ~> transfer = NoTransfer \/ losses > 0
=============================================================================
