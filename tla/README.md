# MusicDeck, specified in TLA+

Specifications of the parts of the MusicDeck server (`server-rust`) whose
correctness depends on the order of things: interleaved requests and background
work, crashes and restarts, failing steps, retries, the clock. The modules are
translated from the Rust source; where a document or a test says something else
the difference is listed as a finding.

Run everything inside this directory:

    tlc -workers 2 -config TaskQueue.cfg MCTaskManager.tla    # likewise the other runs
    tlapm TaskManagerProofs.tla

`PROJECT.json` lists the runs, the lines each definition stands for, the
hazards, the findings and the theorems.

## 1. The system

MusicDeck is a self-hosted music server: an axum server with one SQLite database
(a pool of five connections) in front of an upstream media server, a React web
application, and a desktop shell. `server/` is the TypeScript server that
`server-rust/` replaces; the Rust modules name the file they port.

| Component | State | Operations | What is hard | Properties that make it correct |
|---|---|---|---|---|
| **Task manager** `tasks/manager.rs` | table `background_tasks`; registry of active handles, `pumping`, `active_slots`, runners, media streams | enqueue, pause, resume, cancel, reprioritize, clear, close; pump; `start_task`; checkpoint; recovery sweep | a pass works on rows it read earlier; rows are read and written back whole; slots counted at five places | one pass at a time; slot counter exact; limit kept; no ghost PROCESSING row; a queued task starts |
| **Cron loop** `evaluate_schedules_at` | schedule table; markers of the last fired minute | a tick every 500 ms; set, remove, restart | late ticks, failing reads, clock set back, edits during a tick | no minute lost in the catch-up window; none dispatched twice |
| **Scrobble queue** `scrobbling/queue.rs` | `scrobble_queue`, `scrobble_connections`; the worker's claim | enqueue, connect, disconnect, test, retry, drain, shutdown | account or policy changes while a delivery is in the air; leases; restarts | a listen goes to its own account only; final states are final; at least once; queued listens settle |
| **Restore and recovery** `recovery/` | three live files, journal, staging directory, `runtime_ready` | restore, live rollback, `recover_inner`, startup | any step fails with or without its effect; the process dies anywhere | no mixed set is served; rollback stays possible; the answer stays true |
| **Runtime gate, privacy** `lib.rs`, `services/privacy.rs` | a read-write gate with its serial lock, `runtime_ready`; the policy stored and published; permits | enter, finish; update, reload, fail; restrict, allow, suspend, resume | permits outlive a policy; a writer waits for all readers; an update fails half-way | withdrawn work stays withdrawn; what is served is what was saved; updates end |
| **Acquisition jobs** `acquisition/` | `acquisition_jobs`, containers, staging directories; the task of a job | submit, cancel, retry, run, recover | job and task are two rows; unguarded status writes | a job in flight has a worker and settles; a container that is ready was filled |
| **Playback queue sync** `queue/mod.rs` | device sessions, named queues, contents, playlists made from them | save content, session, named queue; save as playlist; remove | late, repeated and overlapping requests; a transaction that needs a second connection | checkpoints never go back; an operation id acts once; limits; requests end |
| **Remote playback** `remote/mod.rs`, `useRemoteSession.ts` | clients, active player, transfer, commands; each player's queue and preparation | register, state, command, the transfer's four messages, abort, disconnect | dropped frames, devices leaving in the middle, messages that cross | one player audible; nothing waits for who has gone; transfers end |
| **Accounts and sessions** `users/`, `auth/` | users, sessions, event streams | create, change, delete accounts; log in and out, refresh, change password; stream | guards read before the transaction; revocation races a stream | a master administrator stays; streams of dead sessions end |
| **Resumable media** `media/mod.rs` | bookmarks, tombstones | report, remove, clean, list | reports late, twice and out of order; tombstones expire | a finished album stays finished; bookmarks move forward |
| **Playlists** `playlists/` | playlists, entries, grants, links, party, commands, folders, placements | share, link, party, request; edit, undo, redo, trash; organize | overlapping calls; old routes beside reversible commands; equal positions | old invitations are over; limits of a party; undo restores; folders stay a tree |
| **Followed artists** `social/artist_follows.rs` | followed artists, their catalog with leases, cached releases; the throttle of each store | follow, unfollow; scan; request a slot, pause | every follow starts a scan beside the scheduled one; a lookup outlasts its lease; overlapping slots | one scan has an artist; a late one writes nothing; a store is left alone as long as it asks |
| Rate limiter `auth/rate_limiter.rs` | windows of attempts | admit, reset | clock | limits follow from single steps under one lock |
| Registry, providers, plugins, catalog, search, recommendations, mixes, sonic, profile, cast, routes, logger, config | tables and caches | lookups, scoring, I/O | mostly data | not protocol properties |

How they interact. Requests and the cron loop call the task manager; it calls
runners (scan, imports, analyses), which call back for progress and
checkpoints; an audio stream holds a media-stream guard that pauses background
runners. An import is a job and a task: the manager runs the job's worker, the
job's routes cancel and retry it. Listening activity hands every listen to the
scrobble queue inside its own transaction; the scrobble worker asks the privacy
manager for a permit, which a policy change or a runtime update cancels. A
restore or a saved configuration takes the runtime gate alone, and requests,
drains and release scans hold it shared; the restore replaces all tables under
the running managers. A change of an account revokes its sessions, whose event
streams and sockets notice; a queue can be saved as a playlist; a party lets
collaborators ask the owner's player for tracks. Everything shares the database;
what is process memory dies with a restart.

Transactions. Most services open a *deferred* SQLite transaction in WAL mode: it
reads a snapshot, and its first write fails if another connection has
committed since. `QueueSessions`, `PlaylistSharing` and `ResumableMedia` model
exactly this: the calls that have read, and which of them are behind; so does
`StoreThrottle`, whose code goes on as if the write had not failed. `organize`
writes first, so `PlaylistFolders` takes calls one after another; single
statements and calls that read *before* their transaction are two actions.

## 2. Modules

| Module | Models | Used by |
|---|---|---|
| `TaskManager` | queue, pump, workers, controls, recovery sweep | `MCTaskManager`, `TaskManagerProofs` |
| `CronScheduler` | the cron loop and the writers of its table | `MCCronScheduler`, `CronSchedulerProofs` |
| `ListenOutbox` | what an outbox promises (abstract) | instantiated in `ScrobbleQueue` |
| `ScrobbleQueue` | one listener at one provider, with the policy | `MCScrobbleQueue`, `ScrobbleQueueProofs` |
| `SystemRestore` | restore, rollback, crash recovery | configurations directly, `SystemRestoreProofs` |
| `QueueSessions` | saved queues of an account | `MCService`, `ServiceProofs` |
| `AcquisitionJobs` | imports | `MCService`, `ServiceProofs` |
| `AccountSessions` | accounts, sessions, streams | `MCService`, `ServiceProofs` |
| `RuntimeGate` | gate, runtime updates, permits | `MCService`, `ServiceProofs` |
| `RemotePlayback` | hub and players | `MCListening`, `RemotePlaybackProofs` |
| `ResumableMedia` | bookmarks | `MCListening`, `ListeningProofs` |
| `PlaylistSharing` | mode, grants, links, party | `MCListening`, `ListeningProofs` |
| `PlaylistEditing` | entries, commands, undo | `MCListening`, `PlaylistProofs` |
| `PlaylistFolders` | folders, places, pins | `MCListening`, `PlaylistProofs` |
| `ReleaseScan` | followed artists and scans of their releases | `MCListening`, `ListeningProofs` |
| `StoreThrottle` | the slots of requests to a store | `MCListening`, `ListeningProofs` |

`MCService` and `MCListening` instantiate the modules that share no state in one
run each: a variable `part` says which of them moves, and the others stay as
they start. A behaviour of `MCService` is one of queues, jobs, admins (requests of
administrators that overlap), accounts (one at a time, with lapses, refreshes and streams) or
gate; one of `MCListening` is players, bookmarks (reports that overlap), removals (one at a
time, with removed bookmarks and changes of access), sharing (calls that overlap), lapses (one
call at a time, with expiries, logouts and account changes), editing, tree (the
folders, with one playlist that is not pinned), places (the playlists, with one folder),
radar (scans of releases) or stores (their requests).

### TaskManager

`rows` is the table `background_tasks` and survives `Crash`; `handle` is the
`ActiveTaskHandle` in the registry, `worker` where the spawned future of a task
is, `pumps` the outstanding `spawn_pump` futures, `client` the admin requests
under way, `slots`, `pumping`, `media` the atomics of the same meaning. One
action is the code between two await points. `update_task_fields` reads a row,
changes some fields and writes all of them, so its read computes a pending write
which a later action of the same actor stores; several findings live in that
gap. A pass is `PumpBegin` (the compare-exchange), `PumpSelect` (the SELECT of the
queued rows), `PumpScan`/`PumpAdmit`/`PumpStart` for each row, `PumpEnd`. A worker
goes through `WorkerMark`, the runner's reports and checkpoints (which may park it
and give its slot back), `RunnerReturn`, `WorkerSettleWrite`, `WorkerRelease`.
`prune_history` is part of every write that calls it; which of equally old rows it
drops is left open. `PumpsAssumption` asks for two futures: one may be past the
compare-exchange while another is dropped. When all are busy a kick is
coalesced with one that is still waiting for the flag.

Left out: payloads, figures, messages, log lines and broadcast events (no guard
reads them), the errors of single SQL statements. `close` and `unregister` are
public operations no production path calls; TaskControl includes them.

### CronScheduler

A minute is a slot; an expression is the set of slots it matches; the key of a
marker is (id, expression), as in the code. An evaluation is `EvalBegin` (mutex,
clock-back test), `EvalRead`, one of `EvalNotDue`, `EvalSkip`, `EvalFree` then
`EvalDispatch`, `EvalRefused` or `EvalRowFails` for each row, `EvalEnd`. The
writers are `SetSchedule` and `SetScheduleClear` (commit, then the markers under the mutex),
`RemoveSchedule`, and `UpdateServerSettings`, which saves the same row from the
settings page and clears no marker. `checked` and `fired` are history variables.
`ClockForward` assumes that each schedule is evaluated without error at least once in
`CatchUp + 1` minutes and that an evaluation takes no longer: a longer outage loses
minutes by design (`MAX_CRON_CATCHUP_MINUTES`). When the clock is set back, `checked` is
cut below the minute that comes once more (`ComeAgain`), as the code cuts the markers
(`PutBack`). Not modelled: the parser of expressions, disabling
of unparsable persisted rows.

### ListenOutbox and ScrobbleQueue

`queue`, `conn`, `dbPolicy` are tables; `policy`, `suspended`, `worker`, `change`,
`retrying` are process memory; `accepted` is what the provider recorded. One
user and one provider: different streams share only the worker and the policy.
The single worker of the code (`worker_started` and the `draining` flag)
reduces the lease token to "the row is still `sending`". Time is two
booleans: `due` (the row's next attempt or lease end has passed) and `paused`
(Retry-After not yet over). A delivery is claim, permit, fetch of the
credentials, check, request, finish, commit, record; the policy and the
connection may change at each step. `OutboxContract` is the refinement: the
phases, the delivery under way and the provider's records, seen through the
mapping at the end of the module, behave as `ListenOutbox!Spec`.

### SystemRestore

Contents are version numbers, so "mixed" means that two files do not belong to
the same version; a torn file is one in the middle of a replacement. One action
is one durable change. `rec` is the call of `recover_inner` under way, with
its three callers: "files" and "finish" in a live rollback, "finish" after the commit,
"startup" for `recover_interrupted_restore`. A failing `durable_json`, rename or transaction may
have had its effect (its last step is an fsync or a checkpoint). Process
crashes are modelled, power loss is not (flushes are taken to work).
`RecoverAtStartup` and `SaveAnyTime` say what surrounds the protocol: the code
has FALSE and TRUE (`RestoreServesMixed`), the protocol needs TRUE
and FALSE (`RestoreRecovery`, section 5).

### RuntimeGate

`queue` is the fair queue of tokio's RwLock, `serial` the mutex `runtime_updates`,
`updater` where an administrator's request is, `caller` where a request, a scrobble
drain or a release scan is. An update is `Locks`, then either a policy
(`PolicyCommits`, `PolicyPublishes`) or a configuration: `Begins` (suspends outbound
work and closes the runtime, before it waits for the gate, so that readers that hold
permits leave), `GetsGate`, `Persists`, `Reloads`, `Installs`, with `Rejected` for an
update that has changed nothing and `Fails` for one that has. Tables and memory
are generations; `lapsed` is the history variable of `WorkKeepsPermit`: who is doing
outbound work that was forbidden since it began, whatever was allowed again.
A permit is its number and whether it was cancelled, as `outbound_permit` shares one
token until it is withdrawn. The four categories of outbound work have permits
of their own and one stands for them.

### QueueSessions

`stored`, `synced`, `named`, `saved`, `lists` are the tables; `saver` holds the requests
under way, `stale` those whose snapshot is behind, `writer` the holder of the write
lock. A request is `Ask`, `Begin` (takes a connection and reads), then its write.
`save_as_playlist` takes the write lock and then, for each track, a second
connection of the pool (`StartPlaylist`, `FillPlaylist`, `CommitPlaylist`): the pool's
and the lock's timeouts (`TimesOut`) are what ends the waiting. Contents are of one
size. `prune_at` has no caller in the server and is left out.

### AcquisitionJobs

`status`, `submitter`, `container`, `listed`, `ready` are rows of the job's tables; `task`
is the row in `background_tasks` as far as the job can tell it, `worker` where
`run_managed_job` is, `cancelled` the task's token. `held` are the jobs whose task is
paused or waits for a stream of media: `checkpoint` parks the worker at its three places
(`WorkerLoad`, `WorkerPrepare`, `WorkerStore`) until the task is released or cancelled
(`Passes`), and nothing says that it ever is. Every statement of a worker may fail: where the
code propagates the error, and where it drops that of its last UPDATE, the worker is
"lost" and the row stays as it was. Submission reads the capacity
twice, inserts, and enqueues (`SubmitGlobal`, `SubmitUser`, `SubmitInsert`, `SubmitEnqueue`,
the last of which may fail without a trace); cancel and retry read and then write.
The worker's statuses are written without a condition, so a cancel between is
overwritten: the properties say what holds in spite of it. `JobsCrash`, `JobsBoot` and
`RecoverInterruptedJobs` are the restart.

### AccountSessions

An administrator's request is admitted (`Admit`, with the actor as read then), passes its
guards on the row it reads later (`AskUpdate`, `AskDelete`) and changes rows in a transaction
after that (`UpdateAccount`, `DeleteAccount`), which ends in `ensure_master_admin_on_conn`.
`request` holds one for each of `Askers`, each at a step of its own: nothing serialises them,
as nothing in `routes/users.rs` does. `RequestRefused` is every end without a write. The
ids of accounts are used once. A login verifies the password
and creates the session later; a refresh is authorised first. `streams` are open event
streams: their loop reads the session again at every event, at the report that events
were missed, and at its ticker (`StreamChecks`). The operators named for a slip
(`StreamTrusts`, `BeginsKeepsPermits`, `AcceptsAlone`, ...) are no actions: they are the
mutated forms that `PROJECT.json` names under "mutants".

### RemotePlayback

One action is one frame at the hub (`HubRegister`, `HubState`, `HubCommand`, `HubTransfer`,
`HubSnapshot`, `HubReady`, `HubSourcePaused`, `HubStarted`, `HubFailed`, `HubDisconnects`), all under
its lock, or one frame or callback at a player (`PlayerSnapshot`, `PlayerInitialize`, ...).
`up` and `down` are the ordered frames of each connection; a frame that finds its
channel full is lost, at most `MaxLosses` times. `prepared` is the transfer a player takes
part in, `tasks` the asynchronous preparation and start at the target, which an abort
cancels or fails to. `plays` becomes TRUE when a person presses play.

### ResumableMedia

A report is judged by the time it arrives at (`ReportArrives`), prunes both tables by that
time, one DELETE after the other (`ReportSweeps`, `ReportPrunes`), reads its snapshot
(`ReportReads`) and writes (`ReportWrites`). Between any two of these steps other requests
prune by their own time (`OthersPrune`). `tombstone` is `media_session_completions`; both
tables expire after `Ttl`. `asOf` is the `now_ms` a report carries through its steps. The server's
own clock is taken to go forward. `finished` and `dropped` are history
variables: when a media was last finished, and which were removed on request (a
removal leaves no tombstone).

### PlaylistSharing, PlaylistEditing, PlaylistFolders

`PlaylistSharing`: `call` holds the calls that have read their snapshot; a save of
the sharing raises `revision` and revokes the links, and a party closes with the
mode. Links expire, hosts log out, members are disabled, each at any time.
`PlaylistEditing`: a command stores a delta for each direction; undo and redo apply
it to the list as it is and refuse when it does not fit. `contents` is what the
older routes edit too, some of them in two steps (`route`). Positions are the numbers
of the rows, gaps and equal ones included.
`PlaylistFolders`: positions are the rows' numbers too; `Accepts` is `check_parent_folder`
(levels above and levels moving along, both counted on `Chain`, the folders that its walk
along `parent_folder_id` meets); a deletion moves the children up behind their new siblings
by `Shift`, and a move renumbers by rank.

### ReleaseScan and StoreThrottle

`ReleaseScan`: `catalog` is `followed_artist_catalog`, `scan` the scans under way: the
scheduled runner, the one an administrator asks for and the one that every follow
starts. A scan lists what is due once (`ScanBegins`) and then, artist by artist, looks at
its permit (`ScanGoesOn`), takes the lease with a conditional UPDATE (`ScanClaims`),
looks the artist up, writes the result or the failure if the lease is still its own
(`ScanRecords`, `ScanFails`), and frees the lease. A transaction that was overtaken writes nothing and
the scan goes on (`ScanLosesResult`). A lookup may last longer than its lease, and a crash leaves the
lease in the row. `latest` is the history variable of `ScansKeepApart`. Left out: the
artist's id at the store, which releases there are, the feed, the hundred artists of a
list, and errors of single UPDATEs.
`StoreThrottle`: `asking` holds the requests of all scans, `outdated` those whose
transaction can no longer write. `StoreFails` is the write or the commit whose error
`.ok()` drops: the request goes on with a slot that the row does not show. `kept`
tells these from the others. `RequestEnds` is also the policy that cancels a request at
any point. The spacing is `request_interval_ms`; the pause of a store is a minute or more.

## 3. Runs

| Run | Question | Bounds | Result |
|---|---|---|---|
| `TaskQueue` | exclusion of passes, slot limit, ghosts after a crash | 2 tasks of 2 types, 1 slot, 2 pump futures, 4 requests (enqueue, cancel, clear), 1 crash | holds |
| `TaskControl` | the slot counter through pauses, streams, close, unregister | 2 tasks, 1 slot, 1 stream, 3 requests | holds |
| `TaskLiveness` | cancelled workers end, yielding workers resume | 1 task, 1 stream, 4 requests, fair | holds |
| `TaskLostKick` | a queued task starts | 2 tasks, 2 slots, fair | violated |
| `CronCatchUp` | no minute lost, none twice, markers never ahead | 7 minutes, catch-up 2, 2 expressions, 2 edits, 2 jumps back or restarts | holds |
| `ScrobbleOutbox` | own account only; refinement of `ListenOutbox` | 2 listens, 2 accounts, 2 operations, 1 policy change, 1 restart | holds |
| `ScrobbleDelivery` | queued listens settle | 2 listens, 2 attempts, 2 operations, 1 restart, fair | holds |
| `ScrobbleShutdown` | a listen is given up by choice only | 1 listen, 1 policy change or update | violated |
| `RestoreRecovery` | whole sets served, rollback possible, answers true | 2 restores, 3 restarts, any step fails | holds |
| `RestoreServesMixed` | whole sets served, with the startup of `main.rs` | 1 restore, 1 restart | violated |
| `Service` | what overlapping requests, an import, accounts and updates may leave, and that each of them ends | see below; 247,449 states, fair | holds |
| `Listening` | what overlapping players, reports and calls may leave of playback, bookmarks and playlists, and scans of releases | see below; 657,463 states, fair | holds |

`Service` in its parts. *Queues*: 2 requests at once, 3 in all, 2 devices, 2
contents, 2 operation ids, 2 connections (one fewer than two saves as a playlist
need), each limit 1. *Jobs*: 1 job, 2 requests at once, 3 in all, a task cancelled once,
1 crash; pauses and failing statements without a bound. *Admins*: the master and one more, 2
sessions, 2 requests at once, updates of one field. *Accounts*: the same with one request at a
time, 1 lapse, refreshes and streams. *Gate*: 2
callers of four kinds, 3 updates; one updater, because the serial lock makes a second
one only wait.

`Listening` in its parts. *Players*: 2 players, 3 connections, 1 transfer or command,
1 lost frame, and either a reconnect or something a listener changes, not both
(`ChangesOrConnects`). *Bookmarks*: one media, 2 reports at once, 3 points in time, a
life of 1, clocks up to 1 ahead, prunes of others at any time. *Removals*: the same with
one report at a time.
*Sharing* and *lapses*: 2 calls at once, or one at a time with 1 lapse; 1 member, 1 link,
1 party, 2 saves, 2 requests, limits of 1. *Editing*: 4 entry ids of 3 tracks, a list
of 3 which earlier edits left out of the order of its ids, 3 changes, 1 tick of
the clock. *Tree*: 3 folders, depth 2, one playlist that is not pinned. *Places*: 3 playlists, one folder,
positions up to 2. *Radar*: 1 artist, 2 scans, 1 crash or change of the policy, four points
in time, of which a lease takes 1, a backoff 1 or 2 and the next check 2. *Stores*: 2
requests, a spacing and a patience of 2, pauses of 3 and 4, which a request does not wait for
at once.

Why the bounds are enough. A second task, listen, request or account is what makes
an actor meet someone else's row; a second pump future makes two passes
compete; one crash or restart at *any* state covers every place where it may
strike, a second one strikes into the recovery of the first (`RestoreRecovery`
has three). Catch-up 2 has a minute inside the window, one at its edge and one beyond; a
second jump back strikes before the first was answered.
A limit of 1 is reached by the first of two overlapping calls, which is where
count-then-insert fails. Three folders are the least that make a cycle of moves and a subtree
too deep for its new place; three playlists the least with two others that keep
their order. Three changes are a command, an edit by an older route and an
undo. Two scans are enough for one that has lost its lease beside its successor, and two
requests for slots that overlap each other or a pause. Two administrators' requests past their
guards are the least that may undo what each was promised: the second administrator's
request against the master beside the master's against him. Updates name one field because the
guard judges each field for itself. A third account gives another candidate for the master; that
was checked apart, without lapses (2,992,222 states), as were two imports (768,593 states) and
reports by clocks two ahead at four points in time. The theorems have none of these limits. Two
reports and three points in time are a report that stalls over the end of the retention window
while another one is made. A third connection is a reconnect during a transfer.
The abstract outbox is about single listens and about which one is under way, so two
suffice; `ScrobbleQueue` was also run with one listen, three operations, two policy
changes and two restarts. SYMMETRY permutes the pump futures, the requests and
the accounts and is not used where a temporal property is checked under
fairness.

`CHECK_DEADLOCK FALSE` everywhere: an idle server stops, and so do the bounded
counters. Liveness is stated by properties instead.

Fairness. Every spawned future is polled (pump, worker, client request); a runner returns after its bounded units; a
stream that was opened is closed; startup registers its runners and
sweeps; the scrobble worker's interval ticks; a backoff ends. Of the later modules:
the handlers of queue requests run, and the pool's `acquire_timeout` and SQLite's
`busy_timeout` fire (`QueueFairness`); a started import goes on when its checkpoint lets it pass, its download ends, and a server that is down
starts and recovers, but nobody has to resume a paused task or to end a stream
(`JobsFairness`); the ticker of an open stream fires (`AccountsFairness`);
updates and admitted requests are polled, and a request without a permit is answered
because its calls to the media server have timeouts, but outbound work is *not*
assumed to end by itself (`GateFairness`); hub and players handle the frames they
have and break off what cannot go on (`PlaybackFairness`). All are weak:
none of these steps is disabled again by the others while it waits. Nothing is
assumed about administrators, listeners, crashes or a provider's answers.
The cron loop, the restore, bookmarks, playlists and releases are checked for safety only.
The types of `TaskManager` and `SystemRestore` are proved (section 4) and are not part of a run.
`WaitingSettles` is conditional: it says what happens when
from some time on the account is connected in good order. `TransferEnds` excepts lost frames and
`InFlightSettles` held and cancelled tasks and workers lost to a failed statement, because there
the code has no remedy before the next start (section 5). `DeadStreamEnds` takes a client that reads
its stream: one that stalls with a full channel parks the loop at its send (`auth/events.rs:274`).
`UpdatesEnd` takes a request whose body arrives: one that stalls under the gate has no timeout of
its own.

Properties that need a smaller set of operations say why: `SlotLimit` is checked
without pause and resume because with them it is false (section 5);
`ProcessingHasWorker` without reprioritize and resume, because one that spans the
end of a task writes PROCESSING after it. Section 4 proves that these are the only
steps that break them.

## 4. Proofs

| Module | Theorem | States |
|---|---|---|
| `TaskManagerProofs` | `TypesHold`, `PumpExclusionHolds`, `SlotsAreWorkingHolds` | types (the slot counter is never decremented at zero), one pass at a time, an exact slot counter |
| | `LimitKept`, `LimitWithoutPauses` | the limit of the slots, unless a parked worker comes back; without pauses, always |
| | `ProcessingAttended`, `ProcessingWithoutRewrites` | PROCESSING rows have a worker, unless a caller writes late; without resume and reprioritize, always |
| `SystemRestoreProofs` | `RestoreTypes`, `AsToldHolds`, `MarkedWhenMixed`, `RollbackPossibleHolds` | types, the reported outcome stays true, a mixed set is served over a journal only, a rollback under way finds every original: with `main.rs` whatever happens |
| | `RollbackStaysPossible`, `ServesWholeSetHolds` | the same after a crash, and no mixed set served at all, for both startups, until somebody saves a configuration, or starts without recovery, over a journal |
| `ScrobbleQueueProofs` | `OutboxTypes`, `SubmittedForItsAccount`, `OutboxImplemented` | types, own account only, `Spec => OutboxContract` |
| `ServiceProofs` | `LimitsKept`, `SavedOnce`, `DevicesGoForward`, `AccountsTypes`, `MasterStays`, `JobTypes`, `WorkersOfJobs`, `ReadyIsFilled` | the limits of an account, one playlist per operation id, checkpoints never go back, types, the master administrator stays, rows in flight have a worker, ready albums were filled |
| | `GateTypes`, `WithdrawnStaysWithdrawn`, `ServedIsSaved` | types of the gate, a withdrawn permit is never valid again, the runtime that serves is the one saved |
| | `QueueShape`, `ServiceTypes` | the shape of the saved queues, the types of all four parts |
| `RemotePlaybackProofs` | `PlaybackTypes`, `NothingWaitsForTheGone`, `OneAudible` | types, the hub refers to registered clients only, one player is audible |
| `CronSchedulerProofs` | `CronTypes`, `NoMinuteMissed`, `MarkersBehind`, `DispatchedOnce` | types, no minute missed, markers never ahead, one dispatch for a minute |
| `ListeningProofs` | `SharingTypes`, `OldSharingEnds`, `PartyLimitsKept`, `MediaTypes`, `FinishedStays`, `BookmarksForward`, `ScanTypes`, `ScansApart`, `ThrottleTypes`, `StoresLeftAlone` | types, no link or party from before a save, the limits of a party, finished media stay finished, bookmarks go forward, scans keep apart, stores are left alone |
| `PlaylistProofs` | `FoldersTyped`, `TreesStayTrees`, `OthersStayInOrder` | types, folders form trees within the depth, a call leaves the others in their order |
| | `EditingTyped`, `UndosRestore` | types and the length of a history, an undo gives back what the command changed |
| | `ListeningTypes` | the types of all parts of `MCListening` together |

`tlapm` with the module's name checks each. All hold for every value of the constants
that satisfies the named assumptions of the component's module: bounds are naturals,
names of nobody are not names of somebody, there are two pump futures, the ids of
entries are finitely many, the folders and the playlists too and no more than there
are positions. No theorem assumes a value of `RecoverAtStartup` or `SaveAnyTime`.

**Task manager.** `IInv == TypeOK /\ Linked /\ PumpExclusion /\
SlotsAreWorking`. Exclusion alone is not inductive, because a
candidate with no worker must stay without one until the pass starts it: only the pass
that holds the flag starts workers, so the argument needs the flag. Exactness
of the counter needs that the candidate is not active (or its slot would be
counted twice), so it stands on exclusion. `Linked` says that what a pass or a
request refers to is a row. `TypeStep`, `ExclusionStep` and `SlotsStep` prove the parts with
one step for each action; moves that leave a part alone are lemmas used by name.

Two promises are false in general (section 5), and the proofs say what alone makes them so.
`LimitKept` is about the behaviours with `[][NobodyComesBack]_vars`, in which no parked worker
takes its slot back: a pass that has a candidate has seen a free slot (`Room`), only it starts
workers, and a worker at a checkpoint holds its slot (`HeldAtCheck`), so nobody else
raises the counter. `ProcessingAttended` is about those with `[][NobodyWritesLate]_vars`, in which
no caller stores PROCESSING for a worker that has settled its row: a worker writes PROCESSING only
before its outcome (`Attended`, `LastWrites`). Each has a corollary whose hypothesis is about the
constants instead (`NobodyPauses`, `NobodyRewrites`), as in the run `TaskQueue`.

**Restore.** None of the four properties is inductive. The invariant
follows the journal: with none, one version is live (`Quiet`); while it says
installing, each original file is in place or in its old copy (`Undoable`), and
`Installed` or `Recovering` says how far the installation or its undoing is; once it
says committed or rolled-back, the files are settled and only what was staged is
left to remove (`Closing`). A crash forgets the program counters and keeps the journal,
so a start finds exactly the conjunct its recovery begins from, or, with `main.rs`, leaves it as it is.
One step breaks the invariant: a configuration saved over a journal. `RestoreInvariant` is about the
behaviours without it (`[][NobodySavesOverJournal]_vars`). With the startup of `main.rs` nothing is
lost by it that matters to the other promises: no restore begins over a journal and no
recovery runs, so the restore is `Abandoned` for good, and its administrator was told of no
success. Hence `RestoreAsBuilt`, whose hypothesis `RecoveredUnsaved` speaks of a recovering
startup only and is empty for the code (TLC found no violation of `AsTold` or
`MixedOnlyOverJournal` in the 60,048 states of these constants with 2 restores and 2 starts).
`ServesWholeSet` is false of the code (section 5), and `ServesWholeSetHolds` says what alone makes it so: a save or a start over a journal
(`StartsOverJournal`, which a recovering startup never does). `InvStep` has one
step for each action; the harder actions of the recovery (`BeginStep`,
`RemoveStep`, `MoveStep`) are lemmas of their own.

**Scrobble queue.** A row keeps its account once it is queued, so what was accepted
stays right. That the worker sends for that account needs what it knows at each
of its places (`WorkerInv`): at "send" the credentials it fetched belong to the row's
account, because the check compares them after the fetch, and nothing in between
can change either. Generations are bounded by the pending operations that may
still raise them. The refinement maps each action to the abstract step it is, or
to a stutter; the delivery that the abstract outbox has under way is the row of a
worker between its claim and its commit.

**Runtime gate.** The permit's part: numbers of permits only grow, a caller's is
at most the current one, and it is the current, uncancelled one unless the
caller is in `lapsed`. The configuration's part: the serial lock has one holder, which
is the only update at any place but "idle", the queue has nobody twice, and an
update that may still be rejected has found tables and memory in agreement if it
has found the runtime ready.

**Queue sessions.** The argument of optimistic transactions: `SnapshotHolds` says
that what a request has read still holds while its snapshot is the last one, and
that who has the write lock has read what is still true. Every commit outdates all
the others (`OthersBehind`), every other step leaves the rows alone (`RowsStay`). The
limits then follow by counting, `SavedOnce` from "every list has the row of its
save", and `DevicesGoForward` from the guard that was evaluated on the snapshot.

**Accounts.** The master is the account made by the first start
(`MasterInv`), and the guards leave no request that would change that, also when it is carried
out after any others (`GuardsHold`, of every request at once): they judge a request for the
master by the master's row alone, and no request they let pass changes its role or its lock.

**Imports.** Nobody but the worker puts a row in flight, and it leaves one there only under a
cancelled task or a statement that fails; the invariant adds that a worker past its last write has settled the
row (`ImportsInOrder`), and that an INSERT takes an id no files are listed under. It
asks nothing of the tasks or of what a start does before its sweep.

**Remote playback.** The hub drops whatever refers to a client in the step in which the
client goes (`RemovesAll`). That is inductive with two facts: a connection no player has
opened is nobody's (`UnopenedAbsent`), and the frames on their way are well formed, which
needs the types of the players that make them.

That one player is audible is a token that is passed around, and `OneToken` counts it. For each
transfer id at most one frame or task is under way (`Thread`), and none for an id nobody has
asked for; so a player that answers a frame uses up the only one there is, and a late answer of an
earlier stage cannot exist (`Stale`). The audible players and the items that will make one play
(`Loud`: a paused source that was playing, an order to start, an order to play on) are together
at most one until a listener presses play. Frames are counted by place in their channel,
so that a loss or a closed connection only lowers the count. TLC checked `OneToken` with 2 players,
2 connections, 2 transfers, a change and a loss (1.3 million states) before it was proved.

**Folders.** `FoldersInv`: parents exist, from every folder the walk reaches the root
(`Rooted`), no chain is longer than the limit (`Shallow`), playlists lie in folders that exist. `Chain(f)`
is the least set with `f` that is closed under parents, so what a move, a deletion or a new
folder does to it follows from minimality instead of induction: a move that `Accepts` allows
lengthens the chains below it by what lies above the new parent, and cuts none. For
`OthersStayInOrder` a renumbering by rank is strictly monotone among what it renumbers, and
a deletion adds the same `Shift` to all that it moves up.

**Editing.** `EditInv` says of each command in the history (`Reversible`) that its delta leads
from its `before` to its `after`, and its inverse back if the list had no gaps before.
That a removal and its inserts are inverse to each other (`RemoveUndone`, `InsertUndone`) is
about lists as ranks: every rank below the size of a list is somebody's (`RanksOnto`), taking
the entries out closes the gaps, and inserting them in the order of their positions finds
each the place it had, because those with smaller positions are back already (`InsertAtRank`). In
the order of their ids, the mutant of `NthInsert`, this fails. The recursion of `Inserted` is
unfolded by its least counterexample: that a set of naturals has a least element (`LeastNat`)
is all the induction that is needed, for its existence (`InsertedUnfolds`) and for what
holds of each of its steps (`UpTo`). `UndosRestore` has to tell an undo from a new
command. A new command on a full history drops the oldest of its user and shifts the
others, so it leaves the length alone as well; `ShiftedOnce` shows that a history that
differs from the last one in a single place has the new command there, and then
the state is the one after it.

**Parts together.** `PartsOfListening`: a behaviour of `MCListening!Spec` is one of each part's own
specification, so that what is proved of a part holds of what the run explores.
`ListeningTypes` is its first corollary, `ServiceTypes` the same for `MCService`.

**Cron loop.** `CronInv` relates the three maps. `Answered`: a marker's schedule has an
answer, the next evaluation begins at most one minute beyond the window that answer
opened, and nothing asked for lies between marker and answer; so a row that is not due
may move its answer to this minute. `NotAhead` bounds every entry by the last
evaluation. `FiredMarked`: a schedule that was dispatched keeps a marker at least as late
for as long as its key is current or read, which is what makes a second dispatch
impossible; it needs that a save forgets the key it makes current (`EditKeys`).

**Sharing and bookmarks.** Again optimistic transactions. `CallsHold` says what a call
that is not outdated still knows: the mode for `start_party`, a free place
for `request_track`. Numbers of parties are not used again, so a new one has nothing
pending. For bookmarks the end of a media is found in one of three places
(`MarkedAfterEnd`, `EndRemembered`): before the bookmark that was made since, in the
tombstone, or longer ago than the window. `ReportsHold` says that a report which has read and
is not behind is later than whichever it is; a report that has not read yet is
owed nothing, because what others prune before it reads is gone for it.

**Releases.** `LeasesHold`: a scan that holds an artist and leased it last finds its
lease in the row; of any other that holds it the lease has run out, and the row has another
one or none. It is inductive because a claim asks for a lease that has run out and makes
one that is later than all of those, and because only its owner frees a lease. That is what
`lease_until = ?` in each UPDATE is for. `SlotsHold` is the same argument as for
bookmarks: a slot that was read and is not outdated is not before the row, and the
row only moves forward, so that a pause is never shortened.

Only model-checked. Liveness under fairness is outside the prover's reach:
`CancelledWorkerEnds`, `YieldingWorkerResumes`, `WaitingSettles`, `QueueRequestsEnd`,
`InFlightSettles`, `DeadStreamEnds`, `UpdatesEnd`, `TransferEnds`. Every safety
property and every action property of a passing run is the property of a theorem.

## 5. Where the code and its documents disagree

Shown by a run (details in `PROJECT.json`):

1. A kick that comes while a pass is under way is dropped; a queued task waits
   with free slots until something else kicks (`TaskLostKick`).
2. A shutdown or a runtime update *cancels* the listen that is in the air (`ScrobbleShutdown`).
3. No startup path calls `recover_interrupted_restore`: after a crash inside a
   restore the next start serves a mixed set, and the restart that every later
   refusal recommends does nothing (`RestoreServesMixed`).

Met while modelling, without a run of their own. Tasks and schedules:

- A resumed worker takes its slot back without a look at the limit (`manager.rs:1934`;
  architecture.md:857 limits the active tasks).
- A pass starts the row it selected earlier although the task has finished in
  between (`manager.rs:2018`; `manager.rs:173` calls FINISHED terminal).
- Two analyses may be queued at once (`find_pending`, then INSERT); a cancel of a row a pass has
  already selected is undone when the pass starts it; a reprioritize or a resume that
  spans the end of a task writes PROCESSING after it; the recovery sweep fails tasks that
  the kick of `register` has started already; a PAUSED row of a crashed process
  stays PAUSED; `close` misses a task started by a pass under way.
- A save of a schedule lets the minute it falls into fire again; a schedule that
  never fired is not caught up.

Restore, configuration and privacy:

- A configuration saved after a restore whose rollback is incomplete opens the
  barrier again over half restored files: `SaveConfiguration` with `SaveAnyTime`. With
  `RecoverAtStartup = TRUE` and `SaveAnyTime = TRUE` TLC shows it in eight states
  (the artwork is moved, the rollback fails, the configuration is saved).
- When the commit journal cannot be written the answer says "Restore installed ...
  restart to finish recovery"; if the rename had not happened, recovery
  rolls the restore *back*.
- A restore replaces `background_tasks` under a running task manager: PROCESSING rows of
  the archive have no worker until a restart (`backup_restore.rs:1317`).
- `routes/privacy.rs` says that mutation handlers own the write side of the gate; the PATCH of
  a policy takes the serial lock only, and the policy changes under running requests.

Scrobbling and listening:

- `docs/scrobbling.md` keeps queued plays for when sharing is enabled again;
  `cancel_privacy_pending` cancels them. A failed connection test with a
  transient error overwrites an authentication error. A crash between the commit
  of a delivery and `record_connection_error` leaves a blocked row
  under a connection that shows as connected.
- `listening_activity.rs:168` reports a listen as due "on the exact report"; a report that
  raises the duration can make it due again (`:374`). The queue's UNIQUE row absorbs it.

Imports:

- The files of a completed job live in the staging directory that its end removes
  (`docs/SELF_HOSTING.md:56-57`, `:479`); `cancel_job` does not cancel the task; a task
  cancelled at a checkpoint (`service.rs:770`, `:897`) leaves its row discovering or downloading until
  the next start, and so does a status UPDATE that fails, whether its error is dropped (`:867`, `:1000`) or
  ends the worker (`:934`); `retry_job` queues no task and asks for no capacity; the
  error of an enqueue is dropped and leaves a queued job without a task (`:573`);
  concurrent submits pass the capacity check together (`:419`); a cancelled playlist import loses
  its manifest and a running one is never resumed; the reuse of
  architecture.md:362 is not implemented.

Playback:

- `TRANSFER_TIMEOUT_MS` and `COMMAND_TIMEOUT_MS` are never used: a lost frame leaves a
  transfer open until somebody disconnects. A full channel drops the frame, where `remote/mod.rs:13-14`
  closes with 4008; a second socket of a device does not close the first with
  4009 (`:15-16`). A claim of the playback during a transfer is ignored.
- The upload semaphore is made per request (`lib.rs:788-794`, `routes/queue_media.rs:361-366`): two
  uploads at once are not a limit. Nothing calls `prune_at` (docs/queue-sessions.md); the revision
  of a named queue is never raised.
- `media/mod.rs:9-16` promises that a late heartbeat never resurrects a completed album; `remove`
  leaves no tombstone, so a late report brings a removed bookmark back. At the end of the thirty days
  it fails as well: `save_at` judges the age of a report (`:232`), then prunes and reads
  (`:233-268`); a request that comes later may prune the tombstone in between, and the report from
  before the end is written. `FinishedStaysFinished` therefore excepts an end that is longer ago than
  the window; without the exception TLC finds this in `Listening.cfg`.

Playlists:

- `host_action` does not dismiss the requests of contributors whose access was
  revoked, and the hourly cleanup has no caller (docs/playlist-collaboration.md).
- Undoing a removal from a list with gaps or equal positions puts entries back at
  other places (docs/playlist-organization.md); the older DELETE deletes what the
  document moves to the Trash; two `add_track` calls make duplicates and equal
  positions, and a batch numbers from the count; the older routes look at
  `deleted_at` before their transaction; `purge_expired` has no caller.
- Deleting a folder interleaves its children with what lies behind it already.

Releases:

- `artist_follows.rs:11-13` speaks of cross-worker throttling with 3,500 ms between
  requests. The errors of the write and the commit of a slot are dropped (`:632`, `:634`), so
  overlapping scans may send in the same slot, and a pause is lost while the
  table has no row yet (`:676`). `StoreLeftAlone` holds of the slots that were stored.
- The backoff (`:894`) counts the failures read when the scan began, although the row is
  raised by whichever scan owns it; a scan of a hundred artists makes it
  shorter than the `15m * 2^min(failures, 7)` of `:13`.
- A result that was overtaken is dropped without a trace (`:889`), and the artist is due again
  at once. An artist that nobody follows any more and whose lease a crash left
  behind is never pruned (`:942` asks for `lease_until = 0`).

Accounts:

- The stream of acquisition events (`routes/acquisitions.rs:204-237`) never checks its session
  again, though `auth/events.rs:12` says that streams do. A refresh does not look at the
  expiry, and revives a remembered session that lapsed after its check. The session cache is
  written and never read.

## 6. Plan

Done: the task manager, the cron loop, the scrobble queue with its abstract outbox,
the restore, and after them the runtime gate, queue sessions, imports, accounts, remote
playback, bookmarks, playlists, and scans of releases; the proofs of section 4. Next, in this order:

1. `TaskManager` and `AcquisitionJobs` composed over one row of `background_tasks`, then with
   the restore that replaces it.
2. The parser and matcher of cron expressions as functions on small fields, against a
   reference definition.
3. The browser's side of queue saves (`QueueSyncClient.ts`) in front of `QueueSessions`.

## 7. Not modelled, and why

- Inside the parts that are modelled: frames of the remote control that fail their validation and a
  player whose capture throws; a client that does not read its stream or does not send its body;
  a server clock that is set back under bookmarks.

- Scoring, recommendation, taste, mixes, loudness and search: floating point and
  queries, no protocol.
- Providers, registry, plugins, inspector, cast, logger, configuration files: I/O and
  mapping of data, in front of services this project sees as answers. The registry of
  plugins and the extensions do compare memory with a table across an await; only
  administrators call them, one at a time.
- The smart-playlist compiler: its meaning is SQL's.
- The rate limiter: each decision is one step under one lock, so its limits hold
  by the arithmetic of one call. The same goes for the admission window of
  sockets and for the classification of paths and addresses by the privacy policy.
- Listening activity: what it reports (`scrobble_due`, `newly_counted`) is a field of an answer
  that nothing in the server consumes; repeated listens are absorbed by the
  UNIQUE row of the scrobble queue.
- Data export, the library scan and its change detection, the child process
  of an import: the managers that run them see a runner that reports, fails or returns.
- The rest of the web application, the desktop shell, and the TypeScript server, which
  is replaced.

`PROJECT.json` lists each with its sources.
