---------------------------- MODULE TaskManager ----------------------------
(***************************************************************************)
(* The background task manager of the server (server-rust/src/tasks/       *)
(* manager.rs): a priority queue of jobs kept in the SQLite table          *)
(* background_tasks, dispatched by pump futures onto at most MaxConcurrent *)
(* worker slots, and controlled by admin requests while the jobs run.      *)
(*                                                                         *)
(* The table (rows) survives a crash; every other variable is process      *)
(* memory.  One action is the code between two await points: a row read,   *)
(* a row written, an atomic flag tested.  update_task_fields reads a row   *)
(* and writes it back WHOLE, so its read computes a pending write that the *)
(* next action of the same actor stores.                                   *)
(*                                                                         *)
(* Left out: payloads, progress figures, error texts, log lines and        *)
(* broadcast events, which no guard of the manager reads.                  *)
(***************************************************************************)
EXTENDS Naturals, FiniteSets

CONSTANTS
  MaxTasks,       \* bound: rows ever inserted; a task is its insertion rank
  TaskTypes,      \* the task types that get a runner
  Pumps,          \* futures spawn_pump has outstanding at one time
  Clients,        \* concurrent callers (admin requests, the cron loop)
  AdminOps,       \* the operations the callers use
  Priorities,     \* the priorities an admin may choose
  MaxConcurrent,  \* the worker slots
  MaxHistory,     \* MAX_TERMINAL_HISTORY
  MaxStreams,     \* bound: media streams open at once
  MaxUnits,       \* bound: reports and checkpoints a runner makes
  MaxOps,         \* bound: caller operations in a behaviour
  MaxCrashes      \* bound: restarts in a behaviour

SpotdlTypes == {"SPOTDL_IMPORT", "SPOTDL_DOWNLOAD"}
Sonic == "SONIC_AUDIO_ANALYSIS"

\* is_background_task: the types that yield to media streams.
BackgroundTypes ==
  {"LIBRARY_SCAN", "NEW_RELEASES_SCAN", "AUDIO_ANALYSIS", Sonic}

AllTypes == SpotdlTypes \cup BackgroundTypes

DefaultPriority ==
  [ty \in AllTypes |->
     CASE ty \in SpotdlTypes          -> 300
       [] ty = "LIBRARY_SCAN"         -> 200
       [] ty = "AUDIO_ANALYSIS"       -> 100
       [] ty = "NEW_RELEASES_SCAN"    -> 50
       [] OTHER                       -> 10]

ControlOps == {"pause", "resume", "cancel", "reprioritize"}
AllOps == ControlOps \cup {"enqueue", "clear", "unregister", "close"}

ASSUME TasksAssumption  == MaxTasks \in Nat
ASSUME TypesAssumption  == TaskTypes \subseteq AllTypes
ASSUME OpsAssumption    == AdminOps \subseteq AllOps
ASSUME PrioAssumption   == Priorities \subseteq 0..1000
ASSUME SlotsAssumption  == MaxConcurrent \in Nat
ASSUME BoundsAssumption == {MaxHistory, MaxStreams, MaxUnits, MaxOps, MaxCrashes} \subseteq Nat
\* One future past the compare-exchange leaves another free for the next kick.
ASSUME PumpsAssumption  == \E p, q \in Pumps : p # q

VARIABLES
  rows,        \* background_tasks: task -> type, state, priority
  nextId,      \* the rank the next INSERT gets
  worker,      \* the future start_task spawned for a task
  handle,      \* its ActiveTaskHandle, in TaskRegistry.active while it lives
  registered,  \* TaskRegistry.definitions
  pumps,       \* pump futures
  pumping,     \* the flag one pump holds
  slots,       \* active_slots
  media,       \* media_streams
  client,      \* callers in the middle of an operation
  stopping,    \* close() was called
  recovered,   \* recover_interrupted_tasks ran since the last start
  ops,         \* caller operations so far
  crashes      \* restarts so far

durable == <<rows, nextId>>
mgrVars == <<worker, handle, registered, pumps, pumping, slots, media, stopping, recovered>>
vars == <<durable, mgrVars, client, ops, crashes>>

Tasks == 1..MaxTasks
NoTask == 0

Live     == {"QUEUED", "PROCESSING", "PAUSED"}
Terminal == {"FINISHED", "FAILED", "CANCELLED"}
Absent   == "ABSENT"        \* not inserted yet, or deleted
States   == Live \cup Terminal \cup {Absent}

Prios == 0..1000
NoWrite == [state |-> Absent, prio |-> 0]
Writes  == [state : States, prio : Prios]

WorkerPcs == {"off", "mark", "markW", "check", "parkR", "parkW", "sleep",
              "resR", "resW", "run", "repW", "finW", "rel"}
PumpPcs   == {"idle", "spawned", "select", "scan", "admit", "start"}
ClientPcs == {"idle", "insert", "signal", "write"}

NoHandle  == [manual |-> FALSE, resource |-> FALSE, cancelled |-> FALSE, held |-> FALSE]
NoWorker  == [pc |-> "off", write |-> NoWrite, left |-> 0]
IdlePump  == [pc |-> "idle", todo |-> {}, cand |-> NoTask]
Idle      == [pc |-> "idle", op |-> "none", task |-> NoTask, type |-> "none",
              saw |-> Absent, prio |-> 0, write |-> NoWrite]
NoRow     == [type |-> "none", state |-> Absent, prio |-> 0]

Exists(t)  == rows[t].state # Absent
IsTerminal(t) == rows[t].state \in Terminal
Active(t)  == worker[t].pc # "off"       \* registry.active contains t

Row == [type : AllTypes \cup {"none"}, state : States, prio : Prios]
Worker == [pc : WorkerPcs, write : Writes, left : 0..MaxUnits]
Handle == [manual : BOOLEAN, resource : BOOLEAN, cancelled : BOOLEAN, held : BOOLEAN]
Pump == [pc : PumpPcs, todo : SUBSET [id : Tasks, prio : Prios], cand : Tasks \cup {NoTask}]
Call == [pc : ClientPcs, op : AllOps \cup {"none"}, task : Tasks \cup {NoTask},
         type : AllTypes \cup {"none"}, saw : States, prio : Prios, write : Writes]

TypeOK ==
  /\ rows \in [Tasks -> Row]
  /\ nextId \in 1..(MaxTasks + 1)
  /\ worker \in [Tasks -> Worker]
  /\ handle \in [Tasks -> Handle]
  /\ registered \subseteq TaskTypes
  /\ pumps \in [Pumps -> Pump]
  /\ pumping \in BOOLEAN
  /\ slots \in Nat
  /\ media \in 0..MaxStreams
  /\ client \in [Clients -> Call]
  /\ stopping \in BOOLEAN
  /\ recovered \in BOOLEAN
  /\ ops \in 0..MaxOps
  /\ crashes \in 0..MaxCrashes

-----------------------------------------------------------------------------
(***************************************************************************)
(* Helpers shared by the actions.                                          *)
(***************************************************************************)

\* spawn_pump: one more future will try to pump.  When every future of the
\* bound is busy the kick joins the one that has not begun yet.
Kick ==
  IF stopping \/ \A p \in Pumps : pumps[p].pc # "idle"
  THEN UNCHANGED pumps
  ELSE \E p \in Pumps : /\ pumps[p].pc = "idle"
                        /\ pumps' = [pumps EXCEPT ![p].pc = "spawned"]

\* is_blocked
Blocked(ty) ==
  \/ ty \in BackgroundTypes /\ media > 0
  \/ /\ ty = Sonic
     /\ \E u \in Tasks : /\ rows[u].type \in SpotdlTypes
                         /\ rows[u].prio >= 200
                         /\ rows[u].state \in {"QUEUED", "PROCESSING"}

\* The read of update_task_fields: the row as it will be written back.
PendingState(t, s) == [state |-> s, prio |-> rows[t].prio]
PendingPrio(t, n)  == [state |-> rows[t].state, prio |-> n]
PendingSame(t)     == [state |-> rows[t].state, prio |-> rows[t].prio]

\* Its UPDATE: no row, no effect.
Stored(t, w) ==
  IF Exists(t) THEN [rows EXCEPT ![t] = [@ EXCEPT !.state = w.state, !.prio = w.prio]]
               ELSE rows

TerminalRows(rs) == {t \in Tasks : rs[t].state \in Terminal}
WithoutRows(rs, gone) ==
  [t \in Tasks |-> IF t \in gone THEN [rs[t] EXCEPT !.state = Absent] ELSE rs[t]]

\* prune_history keeps the MaxHistory rows that finished last; the finishing
\* times are abstracted, so any rows may be the oldest ones.
Excess(rs) == IF Cardinality(TerminalRows(rs)) > MaxHistory
              THEN Cardinality(TerminalRows(rs)) - MaxHistory ELSE 0

\* update_task_fields from its UPDATE on.
WriteRow(t, w) ==
  IF Exists(t) /\ w.state \in Terminal
  THEN \E gone \in SUBSET TerminalRows(Stored(t, w)) :
         /\ Cardinality(gone) = Excess(Stored(t, w))
         /\ rows' = WithoutRows(Stored(t, w), gone)
  ELSE rows' = Stored(t, w)

\* Worker t moves on to pc; its pending write is forgotten.
Goto(t, pc) ==
  worker' = [worker EXCEPT ![t] = [@ EXCEPT !.pc = pc, !.write = NoWrite]]
\* Worker t has read its row and will store w.
GotoWrite(t, pc, w) ==
  worker' = [worker EXCEPT ![t] = [@ EXCEPT !.pc = pc, !.write = w]]

\* Slip, told apart by SlotsAreWorking: the counter follows every call instead
\* of the flag.
TakeSlotAlways(t) == slots' = slots + 1
\* slot_held.swap(false) with its fetch_sub, and swap(true) with its fetch_add.
ReleaseSlot(t) ==
  IF handle[t].held THEN slots' = slots - 1 ELSE UNCHANGED slots
TakeSlot(t) ==
  IF handle[t].held THEN UNCHANGED slots ELSE slots' = slots + 1

-----------------------------------------------------------------------------
(***************************************************************************)
(* Start, restart and shutdown.                                            *)
(***************************************************************************)

Init ==
  /\ rows = [t \in Tasks |-> NoRow]
  /\ nextId = 1
  /\ worker = [t \in Tasks |-> NoWorker]
  /\ handle = [t \in Tasks |-> NoHandle]
  /\ registered = {}
  /\ pumps = [p \in Pumps |-> IdlePump]
  /\ pumping = FALSE
  /\ slots = 0
  /\ media = 0
  /\ client = [c \in Clients |-> Idle]
  /\ stopping = FALSE
  /\ recovered = FALSE
  /\ ops = 0
  /\ crashes = 0

\* AppState::with_database registers the runners one by one, each with a kick.
Register(ty) ==
  /\ ~recovered
  /\ ty \in TaskTypes \ registered
  /\ registered' = registered \cup {ty}
  /\ Kick
  /\ UNCHANGED <<durable, worker, handle, pumping, slots, media, client,
                 stopping, recovered, ops, crashes>>

\* Slip, told apart by ProcessingHasWorker: the sweep looks for QUEUED rows.
RecoverQueuedOnly ==
  /\ ~recovered
  /\ registered = TaskTypes
  /\ recovered' = TRUE
  /\ rows' = [t \in Tasks |->
                IF rows[t].state = "QUEUED"
                THEN [rows[t] EXCEPT !.state = "FAILED"] ELSE rows[t]]
  /\ UNCHANGED <<nextId, worker, handle, registered, pumps, pumping, slots, media,
                 client, stopping, ops, crashes>>
\* main runs recover_interrupted_tasks once every runner is registered.
RecoverInterruptedTasks ==
  /\ ~recovered
  /\ registered = TaskTypes
  /\ recovered' = TRUE
  /\ rows' = [t \in Tasks |->
                IF rows[t].state = "PROCESSING"
                THEN [rows[t] EXCEPT !.state = "FAILED"] ELSE rows[t]]
  /\ UNCHANGED <<nextId, worker, handle, registered, pumps, pumping, slots, media,
                 client, stopping, ops, crashes>>

\* The process dies and a new one opens the same database.
Crash ==
  /\ crashes < MaxCrashes
  /\ crashes' = crashes + 1
  /\ worker' = [t \in Tasks |-> NoWorker]
  /\ handle' = [t \in Tasks |-> NoHandle]
  /\ registered' = {}
  /\ pumps' = [p \in Pumps |-> IdlePump]
  /\ pumping' = FALSE
  /\ slots' = 0
  /\ media' = 0
  /\ client' = [c \in Clients |-> Idle]
  /\ stopping' = FALSE
  /\ recovered' = FALSE
  /\ UNCHANGED <<durable, ops>>

\* Room for one more caller operation of the kind op.
Allowed(op) == op \in AdminOps /\ ops < MaxOps

Close ==
  /\ Allowed("close")
  /\ ~stopping
  /\ stopping' = TRUE
  /\ handle' = [t \in Tasks |->
                  IF Active(t) THEN [handle[t] EXCEPT !.cancelled = TRUE] ELSE handle[t]]
  /\ ops' = ops + 1
  /\ UNCHANGED <<durable, worker, registered, pumps, pumping, slots, media, client,
                 recovered, crashes>>

Unregister(ty) ==
  /\ Allowed("unregister")
  /\ recovered
  /\ ty \in registered
  /\ registered' = registered \ {ty}
  /\ ops' = ops + 1
  /\ UNCHANGED <<durable, worker, handle, pumps, pumping, slots, media, client,
                 stopping, recovered, crashes>>

-----------------------------------------------------------------------------
(***************************************************************************)
(* Media streams: acquire_media_stream and the drop of its guard, each     *)
(* with refresh_resource_pauses_sync over the active handles.              *)
(***************************************************************************)

RefreshResourcePauses(streams) ==
  handle' = [t \in Tasks |->
               IF Active(t) THEN [handle[t] EXCEPT !.resource = streams > 0] ELSE handle[t]]

AcquireMediaStream ==
  /\ recovered
  /\ media < MaxStreams
  /\ media' = media + 1
  /\ RefreshResourcePauses(media')
  /\ UNCHANGED <<durable, worker, registered, pumps, pumping, slots, client,
                 stopping, recovered, ops, crashes>>

ReleaseMediaStream ==
  /\ media > 0
  /\ media' = media - 1
  /\ IF media = 1 THEN RefreshResourcePauses(media') /\ Kick
                  ELSE UNCHANGED <<handle, pumps>>
  /\ UNCHANGED <<durable, worker, registered, pumping, slots, client,
                 stopping, recovered, ops, crashes>>

-----------------------------------------------------------------------------
(***************************************************************************)
(* Callers.  enqueue checks, then inserts; pause, resume, cancel and       *)
(* reprioritize check the row, signal the worker and read the row again,   *)
(* then write it.  Requests are served once the server has recovered; the  *)
(* cron loop, which only enqueues, is started by the first register.       *)
(***************************************************************************)

EnqueueCheck(c, ty) ==
  /\ Allowed("enqueue")
  /\ client[c].pc = "idle"
  /\ ~stopping
  /\ ty \in registered
  /\ ty = Sonic => ~ \E t \in Tasks : rows[t].type = Sonic /\ rows[t].state \in Live
  /\ client' = [client EXCEPT ![c] = [Idle EXCEPT !.pc = "insert", !.op = "enqueue",
                                                   !.type = ty]]
  /\ ops' = ops + 1
  /\ UNCHANGED <<durable, mgrVars, crashes>>

EnqueueInsert(c) ==
  /\ client[c].pc = "insert"
  /\ nextId \in Tasks
  /\ rows' = [rows EXCEPT ![nextId] = [type |-> client[c].type, state |-> "QUEUED",
                                       prio |-> DefaultPriority[client[c].type]]]
  /\ nextId' = nextId + 1
  /\ client' = [client EXCEPT ![c] = Idle]
  /\ Kick
  /\ UNCHANGED <<worker, handle, registered, pumping, slots, media, stopping,
                 recovered, ops, crashes>>

\* require_task and the terminal check; n is the requested priority.
ControlCheck(c, op, t, n) ==
  /\ Allowed(op)
  /\ client[c].pc = "idle"
  /\ recovered
  /\ rows[t].state \in Live
  /\ client' = [client EXCEPT ![c] = [Idle EXCEPT !.pc = "signal", !.op = op, !.task = t,
                                                   !.saw = rows[t].state, !.prio = n]]
  /\ ops' = ops + 1
  /\ UNCHANGED <<durable, mgrVars, crashes>>

\* The handle is looked up and flagged, and update_task_fields reads the row.
\* pending is what it will write; a row deleted meanwhile ends the request.
Signal(c, flagged, pending) ==
  LET t == client[c].task IN
  /\ handle' = IF Active(t) THEN [handle EXCEPT ![t] = flagged] ELSE handle
  /\ client' = [client EXCEPT ![c] = IF Exists(t) THEN [@ EXCEPT !.pc = "write",
                                                                 !.write = pending]
                                                  ELSE Idle]
  /\ UNCHANGED <<durable, worker, registered, pumps, pumping, slots, media, stopping,
                 recovered, ops, crashes>>

Pending(c, op) == client[c].pc = "signal" /\ client[c].op = op

PauseSignal(c) ==
  LET t == client[c].task IN
  /\ Pending(c, "pause")
  /\ Signal(c, [handle[t] EXCEPT !.manual = TRUE], PendingState(t, "PAUSED"))

CancelSignal(c) ==
  LET t == client[c].task IN
  /\ Pending(c, "cancel")
  /\ Signal(c, [handle[t] EXCEPT !.cancelled = TRUE], PendingState(t, "CANCELLED"))

\* A running task goes on; a parked row without worker is queued again;
\* anything else is left as it is.
ResumeSignal(c) ==
  LET t == client[c].task IN
  /\ Pending(c, "resume")
  /\ IF Active(t) \/ client[c].saw = "PAUSED"
     THEN Signal(c, [handle[t] EXCEPT !.manual = FALSE],
                 PendingState(t, IF Active(t) THEN "PROCESSING" ELSE "QUEUED"))
     ELSE /\ client' = [client EXCEPT ![c] = Idle]
          /\ UNCHANGED <<durable, mgrVars, ops, crashes>>

ReprioritizeSignal(c) ==
  LET t == client[c].task IN
  /\ Pending(c, "reprioritize")
  /\ Signal(c, handle[t], PendingPrio(t, client[c].prio))

\* cancel, reprioritize and a resume that queues end with a kick.
ControlWrite(c) ==
  LET t == client[c].task
      w == client[c].write
      kicks == \/ client[c].op \in {"cancel", "reprioritize"}
               \/ client[c].op = "resume" /\ w.state = "QUEUED" IN
  /\ client[c].pc = "write"
  /\ WriteRow(t, w)
  /\ client' = [client EXCEPT ![c] = Idle]
  /\ IF Exists(t) /\ kicks THEN Kick ELSE UNCHANGED pumps
  /\ UNCHANGED <<nextId, worker, handle, registered, pumping, slots, media, stopping,
                 recovered, ops, crashes>>

ClearHistory ==
  /\ Allowed("clear")
  /\ recovered
  /\ rows' = WithoutRows(rows, TerminalRows(rows))
  /\ ops' = ops + 1
  /\ UNCHANGED <<nextId, mgrVars, client, crashes>>

ClientStep(c) ==
  \/ EnqueueInsert(c)
  \/ PauseSignal(c) \/ CancelSignal(c) \/ ResumeSignal(c) \/ ReprioritizeSignal(c)
  \/ ControlWrite(c)

ClientBegin(c) ==
  \/ \E ty \in TaskTypes : EnqueueCheck(c, ty)
  \/ \E op \in ControlOps \ {"reprioritize"}, t \in Tasks : ControlCheck(c, op, t, 0)
  \/ \E t \in Tasks, n \in Priorities : ControlCheck(c, "reprioritize", t, n)

-----------------------------------------------------------------------------
(***************************************************************************)
(* The pump.                                                               *)
(***************************************************************************)

PumpFrame == UNCHANGED <<durable, registered, media, client, stopping, recovered,
                         ops, crashes>>

\* Slip, told apart by PumpExclusion: the flag is set but not tested.
PumpBeginAlways(p) ==
  /\ pumps[p].pc = "spawned"
  /\ pumps' = [pumps EXCEPT ![p].pc = IF stopping THEN "idle" ELSE "select"]
  /\ pumping' = (pumping \/ ~stopping)
  /\ PumpFrame /\ UNCHANGED <<worker, handle, slots>>
\* The stopping test and the compare-exchange: a kick that finds the flag set
\* is dropped.
PumpBegin(p) ==
  /\ pumps[p].pc = "spawned"
  /\ IF stopping \/ pumping
     THEN pumps' = [pumps EXCEPT ![p].pc = "idle"] /\ UNCHANGED pumping
     ELSE pumps' = [pumps EXCEPT ![p].pc = "select"] /\ pumping' = TRUE
  /\ PumpFrame /\ UNCHANGED <<worker, handle, slots>>

PumpSelect(p) ==
  /\ pumps[p].pc = "select"
  /\ pumps' = [pumps EXCEPT ![p] =
       [@ EXCEPT !.pc = "scan",
                 !.todo = {[id |-> t, prio |-> rows[t].prio] :
                             t \in {u \in Tasks : rows[u].state = "QUEUED"}}]]
  /\ PumpFrame /\ UNCHANGED <<worker, handle, slots, pumping>>

\* ORDER BY priority DESC, created_at, rowid
Before(a, b) == a.prio > b.prio \/ (a.prio = b.prio /\ a.id <= b.id)
IsFirst(a, todo) == \A b \in todo : Before(a, b)

PumpEnd(p) ==
  /\ pumps[p].pc = "scan"
  /\ pumps[p].todo = {} \/ slots >= MaxConcurrent
  /\ pumps' = [pumps EXCEPT ![p] = IdlePump]
  /\ pumping' = FALSE
  /\ PumpFrame /\ UNCHANGED <<worker, handle, slots>>

\* Slip, told apart by SlotLimit: the loop does not look at the slots.
PumpScanNoLimit(p) ==
  /\ pumps[p].pc = "scan"
  /\ \E a \in pumps[p].todo :
       /\ IsFirst(a, pumps[p].todo)
       /\ pumps' = [pumps EXCEPT ![p] =
            IF Active(a.id) \/ rows[a.id].type \notin registered
            THEN [pc |-> "scan", todo |-> pumps[p].todo \ {a}, cand |-> NoTask]
            ELSE [pc |-> "admit", todo |-> pumps[p].todo \ {a}, cand |-> a.id]]
  /\ PumpFrame /\ UNCHANGED <<worker, handle, slots, pumping>>
\* The next row of the SELECT, skipped when its task is active or has no runner.
PumpScan(p) ==
  /\ pumps[p].pc = "scan"
  /\ slots < MaxConcurrent
  /\ \E a \in pumps[p].todo :
       /\ IsFirst(a, pumps[p].todo)
       /\ pumps' = [pumps EXCEPT ![p] =
            IF Active(a.id) \/ rows[a.id].type \notin registered
            THEN [pc |-> "scan", todo |-> pumps[p].todo \ {a}, cand |-> NoTask]
            ELSE [pc |-> "admit", todo |-> pumps[p].todo \ {a}, cand |-> a.id]]
  /\ PumpFrame /\ UNCHANGED <<worker, handle, slots, pumping>>

PumpAdmit(p) ==
  /\ pumps[p].pc = "admit"
  /\ pumps' = [pumps EXCEPT ![p] =
       IF Blocked(rows[@.cand].type) THEN [@ EXCEPT !.pc = "scan", !.cand = NoTask]
                                     ELSE [@ EXCEPT !.pc = "start"]]
  /\ PumpFrame /\ UNCHANGED <<worker, handle, slots, pumping>>

\* require_task, which asks only that the row exist, and start_task.
PumpStart(p) ==
  LET t == pumps[p].cand IN
  /\ pumps[p].pc = "start"
  /\ pumps' = [pumps EXCEPT ![p] = [@ EXCEPT !.pc = "scan", !.cand = NoTask]]
  /\ IF Exists(t)
     THEN /\ worker' = [worker EXCEPT ![t] = [NoWorker EXCEPT !.pc = "mark",
                                                              !.left = MaxUnits]]
          /\ handle' = [handle EXCEPT ![t] = [NoHandle EXCEPT !.held = TRUE]]
          /\ slots' = slots + 1
     ELSE UNCHANGED <<worker, handle, slots>>
  /\ PumpFrame /\ UNCHANGED pumping

PumpStep(p) ==
  \/ PumpBegin(p) \/ PumpSelect(p) \/ PumpEnd(p)
  \/ PumpScan(p) \/ PumpAdmit(p) \/ PumpStart(p)

-----------------------------------------------------------------------------
(***************************************************************************)
(* The worker future of a task.                                            *)
(***************************************************************************)

WorkerFrame == UNCHANGED <<nextId, registered, pumping, media, client, stopping,
                           recovered, ops, crashes>>

\* update_task_fields(PROCESSING); its error is ignored.
WorkerMark(t) ==
  /\ worker[t].pc = "mark"
  /\ IF Exists(t) THEN GotoWrite(t, "markW", PendingState(t, "PROCESSING"))
                  ELSE Goto(t, "check")
  /\ WorkerFrame /\ UNCHANGED <<rows, handle, pumps, slots>>

WorkerMarkWrite(t) ==
  /\ worker[t].pc = "markW"
  /\ WriteRow(t, worker[t].write)
  /\ Goto(t, "check")
  /\ WorkerFrame /\ UNCHANGED <<handle, pumps, slots>>

\* The outcome is settled: the row is read for the final update, or is gone.
Settle(t, outcome) ==
  IF Exists(t) THEN GotoWrite(t, "finW", PendingState(t, outcome)) ELSE Goto(t, "rel")

\* The resource pause is evaluated again and the loop test taken: a paused
\* worker gives its slot back and parks, any other one takes its slot back.
Gate(t) ==
  LET resource == Blocked(rows[t].type)
      parks == handle[t].manual \/ resource IN
  /\ handle' = [handle EXCEPT ![t] = [@ EXCEPT !.resource = resource, !.held = ~parks]]
  /\ IF parks THEN ReleaseSlot(t) /\ Goto(t, "parkR")
              ELSE TakeSlot(t) /\ Goto(t, "resR")

\* checkpoint: a cancelled token or a missing row is an error that ends the run.
WorkerCheckpoint(t) ==
  /\ worker[t].pc = "check"
  /\ IF handle[t].cancelled \/ ~Exists(t)
     THEN /\ Settle(t, IF handle[t].cancelled THEN "CANCELLED" ELSE "FAILED")
          /\ UNCHANGED <<handle, slots>>
     ELSE Gate(t)
  /\ WorkerFrame /\ UNCHANGED <<rows, pumps>>

\* A parked worker writes PAUSED unless the row says so, and kicks the pump.
WorkerPark(t) ==
  /\ worker[t].pc = "parkR"
  /\ IF Exists(t) /\ rows[t].state # "PAUSED"
     THEN GotoWrite(t, "parkW", PendingState(t, "PAUSED")) /\ UNCHANGED pumps
     ELSE Goto(t, "sleep") /\ Kick
  /\ WorkerFrame /\ UNCHANGED <<rows, handle, slots>>

WorkerParkWrite(t) ==
  /\ worker[t].pc = "parkW"
  /\ WriteRow(t, worker[t].write)
  /\ Goto(t, "sleep")
  /\ Kick
  /\ WorkerFrame /\ UNCHANGED <<handle, slots>>

\* Slips: a parked worker that polls its pauses but not the token
\* (CancelledWorkerEnds), and one that waits for the token alone
\* (YieldingWorkerResumes).
WorkerWakePauses(t) ==
  /\ worker[t].pc = "sleep"
  /\ Gate(t)
  /\ WorkerFrame /\ UNCHANGED <<rows, pumps>>

WorkerWakeToken(t) ==
  /\ worker[t].pc = "sleep"
  /\ handle[t].cancelled
  /\ Settle(t, "CANCELLED")
  /\ WorkerFrame /\ UNCHANGED <<rows, handle, pumps, slots>>
\* The select of the parked worker: the token, or the 100 ms poll.
WorkerWake(t) ==
  /\ worker[t].pc = "sleep"
  /\ IF handle[t].cancelled THEN Settle(t, "CANCELLED") /\ UNCHANGED <<handle, slots>>
                            ELSE Gate(t)
  /\ WorkerFrame /\ UNCHANGED <<rows, pumps>>

\* Past the loop: a row that still says PAUSED is set to PROCESSING.
WorkerResume(t) ==
  /\ worker[t].pc = "resR"
  /\ IF rows[t].state = "PAUSED" THEN GotoWrite(t, "resW", PendingState(t, "PROCESSING"))
                                 ELSE Goto(t, "run")
  /\ WorkerFrame /\ UNCHANGED <<rows, handle, pumps, slots>>

WorkerResumeWrite(t) ==
  /\ worker[t].pc = "resW"
  /\ WriteRow(t, worker[t].write)
  /\ Goto(t, "run")
  /\ WorkerFrame /\ UNCHANGED <<handle, pumps, slots>>

\* The runner calls checkpoint between units of work.
RunnerCheckpoint(t) ==
  /\ worker[t].pc = "run"
  /\ worker[t].left > 0
  /\ worker' = [worker EXCEPT ![t] = [pc |-> "check", write |-> NoWrite,
                                      left |-> worker[t].left - 1]]
  /\ WorkerFrame /\ UNCHANGED <<rows, handle, pumps, slots>>

\* The runner reports progress: report_progress reads the row, then writes it
\* back with its state and priority as they were read.
RunnerReport(t) ==
  /\ worker[t].pc = "run"
  /\ worker[t].left > 0
  /\ Exists(t)
  /\ worker' = [worker EXCEPT ![t] = [pc |-> "repW", write |-> PendingSame(t),
                                      left |-> worker[t].left - 1]]
  /\ WorkerFrame /\ UNCHANGED <<rows, handle, pumps, slots>>

RunnerReportWrite(t) ==
  /\ worker[t].pc = "repW"
  /\ WriteRow(t, worker[t].write)
  /\ Goto(t, "run")
  /\ WorkerFrame /\ UNCHANGED <<handle, pumps, slots>>

\* The runner returns; throw_if_cancelled and the match on the outcome.
RunnerReturn(t) ==
  /\ worker[t].pc = "run"
  /\ \E outcome \in {"FINISHED", "FAILED"} :
       Settle(t, IF handle[t].cancelled THEN "CANCELLED" ELSE outcome)
  /\ WorkerFrame /\ UNCHANGED <<rows, handle, pumps, slots>>

WorkerSettleWrite(t) ==
  /\ worker[t].pc = "finW"
  /\ WriteRow(t, worker[t].write)
  /\ Goto(t, "rel")
  /\ WorkerFrame /\ UNCHANGED <<handle, pumps, slots>>

\* The slot is given back, the handle leaves the registry, the pump is kicked.
WorkerRelease(t) ==
  /\ worker[t].pc = "rel"
  /\ ReleaseSlot(t)
  /\ worker' = [worker EXCEPT ![t] = NoWorker]
  /\ handle' = [handle EXCEPT ![t] = NoHandle]
  /\ Kick
  /\ WorkerFrame /\ UNCHANGED rows

\* Everything a worker does but what its runner chooses to do.
WorkerStep(t) ==
  \/ WorkerMark(t) \/ WorkerMarkWrite(t) \/ WorkerCheckpoint(t)
  \/ WorkerPark(t) \/ WorkerParkWrite(t) \/ WorkerWake(t)
  \/ WorkerResume(t) \/ WorkerResumeWrite(t)
  \/ RunnerReportWrite(t) \/ WorkerSettleWrite(t) \/ WorkerRelease(t)

RunnerStep(t) == RunnerCheckpoint(t) \/ RunnerReport(t) \/ RunnerReturn(t)

-----------------------------------------------------------------------------
Next ==
  \/ \E ty \in TaskTypes : Register(ty) \/ Unregister(ty)
  \/ RecoverInterruptedTasks
  \/ Crash
  \/ Close
  \/ AcquireMediaStream \/ ReleaseMediaStream
  \/ ClearHistory
  \/ \E c \in Clients : ClientBegin(c) \/ ClientStep(c)
  \/ \E p \in Pumps : PumpStep(p)
  \/ \E t \in Tasks : WorkerStep(t) \/ RunnerStep(t)

Spec == Init /\ [][Next]_vars

\* Every spawned future is polled until it completes, a runner returns, a
\* request that was started is carried through, a stream is closed at last, and
\* a server that starts registers its runners and recovers.
Fairness ==
  /\ \A ty \in TaskTypes : WF_vars(Register(ty))
  /\ WF_vars(RecoverInterruptedTasks)
  /\ WF_vars(ReleaseMediaStream)
  /\ \A c \in Clients : WF_vars(ClientStep(c))
  /\ \A p \in Pumps : WF_vars(PumpStep(p))
  /\ \A t \in Tasks : WF_vars(WorkerStep(t)) /\ WF_vars(RunnerReturn(t))

FairSpec == Spec /\ Fairness
-----------------------------------------------------------------------------
(***************************************************************************)
(* Properties.                                                             *)
(***************************************************************************)

InPass(p) == pumps[p].pc \in {"select", "scan", "admit", "start"}
Parked  == {"parkR", "parkW", "sleep"}
Working == {"mark", "markW", "resR", "resW", "run", "repW"}
Holders == {t \in Tasks : handle[t].held}

\* The counter the pump tests is exactly the number of workers that have not
\* given their slot back: a parked worker has, one at work has not, and the
\* swap on slot_held makes checkpoint and the end of start_task agree on it
\* whatever the order of pauses, cancellations and exits.
SlotsAreWorking ==
  /\ slots = Cardinality(Holders)
  /\ \A t \in Tasks : /\ worker[t].pc \in Working => handle[t].held
                      /\ worker[t].pc \in Parked \cup {"off"} => ~handle[t].held

\* The pumping flag lets one future at a time past the compare-exchange, and
\* the candidate it is about to start has no worker: no task ever has two
\* workers, although start_task overwrites the registry entry without a test.
PumpExclusion ==
  /\ \A p \in Pumps : InPass(p) => pumping
  /\ \A p, q \in Pumps : InPass(p) /\ InPass(q) => p = q
  /\ \A p \in Pumps : pumps[p].pc \in {"admit", "start"} => ~Active(pumps[p].cand)

\* "The default worker limit is two concurrent tasks" (docs/architecture.md).
SlotLimit == slots <= MaxConcurrent

\* Once the server has recovered, a row that says PROCESSING has a worker, so
\* the overlap test of the cron loop and find_pending never wait for a ghost.
ProcessingHasWorker ==
  recovered => \A t \in Tasks : rows[t].state = "PROCESSING" => Active(t)

\* A queued task gets a worker, or leaves the queue.
QueuedTaskStarts ==
  \A t \in Tasks : (rows[t].state = "QUEUED") ~> (rows[t].state # "QUEUED" \/ Active(t))

\* The worker of a cancelled task ends, parked or not, and so does the handle.
CancelledWorkerEnds == \A t \in Tasks : handle[t].cancelled ~> ~handle[t].cancelled

\* When the streams are over, a worker that yielded to them goes back to work
\* or ends; nobody pauses it by hand.
YieldingWorkerResumes ==
  <>[](media = 0) =>
    \A t \in Tasks : (worker[t].pc = "sleep" /\ ~handle[t].manual)
                       ~> (worker[t].pc \notin Parked \/ handle[t].manual)

=============================================================================
