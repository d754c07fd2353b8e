------------------------- MODULE TaskManagerProofs -------------------------
(***************************************************************************)
(* What is proved of TaskManager for every number of tasks, callers and    *)
(* pump futures: its variables keep their types, the slot counter counts   *)
(* exactly the workers that have not given their slot back, and one pump   *)
(* pass runs at a time and never starts a task that has a worker.  The two *)
(* promises that the code does not keep in general, the limit of the slots *)
(* and a worker for every row that says PROCESSING, are proved for every   *)
(* behaviour without the one step that breaks them.                        *)
(***************************************************************************)
EXTENDS TaskManager, FiniteSetTheorems, TLAPS

(***************************************************************************)
(* The strengthening.  A pump or a caller that is about to use the task it *)
(* remembers has one; an insert in flight has a type.                      *)
(***************************************************************************)
Linked ==
  /\ \A p \in Pumps : pumps[p].pc \in {"admit", "start"} => pumps[p].cand \in Tasks
  /\ \A c \in Clients : client[c].pc \in {"signal", "write"} => client[c].task \in Tasks
  /\ \A c \in Clients : client[c].pc = "insert" => client[c].type \in AllTypes

IInv == TypeOK /\ Linked /\ PumpExclusion /\ SlotsAreWorking

\* The set of tasks is finite, and so is the set of slot holders.
LEMMA HoldersFinite == IsFiniteSet(Holders) /\ IsFiniteSet(Tasks)
<1>1. IsFiniteSet(Tasks)
  BY FS_Interval, TasksAssumption DEF Tasks
<1> QED BY <1>1, FS_Subset DEF Holders

\* UPDATE, DELETE and prune_history keep the shape of the table.
LEMMA StoredType ==
  ASSUME rows \in [Tasks -> Row], NEW t \in Tasks, NEW w \in Writes
  PROVE  Stored(t, w) \in [Tasks -> Row]
  BY DEF Stored, Writes, Row

LEMMA WithoutRowsType ==
  ASSUME NEW rs \in [Tasks -> Row], NEW gone
  PROVE  WithoutRows(rs, gone) \in [Tasks -> Row]
  BY DEF WithoutRows, States, Absent, Row

LEMMA WriteRowType ==
  ASSUME rows \in [Tasks -> Row], NEW t \in Tasks, NEW w \in Writes, WriteRow(t, w)
  PROVE  rows' \in [Tasks -> Row]
  BY StoredType, WithoutRowsType DEF WriteRow

\* A kick only turns an idle future into a spawned one.
LEMMA KickFrame ==
  ASSUME pumps \in [Pumps -> Pump], Kick
  PROVE  /\ pumps' \in [Pumps -> Pump]
         /\ \A p \in Pumps : \/ pumps'[p] = pumps[p]
                             \/ pumps'[p].pc = "spawned" /\ pumps[p].pc = "idle"
  BY DEF Kick, Pump, PumpPcs

LEMMA DefaultPriorityType == \A ty \in AllTypes : DefaultPriority[ty] \in Prios
  BY DEF DefaultPriority, Prios

\* A worker that holds a slot is counted.
LEMMA HolderCounted ==
  ASSUME TypeOK, SlotsAreWorking, NEW t \in Tasks, handle[t].held
  PROVE  slots \in Nat /\ slots >= 1
<1>1. Holders # {} /\ IsFiniteSet(Holders)
  BY HoldersFinite DEF Holders
<1>2. Cardinality(Holders) \in Nat /\ Cardinality(Holders) # 0
  BY <1>1, FS_EmptySet, FS_CardinalityType
<1> QED BY <1>2 DEF SlotsAreWorking, TypeOK

\* What update_task_fields is going to write is a state and a priority.
LEMMA PendingType ==
  ASSUME rows \in [Tasks -> Row], NEW t \in Tasks
  PROVE  /\ \A st \in States : PendingState(t, st) \in Writes
         /\ \A n \in Prios : PendingPrio(t, n) \in Writes
         /\ PendingSame(t) \in Writes
  BY DEF PendingState, PendingPrio, PendingSame, Writes, Row

LEMMA StateNames ==
  /\ {"QUEUED", "PROCESSING", "PAUSED", "FINISHED", "FAILED", "CANCELLED"} \subseteq States
  /\ Absent \in States
  /\ NoWrite \in Writes
  BY DEF States, Live, Terminal, Absent, NoWrite, Writes, Prios

\* Moving a worker on keeps the workers well formed.
LEMMA GotoType ==
  ASSUME worker \in [Tasks -> Worker], NEW t \in Tasks, NEW pc \in WorkerPcs
  PROVE  /\ Goto(t, pc) => worker' \in [Tasks -> Worker]
         /\ \A w \in Writes : GotoWrite(t, pc, w) => worker' \in [Tasks -> Worker]
  BY StateNames DEF Goto, GotoWrite, Worker

LEMMA RefreshType ==
  ASSUME handle \in [Tasks -> Handle], NEW streams, RefreshResourcePauses(streams)
  PROVE  handle' \in [Tasks -> Handle]
<1>1. \A h \in Handle, b \in BOOLEAN : [h EXCEPT !.resource = b] \in Handle
  BY DEF Handle
<1>2. (streams > 0) \in BOOLEAN
  OBVIOUS
<1>3. \A t \in Tasks : [handle[t] EXCEPT !.resource = streams > 0] \in Handle
  BY <1>1, <1>2, Zenon
<1> QED BY <1>3 DEF RefreshResourcePauses

LEMMA IdleType == Idle \in Call
  BY StateNames DEF Idle, Call, ClientPcs, NoTask, Prios

LEMMA SettleType ==
  ASSUME TypeOK, NEW t \in Tasks, NEW outcome \in Terminal, Settle(t, outcome)
  PROVE  worker' \in [Tasks -> Worker]
  BY GotoType, PendingType, StateNames DEF Settle, TypeOK, States, WorkerPcs

LEMMA SlotMoves ==
  ASSUME TypeOK, SlotsAreWorking, NEW t \in Tasks
  PROVE  /\ ReleaseSlot(t) => slots' \in Nat
         /\ TakeSlot(t) => slots' \in Nat
  BY HolderCounted DEF ReleaseSlot, TakeSlot, TypeOK

LEMMA GateType ==
  ASSUME TypeOK, SlotsAreWorking, NEW t \in Tasks, Gate(t)
  PROVE  /\ worker' \in [Tasks -> Worker]
         /\ handle' \in [Tasks -> Handle]
         /\ slots' \in Nat
<1>1. Blocked(rows[t].type) \in BOOLEAN
  BY DEF Blocked
<1>2. handle[t].manual \in BOOLEAN
  BY DEF TypeOK, Handle
<1>3. handle' \in [Tasks -> Handle]
  BY <1>1, <1>2 DEF Gate, TypeOK, Handle
<1>4. slots' \in Nat
  BY SlotMoves DEF Gate
<1>5. worker' \in [Tasks -> Worker]
  BY GotoType DEF Gate, TypeOK, WorkerPcs
<1> QED BY <1>3, <1>4, <1>5

-----------------------------------------------------------------------------
(***************************************************************************)
(* Types.                                                                  *)
(***************************************************************************)

LEMMA InitInv == Init => IInv
<1> SUFFICES ASSUME Init PROVE IInv
  OBVIOUS
<1>1. TypeOK
  <2>1. NoRow \in Row /\ NoHandle \in Handle /\ IdlePump \in Pump
    BY StateNames DEF NoRow, Row, NoHandle, Handle, IdlePump, Pump, PumpPcs, NoTask, Prios
  <2>2. NoWorker \in Worker
    BY StateNames, BoundsAssumption DEF NoWorker, Worker, WorkerPcs
  <2>3. Idle \in Call
    BY IdleType
  <2>4. 1 \in 1..(MaxTasks + 1) /\ 0 \in 0..MaxStreams /\ 0 \in 0..MaxOps /\ 0 \in 0..MaxCrashes
    BY TasksAssumption, BoundsAssumption
  <2> QED BY <2>1, <2>2, <2>3, <2>4 DEF Init, TypeOK
<1>2. Linked
  BY DEF Init, Linked, IdlePump, Idle
<1>3. PumpExclusion
  BY DEF Init, PumpExclusion, InPass, IdlePump
<1>4. SlotsAreWorking
  <2>1. Holders = {}
    BY DEF Init, Holders, NoHandle
  <2> QED BY <2>1, FS_EmptySet DEF Init, SlotsAreWorking, NoHandle, NoWorker, Working
<1> QED BY <1>1, <1>2, <1>3, <1>4 DEF IInv

\* Each step keeps the types.  The slot counter stays a natural number because
\* only a worker that holds a slot gives one back.
LEMMA TypeStep == IInv /\ [Next]_vars => TypeOK'
<1> SUFFICES ASSUME IInv, [Next]_vars PROVE TypeOK'
  OBVIOUS
<1> USE DEF IInv
<1>1. ASSUME NEW ty \in TaskTypes, Register(ty) PROVE TypeOK'
  <2>1. pumps' \in [Pumps -> Pump]
    BY <1>1, KickFrame DEF Register, TypeOK
  <2>2. registered' \subseteq TaskTypes
    BY <1>1 DEF Register, TypeOK
  <2> QED BY <1>1, <2>1, <2>2 DEF Register, TypeOK, durable
<1>2. ASSUME NEW ty \in TaskTypes, Unregister(ty) PROVE TypeOK'
  <2>1. ops' \in 0..MaxOps
    BY <1>2, BoundsAssumption DEF Unregister, Allowed, TypeOK
  <2>2. registered' \subseteq TaskTypes
    BY <1>2 DEF Unregister, TypeOK
  <2> QED BY <1>2, <2>1, <2>2 DEF Unregister, TypeOK, durable
<1>3. CASE RecoverInterruptedTasks
  <2>1. rows' \in [Tasks -> Row]
    BY <1>3, StateNames DEF RecoverInterruptedTasks, TypeOK, Row
  <2> QED BY <1>3, <2>1 DEF RecoverInterruptedTasks, TypeOK
<1>4. CASE Crash
  <2>1. NoHandle \in Handle /\ IdlePump \in Pump /\ NoWorker \in Worker /\ Idle \in Call
    BY StateNames, BoundsAssumption
    DEF NoHandle, Handle, IdlePump, Pump, PumpPcs, NoWorker, Worker, WorkerPcs, Idle, Call,
        ClientPcs, NoTask, Prios
  <2>2. 0 \in 0..MaxStreams /\ crashes + 1 \in 0..MaxCrashes
    BY <1>4, BoundsAssumption DEF Crash, TypeOK
  <2> QED BY <1>4, <2>1, <2>2 DEF Crash, TypeOK, durable
<1>5. CASE Close
  <2>1. handle' \in [Tasks -> Handle]
    BY <1>5 DEF Close, TypeOK, Handle
  <2>2. ops' \in 0..MaxOps
    BY <1>5, BoundsAssumption DEF Close, Allowed, TypeOK
  <2> QED BY <1>5, <2>1, <2>2 DEF Close, TypeOK, durable
<1>6. CASE AcquireMediaStream
  <2>1. handle' \in [Tasks -> Handle]
    BY <1>6, RefreshType DEF AcquireMediaStream, TypeOK
  <2>2. media' \in 0..MaxStreams
    BY <1>6, BoundsAssumption DEF AcquireMediaStream, TypeOK
  <2> QED BY <1>6, <2>1, <2>2 DEF AcquireMediaStream, TypeOK, durable
<1>7. CASE ReleaseMediaStream
  <2>1. handle' \in [Tasks -> Handle] /\ pumps' \in [Pumps -> Pump]
    <3>1. CASE media = 1
      <4>1. Kick /\ RefreshResourcePauses(media')
        BY <1>7, <3>1 DEF ReleaseMediaStream
      <4>2. handle' \in [Tasks -> Handle]
        BY <4>1, RefreshType DEF TypeOK
      <4> QED BY <4>1, <4>2, KickFrame DEF TypeOK
    <3>2. CASE media # 1
      BY <1>7, <3>2 DEF ReleaseMediaStream, TypeOK
    <3> QED BY <3>1, <3>2
  <2>2. media' \in 0..MaxStreams
    BY <1>7, BoundsAssumption DEF ReleaseMediaStream, TypeOK
  <2> QED BY <1>7, <2>1, <2>2 DEF ReleaseMediaStream, TypeOK, durable
<1>8. CASE ClearHistory
  <2>1. rows' \in [Tasks -> Row]
    BY <1>8, WithoutRowsType DEF ClearHistory, TypeOK
  <2>2. ops' \in 0..MaxOps
    BY <1>8, BoundsAssumption DEF ClearHistory, Allowed, TypeOK
  <2> QED BY <1>8, <2>1, <2>2 DEF ClearHistory, TypeOK, mgrVars
<1>9. ASSUME NEW c \in Clients, ClientBegin(c) PROVE TypeOK'
  <2>1. ASSUME NEW ty \in TaskTypes, EnqueueCheck(c, ty) PROVE TypeOK'
    <3>1. [Idle EXCEPT !.pc = "insert", !.op = "enqueue", !.type = ty] \in Call
      <4>1. ty \in AllTypes /\ "insert" \in ClientPcs /\ "enqueue" \in AllOps
        BY TypesAssumption DEF ClientPcs, AllOps
      <4>2. Idle \in Call
        BY IdleType
      <4> QED BY <4>1, <4>2 DEF Call
    <3>2. client' \in [Clients -> Call]
      BY <2>1, <3>1 DEF EnqueueCheck, TypeOK
    <3>3. ops' \in 0..MaxOps
      BY <2>1, BoundsAssumption DEF EnqueueCheck, Allowed, TypeOK
    <3> QED BY <2>1, <3>2, <3>3 DEF EnqueueCheck, TypeOK, durable, mgrVars
  <2>2. ASSUME NEW op \in ControlOps, NEW t \in Tasks, NEW n \in Prios,
               ControlCheck(c, op, t, n)
        PROVE  TypeOK'
    <3>1. [Idle EXCEPT !.pc = "signal", !.op = op, !.task = t, !.saw = rows[t].state,
                       !.prio = n] \in Call
      BY <2>2, StateNames DEF TypeOK, Idle, Call, Row, ClientPcs, AllOps
    <3>2. client' \in [Clients -> Call]
      BY <2>2, <3>1 DEF ControlCheck, TypeOK
    <3>3. ops' \in 0..MaxOps
      BY <2>2, BoundsAssumption DEF ControlCheck, Allowed, TypeOK
    <3> QED BY <2>2, <3>2, <3>3 DEF ControlCheck, TypeOK, durable, mgrVars
  <2>3. 0 \in Prios /\ Priorities \subseteq Prios
    BY PrioAssumption DEF Prios
  <2> QED BY <1>9, <2>1, <2>2, <2>3 DEF ClientBegin, ControlOps
<1>10. ASSUME NEW c \in Clients, ClientStep(c) PROVE TypeOK'
  <2>1. CASE EnqueueInsert(c)
    <3>1. [type |-> client[c].type, state |-> "QUEUED",
           prio |-> DefaultPriority[client[c].type]] \in Row
      BY <2>1, StateNames, DefaultPriorityType DEF EnqueueInsert, Linked, Row
    <3>2. rows' \in [Tasks -> Row]
      BY <2>1, <3>1 DEF EnqueueInsert, TypeOK
    <3>3. nextId' \in 1..(MaxTasks + 1)
      BY <2>1, TasksAssumption DEF EnqueueInsert, TypeOK, Tasks
    <3>4. pumps' \in [Pumps -> Pump]
      BY <2>1, KickFrame DEF EnqueueInsert, TypeOK
    <3> QED BY <2>1, <3>2, <3>3, <3>4, IdleType DEF EnqueueInsert, TypeOK
  <2> DEFINE t == client[c].task
  <2>2. ASSUME NEW op, Pending(c, op) PROVE t \in Tasks
    BY <2>2 DEF Pending, Linked
  <2>3. ASSUME NEW flagged \in Handle, NEW w \in Writes, Signal(c, flagged, w) PROVE TypeOK'
    <3>1. [client[c] EXCEPT !.pc = "write", !.write = w] \in Call
      BY <2>3 DEF TypeOK, Call, ClientPcs
    <3>2. client' \in [Clients -> Call]
      BY <2>3, <3>1, IdleType DEF Signal, TypeOK
    <3>3. handle' \in [Tasks -> Handle]
      BY <2>3 DEF Signal, TypeOK
    <3> QED BY <2>3, <3>2, <3>3 DEF Signal, TypeOK, durable
  <2>4. CASE PauseSignal(c)
    BY <2>2, <2>3, <2>4, PendingType, StateNames DEF PauseSignal, TypeOK, Handle
  <2>5. CASE CancelSignal(c)
    BY <2>2, <2>3, <2>5, PendingType, StateNames DEF CancelSignal, TypeOK, Handle
  <2>6. CASE ResumeSignal(c)
    <3>1. t \in Tasks
      BY <2>2, <2>6 DEF ResumeSignal
    <3>2. [handle[t] EXCEPT !.manual = FALSE] \in Handle
      BY <3>1 DEF TypeOK, Handle
    <3>3. PendingState(t, IF Active(t) THEN "PROCESSING" ELSE "QUEUED") \in Writes
      BY <3>1, PendingType, StateNames DEF TypeOK
    <3>4. CASE Active(t) \/ client[c].saw = "PAUSED"
      BY <2>3, <2>6, <3>2, <3>3, <3>4 DEF ResumeSignal
    <3>5. CASE ~(Active(t) \/ client[c].saw = "PAUSED")
      BY <2>6, <3>5, IdleType DEF ResumeSignal, TypeOK, durable, mgrVars
    <3> QED BY <3>4, <3>5
  <2>7. CASE ReprioritizeSignal(c)
    BY <2>2, <2>3, <2>7, PendingType DEF ReprioritizeSignal, TypeOK, Call
  <2>8. CASE ControlWrite(c)
    <3>1. rows' \in [Tasks -> Row]
      BY <2>8, WriteRowType DEF ControlWrite, Linked, TypeOK, Call
    <3>2. pumps' \in [Pumps -> Pump]
      BY <2>8, KickFrame DEF ControlWrite, TypeOK
    <3> QED BY <2>8, <3>1, <3>2, IdleType DEF ControlWrite, TypeOK
  <2> QED BY <1>10, <2>1, <2>4, <2>5, <2>6, <2>7, <2>8 DEF ClientStep
<1>11. ASSUME NEW p \in Pumps, PumpStep(p) PROVE TypeOK'
  <2>1. CASE PumpBegin(p)
    <3>1. pumps' \in [Pumps -> Pump] /\ pumping' \in BOOLEAN
      <4>1. \A st \in {"idle", "select"} : [pumps[p] EXCEPT !.pc = st] \in Pump
        BY DEF TypeOK, Pump, PumpPcs
      <4>2. CASE stopping \/ pumping
        BY <2>1, <4>1, <4>2 DEF PumpBegin, TypeOK
      <4>3. CASE ~(stopping \/ pumping)
        BY <2>1, <4>1, <4>3 DEF PumpBegin, TypeOK
      <4> QED BY <4>2, <4>3
    <3> QED BY <2>1, <3>1 DEF PumpBegin, PumpFrame, TypeOK, durable
  <2>2. CASE PumpSelect(p)
    <3>1. {[id |-> t, prio |-> rows[t].prio] : t \in {u \in Tasks : rows[u].state = "QUEUED"}}
            \in SUBSET [id : Tasks, prio : Prios]
      BY DEF TypeOK, Row
    <3>2. pumps' \in [Pumps -> Pump]
      BY <2>2, <3>1 DEF PumpSelect, TypeOK, Pump, PumpPcs
    <3> QED BY <2>2, <3>2 DEF PumpSelect, PumpFrame, TypeOK, durable
  <2>3. CASE PumpEnd(p)
    BY <2>3 DEF PumpEnd, PumpFrame, TypeOK, IdlePump, Pump, PumpPcs, durable
  <2>4. CASE PumpScan(p)
    <3>1. PICK a \in pumps[p].todo :
             pumps' = [pumps EXCEPT ![p] =
               IF Active(a.id) \/ rows[a.id].type \notin registered
               THEN [pc |-> "scan", todo |-> pumps[p].todo \ {a}, cand |-> NoTask]
               ELSE [pc |-> "admit", todo |-> pumps[p].todo \ {a}, cand |-> a.id]]
      BY <2>4 DEF PumpScan
    <3>2. a.id \in Tasks /\ pumps[p].todo \ {a} \in SUBSET [id : Tasks, prio : Prios]
      BY <3>1 DEF TypeOK, Pump
    <3>3. pumps' \in [Pumps -> Pump]
      BY <3>1, <3>2 DEF TypeOK, Pump, PumpPcs
    <3> QED BY <2>4, <3>3 DEF PumpScan, PumpFrame, TypeOK, durable
  <2>5. CASE PumpAdmit(p)
    BY <2>5 DEF PumpAdmit, PumpFrame, TypeOK, Pump, PumpPcs, durable
  <2>6. CASE PumpStart(p)
    <3>1. [NoWorker EXCEPT !.pc = "mark", !.left = MaxUnits] \in Worker
      <4>1. MaxUnits \in 0..MaxUnits
        BY BoundsAssumption
      <4> QED BY <4>1, StateNames DEF NoWorker, Worker, WorkerPcs
    <3>2. [NoHandle EXCEPT !.held = TRUE] \in Handle
      BY DEF NoHandle, Handle
    <3>3. pumps' \in [Pumps -> Pump]
      BY <2>6 DEF PumpStart, TypeOK, Pump, PumpPcs
    <3>4. worker' \in [Tasks -> Worker] /\ handle' \in [Tasks -> Handle] /\ slots' \in Nat
      BY <2>6, <3>1, <3>2 DEF PumpStart, TypeOK
    <3> QED BY <2>6, <3>3, <3>4 DEF PumpStart, PumpFrame, TypeOK, durable
  <2> QED BY <1>11, <2>1, <2>2, <2>3, <2>4, <2>5, <2>6 DEF PumpStep
<1>12. ASSUME NEW t \in Tasks, WorkerStep(t) PROVE TypeOK'
  <2>1. ASSUME WorkerFrame, rows' \in [Tasks -> Row], worker' \in [Tasks -> Worker],
               handle' \in [Tasks -> Handle], pumps' \in [Pumps -> Pump], slots' \in Nat
        PROVE  TypeOK'
    BY <2>1 DEF WorkerFrame, TypeOK
  <2>2. worker[t].write \in Writes
    BY DEF TypeOK, Worker
  <2> USE <2>1, <2>2, WriteRowType, GotoType, PendingType, StateNames, KickFrame
  <2>3. CASE WorkerMark(t)
    BY <2>3 DEF WorkerMark, TypeOK, WorkerPcs
  <2>4. CASE WorkerMarkWrite(t)
    BY <2>4 DEF WorkerMarkWrite, TypeOK, WorkerPcs
  <2>5. CASE WorkerCheckpoint(t)
    BY <2>5, GateType, SettleType DEF WorkerCheckpoint, TypeOK, Terminal
  <2>6. CASE WorkerPark(t)
    BY <2>6 DEF WorkerPark, TypeOK, WorkerPcs
  <2>7. CASE WorkerParkWrite(t)
    BY <2>7 DEF WorkerParkWrite, TypeOK, WorkerPcs
  <2>8. CASE WorkerWake(t)
    BY <2>8, GateType, SettleType DEF WorkerWake, TypeOK, Terminal
  <2>9. CASE WorkerResume(t)
    BY <2>9 DEF WorkerResume, TypeOK, WorkerPcs
  <2>10. CASE WorkerResumeWrite(t)
    BY <2>10 DEF WorkerResumeWrite, TypeOK, WorkerPcs
  <2>11. CASE RunnerReportWrite(t)
    BY <2>11 DEF RunnerReportWrite, TypeOK, WorkerPcs
  <2>12. CASE WorkerSettleWrite(t)
    BY <2>12 DEF WorkerSettleWrite, TypeOK, WorkerPcs
  <2>13. CASE WorkerRelease(t)
    <3>1. NoWorker \in Worker /\ NoHandle \in Handle
      BY BoundsAssumption DEF NoWorker, Worker, WorkerPcs, NoHandle, Handle
    <3> QED BY <2>13, <3>1, SlotMoves DEF WorkerRelease, TypeOK
  <2> QED BY <1>12, <2>3, <2>4, <2>5, <2>6, <2>7, <2>8, <2>9, <2>10, <2>11, <2>12, <2>13
      DEF WorkerStep
<1>13. ASSUME NEW t \in Tasks, RunnerStep(t) PROVE TypeOK'
  <2>1. worker[t].left \in 0..MaxUnits
    BY DEF TypeOK, Worker
  <2>2. worker[t].left > 0 => worker[t].left - 1 \in 0..MaxUnits
    BY <2>1, BoundsAssumption
  <2>3. CASE RunnerCheckpoint(t)
    <3>1. worker' \in [Tasks -> Worker]
      BY <2>2, <2>3, StateNames DEF RunnerCheckpoint, TypeOK, Worker, WorkerPcs
    <3> QED BY <2>3, <3>1 DEF RunnerCheckpoint, WorkerFrame, TypeOK
  <2>4. CASE RunnerReport(t)
    BY <2>2, <2>4, PendingType DEF RunnerReport, WorkerFrame, TypeOK, Worker, WorkerPcs
  <2>5. CASE RunnerReturn(t)
    BY <2>5, SettleType DEF RunnerReturn, WorkerFrame, TypeOK, Terminal
  <2> QED BY <1>13, <2>3, <2>4, <2>5 DEF RunnerStep
<1>14. CASE UNCHANGED vars
  BY <1>14 DEF vars, durable, mgrVars, TypeOK
<1> QED BY <1>1, <1>2, <1>3, <1>4, <1>5, <1>6, <1>7, <1>8, <1>9, <1>10, <1>11, <1>12, <1>13,
           <1>14 DEF Next

-----------------------------------------------------------------------------
(***************************************************************************)
(* One pass at a time.  Every step but those of a pump leaves the passes   *)
(* alone: it may spawn an idle future, and it starts no worker.            *)
(***************************************************************************)

LeavesPasses ==
  /\ \A p \in Pumps : pumps'[p] = pumps[p] \/ pumps'[p].pc = "spawned"
  /\ pumping' = pumping
  /\ \A t \in Tasks : ~Active(t) => ~Active(t)'

LinkedPumps  == \A p \in Pumps : pumps[p].pc \in {"admit", "start"} => pumps[p].cand \in Tasks
LinkedCalls  ==
  /\ \A c \in Clients : client[c].pc \in {"signal", "write"} => client[c].task \in Tasks
  /\ \A c \in Clients : client[c].pc = "insert" => client[c].type \in AllTypes

LEMMA LinkedParts == Linked <=> LinkedPumps /\ LinkedCalls
  BY DEF Linked, LinkedPumps, LinkedCalls

LEMMA LeavesPassesKeeps ==
  ASSUME LinkedPumps, PumpExclusion, LeavesPasses
  PROVE  LinkedPumps' /\ PumpExclusion'
<1>1. \A p \in Pumps : /\ InPass(p)' => InPass(p) /\ pumps'[p] = pumps[p]
                       /\ pumps'[p].pc \in {"admit", "start"} =>
                            pumps[p].pc \in {"admit", "start"} /\ pumps'[p] = pumps[p]
  BY DEF LeavesPasses, InPass
<1>2. LinkedPumps'
  BY <1>1 DEF LinkedPumps
<1>3. \A p \in Pumps : pumps'[p].pc \in {"admit", "start"} => ~(Active(pumps[p].cand)')
  BY <1>1 DEF LeavesPasses, LinkedPumps, PumpExclusion
<1>4. PumpExclusion'
  BY <1>1, <1>3 DEF LeavesPasses, PumpExclusion, Active
<1> QED BY <1>2, <1>4

\* A worker that moves on was started before.
LEMMA WorkerMoves ==
  ASSUME worker \in [Tasks -> Worker], NEW t \in Tasks, worker[t].pc # "off", NEW pc
  PROVE  /\ Goto(t, pc) => \A u \in Tasks : ~Active(u) => ~Active(u)'
         /\ \A w : GotoWrite(t, pc, w) => \A u \in Tasks : ~Active(u) => ~Active(u)'
  BY DEF Goto, GotoWrite, Active, Worker

LEMMA WorkerLeavesPasses ==
  ASSUME TypeOK, NEW t \in Tasks, WorkerStep(t) \/ RunnerStep(t)
  PROVE  LeavesPasses
<1>1. /\ pumping' = pumping
      /\ Kick \/ UNCHANGED pumps
  BY DEF WorkerStep, RunnerStep, WorkerMark, WorkerMarkWrite, WorkerCheckpoint, WorkerPark,
         WorkerParkWrite, WorkerWake, WorkerResume, WorkerResumeWrite, RunnerReportWrite,
         WorkerSettleWrite, WorkerRelease, RunnerCheckpoint, RunnerReport, RunnerReturn,
         WorkerFrame
<1>2. \A p \in Pumps : pumps'[p] = pumps[p] \/ pumps'[p].pc = "spawned"
  BY <1>1, KickFrame DEF TypeOK
<1>3. worker[t].pc # "off"
  BY DEF WorkerStep, RunnerStep, WorkerMark, WorkerMarkWrite, WorkerCheckpoint, WorkerPark,
         WorkerParkWrite, WorkerWake, WorkerResume, WorkerResumeWrite, RunnerReportWrite,
         WorkerSettleWrite, WorkerRelease, RunnerCheckpoint, RunnerReport, RunnerReturn
<1>4. \A u \in Tasks : u # t => worker'[u] = worker[u]
  BY DEF WorkerStep, RunnerStep, WorkerMark, WorkerMarkWrite, WorkerCheckpoint, WorkerPark,
         WorkerParkWrite, WorkerWake, WorkerResume, WorkerResumeWrite, RunnerReportWrite,
         WorkerSettleWrite, WorkerRelease, RunnerCheckpoint, RunnerReport, RunnerReturn,
         Settle, Gate, Goto, GotoWrite, TypeOK
<1> QED BY <1>1, <1>2, <1>3, <1>4 DEF LeavesPasses, Active

LEMMA CallerLeavesPasses ==
  ASSUME TypeOK, NEW c \in Clients, ClientBegin(c) \/ ClientStep(c)
  PROVE  LeavesPasses
<1>1. /\ pumping' = pumping /\ worker' = worker
      /\ Kick \/ UNCHANGED pumps
  BY DEF ClientBegin, ClientStep, EnqueueCheck, ControlCheck, EnqueueInsert, PauseSignal,
         CancelSignal, ResumeSignal, ReprioritizeSignal, ControlWrite, Signal, mgrVars
<1> QED BY <1>1, KickFrame DEF LeavesPasses, Active, TypeOK

LEMMA ServerLeavesPasses ==
  ASSUME TypeOK,
         \/ \E ty \in TaskTypes : Register(ty) \/ Unregister(ty)
         \/ RecoverInterruptedTasks \/ Close \/ AcquireMediaStream \/ ReleaseMediaStream
         \/ ClearHistory \/ UNCHANGED vars
  PROVE  LeavesPasses
<1>1. /\ pumping' = pumping /\ worker' = worker
      /\ Kick \/ UNCHANGED pumps
  BY DEF Register, Unregister, RecoverInterruptedTasks, Close, AcquireMediaStream,
         ReleaseMediaStream, ClearHistory, vars, mgrVars
<1> QED BY <1>1, KickFrame DEF LeavesPasses, Active, TypeOK

\* The steps of a pump: the flag is taken when nobody has it, and released by
\* the one that took it; a candidate is chosen among the tasks without worker,
\* and only this pump could start it.
LEMMA PumpKeepsExclusion ==
  ASSUME TypeOK, LinkedPumps, PumpExclusion, NEW p \in Pumps, PumpStep(p)
  PROVE  LinkedPumps' /\ PumpExclusion'
<1> USE DEF LinkedPumps, PumpExclusion, InPass
<1>0. pumps \in [Pumps -> Pump]
  BY DEF TypeOK
<1>1. CASE PumpBegin(p)
  <2>1. /\ worker' = worker /\ pumps[p].pc = "spawned"
        /\ \A q \in Pumps : q # p => pumps'[q] = pumps[q]
    BY <1>0, <1>1 DEF PumpBegin
  <2>2. CASE pumps'[p].pc = "idle" /\ pumping' = pumping
    BY <2>1, <2>2 DEF Active
  <2>3. CASE pumps'[p].pc = "select" /\ ~pumping /\ pumping'
    BY <2>1, <2>3 DEF Active
  <2>4. \/ pumps'[p].pc = "idle" /\ pumping' = pumping
        \/ pumps'[p].pc = "select" /\ ~pumping /\ pumping'
    BY <1>0, <1>1 DEF PumpBegin, Pump
  <2> QED BY <2>2, <2>3, <2>4
<1>2. CASE PumpSelect(p)
  <2>1. /\ pumping' = pumping /\ worker' = worker /\ pumps[p].pc = "select"
        /\ pumps'[p].pc = "scan"
        /\ \A q \in Pumps : q # p => pumps'[q] = pumps[q]
    BY <1>0, <1>2 DEF PumpSelect, Pump
  <2> QED BY <2>1 DEF Active
<1>3. CASE PumpEnd(p)
  BY <1>0, <1>3 DEF PumpEnd, IdlePump, Active
<1>4. CASE PumpScan(p)
  <2>1. PICK a \in pumps[p].todo :
           pumps' = [pumps EXCEPT ![p] =
             IF Active(a.id) \/ rows[a.id].type \notin registered
             THEN [pc |-> "scan", todo |-> pumps[p].todo \ {a}, cand |-> NoTask]
             ELSE [pc |-> "admit", todo |-> pumps[p].todo \ {a}, cand |-> a.id]]
    BY <1>4 DEF PumpScan
  <2>2. a.id \in Tasks
    BY <1>0, <2>1 DEF Pump
  <2>3. pumping' = pumping /\ worker' = worker /\ pumps[p].pc = "scan"
    BY <1>4 DEF PumpScan
  <2>4. CASE Active(a.id) \/ rows[a.id].type \notin registered
    BY <1>0, <2>1, <2>3, <2>4 DEF Active
  <2>5. CASE ~(Active(a.id) \/ rows[a.id].type \notin registered)
    BY <1>0, <2>1, <2>2, <2>3, <2>5 DEF Active
  <2> QED BY <2>4, <2>5
<1>5. CASE PumpAdmit(p)
  <2>1. PICK st \in {"scan", "start"}, cd \in {pumps[p].cand, NoTask} :
           /\ st = "start" => cd = pumps[p].cand
           /\ pumps'[p].pc = st /\ pumps'[p].cand = cd
           /\ \A q \in Pumps : q # p => pumps'[q] = pumps[q]
    BY <1>0, <1>5 DEF PumpAdmit, Pump
  <2>2. pumping' = pumping /\ worker' = worker /\ pumps[p].pc = "admit"
    BY <1>5 DEF PumpAdmit
  <2> QED BY <2>1, <2>2 DEF Active
<1>6. CASE PumpStart(p)
  <2>1. /\ pumping' = pumping /\ pumps[p].pc = "start" /\ pumps'[p].pc = "scan"
        /\ \A q \in Pumps : q # p => pumps'[q] = pumps[q]
    BY <1>0, <1>6 DEF PumpStart, Pump
  <2>2. \A q \in Pumps : pumps'[q].pc \notin {"admit", "start"}
    BY <2>1
  <2> QED BY <2>1, <2>2
<1> QED BY <1>1, <1>2, <1>3, <1>4, <1>5, <1>6 DEF PumpStep

\* A caller in the middle of an operation remembers what it is about.
LEMMA CallsStep ==
  ASSUME TypeOK, LinkedCalls, [Next]_vars
  PROVE  LinkedCalls'
<1>1. CASE UNCHANGED client
  BY <1>1 DEF LinkedCalls
<1>2. ASSUME NEW c \in Clients, ClientBegin(c) \/ ClientStep(c) PROVE LinkedCalls'
  <2>1. \A d \in Clients : d # c => client'[d] = client[d]
    BY <1>2
    DEF ClientBegin, ClientStep, EnqueueCheck, ControlCheck, EnqueueInsert, PauseSignal,
        CancelSignal, ResumeSignal, ReprioritizeSignal, ControlWrite, Signal, TypeOK, Call
  <2>2. /\ client'[c].pc \in {"signal", "write"} => client'[c].task \in Tasks
        /\ client'[c].pc = "insert" => client'[c].type \in AllTypes
    <3>1. CASE ClientBegin(c)
      <4>1. ASSUME NEW ty \in TaskTypes, EnqueueCheck(c, ty)
            PROVE  client'[c].pc = "insert" /\ client'[c].type \in AllTypes
        BY <4>1, TypesAssumption DEF EnqueueCheck, TypeOK, Idle
      <4>2. ASSUME NEW op, NEW t \in Tasks, NEW n, ControlCheck(c, op, t, n)
            PROVE  client'[c].pc = "signal" /\ client'[c].task \in Tasks
        BY <4>2 DEF ControlCheck, TypeOK, Idle
      <4> QED BY <3>1, <4>1, <4>2 DEF ClientBegin
    <3>2. CASE EnqueueInsert(c) \/ ControlWrite(c)
      BY <3>2 DEF EnqueueInsert, ControlWrite, TypeOK, Call, Idle
    <3>3. CASE PauseSignal(c) \/ CancelSignal(c) \/ ResumeSignal(c) \/ ReprioritizeSignal(c)
      <4>1. client[c].pc = "signal" /\ client[c].task \in Tasks
        BY <3>3 DEF PauseSignal, CancelSignal, ResumeSignal, ReprioritizeSignal, Pending,
                    LinkedCalls
      <4>2. client'[c] = Idle \/ \E w : client'[c] = [client[c] EXCEPT !.pc = "write", !.write = w]
        BY <3>3 DEF PauseSignal, CancelSignal, ResumeSignal, ReprioritizeSignal, Signal, TypeOK
      <4>3. ASSUME NEW w, client'[c] = [client[c] EXCEPT !.pc = "write", !.write = w]
            PROVE  client'[c].pc = "write" /\ client'[c].task = client[c].task
        BY <4>3 DEF TypeOK, Call
      <4>4. CASE client'[c] = Idle
        BY <4>4 DEF Idle
      <4>5. CASE \E w : client'[c] = [client[c] EXCEPT !.pc = "write", !.write = w]
        BY <4>1, <4>3, <4>5
      <4> QED BY <4>2, <4>4, <4>5
    <3> QED BY <1>2, <3>1, <3>2, <3>3 DEF ClientStep
  <2> QED BY <2>1, <2>2 DEF LinkedCalls
<1>3. CASE Crash
  BY <1>3 DEF Crash, LinkedCalls, Idle
<1>4. \/ UNCHANGED client \/ Crash
      \/ \E c \in Clients : ClientBegin(c) \/ ClientStep(c)
  BY DEF Next, Register, Unregister, RecoverInterruptedTasks, Close, AcquireMediaStream,
         ReleaseMediaStream, ClearHistory, PumpStep, PumpBegin, PumpSelect, PumpEnd, PumpScan,
         PumpAdmit, PumpStart, PumpFrame, WorkerStep, RunnerStep, WorkerMark, WorkerMarkWrite,
         WorkerCheckpoint, WorkerPark, WorkerParkWrite, WorkerWake, WorkerResume,
         WorkerResumeWrite, RunnerReportWrite, WorkerSettleWrite, WorkerRelease,
         RunnerCheckpoint, RunnerReport, RunnerReturn, WorkerFrame, vars
<1> QED BY <1>1, <1>2, <1>3, <1>4

LEMMA ExclusionStep == IInv /\ [Next]_vars => Linked' /\ PumpExclusion'
<1> SUFFICES ASSUME IInv, [Next]_vars PROVE LinkedPumps' /\ LinkedCalls' /\ PumpExclusion'
  BY LinkedParts DEF Linked, LinkedPumps, LinkedCalls
<1>0. TypeOK /\ LinkedPumps /\ LinkedCalls /\ PumpExclusion
  BY LinkedParts DEF IInv
<1>1. LinkedCalls'
  BY <1>0, CallsStep
<1>2. CASE LeavesPasses
  BY <1>0, <1>1, <1>2, LeavesPassesKeeps
<1>3. CASE Crash
  BY <1>1, <1>3 DEF Crash, IdlePump, LinkedPumps, PumpExclusion, InPass
<1>4. CASE \E p \in Pumps : PumpStep(p)
  BY <1>0, <1>1, <1>4, PumpKeepsExclusion
<1> QED BY <1>0, <1>2, <1>3, <1>4, WorkerLeavesPasses, CallerLeavesPasses, ServerLeavesPasses
        DEF Next

-----------------------------------------------------------------------------
(***************************************************************************)
(* The slot counter.                                                       *)
(***************************************************************************)

Discipline ==
  \A t \in Tasks : /\ worker[t].pc \in Working => handle[t].held
                   /\ worker[t].pc \in Parked \cup {"off"} => ~handle[t].held

\* A step that moves no slot: the flags stay, and no worker enters or leaves
\* the places where they are known.
LEMMA SlotsKept ==
  ASSUME SlotsAreWorking, slots' = slots,
         \A t \in Tasks :
           /\ handle'[t].held = handle[t].held
           /\ worker'[t].pc \in Working => worker[t].pc \in Working
           /\ worker'[t].pc \in Parked \cup {"off"} => worker[t].pc \in Parked \cup {"off"}
  PROVE  SlotsAreWorking'
<1>1. Holders' = Holders
  BY DEF Holders
<1> QED BY <1>1 DEF SlotsAreWorking

\* A step that gives the slot of one worker back, or takes one.
LEMMA SlotReleased ==
  ASSUME TypeOK, SlotsAreWorking, NEW t \in Tasks, handle[t].held, slots' = slots - 1,
         ~handle'[t].held, \A u \in Tasks : u # t => handle'[u].held = handle[u].held
  PROVE  slots' = Cardinality(Holders')
<1>1. Holders' = Holders \ {t} /\ t \in Holders
  BY DEF Holders
<1> QED BY <1>1, HoldersFinite, FS_RemoveElement DEF SlotsAreWorking

LEMMA SlotTaken ==
  ASSUME TypeOK, SlotsAreWorking, NEW t \in Tasks, ~handle[t].held, slots' = slots + 1,
         handle'[t].held, \A u \in Tasks : u # t => handle'[u].held = handle[u].held
  PROVE  slots' = Cardinality(Holders')
<1>1. Holders' = Holders \cup {t} /\ t \notin Holders
  BY DEF Holders
<1> QED BY <1>1, HoldersFinite, FS_AddElement DEF SlotsAreWorking

\* checkpoint's gate: the slot goes exactly when it was held and the worker
\* parks, and comes exactly when it was not and the worker goes on.
LEMMA GateSlots ==
  ASSUME TypeOK, SlotsAreWorking, NEW t \in Tasks, worker[t].pc \in {"check", "sleep"}, Gate(t)
  PROVE  SlotsAreWorking'
<1> DEFINE parks == handle[t].manual \/ Blocked(rows[t].type)
<1>1. parks \in BOOLEAN /\ handle[t].held \in BOOLEAN
  <2>1. Blocked(rows[t].type) \in BOOLEAN
    BY DEF Blocked
  <2> QED BY <2>1 DEF TypeOK, Handle
<1>2. \A u \in Tasks : u # t => handle'[u] = handle[u] /\ worker'[u] = worker[u]
  BY DEF Gate, Goto, TypeOK
<1>3. handle'[t].held = ~parks
  BY <1>1 DEF Gate, TypeOK, Handle
<1>4. worker'[t].pc = IF parks THEN "parkR" ELSE "resR"
  BY DEF Gate, Goto, TypeOK, Worker
<1>5. Discipline'
  BY <1>1, <1>2, <1>3, <1>4 DEF Discipline, SlotsAreWorking, Working, Parked
<1>6. slots' = Cardinality(Holders')
  <2>1. CASE parks /\ handle[t].held
    BY <1>1, <1>2, <1>3, <2>1, SlotReleased DEF Gate, ReleaseSlot
  <2>2. CASE ~parks /\ ~handle[t].held
    BY <1>1, <1>2, <1>3, <2>2, SlotTaken DEF Gate, TakeSlot
  <2>3. CASE handle[t].held = ~parks
    <3>1. Holders' = Holders
      BY <1>2, <1>3, <2>3 DEF Holders
    <3>2. slots' = slots
      BY <1>1, <2>3 DEF Gate, ReleaseSlot, TakeSlot
    <3> QED BY <3>1, <3>2 DEF SlotsAreWorking
  <2> QED BY <1>1, <2>1, <2>2, <2>3
<1> QED BY <1>5, <1>6 DEF SlotsAreWorking, Discipline

\* The worker of t moves from a place to another one of the same kind.
LEMMA SlotsKeptByMove ==
  ASSUME TypeOK, SlotsAreWorking, NEW t \in Tasks, slots' = slots, handle' = handle,
         \A u \in Tasks : u # t => worker'[u] = worker[u],
         worker'[t].pc \in Working => worker[t].pc \in Working,
         worker'[t].pc \in Parked \cup {"off"} => worker[t].pc \in Parked \cup {"off"}
  PROVE  SlotsAreWorking'
  BY SlotsKept

LEMMA SettleMove ==
  ASSUME TypeOK, NEW t \in Tasks, NEW outcome, Settle(t, outcome)
  PROVE  /\ worker'[t].pc \in {"finW", "rel"}
         /\ \A u \in Tasks : u # t => worker'[u] = worker[u]
  BY DEF Settle, Goto, GotoWrite, TypeOK, Worker

LEMMA GotoMove ==
  ASSUME TypeOK, NEW t \in Tasks, NEW pc
  PROVE  /\ Goto(t, pc) => /\ worker'[t].pc = pc
                           /\ \A u \in Tasks : u # t => worker'[u] = worker[u]
         /\ \A w : GotoWrite(t, pc, w) => /\ worker'[t].pc = pc
                                          /\ \A u \in Tasks : u # t => worker'[u] = worker[u]
  BY DEF Goto, GotoWrite, TypeOK, Worker

\* Callers and the server itself move no slot and no worker.
LEMMA CallerKeepsSlots ==
  ASSUME TypeOK, LinkedCalls, NEW c \in Clients, ClientBegin(c) \/ ClientStep(c)
  PROVE  /\ slots' = slots /\ worker' = worker
         /\ \A t \in Tasks : handle'[t].held = handle[t].held
<1>1. slots' = slots /\ worker' = worker
  BY DEF ClientBegin, ClientStep, EnqueueCheck, ControlCheck, EnqueueInsert, PauseSignal,
         CancelSignal, ResumeSignal, ReprioritizeSignal, ControlWrite, Signal, mgrVars
<1>2. \A t \in Tasks : handle'[t].held = handle[t].held
  <2> DEFINE t == client[c].task
  <2>1. ASSUME NEW flagged, NEW w, Signal(c, flagged, w), flagged.held = handle[t].held
        PROVE  \A u \in Tasks : handle'[u].held = handle[u].held
    BY <2>1 DEF Signal, TypeOK
  <2>2. CASE PauseSignal(c) \/ CancelSignal(c) \/ ResumeSignal(c) \/ ReprioritizeSignal(c)
    <3>1. t \in Tasks
      BY <2>2
      DEF PauseSignal, CancelSignal, ResumeSignal, ReprioritizeSignal, Pending, LinkedCalls
    <3>2. /\ [handle[t] EXCEPT !.manual = TRUE].held = handle[t].held
          /\ [handle[t] EXCEPT !.manual = FALSE].held = handle[t].held
          /\ [handle[t] EXCEPT !.cancelled = TRUE].held = handle[t].held
      BY <3>1 DEF TypeOK, Handle
    <3>3. handle' = handle
          \/ \E flagged, w : Signal(c, flagged, w) /\ flagged.held = handle[t].held
      BY <2>2, <3>2
      DEF PauseSignal, CancelSignal, ResumeSignal, ReprioritizeSignal, mgrVars
    <3> QED BY <2>1, <3>3
  <2>3. CASE ClientBegin(c) \/ EnqueueInsert(c) \/ ControlWrite(c)
    BY <2>3 DEF ClientBegin, EnqueueCheck, ControlCheck, EnqueueInsert, ControlWrite, mgrVars
  <2> QED BY <2>2, <2>3 DEF ClientStep
<1> QED BY <1>1, <1>2

LEMMA ServerKeepsSlots ==
  ASSUME TypeOK,
         \/ \E ty \in TaskTypes : Register(ty) \/ Unregister(ty)
         \/ RecoverInterruptedTasks \/ Close \/ AcquireMediaStream \/ ReleaseMediaStream
         \/ ClearHistory \/ UNCHANGED vars
  PROVE  /\ slots' = slots /\ worker' = worker
         /\ \A t \in Tasks : handle'[t].held = handle[t].held
<1>1. slots' = slots /\ worker' = worker
  BY DEF Register, Unregister, RecoverInterruptedTasks, Close, AcquireMediaStream,
         ReleaseMediaStream, ClearHistory, vars, mgrVars
<1>2. CASE Close \/ AcquireMediaStream \/ ReleaseMediaStream
  <2>1. \A t \in Tasks : handle'[t].held = handle[t].held
    BY <1>2
    DEF Close, AcquireMediaStream, ReleaseMediaStream, RefreshResourcePauses, TypeOK, Handle
  <2> QED BY <1>1, <2>1
<1>3. CASE handle' = handle
  BY <1>1, <1>3
<1> QED BY <1>1, <1>2, <1>3
        DEF Register, Unregister, RecoverInterruptedTasks, ClearHistory, vars, mgrVars

LEMMA SlotsStep == IInv /\ [Next]_vars => SlotsAreWorking'
<1> SUFFICES ASSUME IInv, [Next]_vars PROVE SlotsAreWorking'
  OBVIOUS
<1>0. TypeOK /\ SlotsAreWorking /\ PumpExclusion /\ LinkedPumps
  BY LinkedParts DEF IInv
<1>1. CASE UNCHANGED <<slots, worker, handle>>
  BY <1>0, <1>1, SlotsKept
<1>2. CASE Crash
  <2>1. Holders' = {}
    BY <1>2 DEF Crash, Holders, NoHandle
  <2> QED BY <1>2, <2>1, FS_EmptySet DEF Crash, SlotsAreWorking, NoHandle, NoWorker, Working
<1>3. CASE \/ \E ty \in TaskTypes : Register(ty) \/ Unregister(ty)
           \/ RecoverInterruptedTasks \/ Close \/ AcquireMediaStream \/ ReleaseMediaStream
           \/ ClearHistory \/ UNCHANGED vars
  BY <1>0, <1>3, ServerKeepsSlots, SlotsKept
<1>4. ASSUME NEW c \in Clients, ClientBegin(c) \/ ClientStep(c) PROVE SlotsAreWorking'
  <2>1. LinkedCalls
    BY LinkedParts DEF IInv
  <2> QED BY <1>0, <1>4, <2>1, CallerKeepsSlots, SlotsKept
<1>5. ASSUME NEW p \in Pumps, PumpStep(p) PROVE SlotsAreWorking'
  <2>1. CASE PumpStart(p)
    <3> DEFINE t == pumps[p].cand
    <3>1. t \in Tasks /\ ~Active(t)
      BY <1>0, <2>1 DEF PumpStart, LinkedPumps, PumpExclusion
    <3>2. ~handle[t].held
      BY <1>0, <3>1 DEF SlotsAreWorking, Active
    <3>3. CASE Exists(t)
      <4>1. /\ slots' = slots + 1 /\ handle'[t].held /\ worker'[t].pc = "mark"
            /\ \A u \in Tasks : u # t => handle'[u] = handle[u] /\ worker'[u] = worker[u]
        <5>1. /\ slots' = slots + 1
              /\ handle' = [handle EXCEPT ![t] = [NoHandle EXCEPT !.held = TRUE]]
              /\ worker' = [worker EXCEPT ![t] = [NoWorker EXCEPT !.pc = "mark",
                                                                  !.left = MaxUnits]]
          BY <2>1, <3>3 DEF PumpStart
        <5>2. /\ [NoHandle EXCEPT !.held = TRUE].held
              /\ [NoWorker EXCEPT !.pc = "mark", !.left = MaxUnits].pc = "mark"
          BY DEF NoHandle, NoWorker
        <5> QED BY <1>0, <3>1, <5>1, <5>2 DEF TypeOK
      <4>2. slots' = Cardinality(Holders')
        BY <1>0, <3>1, <3>2, <4>1, SlotTaken
      <4> QED BY <1>0, <3>1, <4>1, <4>2 DEF SlotsAreWorking, Parked
    <3>4. CASE ~Exists(t)
      BY <1>1, <2>1, <3>4 DEF PumpStart
    <3> QED BY <3>3, <3>4
  <2> QED BY <1>1, <1>5, <2>1
      DEF PumpStep, PumpBegin, PumpSelect, PumpEnd, PumpScan, PumpAdmit
<1>6. ASSUME NEW t \in Tasks, WorkerStep(t) PROVE SlotsAreWorking'
  <2> USE <1>0, SlotsKeptByMove, GotoMove DEF Working, Parked
  <2>1. CASE WorkerMark(t)
    <3>1. /\ worker'[t].pc \in {"markW", "check"} /\ worker[t].pc = "mark"
          /\ \A u \in Tasks : u # t => worker'[u] = worker[u]
      BY <2>1 DEF WorkerMark
    <3> QED BY <2>1, <3>1 DEF WorkerMark
  <2>2. CASE WorkerMarkWrite(t)
    BY <2>2 DEF WorkerMarkWrite
  <2>3. CASE WorkerCheckpoint(t)
    <3>1. CASE handle[t].cancelled \/ ~Exists(t)
      <4>1. Settle(t, IF handle[t].cancelled THEN "CANCELLED" ELSE "FAILED")
        BY <2>3, <3>1 DEF WorkerCheckpoint
      <4>2. slots' = slots /\ handle' = handle
        BY <2>3, <3>1 DEF WorkerCheckpoint
      <4> QED BY <4>1, <4>2, SettleMove
    <3>2. CASE ~(handle[t].cancelled \/ ~Exists(t))
      BY <2>3, <3>2, GateSlots DEF WorkerCheckpoint
    <3> QED BY <3>1, <3>2
  <2>4. CASE WorkerPark(t)
    <3>1. /\ worker'[t].pc \in {"parkW", "sleep"} /\ worker[t].pc = "parkR"
          /\ \A u \in Tasks : u # t => worker'[u] = worker[u]
      BY <2>4 DEF WorkerPark
    <3> QED BY <2>4, <3>1 DEF WorkerPark
  <2>5. CASE WorkerParkWrite(t)
    BY <2>5 DEF WorkerParkWrite
  <2>6. CASE WorkerWake(t)
    <3>1. CASE handle[t].cancelled
      <4>1. Settle(t, "CANCELLED") /\ slots' = slots /\ handle' = handle
        BY <2>6, <3>1 DEF WorkerWake
      <4> QED BY <4>1, SettleMove
    <3>2. CASE ~handle[t].cancelled
      BY <2>6, <3>2, GateSlots DEF WorkerWake
    <3> QED BY <3>1, <3>2
  <2>7. CASE WorkerResume(t)
    <3>1. /\ worker'[t].pc \in {"resW", "run"} /\ worker[t].pc = "resR"
          /\ \A u \in Tasks : u # t => worker'[u] = worker[u]
      BY <2>7 DEF WorkerResume
    <3> QED BY <2>7, <3>1 DEF WorkerResume
  <2>8. CASE WorkerResumeWrite(t)
    BY <2>8 DEF WorkerResumeWrite
  <2>9. CASE RunnerReportWrite(t)
    BY <2>9 DEF RunnerReportWrite
  <2>10. CASE WorkerSettleWrite(t)
    BY <2>10 DEF WorkerSettleWrite
  <2>11. CASE WorkerRelease(t)
    <3>1. /\ ~handle'[t].held /\ worker'[t].pc = "off"
          /\ \A u \in Tasks : u # t => handle'[u] = handle[u] /\ worker'[u] = worker[u]
      BY <2>11 DEF WorkerRelease, TypeOK, NoHandle, NoWorker
    <3>2. slots' = Cardinality(Holders')
      <4>1. CASE handle[t].held
        BY <2>11, <3>1, <4>1, SlotReleased DEF WorkerRelease, ReleaseSlot
      <4>2. CASE ~handle[t].held
        <5>1. Holders' = Holders
          BY <3>1, <4>2 DEF Holders
        <5> QED BY <2>11, <4>2, <5>1 DEF WorkerRelease, ReleaseSlot, SlotsAreWorking
      <4> QED BY <4>1, <4>2
    <3> QED BY <3>1, <3>2 DEF SlotsAreWorking
  <2> QED BY <1>6, <2>1, <2>2, <2>3, <2>4, <2>5, <2>6, <2>7, <2>8, <2>9, <2>10, <2>11
      DEF WorkerStep
<1>7. ASSUME NEW t \in Tasks, RunnerStep(t) PROVE SlotsAreWorking'
  <2> USE <1>0, SlotsKeptByMove DEF Working, Parked
  <2>1. CASE RunnerCheckpoint(t)
    BY <2>1 DEF RunnerCheckpoint, TypeOK
  <2>2. CASE RunnerReport(t)
    BY <2>2 DEF RunnerReport, TypeOK
  <2>3. CASE RunnerReturn(t)
    BY <2>3, SettleMove DEF RunnerReturn
  <2> QED BY <1>7, <2>1, <2>2, <2>3 DEF RunnerStep
<1> QED BY <1>2, <1>3, <1>4, <1>5, <1>6, <1>7 DEF Next

-----------------------------------------------------------------------------
(***************************************************************************)
(* The theorems.                                                           *)
(***************************************************************************)

LEMMA InvStep == IInv /\ [Next]_vars => IInv'
  BY TypeStep, ExclusionStep, SlotsStep DEF IInv

\* The strengthened invariant holds in every reachable state, whatever the
\* callers, streams, crashes and schedules.
THEOREM InductiveInvariant == Spec => []IInv
<1>1. Init => IInv
  BY InitInv
<1> QED BY <1>1, InvStep, PTL DEF Spec

\* Types: in particular active_slots, an unsigned counter, never goes below zero.
THEOREM TypesHold == Spec => []TypeOK
<1>1. IInv => TypeOK
  BY DEF IInv
<1> QED BY <1>1, InductiveInvariant, PTL

\* pump: one pass at a time, and no task gets a second worker.
THEOREM PumpExclusionHolds == Spec => []PumpExclusion
<1>1. IInv => PumpExclusion
  BY DEF IInv
<1> QED BY <1>1, InductiveInvariant, PTL

\* start_task and checkpoint: active_slots counts the workers that hold a slot.
THEOREM SlotsAreWorkingHolds == Spec => []SlotsAreWorking
<1>1. IInv => SlotsAreWorking
  BY DEF IInv
<1> QED BY <1>1, InductiveInvariant, PTL

-----------------------------------------------------------------------------
(***************************************************************************)
(* The limit of the slots.  A pass tests the counter before it chooses a   *)
(* candidate and is the only one to start workers, so the counter cannot   *)
(* have grown when the candidate is started, unless a parked worker has    *)
(* taken its slot back in between, or after it: that is the one way in     *)
(* which the limit is passed.                                              *)
(***************************************************************************)

\* A parked worker finds no pause any more and takes its slot back.
ComesBack(t) == worker[t].pc = "sleep" /\ worker'[t].pc = "resR"
NobodyComesBack == \A t \in Tasks : ~ComesBack(t)

Room ==
  /\ slots <= MaxConcurrent
  /\ \A p \in Pumps : pumps[p].pc \in {"admit", "start"} => slots < MaxConcurrent

\* A worker at a checkpoint has not given its slot back yet.
HeldAtCheck == \A t \in Tasks : worker[t].pc = "check" => handle[t].held

LEMMA RoomKept ==
  ASSUME TypeOK, Room, slots' \in Nat, slots' <= slots,
         \A p \in Pumps : pumps'[p] = pumps[p] \/ pumps'[p].pc \notin {"admit", "start"}
  PROVE  Room'
<1>1. slots \in Nat /\ MaxConcurrent \in Nat
  BY SlotsAssumption DEF TypeOK
<1>2. slots' <= MaxConcurrent
  BY <1>1 DEF Room
<1>3. ASSUME NEW p \in Pumps, pumps'[p].pc \in {"admit", "start"} PROVE slots' < MaxConcurrent
  BY <1>1, <1>3 DEF Room
<1> QED BY <1>2, <1>3 DEF Room

LEMMA PumpRoom ==
  ASSUME TypeOK, PumpExclusion, Room, NEW p \in Pumps, PumpStep(p)
  PROVE  Room'
<1>0. slots \in Nat /\ MaxConcurrent \in Nat /\ pumps \in [Pumps -> Pump]
  BY SlotsAssumption DEF TypeOK
<1>1. CASE PumpStart(p)
  <2>1. /\ pumps[p].pc = "start" /\ pumps'[p].pc = "scan"
        /\ \A q \in Pumps : q # p => pumps'[q] = pumps[q]
    BY <1>0, <1>1 DEF PumpStart, Pump
  <2>2. \A q \in Pumps : pumps'[q].pc \notin {"admit", "start"}
    BY <2>1 DEF PumpExclusion, InPass
  <2>3. slots < MaxConcurrent
    BY <2>1 DEF Room
  <2>4. slots' = slots \/ slots' = slots + 1
    BY <1>1 DEF PumpStart
  <2>5. slots' <= MaxConcurrent
    BY <1>0, <2>3, <2>4
  <2> QED BY <2>2, <2>5 DEF Room
<1>2. CASE PumpScan(p)
  <2>1. slots < MaxConcurrent /\ slots' = slots
    BY <1>2 DEF PumpScan
  <2> QED BY <1>0, <2>1 DEF Room
<1>3. CASE PumpAdmit(p)
  <2>1. pumps[p].pc = "admit" /\ slots' = slots
    BY <1>3 DEF PumpAdmit
  <2>2. slots < MaxConcurrent
    BY <2>1 DEF Room
  <2> QED BY <1>0, <2>1, <2>2 DEF Room
<1>4. CASE PumpBegin(p) \/ PumpSelect(p) \/ PumpEnd(p)
  <2>1. slots' = slots
    BY <1>4 DEF PumpBegin, PumpSelect, PumpEnd
  <2>2. \A q \in Pumps : pumps'[q] = pumps[q] \/ pumps'[q].pc \notin {"admit", "start"}
    <3>1. CASE PumpBegin(p)
      BY <1>0, <3>1 DEF PumpBegin, Pump
    <3>2. CASE PumpSelect(p)
      BY <1>0, <3>2 DEF PumpSelect, Pump
    <3>3. CASE PumpEnd(p)
      BY <1>0, <3>3 DEF PumpEnd, IdlePump
    <3> QED BY <1>4, <3>1, <3>2, <3>3
  <2> QED BY <1>0, <2>1, <2>2, RoomKept
<1> QED BY <1>1, <1>2, <1>3, <1>4 DEF PumpStep

\* checkpoint's gate gives a slot back or leaves the counter alone when the
\* worker has its slot, and also when it has not and does not go on.
LEMMA GateRoom ==
  ASSUME TypeOK, SlotsAreWorking, NEW t \in Tasks, Gate(t),
         handle[t].held \/ worker'[t].pc # "resR"
  PROVE  slots' \in Nat /\ slots' <= slots
<1>1. slots \in Nat /\ slots' \in Nat
  BY GateType DEF TypeOK
<1>3. slots' = slots \/ slots' = slots - 1
  <2> DEFINE parks == handle[t].manual \/ Blocked(rows[t].type)
  <2>1. CASE parks
    BY <2>1 DEF Gate, ReleaseSlot
  <2>2. CASE ~parks
    <3>1. worker'[t].pc = "resR"
      BY <2>2 DEF Gate, Goto, TypeOK, Worker
    <3> QED BY <2>2, <3>1 DEF Gate, TakeSlot
  <2> QED BY <2>1, <2>2
<1> QED BY <1>1, <1>3

LEMMA WorkerRoom ==
  ASSUME TypeOK, SlotsAreWorking, HeldAtCheck, NobodyComesBack, NEW t \in Tasks,
         WorkerStep(t) \/ RunnerStep(t)
  PROVE  slots' \in Nat /\ slots' <= slots
<1>1. slots \in Nat
  BY DEF TypeOK
<1>2. CASE slots' = slots
  BY <1>1, <1>2
<1>3. CASE Gate(t) /\ worker[t].pc \in {"check", "sleep"}
  <2>1. handle[t].held \/ worker'[t].pc # "resR"
    BY <1>3 DEF HeldAtCheck, NobodyComesBack, ComesBack
  <2> QED BY <1>3, <2>1, GateRoom
<1>4. CASE WorkerRelease(t)
  <2>1. slots' \in Nat
    BY <1>4, SlotMoves DEF WorkerRelease
  <2> QED BY <1>1, <1>4, <2>1 DEF WorkerRelease, ReleaseSlot
<1>5. \/ slots' = slots
      \/ Gate(t) /\ worker[t].pc \in {"check", "sleep"}
      \/ WorkerRelease(t)
  BY DEF WorkerStep, RunnerStep, WorkerMark, WorkerMarkWrite, WorkerCheckpoint, WorkerPark,
         WorkerParkWrite, WorkerWake, WorkerResume, WorkerResumeWrite, RunnerReportWrite,
         WorkerSettleWrite, RunnerCheckpoint, RunnerReport, RunnerReturn
<1> QED BY <1>2, <1>3, <1>4, <1>5

LEMMA RoomStep == IInv /\ Room /\ HeldAtCheck /\ [Next /\ NobodyComesBack]_vars => Room'
<1> SUFFICES ASSUME IInv, Room, HeldAtCheck, [Next /\ NobodyComesBack]_vars PROVE Room'
  OBVIOUS
<1>0. TypeOK /\ SlotsAreWorking /\ PumpExclusion /\ LinkedCalls /\ slots \in Nat
  BY LinkedParts DEF IInv, TypeOK
<1>1. CASE LeavesPasses /\ slots' = slots
  BY <1>0, <1>1, RoomKept DEF LeavesPasses
<1>2. CASE Crash
  BY <1>2, SlotsAssumption DEF Crash, Room, IdlePump
<1>3. ASSUME NEW p \in Pumps, PumpStep(p) PROVE Room'
  BY <1>0, <1>3, PumpRoom
<1>4. ASSUME NEW t \in Tasks, WorkerStep(t) \/ RunnerStep(t) PROVE Room'
  <2>1. CASE NobodyComesBack
    BY <1>0, <1>4, <2>1, WorkerRoom, WorkerLeavesPasses, RoomKept DEF LeavesPasses
  <2>2. CASE UNCHANGED vars
    BY <2>2 DEF vars, mgrVars, Room
  <2> QED BY <2>1, <2>2
<1>5. ASSUME NEW c \in Clients, ClientBegin(c) \/ ClientStep(c) PROVE slots' = slots
  BY <1>0, <1>5, CallerKeepsSlots
<1> QED BY <1>0, <1>1, <1>2, <1>3, <1>4, <1>5, ServerKeepsSlots, CallerLeavesPasses,
           ServerLeavesPasses
        DEF Next

\* A checkpoint is reached from places where the worker has its slot.
LEMMA CheckStep == IInv /\ HeldAtCheck /\ [Next]_vars => HeldAtCheck'
<1> SUFFICES ASSUME IInv, HeldAtCheck, [Next]_vars PROVE HeldAtCheck'
  OBVIOUS
<1>0. TypeOK /\ SlotsAreWorking /\ LinkedCalls /\ LinkedPumps
  BY LinkedParts DEF IInv
<1>1. CASE worker' = worker /\ \A t \in Tasks : handle'[t].held = handle[t].held
  BY <1>1 DEF HeldAtCheck
<1>2. CASE Crash
  BY <1>2 DEF Crash, HeldAtCheck, NoWorker
<1>3. ASSUME NEW p \in Pumps, PumpStep(p) PROVE HeldAtCheck'
  <2>1. CASE PumpStart(p)
    <3>1. CASE Exists(pumps[p].cand)
      <4>1. /\ worker' = [worker EXCEPT ![pumps[p].cand] =
                             [NoWorker EXCEPT !.pc = "mark", !.left = MaxUnits]]
            /\ handle' = [handle EXCEPT ![pumps[p].cand] = [NoHandle EXCEPT !.held = TRUE]]
        BY <2>1, <3>1 DEF PumpStart
      <4>2. [NoWorker EXCEPT !.pc = "mark", !.left = MaxUnits].pc = "mark"
        BY DEF NoWorker
      <4>3. \A u \in Tasks : worker'[u].pc = "check" => worker'[u] = worker[u] /\ handle'[u] = handle[u]
        BY <1>0, <4>1, <4>2 DEF TypeOK
      <4> QED BY <4>3 DEF HeldAtCheck
    <3>2. CASE ~Exists(pumps[p].cand)
      BY <1>1, <2>1, <3>2 DEF PumpStart
    <3> QED BY <3>1, <3>2
  <2> QED BY <1>1, <1>3, <2>1
      DEF PumpStep, PumpBegin, PumpSelect, PumpEnd, PumpScan, PumpAdmit
<1>4. ASSUME NEW t \in Tasks, WorkerStep(t) \/ RunnerStep(t) PROVE HeldAtCheck'
  <2>1. \A u \in Tasks : u # t => worker'[u] = worker[u] /\ handle'[u] = handle[u]
    BY <1>0, <1>4
    DEF WorkerStep, RunnerStep, WorkerMark, WorkerMarkWrite, WorkerCheckpoint, WorkerPark,
        WorkerParkWrite, WorkerWake, WorkerResume, WorkerResumeWrite, RunnerReportWrite,
        WorkerSettleWrite, WorkerRelease, RunnerCheckpoint, RunnerReport, RunnerReturn,
        Settle, Gate, Goto, GotoWrite, TypeOK
  <2>2. worker'[t].pc = "check" =>
          WorkerMark(t) \/ WorkerMarkWrite(t) \/ RunnerCheckpoint(t)
    <3>1. CASE WorkerCheckpoint(t) \/ WorkerWake(t) \/ RunnerReturn(t)
      <4>1. Gate(t) \/ \E outcome \in Terminal : Settle(t, outcome)
        BY <3>1 DEF WorkerCheckpoint, WorkerWake, RunnerReturn, Terminal
      <4>2. worker'[t].pc \in {"parkR", "resR", "finW", "rel"}
        BY <1>0, <4>1, SettleMove, GotoMove DEF Gate
      <4> QED BY <4>2
    <3>2. CASE WorkerPark(t) \/ WorkerParkWrite(t) \/ WorkerResume(t) \/ WorkerResumeWrite(t)
               \/ RunnerReportWrite(t) \/ WorkerSettleWrite(t)
      <4>1. worker'[t].pc \in {"parkW", "sleep", "resW", "run", "rel"}
        BY <1>0, <3>2, GotoMove
        DEF WorkerPark, WorkerParkWrite, WorkerResume, WorkerResumeWrite, RunnerReportWrite,
            WorkerSettleWrite
      <4> QED BY <4>1
    <3>3. CASE WorkerRelease(t) \/ RunnerReport(t)
      BY <1>0, <3>3 DEF WorkerRelease, RunnerReport, NoWorker, TypeOK
    <3> QED BY <1>4, <3>1, <3>2, <3>3 DEF WorkerStep, RunnerStep
  <2>3. WorkerMark(t) \/ WorkerMarkWrite(t) \/ RunnerCheckpoint(t) =>
          worker[t].pc \in Working /\ handle' = handle
    BY DEF WorkerMark, WorkerMarkWrite, RunnerCheckpoint, Working
  <2> QED BY <1>0, <2>1, <2>2, <2>3 DEF HeldAtCheck, SlotsAreWorking
<1> QED BY <1>0, <1>1, <1>2, <1>3, <1>4, CallerKeepsSlots, ServerKeepsSlots DEF Next

\* pump: as long as no parked worker takes its slot back, there are never more
\* workers at work than slots, whatever is enqueued, cancelled, paused, crashes
\* or races with the passes.
THEOREM LimitKept == Spec /\ [][NobodyComesBack]_vars => []SlotLimit
<1> DEFINE Inv == IInv /\ Room /\ HeldAtCheck
<1>1. Init => Inv
  BY InitInv, SlotsAssumption DEF Init, Room, HeldAtCheck, IdlePump, NoWorker
<1>3. Inv /\ [Next /\ NobodyComesBack]_vars => Inv'
  BY InvStep, RoomStep, CheckStep
<1>4. Inv => SlotLimit
  BY DEF Room, SlotLimit
<1>5. [Next]_vars /\ [NobodyComesBack]_vars => [Next /\ NobodyComesBack]_vars
  OBVIOUS
<1> QED BY <1>1, <1>3, <1>4, <1>5, PTL DEF Spec

\* No pause by hand, no stream and no analysis that gives way to downloads.
NobodyPauses == "pause" \notin AdminOps /\ MaxStreams = 0 /\ Sonic \notin TaskTypes

\* Then no worker is ever told to park.
NobodyParks ==
  /\ \A t \in Tasks : ~handle[t].manual /\ worker[t].pc \notin Parked
  /\ \A t \in Tasks : rows[t].type # Sonic
  /\ \A c \in Clients : client[c].pc = "signal" => client[c].op # "pause"
  /\ \A c \in Clients : client[c].pc = "insert" => client[c].type # Sonic

\* Where nobody pauses the rows keep their types and the checkpoints go on.
LEMMA GateGoesOn ==
  ASSUME TypeOK, NobodyPauses, NobodyParks, NEW t \in Tasks, Gate(t)
  PROVE  /\ worker'[t].pc = "resR"
         /\ ~handle'[t].manual
         /\ \A u \in Tasks : u # t => worker'[u] = worker[u] /\ handle'[u] = handle[u]
<1>1. media = 0
  BY DEF TypeOK, NobodyPauses
<1>2. ~Blocked(rows[t].type)
  BY <1>1 DEF Blocked, NobodyParks
<1>3. ~(handle[t].manual \/ Blocked(rows[t].type))
  BY <1>2 DEF NobodyParks
<1>4. Goto(t, "resR")
  BY <1>3 DEF Gate
<1>5. handle'[t].manual = handle[t].manual
  BY DEF Gate, TypeOK, Handle
<1>6. \A u \in Tasks : u # t => handle'[u] = handle[u]
  BY DEF Gate, TypeOK
<1> QED BY <1>4, <1>5, <1>6, GotoMove DEF NobodyParks

\* A write to the table changes no type.
LEMMA WriteKeepsTypes ==
  ASSUME rows \in [Tasks -> Row], NEW t \in Tasks, NEW w \in Writes, WriteRow(t, w)
  PROVE  \A u \in Tasks : rows'[u].type = rows[u].type
<1>1. \A u \in Tasks : Stored(t, w)[u].type = rows[u].type
  BY DEF Stored, Row
<1>2. Stored(t, w) \in [Tasks -> Row]
  BY StoredType
<1>3. \A gone : \A u \in Tasks : WithoutRows(Stored(t, w), gone)[u].type = rows[u].type
  BY <1>1, <1>2 DEF WithoutRows, Row
<1> QED BY <1>1, <1>3 DEF WriteRow

LEMMA ParksStep == NobodyPauses /\ IInv /\ NobodyParks /\ [Next]_vars => NobodyParks'
<1> SUFFICES ASSUME NobodyPauses, IInv, NobodyParks, [Next]_vars PROVE NobodyParks'
  OBVIOUS
<1>0. TypeOK /\ LinkedCalls /\ LinkedPumps
  BY LinkedParts DEF IInv
<1> DEFINE Types == \A t \in Tasks : rows'[t].type = rows[t].type
           Hands == \A t \in Tasks : handle'[t].manual => handle[t].manual
           Places == \A t \in Tasks : worker'[t].pc \in Parked => worker[t].pc \in Parked
<1>1. ASSUME Types, Hands, Places, client' = client PROVE NobodyParks'
  BY <1>1 DEF NobodyParks
<1>2. CASE UNCHANGED vars
  BY <1>1, <1>2 DEF vars, durable, mgrVars
<1>3. ASSUME NEW ty \in TaskTypes, Register(ty) \/ Unregister(ty) PROVE NobodyParks'
  BY <1>1, <1>3 DEF Register, Unregister, durable
<1>4. CASE RecoverInterruptedTasks
  <2>1. Types
    BY <1>0, <1>4 DEF RecoverInterruptedTasks, TypeOK, Row
  <2> QED BY <1>1, <1>4, <2>1 DEF RecoverInterruptedTasks
<1>5. CASE Crash
  BY <1>5 DEF Crash, NobodyParks, NoHandle, NoWorker, Idle, durable, Parked
<1>6. CASE Close \/ AcquireMediaStream \/ ReleaseMediaStream
  <2>1. Hands
    BY <1>0, <1>6
    DEF Close, AcquireMediaStream, ReleaseMediaStream, RefreshResourcePauses, TypeOK, Handle
  <2> QED BY <1>1, <1>6, <2>1 DEF Close, AcquireMediaStream, ReleaseMediaStream, durable
<1>7. CASE ClearHistory
  <2>1. Types
    BY <1>0, <1>7 DEF ClearHistory, WithoutRows, TypeOK, Row
  <2> QED BY <1>1, <1>7, <2>1 DEF ClearHistory, mgrVars
<1>8. ASSUME NEW c \in Clients, ClientBegin(c) \/ ClientStep(c) PROVE NobodyParks'
  <2> DEFINE Call1 == /\ client'[c].pc = "signal" => client'[c].op # "pause"
                      /\ client'[c].pc = "insert" => client'[c].type # Sonic
  <2>1. ASSUME \A u \in Tasks : rows'[u].type # Sonic, Hands, worker' = worker, Call1,
               \A d \in Clients : d # c => client'[d] = client[d]
        PROVE  NobodyParks'
    BY <2>1 DEF NobodyParks
  <2>2. CASE ClientBegin(c)
    <3>1. ASSUME NEW ty \in TaskTypes, EnqueueCheck(c, ty) PROVE NobodyParks'
      <4>1. Call1 /\ \A d \in Clients : d # c => client'[d] = client[d]
        BY <1>0, <3>1 DEF EnqueueCheck, TypeOK, Idle, NobodyPauses
      <4> QED BY <2>1, <3>1, <4>1 DEF EnqueueCheck, durable, mgrVars, NobodyParks
    <3>2. ASSUME NEW op \in ControlOps, NEW t \in Tasks, NEW n, ControlCheck(c, op, t, n)
          PROVE  NobodyParks'
      <4>1. Call1 /\ \A d \in Clients : d # c => client'[d] = client[d]
        BY <1>0, <3>2 DEF ControlCheck, Allowed, TypeOK, Idle, NobodyPauses
      <4> QED BY <2>1, <3>2, <4>1 DEF ControlCheck, durable, mgrVars, NobodyParks
    <3> QED BY <2>2, <3>1, <3>2 DEF ClientBegin, ControlOps
  <2>3. CASE EnqueueInsert(c)
    <3>1. \A u \in Tasks : rows'[u].type # Sonic
      BY <1>0, <2>3 DEF EnqueueInsert, TypeOK, NobodyParks
    <3>2. Call1 /\ \A d \in Clients : d # c => client'[d] = client[d]
      BY <1>0, <2>3 DEF EnqueueInsert, TypeOK, Idle
    <3> QED BY <2>1, <2>3, <3>1, <3>2 DEF EnqueueInsert
  <2>4. CASE ControlWrite(c)
    <3>1. \A u \in Tasks : rows'[u].type # Sonic
      BY <1>0, <2>4, WriteKeepsTypes DEF ControlWrite, LinkedCalls, TypeOK, Call, NobodyParks
    <3>2. Call1 /\ \A d \in Clients : d # c => client'[d] = client[d]
      BY <1>0, <2>4 DEF ControlWrite, TypeOK, Idle
    <3> QED BY <2>1, <2>4, <3>1, <3>2 DEF ControlWrite
  <2>5. CASE PauseSignal(c)
    BY <2>5 DEF PauseSignal, Pending, NobodyParks
  <2>6. CASE CancelSignal(c) \/ ResumeSignal(c) \/ ReprioritizeSignal(c)
    <3> DEFINE t == client[c].task
    <3>1. t \in Tasks
      BY <1>0, <2>6 DEF CancelSignal, ResumeSignal, ReprioritizeSignal, Pending, LinkedCalls
    <3>2. \A d \in Clients : d # c => client'[d] = client[d]
      BY <1>0, <2>6 DEF CancelSignal, ResumeSignal, ReprioritizeSignal, Signal, TypeOK
    <3>3. Call1
      <4>1. client'[c] = Idle \/ \E w : client'[c] = [client[c] EXCEPT !.pc = "write", !.write = w]
        BY <1>0, <2>6 DEF CancelSignal, ResumeSignal, ReprioritizeSignal, Signal, TypeOK
      <4>2. ASSUME NEW w, client'[c] = [client[c] EXCEPT !.pc = "write", !.write = w]
            PROVE  client'[c].pc = "write"
        BY <1>0, <4>2 DEF TypeOK, Call
      <4>3. Idle.pc = "idle"
        BY DEF Idle
      <4>4. client'[c].pc \in {"idle", "write"}
        BY <4>1, <4>2, <4>3
      <4> QED BY <4>4
    <3>4. Hands
      <4>1. /\ [handle[t] EXCEPT !.manual = FALSE].manual = FALSE
            /\ [handle[t] EXCEPT !.cancelled = TRUE].manual = handle[t].manual
        BY <1>0, <3>1 DEF TypeOK, Handle
      <4>2. ASSUME NEW flagged, NEW w, Signal(c, flagged, w), flagged.manual => handle[t].manual
            PROVE  Hands
        BY <1>0, <4>2 DEF Signal, TypeOK
      <4>3. handle' = handle
            \/ \E flagged, w : Signal(c, flagged, w) /\ (flagged.manual => handle[t].manual)
        BY <2>6, <4>1 DEF CancelSignal, ResumeSignal, ReprioritizeSignal, mgrVars
      <4> QED BY <4>2, <4>3
    <3>5. rows' = rows /\ worker' = worker
      BY <2>6 DEF CancelSignal, ResumeSignal, ReprioritizeSignal, Signal, durable, mgrVars
    <3> QED BY <2>1, <3>2, <3>3, <3>4, <3>5 DEF NobodyParks
  <2> QED BY <1>8, <2>2, <2>3, <2>4, <2>5, <2>6 DEF ClientStep
<1>9. ASSUME NEW p \in Pumps, PumpStep(p) PROVE NobodyParks'
  <2>1. rows' = rows /\ client' = client
    BY <1>9 DEF PumpStep, PumpBegin, PumpSelect, PumpEnd, PumpScan, PumpAdmit, PumpStart,
                PumpFrame, durable
  <2>2. Hands /\ Places
    <3>1. CASE handle' = handle /\ worker' = worker
      BY <3>1
    <3>2. CASE PumpStart(p) /\ Exists(pumps[p].cand)
      <4>1. /\ worker' = [worker EXCEPT ![pumps[p].cand] =
                             [NoWorker EXCEPT !.pc = "mark", !.left = MaxUnits]]
            /\ handle' = [handle EXCEPT ![pumps[p].cand] = [NoHandle EXCEPT !.held = TRUE]]
        BY <3>2 DEF PumpStart
      <4>2. /\ [NoWorker EXCEPT !.pc = "mark", !.left = MaxUnits].pc = "mark"
            /\ [NoHandle EXCEPT !.held = TRUE].manual = FALSE
        BY DEF NoWorker, NoHandle
      <4>3. Places
        BY <1>0, <4>1, <4>2 DEF TypeOK, Parked
      <4>4. Hands
        BY <1>0, <4>1, <4>2 DEF TypeOK
      <4> QED BY <4>3, <4>4
    <3> QED BY <1>9, <3>1, <3>2
        DEF PumpStep, PumpBegin, PumpSelect, PumpEnd, PumpScan, PumpAdmit, PumpStart
  <2> QED BY <1>1, <2>1, <2>2
<1>10. ASSUME NEW t \in Tasks, WorkerStep(t) \/ RunnerStep(t) PROVE NobodyParks'
  <2>1. client' = client
    BY <1>10
    DEF WorkerStep, RunnerStep, WorkerMark, WorkerMarkWrite, WorkerCheckpoint, WorkerPark,
        WorkerParkWrite, WorkerWake, WorkerResume, WorkerResumeWrite, RunnerReportWrite,
        WorkerSettleWrite, WorkerRelease, RunnerCheckpoint, RunnerReport, RunnerReturn,
        WorkerFrame
  <2>2. worker[t].write \in Writes
    BY <1>0 DEF TypeOK, Worker
  <2>3. Types
    BY <1>0, <1>10, <2>2, WriteKeepsTypes
    DEF WorkerStep, RunnerStep, WorkerMark, WorkerMarkWrite, WorkerCheckpoint, WorkerPark,
        WorkerParkWrite, WorkerWake, WorkerResume, WorkerResumeWrite, RunnerReportWrite,
        WorkerSettleWrite, WorkerRelease, RunnerCheckpoint, RunnerReport, RunnerReturn,
        TypeOK
  <2>4. CASE Gate(t)
    <3>1. Hands
      BY <1>0, <2>4, GateGoesOn
    <3>2. Places
      BY <1>0, <2>4, GateGoesOn DEF Parked
    <3> QED BY <1>1, <2>1, <2>3, <3>1, <3>2
  <2>5. CASE (WorkerCheckpoint(t) \/ WorkerWake(t) \/ RunnerReturn(t)) /\ ~Gate(t)
    <3>1. handle' = handle /\ \E outcome : Settle(t, outcome)
      BY <2>5 DEF WorkerCheckpoint, WorkerWake, RunnerReturn
    <3>2. Places
      BY <1>0, <3>1, SettleMove DEF Parked
    <3> QED BY <1>1, <2>1, <2>3, <3>1, <3>2
  <2>6. worker[t].pc \notin Parked
    BY DEF NobodyParks
  <2>7. CASE WorkerPark(t) \/ WorkerParkWrite(t)
    BY <2>6, <2>7 DEF WorkerPark, WorkerParkWrite, Parked
  <2>8. CASE \/ WorkerMark(t) \/ WorkerMarkWrite(t) \/ WorkerResume(t) \/ WorkerResumeWrite(t)
             \/ RunnerReportWrite(t) \/ WorkerSettleWrite(t)
    <3>1. /\ handle' = handle
          /\ worker'[t].pc \in {"markW", "check", "resW", "run", "rel"}
          /\ \A u \in Tasks : u # t => worker'[u] = worker[u]
      BY <1>0, <2>8, GotoMove
      DEF WorkerMark, WorkerMarkWrite, WorkerResume, WorkerResumeWrite, RunnerReportWrite,
          WorkerSettleWrite
    <3>2. Places
      BY <3>1 DEF Parked
    <3> QED BY <1>1, <2>1, <2>3, <3>1, <3>2
  <2>9. CASE WorkerRelease(t) \/ RunnerReport(t) \/ RunnerCheckpoint(t)
    <3>1. /\ worker'[t].pc \in {"off", "repW", "check"}
          /\ \A u \in Tasks : u # t => worker'[u] = worker[u]
      BY <1>0, <2>9 DEF WorkerRelease, RunnerReport, RunnerCheckpoint, NoWorker, TypeOK
    <3>2. Places
      BY <3>1 DEF Parked
    <3>3. Hands
      BY <1>0, <2>9 DEF WorkerRelease, RunnerReport, RunnerCheckpoint, NoHandle, TypeOK
    <3> QED BY <1>1, <2>1, <2>3, <3>2, <3>3
  <2> QED BY <1>10, <2>4, <2>5, <2>7, <2>8, <2>9 DEF WorkerStep, RunnerStep
<1> QED BY <1>2, <1>3, <1>4, <1>5, <1>6, <1>7, <1>8, <1>9, <1>10 DEF Next

\* pump: where nothing makes a worker park, at most MaxConcurrent are at work.
THEOREM LimitWithoutPauses ==
  ASSUME NobodyPauses
  PROVE  Spec => []SlotLimit
<1>1. Init => NobodyParks
  BY DEF Init, NobodyParks, NoHandle, NoWorker, NoRow, Idle, Sonic, Parked
<1>2. NobodyPauses
  OBVIOUS
<1>3. IInv /\ NobodyParks /\ [Next]_vars => NobodyParks'
  BY <1>2, ParksStep
<1>4. NobodyParks => [NobodyComesBack]_vars
  BY DEF NobodyParks, NobodyComesBack, ComesBack, Parked
<1> QED BY <1>1, <1>3, <1>4, InductiveInvariant, LimitKept, PTL DEF Spec

-----------------------------------------------------------------------------
(***************************************************************************)
(* Rows that say PROCESSING.  Only a worker and a caller that has read     *)
(* PROCESSING write it; a worker settles its row before it ends.  What is  *)
(* left is a caller whose write comes after the end of the worker.         *)
(***************************************************************************)

\* The worker of t has not settled the row yet.
Unsettled(t) == worker[t].pc \notin {"off", "rel"}

\* A caller stores the PROCESSING it meant for a worker that has ended since.
WritesLate(c) ==
  ControlWrite(c) /\ client[c].write.state = "PROCESSING" /\ ~Unsettled(client[c].task)
NobodyWritesLate == \A c \in Clients : ~WritesLate(c)

Attended == recovered => \A t \in Tasks : rows[t].state = "PROCESSING" => Unsettled(t)

\* The last write of a worker is an outcome.
LastWrites == \A t \in Tasks : worker[t].pc = "finW" => worker[t].write.state \in Terminal

\* An UPDATE sets the state of one row, or nothing; the prune that may follow
\* deletes rows.
LEMMA WriteStates ==
  ASSUME rows \in [Tasks -> Row], NEW t \in Tasks, NEW w \in Writes, WriteRow(t, w)
  PROVE  \A u \in Tasks : \/ rows'[u].state = Absent
                          \/ u # t /\ rows'[u].state = rows[u].state
                          \/ u = t /\ rows'[u].state = w.state
<1>1. \A u \in Tasks : \/ Stored(t, w)[u].state = Absent
                       \/ u # t /\ Stored(t, w)[u].state = rows[u].state
                       \/ u = t /\ Stored(t, w)[u].state = w.state
  BY DEF Stored, Row, Exists
<1>2. Stored(t, w) \in [Tasks -> Row]
  BY StoredType
<1>3. \A gone : \A u \in Tasks : \/ WithoutRows(Stored(t, w), gone)[u].state = Absent
                                 \/ WithoutRows(Stored(t, w), gone)[u] = Stored(t, w)[u]
  BY <1>2 DEF WithoutRows, Row
<1>4. (\E gone : rows' = WithoutRows(Stored(t, w), gone)) \/ rows' = Stored(t, w)
  BY DEF WriteRow
<1>5. ASSUME NEW u \in Tasks
      PROVE  rows'[u].state = Absent \/ rows'[u] = Stored(t, w)[u]
  BY <1>3, <1>4
<1> QED BY <1>1, <1>5

\* Nothing else than a write of PROCESSING makes a row say so, and only a
\* worker that has settled its row becomes a settled one.
LEMMA AttendedKept ==
  ASSUME Attended, recovered' = recovered,
         \A t \in Tasks : /\ rows'[t].state = "PROCESSING" =>
                               rows[t].state = "PROCESSING" \/ Unsettled(t)'
                          /\ rows'[t].state = "PROCESSING" /\ Unsettled(t) => Unsettled(t)'
  PROVE  Attended'
  BY DEF Attended

LEMMA LastWritesStep == TypeOK /\ LastWrites /\ [Next]_vars => LastWrites'
<1> SUFFICES ASSUME TypeOK, LastWrites, [Next]_vars PROVE LastWrites'
  OBVIOUS
<1>1. CASE worker' = worker
  BY <1>1 DEF LastWrites
<1>2. CASE Crash
  BY <1>2 DEF Crash, LastWrites, NoWorker
<1>3. ASSUME NEW p \in Pumps, PumpStep(p) PROVE LastWrites'
  <2>1. CASE PumpStart(p) /\ Exists(pumps[p].cand)
    <3>1. worker' = [worker EXCEPT ![pumps[p].cand] =
                       [NoWorker EXCEPT !.pc = "mark", !.left = MaxUnits]]
      BY <2>1 DEF PumpStart
    <3>2. [NoWorker EXCEPT !.pc = "mark", !.left = MaxUnits].pc = "mark"
      BY DEF NoWorker
    <3> QED BY <3>1, <3>2 DEF TypeOK, LastWrites
  <2> QED BY <1>1, <1>3, <2>1
      DEF PumpStep, PumpBegin, PumpSelect, PumpEnd, PumpScan, PumpAdmit, PumpStart
<1>4. ASSUME NEW t \in Tasks, WorkerStep(t) \/ RunnerStep(t) PROVE LastWrites'
  <2>1. \A u \in Tasks : u # t => worker'[u] = worker[u]
    BY <1>4
    DEF WorkerStep, RunnerStep, WorkerMark, WorkerMarkWrite, WorkerCheckpoint, WorkerPark,
        WorkerParkWrite, WorkerWake, WorkerResume, WorkerResumeWrite, RunnerReportWrite,
        WorkerSettleWrite, WorkerRelease, RunnerCheckpoint, RunnerReport, RunnerReturn,
        Settle, Gate, Goto, GotoWrite, TypeOK
  <2>2. ASSUME NEW outcome \in Terminal, Settle(t, outcome)
        PROVE  worker'[t].pc = "rel" \/ worker'[t].write.state = outcome
    <3>1. CASE Exists(t)
      <4>1. GotoWrite(t, "finW", PendingState(t, outcome))
        BY <2>2, <3>1 DEF Settle
      <4>2. worker'[t].write = PendingState(t, outcome)
        BY <4>1 DEF GotoWrite, TypeOK, Worker
      <4> QED BY <4>2 DEF PendingState
    <3>2. CASE ~Exists(t)
      BY <2>2, <3>2, GotoMove DEF Settle
    <3> QED BY <3>1, <3>2
  <2>3. CASE WorkerCheckpoint(t) \/ WorkerWake(t) \/ RunnerReturn(t)
    <3>1. Gate(t) \/ \E outcome \in Terminal : Settle(t, outcome)
      BY <2>3 DEF WorkerCheckpoint, WorkerWake, RunnerReturn, Terminal
    <3>2. Gate(t) => worker'[t].pc \in {"parkR", "resR"}
      BY GotoMove DEF Gate
    <3> QED BY <2>1, <2>2, <3>1, <3>2 DEF LastWrites
  <2>4. CASE \/ WorkerMark(t) \/ WorkerMarkWrite(t) \/ WorkerPark(t) \/ WorkerParkWrite(t)
             \/ WorkerResume(t) \/ WorkerResumeWrite(t) \/ RunnerReportWrite(t)
             \/ WorkerSettleWrite(t)
    <3>1. worker'[t].pc \in {"markW", "check", "parkW", "sleep", "resW", "run", "rel"}
      BY <2>4, GotoMove
      DEF WorkerMark, WorkerMarkWrite, WorkerPark, WorkerParkWrite, WorkerResume,
          WorkerResumeWrite, RunnerReportWrite, WorkerSettleWrite
    <3> QED BY <2>1, <3>1 DEF LastWrites
  <2>5. CASE WorkerRelease(t) \/ RunnerReport(t) \/ RunnerCheckpoint(t)
    <3>1. worker'[t].pc \in {"off", "repW", "check"}
      BY <2>5 DEF WorkerRelease, RunnerReport, RunnerCheckpoint, NoWorker, TypeOK
    <3> QED BY <2>1, <3>1 DEF LastWrites
  <2> QED BY <1>4, <2>3, <2>4, <2>5 DEF WorkerStep, RunnerStep
<1>5. ASSUME NEW c \in Clients, ClientBegin(c) \/ ClientStep(c) PROVE worker' = worker
  BY <1>5
  DEF ClientBegin, ClientStep, EnqueueCheck, ControlCheck, EnqueueInsert, PauseSignal,
      CancelSignal, ResumeSignal, ReprioritizeSignal, ControlWrite, Signal, mgrVars
<1> QED BY <1>1, <1>2, <1>3, <1>4, <1>5, ServerKeepsSlots DEF Next

LEMMA AttendedStep ==
  IInv /\ LastWrites /\ Attended /\ [Next /\ NobodyWritesLate]_vars => Attended'
<1> SUFFICES ASSUME IInv, LastWrites, Attended, [Next /\ NobodyWritesLate]_vars PROVE Attended'
  OBVIOUS
<1>0. TypeOK /\ LinkedCalls /\ LinkedPumps /\ PumpExclusion
  BY LinkedParts DEF IInv
<1> DEFINE NotMore == \A t \in Tasks : rows'[t].state = "PROCESSING" => rows[t].state = "PROCESSING"
<1>1. ASSUME NotMore, worker' = worker, recovered' = recovered PROVE Attended'
  BY <1>1, AttendedKept DEF Unsettled
<1>2. CASE UNCHANGED vars
  BY <1>1, <1>2 DEF vars, durable, mgrVars
<1>3. ASSUME NEW ty \in TaskTypes, Register(ty) \/ Unregister(ty) PROVE Attended'
  BY <1>1, <1>3 DEF Register, Unregister, durable
<1>4. CASE RecoverInterruptedTasks
  <2>1. \A t \in Tasks : rows'[t].state # "PROCESSING"
    BY <1>0, <1>4 DEF RecoverInterruptedTasks, TypeOK, Row
  <2> QED BY <2>1 DEF Attended
<1>5. CASE Crash
  BY <1>5 DEF Crash, Attended
<1>6. CASE Close \/ AcquireMediaStream \/ ReleaseMediaStream
  BY <1>1, <1>6 DEF Close, AcquireMediaStream, ReleaseMediaStream, durable
<1>7. CASE ClearHistory
  <2>1. NotMore
    BY <1>0, <1>7 DEF ClearHistory, WithoutRows, TypeOK, Row, Absent
  <2> QED BY <1>1, <1>7, <2>1 DEF ClearHistory, mgrVars
<1>8. ASSUME NEW c \in Clients, ClientBegin(c) \/ ClientStep(c) PROVE Attended'
  <2>1. worker' = worker /\ recovered' = recovered
    BY <1>8
    DEF ClientBegin, ClientStep, EnqueueCheck, ControlCheck, EnqueueInsert, PauseSignal,
        CancelSignal, ResumeSignal, ReprioritizeSignal, ControlWrite, Signal, mgrVars
  <2>2. CASE EnqueueInsert(c)
    <3>1. NotMore
      BY <1>0, <2>2 DEF EnqueueInsert, TypeOK
    <3> QED BY <1>1, <2>1, <3>1
  <2>3. CASE ControlWrite(c)
    <3> DEFINE t == client[c].task
    <3>1. t \in Tasks /\ client[c].write \in Writes /\ WriteRow(t, client[c].write)
      BY <1>0, <2>3 DEF ControlWrite, LinkedCalls, TypeOK, Call
    <3>2. client[c].write.state = "PROCESSING" => Unsettled(t)
      <4>1. CASE NobodyWritesLate
        BY <2>3, <4>1 DEF NobodyWritesLate, WritesLate
      <4>2. CASE UNCHANGED vars
        <5>1. client'[c] = client[c] /\ client[c].pc = "write"
          BY <2>3, <4>2 DEF vars, ControlWrite
        <5>2. client'[c].pc = "idle"
          BY <1>0, <2>3 DEF ControlWrite, TypeOK, Idle
        <5> QED BY <5>1, <5>2
      <4> QED BY <4>1, <4>2
    <3>3. \A u \in Tasks : rows'[u].state = "PROCESSING" =>
            rows[u].state = "PROCESSING" \/ Unsettled(u)
      BY <1>0, <3>1, <3>2, WriteStates DEF TypeOK, Absent
    <3> QED BY <2>1, <3>3, AttendedKept DEF Unsettled
  <2>4. CASE rows' = rows
    BY <1>1, <2>1, <2>4
  <2> QED BY <1>8, <2>2, <2>3, <2>4
      DEF ClientBegin, ClientStep, EnqueueCheck, ControlCheck, PauseSignal, CancelSignal,
          ResumeSignal, ReprioritizeSignal, Signal, durable
<1>9. ASSUME NEW p \in Pumps, PumpStep(p) PROVE Attended'
  <2>1. rows' = rows /\ recovered' = recovered
    BY <1>9 DEF PumpStep, PumpBegin, PumpSelect, PumpEnd, PumpScan, PumpAdmit, PumpStart,
                PumpFrame, durable
  <2>2. CASE PumpStart(p) /\ Exists(pumps[p].cand)
    <3>1. worker' = [worker EXCEPT ![pumps[p].cand] =
                       [NoWorker EXCEPT !.pc = "mark", !.left = MaxUnits]]
      BY <2>2 DEF PumpStart
    <3>2. [NoWorker EXCEPT !.pc = "mark", !.left = MaxUnits].pc = "mark"
      BY DEF NoWorker
    <3>3. \A u \in Tasks : Unsettled(u) => Unsettled(u)'
      BY <1>0, <3>1, <3>2 DEF TypeOK, Unsettled
    <3> QED BY <2>1, <3>3, AttendedKept
  <2> QED BY <1>1, <1>9, <2>1, <2>2
      DEF PumpStep, PumpBegin, PumpSelect, PumpEnd, PumpScan, PumpAdmit, PumpStart
<1>10. ASSUME NEW t \in Tasks, WorkerStep(t) \/ RunnerStep(t) PROVE Attended'
  <2>0. worker[t].write \in Writes /\ rows \in [Tasks -> Row]
    BY <1>0 DEF TypeOK, Worker
  <2>1. recovered' = recovered
    BY <1>10
    DEF WorkerStep, RunnerStep, WorkerMark, WorkerMarkWrite, WorkerCheckpoint, WorkerPark,
        WorkerParkWrite, WorkerWake, WorkerResume, WorkerResumeWrite, RunnerReportWrite,
        WorkerSettleWrite, WorkerRelease, RunnerCheckpoint, RunnerReport, RunnerReturn,
        WorkerFrame
  <2>2. \A u \in Tasks : u # t => worker'[u] = worker[u]
    BY <1>0, <1>10
    DEF WorkerStep, RunnerStep, WorkerMark, WorkerMarkWrite, WorkerCheckpoint, WorkerPark,
        WorkerParkWrite, WorkerWake, WorkerResume, WorkerResumeWrite, RunnerReportWrite,
        WorkerSettleWrite, WorkerRelease, RunnerCheckpoint, RunnerReport, RunnerReturn,
        Settle, Gate, Goto, GotoWrite, TypeOK
  <2>3. ASSUME rows' = rows \/ WriteRow(t, worker[t].write), worker'[t].pc \notin {"off", "rel"}
        PROVE  Attended'
    <3>1. Unsettled(t)'
      BY <2>3 DEF Unsettled
    <3>2. \A u \in Tasks : u # t /\ rows'[u].state = "PROCESSING" => rows[u].state = "PROCESSING"
      BY <2>0, <2>3, WriteStates DEF Absent
    <3> QED BY <2>1, <2>2, <3>1, <3>2, AttendedKept DEF Unsettled
  <2>4. CASE WorkerSettleWrite(t)
    <3>1. worker[t].write.state \in Terminal /\ WriteRow(t, worker[t].write)
      BY <2>4 DEF WorkerSettleWrite, LastWrites
    <3>2. rows'[t].state # "PROCESSING"
      BY <2>0, <3>1, WriteStates DEF Terminal, Absent
    <3>3. \A u \in Tasks : u # t /\ rows'[u].state = "PROCESSING" => rows[u].state = "PROCESSING"
      BY <2>0, <3>1, WriteStates DEF Absent
    <3> QED BY <2>1, <2>2, <3>2, <3>3, AttendedKept DEF Unsettled
  <2>5. CASE WorkerRelease(t)
    <3>1. rows' = rows /\ ~Unsettled(t)
      BY <2>5 DEF WorkerRelease, Unsettled
    <3> QED BY <2>1, <2>2, <3>1 DEF Attended, Unsettled
  <2>6. CASE WorkerCheckpoint(t) \/ WorkerWake(t) \/ RunnerReturn(t)
    <3>1. rows' = rows
      BY <2>6 DEF WorkerCheckpoint, WorkerWake, RunnerReturn
    <3>2. CASE worker'[t].pc \notin {"off", "rel"}
      BY <2>3, <3>1, <3>2
    <3>3. CASE worker'[t].pc \in {"off", "rel"}
      <4>1. ~Exists(t)
        <5>1. Gate(t) \/ \E outcome \in Terminal : Settle(t, outcome)
          BY <2>6 DEF WorkerCheckpoint, WorkerWake, RunnerReturn, Terminal
        <5>2. Gate(t) => worker'[t].pc \in {"parkR", "resR"}
          BY <1>0, GotoMove DEF Gate
        <5>3. PICK outcome \in Terminal : Settle(t, outcome)
          BY <3>3, <5>1, <5>2
        <5>4. Exists(t) => worker'[t].pc = "finW"
          BY <1>0, <5>3, GotoMove DEF Settle
        <5> QED BY <3>3, <5>4
      <4>2. rows'[t].state # "PROCESSING"
        BY <3>1, <4>1 DEF Exists, Absent
      <4> QED BY <2>1, <2>2, <3>1, <4>2, AttendedKept DEF Unsettled
    <3> QED BY <3>2, <3>3
  <2>7. CASE \/ WorkerMark(t) \/ WorkerMarkWrite(t) \/ WorkerPark(t) \/ WorkerParkWrite(t)
             \/ WorkerResume(t) \/ WorkerResumeWrite(t) \/ RunnerReportWrite(t)
    <3>1. worker'[t].pc \in {"markW", "check", "parkW", "sleep", "resW", "run"}
      BY <1>0, <2>7, GotoMove
      DEF WorkerMark, WorkerMarkWrite, WorkerPark, WorkerParkWrite, WorkerResume,
          WorkerResumeWrite, RunnerReportWrite
    <3>2. rows' = rows \/ WriteRow(t, worker[t].write)
      BY <2>7
      DEF WorkerMark, WorkerMarkWrite, WorkerPark, WorkerParkWrite, WorkerResume,
          WorkerResumeWrite, RunnerReportWrite
    <3> QED BY <2>3, <3>1, <3>2
  <2>8. CASE RunnerReport(t) \/ RunnerCheckpoint(t)
    <3>1. worker'[t].pc \in {"repW", "check"} /\ rows' = rows
      BY <1>0, <2>8 DEF RunnerReport, RunnerCheckpoint, TypeOK
    <3> QED BY <2>3, <3>1
  <2> QED BY <1>10, <2>4, <2>5, <2>6, <2>7, <2>8 DEF WorkerStep, RunnerStep
<1> QED BY <1>2, <1>3, <1>4, <1>5, <1>6, <1>7, <1>8, <1>9, <1>10 DEF Next

\* recover_interrupted_tasks, start_task: as long as no caller stores a PROCESSING
\* after the worker it was meant for has ended, every row that says PROCESSING
\* has a worker once the server has recovered.
THEOREM ProcessingAttended == Spec /\ [][NobodyWritesLate]_vars => []ProcessingHasWorker
<1> DEFINE Inv == IInv /\ LastWrites /\ Attended
<1>1. Init => Inv
  BY InitInv DEF Init, LastWrites, Attended, NoWorker
<1>3. Inv /\ [Next /\ NobodyWritesLate]_vars => Inv'
  BY InvStep, AttendedStep, LastWritesStep DEF IInv
<1>4. Inv => ProcessingHasWorker
  BY DEF Attended, ProcessingHasWorker, Unsettled, Active
<1>5. [Next]_vars /\ [NobodyWritesLate]_vars => [Next /\ NobodyWritesLate]_vars
  OBVIOUS
<1> QED BY <1>1, <1>3, <1>4, <1>5, PTL DEF Spec

\* Callers that neither resume nor reprioritize write PAUSED or CANCELLED.
NobodyRewrites == "resume" \notin AdminOps /\ "reprioritize" \notin AdminOps

PlainWrites ==
  \A c \in Clients : /\ client[c].pc = "signal" => client[c].op \notin {"resume", "reprioritize"}
                     /\ client[c].pc = "write" => client[c].write.state # "PROCESSING"

LEMMA PlainStep == NobodyRewrites /\ TypeOK /\ PlainWrites /\ [Next]_vars => PlainWrites'
<1> SUFFICES ASSUME NobodyRewrites, TypeOK, PlainWrites, [Next]_vars PROVE PlainWrites'
  OBVIOUS
<1>1. CASE UNCHANGED client
  BY <1>1 DEF PlainWrites
<1>2. CASE Crash
  BY <1>2 DEF Crash, PlainWrites, Idle
<1>3. ASSUME NEW c \in Clients, ClientBegin(c) \/ ClientStep(c) PROVE PlainWrites'
  <2>1. \A d \in Clients : d # c => client'[d] = client[d]
    BY <1>3
    DEF ClientBegin, ClientStep, EnqueueCheck, ControlCheck, EnqueueInsert, PauseSignal,
        CancelSignal, ResumeSignal, ReprioritizeSignal, ControlWrite, Signal, TypeOK, Call
  <2>2. ASSUME NEW op, NEW t, NEW n, ControlCheck(c, op, t, n)
        PROVE  client'[c].pc = "signal" /\ client'[c].op \notin {"resume", "reprioritize"}
    BY <2>2 DEF ControlCheck, Allowed, TypeOK, Idle, NobodyRewrites
  <2>3. ASSUME NEW ty, EnqueueCheck(c, ty) PROVE client'[c].pc = "insert"
    BY <2>3 DEF EnqueueCheck, TypeOK, Idle
  <2>4. CASE ClientBegin(c)
    BY <2>1, <2>2, <2>3, <2>4 DEF ClientBegin, PlainWrites
  <2>5. CASE EnqueueInsert(c) \/ ControlWrite(c)
    <3>1. client'[c].pc = "idle"
      BY <2>5 DEF EnqueueInsert, ControlWrite, TypeOK, Idle
    <3> QED BY <2>1, <3>1 DEF PlainWrites
  <2>6. CASE ResumeSignal(c) \/ ReprioritizeSignal(c)
    BY <2>6 DEF ResumeSignal, ReprioritizeSignal, Pending, PlainWrites
  <2>7. CASE PauseSignal(c) \/ CancelSignal(c)
    <3>0. PICK w : /\ w.state \in {"PAUSED", "CANCELLED"}
                   /\ \E flagged : Signal(c, flagged, w)
      <4>1. /\ PendingState(client[c].task, "PAUSED").state = "PAUSED"
            /\ PendingState(client[c].task, "CANCELLED").state = "CANCELLED"
        BY DEF PendingState
      <4> QED BY <2>7, <4>1 DEF PauseSignal, CancelSignal
    <3>1. client'[c] = Idle \/ client'[c] = [client[c] EXCEPT !.pc = "write", !.write = w]
      BY <3>0 DEF Signal, TypeOK
    <3>2. /\ [client[c] EXCEPT !.pc = "write", !.write = w].pc = "write"
          /\ [client[c] EXCEPT !.pc = "write", !.write = w].write = w
      BY DEF TypeOK, Call
    <3>3. Idle.pc = "idle"
      BY DEF Idle
    <3> QED BY <2>1, <3>0, <3>1, <3>2, <3>3 DEF PlainWrites
  <2> QED BY <1>3, <2>4, <2>5, <2>6, <2>7 DEF ClientStep
<1>4. \/ UNCHANGED client \/ Crash
      \/ \E c \in Clients : ClientBegin(c) \/ ClientStep(c)
  BY DEF Next, Register, Unregister, RecoverInterruptedTasks, Close, AcquireMediaStream,
         ReleaseMediaStream, ClearHistory, PumpStep, PumpBegin, PumpSelect, PumpEnd, PumpScan,
         PumpAdmit, PumpStart, PumpFrame, WorkerStep, RunnerStep, WorkerMark, WorkerMarkWrite,
         WorkerCheckpoint, WorkerPark, WorkerParkWrite, WorkerWake, WorkerResume,
         WorkerResumeWrite, RunnerReportWrite, WorkerSettleWrite, WorkerRelease,
         RunnerCheckpoint, RunnerReport, RunnerReturn, WorkerFrame, vars
<1> QED BY <1>1, <1>2, <1>3, <1>4

\* recover_interrupted_tasks, start_task: where tasks are only enqueued, paused,
\* cancelled and cleared, every row that says PROCESSING has a worker once the
\* server has recovered.
THEOREM ProcessingWithoutRewrites ==
  ASSUME NobodyRewrites
  PROVE  Spec => []ProcessingHasWorker
<1>1. Init => PlainWrites
  BY DEF Init, PlainWrites, Idle
<1>2. NobodyRewrites
  OBVIOUS
<1>3. TypeOK /\ PlainWrites /\ [Next]_vars => PlainWrites'
  BY <1>2, PlainStep
<1>4. PlainWrites => [NobodyWritesLate]_vars
  BY DEF PlainWrites, NobodyWritesLate, WritesLate, ControlWrite
<1> QED BY <1>1, <1>3, <1>4, TypesHold, ProcessingAttended, PTL DEF Spec
=============================================================================
