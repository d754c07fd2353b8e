---------------------------- MODULE CronScheduler ----------------------------
(***************************************************************************)
(* The cron loop of the task manager (server-rust/src/tasks/manager.rs):   *)
(* evaluate_schedules_at, which is called every 500 ms with the wall clock *)
(* and dispatches the schedules whose minute has come, and what changes    *)
(* the table under it: set_schedule, remove_schedule, and the settings     *)
(* page (update_server_settings, server-rust/src/domain/settings.rs).      *)
(*                                                                         *)
(* A minute of UTC is a slot.  An expression is the set of slots it asks   *)
(* for (Asks).  The schedule_state mutex is held for a whole evaluation;   *)
(* set_schedule takes it after its commit only.  Any read or insert of the *)
(* database may fail, the clock may stop, jump ahead or be set back.       *)
(***************************************************************************)
EXTENDS Integers

CONSTANTS
  Types,       \* task types that have a schedule
  Exprs,       \* cron expressions
  Asks,        \* Asks[e]: the slots the expression e matches
  MaxSlot,     \* bound: the last slot of the wall clock
  CatchUp,     \* MAX_CRON_CATCHUP_MINUTES
  MaxEdits,    \* bound: schedules set or removed
  MaxJumps     \* bound: clock set back, or the server restarted

Slots == 0..MaxSlot

ASSUME CronBoundsAssumption == {MaxSlot, CatchUp, MaxEdits, MaxJumps} \subseteq Nat
ASSUME AsksAssumption == Asks \in [Exprs -> SUBSET Slots]

VARIABLES
  table,      \* background_task_schedules: enabled, id, expression
  clock,      \* the slot of Utc::now()
  active,     \* types with a QUEUED, PROCESSING or PAUSED task
  markers,    \* last_fired_slot: key -> slot
  lastTick,   \* last_tick_slot, NoSlot before the first evaluation
  eval,       \* the evaluation under way
  clearing,   \* keys ids set_schedule has still to clear
  edits, jumps,   \* counters of the bounds
  checked,    \* history: the slot a schedule was last evaluated at without error
  fired       \* history: the slot a schedule was last dispatched at

memory == <<markers, lastTick, eval, clearing>>
history == <<checked, fired>>
vars == <<table, clock, active, memory, edits, jumps, history>>

NoSlot == -1
\* The marker of a schedule is kept under its id and its expression.
Key(t) == [type |-> t, id |-> table[t].id, expr |-> table[t].expr]
Keys == [type : Types, id : 0..MaxEdits, expr : Exprs]
NoEval == [pc |-> "idle", slot |-> NoSlot, todo |-> {}, keys |-> {}, cur |-> {}]

\* A map from keys to slots is a set of records, one for each key in it.
SlotMap == SUBSET [key : Keys, slot : Slots \cup {NoSlot}]
IsMap(map) == map \in SlotMap /\ \A m, n \in map : m.key = n.key => m = n
Has(map, key) == \E m \in map : m.key = key
At(map, key) == (CHOOSE m \in map : m.key = key).slot
Recorded(map, key, slot) == {m \in map : m.key # key} \cup {[key |-> key, slot |-> slot]}
\* The entries later than slot s become s - 1.
PutBack(map, s) == {[m EXCEPT !.slot = IF @ > s THEN s - 1 ELSE @] : m \in map}
\* Of the history: the minutes from s on come once more.
ComeAgain(map, s) == {[m EXCEPT !.slot = IF @ >= s THEN s - 1 ELSE @] : m \in map}
Without(map, t, id) == {m \in map : m.key.type # t \/ m.key.id # id}

TypeOK ==
  /\ table \in [Types -> [on : BOOLEAN, id : 0..MaxEdits, expr : Exprs]]
  /\ clock \in Slots
  /\ active \subseteq Types
  /\ IsMap(markers) /\ IsMap(checked) /\ IsMap(fired)
  /\ lastTick \in Slots \cup {NoSlot}
  /\ eval \in [pc : {"idle", "read", "row", "enqueue"}, slot : Slots \cup {NoSlot},
               todo : SUBSET Keys, keys : SUBSET Keys, cur : SUBSET Keys]
  /\ clearing \subseteq (Types \X (0..MaxEdits))
  /\ edits \in 0..MaxEdits
  /\ jumps \in 0..MaxJumps

Init ==
  /\ table \in [Types -> [on : {FALSE}, id : {0}, expr : Exprs]]
  /\ clock = 0
  /\ active = {}
  /\ markers = {}
  /\ lastTick = NoSlot
  /\ eval = NoEval
  /\ clearing = {}
  /\ edits = 0
  /\ jumps = 0
  /\ checked = {}
  /\ fired = {}

-----------------------------------------------------------------------------
(***************************************************************************)
(* The environment: the clock, the tasks, the administrator.               *)
(***************************************************************************)

\* The server evaluates each schedule without error at least once in
\* CatchUp + 1 minutes, and an evaluation takes no longer than that: what
\* evaluate_schedules_at promises to recover from.  A server that is down or
\* fails for longer misses what was due.
ClockForward ==
  /\ clock < MaxSlot
  /\ clock' = clock + 1
  /\ \A m \in markers : clock' <= At(checked, m.key) + CatchUp + 1
  /\ eval.pc # "idle" => clock' <= eval.slot + CatchUp + 1
  /\ UNCHANGED <<table, active, memory, edits, jumps, history>>

\* NTP or a manual adjustment.  The minutes from there on come once more.
ClockBack(s) ==
  /\ jumps < MaxJumps
  /\ jumps' = jumps + 1
  /\ s < clock
  /\ clock' = s
  /\ UNCHANGED <<table, active, memory, edits, history>>

TaskEnds(t) ==
  /\ t \in active
  /\ active' = active \ {t}
  /\ UNCHANGED <<table, clock, memory, edits, jumps, history>>

TaskEnqueuedByHand(t) ==
  /\ t \notin active
  /\ active' = active \cup {t}
  /\ UNCHANGED <<table, clock, memory, edits, jumps, history>>

\* A transaction saves the schedule of t: an existing row keeps its id.
Save(t, e, id) ==
  /\ edits < MaxEdits
  /\ edits' = edits + 1
  /\ id = IF table[t].on THEN table[t].id ELSE edits'
  /\ table' = [table EXCEPT ![t] = [on |-> TRUE, id |-> id, expr |-> e]]
  /\ fired' = Without(fired, t, id)
  /\ UNCHANGED <<clock, active, markers, lastTick, eval, jumps, checked>>

\* The admin settings page saves the schedule of the library scan in its own
\* transaction, which leaves the markers alone.
UpdateServerSettings(t, e, id) ==
  /\ t = "LIBRARY_SCAN"
  /\ Save(t, e, id)
  /\ UNCHANGED clearing

\* set_schedule's transaction ...
SetSchedule(t, e, id) ==
  /\ Save(t, e, id)
  /\ clearing' = clearing \cup {<<t, id>>}

\* ... and, under the mutex, the markers of that id are dropped: the schedule
\* starts afresh.
SetScheduleClear(t, id) ==
  /\ <<t, id>> \in clearing
  /\ eval.pc = "idle"
  /\ clearing' = clearing \ {<<t, id>>}
  /\ markers' = Without(markers, t, id)
  /\ fired' = Without(fired, t, id)
  /\ checked' = Without(checked, t, id)
  /\ UNCHANGED <<table, clock, active, lastTick, eval, edits, jumps>>

RemoveSchedule(t) ==
  /\ edits < MaxEdits
  /\ edits' = edits + 1
  /\ table[t].on
  /\ table' = [table EXCEPT ![t].on = FALSE]
  /\ UNCHANGED <<clock, active, memory, jumps, history>>

\* The markers are process memory.
Restart ==
  /\ jumps < MaxJumps
  /\ jumps' = jumps + 1
  /\ markers' = {}
  /\ lastTick' = NoSlot
  /\ eval' = NoEval
  /\ clearing' = {}
  /\ fired' = {}
  /\ checked' = {}
  /\ UNCHANGED <<table, clock, active, edits>>

-----------------------------------------------------------------------------
(***************************************************************************)
(* evaluate_schedules_at.                                                  *)
(***************************************************************************)

EvalFrame == UNCHANGED <<table, clock, clearing, edits, jumps>>

\* Slip, told apart by MarkersNotAhead: a clock set back is not noticed.
EvalBeginTrusting ==
  /\ eval.pc = "idle"
  /\ eval' = [NoEval EXCEPT !.pc = "read", !.slot = clock]
  /\ EvalFrame /\ UNCHANGED <<active, markers, lastTick, history>>
\* The mutex is taken; markers ahead of a clock that was set back are reset.
EvalBegin ==
  /\ eval.pc = "idle"
  /\ eval' = [NoEval EXCEPT !.pc = "read", !.slot = clock]
  /\ IF clock < lastTick
     THEN /\ markers' = PutBack(markers, clock)
          /\ checked' = ComeAgain(checked, clock)
          /\ fired' = {m \in fired : m.slot < clock}
     ELSE UNCHANGED <<markers, history>>
  /\ EvalFrame /\ UNCHANGED <<active, lastTick>>

EvalRead ==
  /\ eval.pc = "read"
  /\ LET on == {Key(t) : t \in {u \in Types : table[u].on}} IN
       eval' = [eval EXCEPT !.pc = "row", !.todo = on, !.keys = on]
  /\ EvalFrame /\ UNCHANGED <<active, markers, lastTick, history>>

EvalReadFails ==
  /\ eval.pc = "read"
  /\ eval' = NoEval
  /\ EvalFrame /\ UNCHANGED <<active, markers, lastTick, history>>

Larger(a, b) == IF a > b THEN a ELSE b

\* Slip, told apart by NoMissedSlot: the window starts one minute late.
DueShort(key) ==
  IF Has(markers, key)
  THEN \E s \in Larger(At(markers, key) + 1, eval.slot - CatchUp + 1)..eval.slot :
         s \in Asks[key.expr]
  ELSE eval.slot \in Asks[key.expr]
\* The minutes since the schedule was last answered, at most CatchUp back; a
\* schedule that was never answered looks at this minute only.
Due(key) ==
  IF Has(markers, key)
  THEN \E s \in Larger(At(markers, key) + 1, eval.slot - CatchUp)..eval.slot :
         s \in Asks[key.expr]
  ELSE eval.slot \in Asks[key.expr]

\* The next row of the SELECT, in any order of the types.
Row(key) == eval.pc = "row" /\ key \in eval.todo
Done(key) == eval' = [eval EXCEPT !.pc = "row", !.todo = @ \ {key}, !.cur = {}]

EvalNotDue(key) ==
  /\ Row(key)
  /\ ~Due(key)
  /\ Done(key)
  /\ checked' = Recorded(checked, key, eval.slot)
  /\ EvalFrame /\ UNCHANGED <<active, markers, lastTick, fired>>

\* Overlap: a task of the type is active, and the occurrence is given up.
EvalSkip(key) ==
  /\ Row(key)
  /\ Due(key)
  /\ key.type \in active
  /\ markers' = Recorded(markers, key, eval.slot)
  /\ Done(key)
  /\ checked' = Recorded(checked, key, eval.slot)
  /\ EvalFrame /\ UNCHANGED <<active, lastTick, fired>>

\* No task of the type is active: it will be enqueued.
EvalFree(key) ==
  /\ Row(key)
  /\ Due(key)
  /\ key.type \notin active
  /\ eval' = [eval EXCEPT !.pc = "enqueue", !.todo = @ \ {key}, !.cur = {key}]
  /\ EvalFrame /\ UNCHANGED <<active, markers, lastTick, history>>

\* A database error, in the overlap test or in enqueue's INSERT, leaves the
\* marker as it is: the next tick tries again.
EvalRowFails(key) ==
  /\ \/ Row(key) /\ Due(key)
     \/ key \in eval.cur
  /\ Done(key)
  /\ EvalFrame /\ UNCHANGED <<active, markers, lastTick, history>>

\* Slip, told apart by FiredOnce: a dispatch leaves no marker.
EvalDispatchUnmarked(key) ==
  /\ key \in eval.cur
  /\ active' = active \cup {key.type}
  /\ fired' = Recorded(fired, key, eval.slot)
  /\ checked' = Recorded(checked, key, eval.slot)
  /\ Done(key)
  /\ EvalFrame /\ UNCHANGED <<markers, lastTick>>
\* enqueue inserts the task, of a type that may have become active meanwhile.
\* When it cannot read the row back it reports NotFound, with the same marker.
EvalDispatch(key) ==
  /\ key \in eval.cur
  /\ active' = active \cup {key.type}
  /\ markers' = Recorded(markers, key, eval.slot)
  /\ fired' = Recorded(fired, key, eval.slot)
  /\ checked' = Recorded(checked, key, eval.slot)
  /\ Done(key)
  /\ EvalFrame /\ UNCHANGED lastTick

\* enqueue refuses: no runner, a payload it does not accept, or an analysis
\* that was queued since the overlap test.
EvalRefused(key) ==
  /\ key \in eval.cur
  /\ markers' = Recorded(markers, key, eval.slot)
  /\ checked' = Recorded(checked, key, eval.slot)
  /\ Done(key)
  /\ EvalFrame /\ UNCHANGED <<active, lastTick, fired>>

\* Markers of schedules that are gone are dropped, the mutex is released.
EvalEnd ==
  /\ eval.pc = "row"
  /\ eval.todo = {}
  /\ markers' = {m \in markers : m.key \in eval.keys}
  /\ lastTick' = eval.slot
  /\ eval' = NoEval
  /\ EvalFrame /\ UNCHANGED <<active, history>>

EvalRow ==
  \E key \in eval.keys :
    \/ EvalNotDue(key) \/ EvalSkip(key) \/ EvalFree(key)
    \/ EvalDispatch(key) \/ EvalRefused(key) \/ EvalRowFails(key)

Next ==
  \/ ClockForward \/ \E s \in Slots : ClockBack(s)
  \/ \E t \in Types : \/ TaskEnds(t) \/ TaskEnqueuedByHand(t) \/ RemoveSchedule(t)
                      \/ \E id \in 0..MaxEdits :
                           \/ SetScheduleClear(t, id)
                           \/ \E e \in Exprs : \/ SetSchedule(t, e, id)
                                              \/ UpdateServerSettings(t, e, id)
  \/ Restart
  \/ EvalBegin \/ EvalRead \/ EvalReadFails \/ EvalRow \/ EvalEnd

Spec == Init /\ [][Next]_vars
-----------------------------------------------------------------------------
(***************************************************************************)
(* Properties.                                                             *)
(***************************************************************************)

\* The loop runs 120 times in a minute; a schedule is dispatched once for a
\* minute all the same, even when its task ends within it, unless the schedule
\* was saved again, the clock was set back or the server was restarted.
FiredOnce ==
  [][\A key \in eval.cur :
       EvalDispatch(key) /\ Has(fired, key) => eval.slot > At(fired, key)]_vars

\* A schedule that has fired misses no minute: every slot it asked for up to
\* the last evaluation without error was answered by a dispatch or a skip.
NoMissedSlot ==
  \A m \in markers : \A s \in Asks[m.key.expr] :
    m.slot < s => s > At(checked, m.key)

\* No marker is ahead of the last evaluation, so a clock set back is noticed
\* before a marker could keep its schedule silent until the old time returns.
MarkersNotAhead ==
  \A m \in markers : /\ eval.pc = "idle" => m.slot <= lastTick
                     /\ eval.pc # "idle" => m.slot <= eval.slot

=============================================================================
