------------------------ MODULE CronSchedulerProofs ------------------------
(***************************************************************************)
(* For every table of schedules, every length of the clock and of the      *)
(* catch-up window: a marker is never ahead of the last evaluation, no     *)
(* minute asked for is missed, and none is dispatched twice.               *)
(*                                                                         *)
(* The inductive invariant relates the three maps: a marker belongs to a   *)
(* schedule that was answered, the next evaluation begins at most one      *)
(* minute beyond the window that the answer opened, and a schedule that    *)
(* was dispatched keeps a marker at least as late for as long as it can be *)
(* dispatched again.                                                       *)
(***************************************************************************)
EXTENDS CronScheduler, TLAPS

OnKeys == {Key(t) : t \in {u \in Types : table[u].on}}
Entries == markers \cup checked \cup fired

EvalShape ==
  /\ eval.pc = "idle" => eval = NoEval
  /\ eval.pc = "read" => eval.keys = {}
  /\ eval.pc # "enqueue" => eval.cur = {}
  /\ eval.todo \subseteq eval.keys /\ eval.cur \subseteq eval.keys
  /\ eval.pc # "idle" => eval.slot \in Slots /\ clock <= eval.slot + CatchUp + 1

\* The answer a marker goes with, and how far the clock is from it.
Answered ==
  /\ \A m \in markers : \E c \in checked : c.key = m.key
  /\ \A m \in markers, c \in checked : c.key = m.key =>
       /\ clock <= c.slot + CatchUp + 1
       /\ eval.pc # "idle" => eval.slot <= c.slot + CatchUp + 1
       /\ \A s \in Asks[m.key.expr] : m.slot < s => s > c.slot

NotAhead ==
  /\ eval.pc \in {"idle", "read"} => \A m \in Entries : m.slot <= lastTick
  /\ eval.pc # "idle" => \A m \in Entries : m.slot <= eval.slot

\* A schedule that was dispatched has a marker while it can be due.
FiredMarked ==
  /\ \A f \in fired : f.key \in OnKeys \cup eval.keys =>
       \E m \in markers : m.key = f.key /\ f.slot <= m.slot
  /\ eval.pc \in {"row", "enqueue"} =>
       \A f \in fired : f.key \in OnKeys => f.key \in eval.keys
  /\ \A m \in markers : m.key \in eval.cur => m.slot < eval.slot

CronInv == TypeOK /\ EvalShape /\ Answered /\ NotAhead /\ FiredMarked

-----------------------------------------------------------------------------
(***************************************************************************)
(* Maps from keys to slots.                                                *)
(***************************************************************************)

Entry == [key : Keys, slot : Slots \cup {NoSlot}]

\* Slots are integers.
LEMMA SlotsAreIntegers ==
  /\ \A s \in Slots : s \in Int
  /\ \A s \in Slots \cup {NoSlot} : s \in Int
  /\ CatchUp \in Nat
  BY CronBoundsAssumption DEF Slots, NoSlot

\* The value of a key is the slot of its only entry.
LEMMA AtIsSlot ==
  ASSUME NEW map, IsMap(map), NEW m \in map
  PROVE  Has(map, m.key) /\ At(map, m.key) = m.slot
<1>1. (CHOOSE n \in map : n.key = m.key) = m
  BY DEF IsMap
<1>. QED
  BY <1>1 DEF Has, At

\* Recording a slot keeps one entry for each key.
LEMMA RecordedIsMap ==
  ASSUME NEW map, IsMap(map), NEW key \in Keys, NEW slot \in Slots
  PROVE  /\ IsMap(Recorded(map, key, slot))
         /\ Has(Recorded(map, key, slot), key)
<1>1. [key |-> key, slot |-> slot] \in Entry
  BY DEF Entry
<1>2. \A m \in map : m \in Entry
  BY DEF IsMap, SlotMap, Entry
<1>3. \A n \in Recorded(map, key, slot) :
        \/ n \in map /\ n.key # key
        \/ n = [key |-> key, slot |-> slot]
  BY DEF Recorded
<1>4. [key |-> key, slot |-> slot].key = key
  OBVIOUS
<1>5. \A m, n \in Recorded(map, key, slot) : m.key = n.key => m = n
  BY <1>3, <1>4 DEF IsMap
<1>6. Recorded(map, key, slot) \subseteq Entry
  BY <1>1, <1>2, <1>3
<1>7. [key |-> key, slot |-> slot] \in Recorded(map, key, slot)
  BY DEF Recorded
<1>. QED
  BY <1>4, <1>5, <1>6, <1>7 DEF IsMap, SlotMap, Entry, Has

\* Dropping entries keeps one entry for each key.
LEMMA PartIsMap ==
  ASSUME NEW map, IsMap(map), NEW part \in SUBSET map
  PROVE  IsMap(part)
  BY DEF IsMap, SlotMap

\* The map of a server that has just started.
LEMMA EmptyIsMap == IsMap({})
  BY DEF IsMap, SlotMap

\* What the entries of a map that is cut at s look like.
LEMMA PutBackIsMap ==
  ASSUME NEW map, IsMap(map), NEW s \in Slots
  PROVE  /\ IsMap(PutBack(map, s))
         /\ \A n \in PutBack(map, s) : \E m \in map :
              n.key = m.key /\ n.slot = (IF m.slot > s THEN s - 1 ELSE m.slot)
         /\ \A m \in map : \E n \in PutBack(map, s) :
              n.key = m.key /\ n.slot = (IF m.slot > s THEN s - 1 ELSE m.slot)
<1>1. s - 1 \in Slots \cup {NoSlot}
  BY CronBoundsAssumption DEF Slots, NoSlot
<1>2. \A m \in map : /\ m \in Entry
                     /\ [m EXCEPT !.slot = IF @ > s THEN s - 1 ELSE @] \in Entry
  BY <1>1 DEF IsMap, SlotMap, Entry
<1>3. \A m \in map :
        /\ [m EXCEPT !.slot = IF @ > s THEN s - 1 ELSE @].key = m.key
        /\ [m EXCEPT !.slot = IF @ > s THEN s - 1 ELSE @].slot
             = (IF m.slot > s THEN s - 1 ELSE m.slot)
  BY <1>2 DEF Entry
<1>4. \A n \in PutBack(map, s) : \E m \in map :
        n = [m EXCEPT !.slot = IF @ > s THEN s - 1 ELSE @]
  BY DEF PutBack
<1>5. \A m \in map : [m EXCEPT !.slot = IF @ > s THEN s - 1 ELSE @] \in PutBack(map, s)
  BY DEF PutBack
<1>6. PutBack(map, s) \subseteq Entry
  BY <1>2, <1>4
<1>7. \A m, n \in PutBack(map, s) : m.key = n.key => m = n
  <2> SUFFICES ASSUME NEW m \in PutBack(map, s), NEW n \in PutBack(map, s), m.key = n.key
               PROVE  m = n
    OBVIOUS
  <2>1. PICK a \in map : m = [a EXCEPT !.slot = IF @ > s THEN s - 1 ELSE @]
    BY <1>4
  <2>2. PICK b \in map : n = [b EXCEPT !.slot = IF @ > s THEN s - 1 ELSE @]
    BY <1>4
  <2>3. a.key = b.key
    BY <1>3, <2>1, <2>2
  <2>4. a = b
    BY <2>3 DEF IsMap
  <2>. QED
    BY <2>1, <2>2, <2>4
<1>8. IsMap(PutBack(map, s))
  BY <1>6, <1>7 DEF IsMap, SlotMap, Entry
<1>9. \A n \in PutBack(map, s) : \E m \in map :
        n.key = m.key /\ n.slot = (IF m.slot > s THEN s - 1 ELSE m.slot)
  <2> SUFFICES ASSUME NEW n \in PutBack(map, s)
               PROVE  \E m \in map :
                 n.key = m.key /\ n.slot = (IF m.slot > s THEN s - 1 ELSE m.slot)
    OBVIOUS
  <2>1. PICK m \in map : n = [m EXCEPT !.slot = IF @ > s THEN s - 1 ELSE @]
    BY <1>4
  <2>2. n.key = m.key /\ n.slot = (IF m.slot > s THEN s - 1 ELSE m.slot)
    BY <1>3, <2>1
  <2>. QED
    BY <2>2
<1>10. \A m \in map : \E n \in PutBack(map, s) :
        n.key = m.key /\ n.slot = (IF m.slot > s THEN s - 1 ELSE m.slot)
  BY <1>3, <1>5
<1>. QED
  BY <1>8, <1>9, <1>10

\* The same for the answers, which are cut one slot lower.
LEMMA ComeAgainIsMap ==
  ASSUME NEW map, IsMap(map), NEW s \in Slots
  PROVE  /\ IsMap(ComeAgain(map, s))
         /\ \A n \in ComeAgain(map, s) : \E m \in map :
              n.key = m.key /\ n.slot = (IF m.slot >= s THEN s - 1 ELSE m.slot)
         /\ \A m \in map : \E n \in ComeAgain(map, s) :
              n.key = m.key /\ n.slot = (IF m.slot >= s THEN s - 1 ELSE m.slot)
<1>1. s - 1 \in Slots \cup {NoSlot}
  BY CronBoundsAssumption DEF Slots, NoSlot
<1>2. \A m \in map : /\ m \in Entry
                     /\ [m EXCEPT !.slot = IF @ >= s THEN s - 1 ELSE @] \in Entry
  BY <1>1 DEF IsMap, SlotMap, Entry
<1>3. \A m \in map :
        /\ [m EXCEPT !.slot = IF @ >= s THEN s - 1 ELSE @].key = m.key
        /\ [m EXCEPT !.slot = IF @ >= s THEN s - 1 ELSE @].slot
             = (IF m.slot >= s THEN s - 1 ELSE m.slot)
  BY <1>2 DEF Entry
<1>4. \A n \in ComeAgain(map, s) : \E m \in map :
        n = [m EXCEPT !.slot = IF @ >= s THEN s - 1 ELSE @]
  BY DEF ComeAgain
<1>5. \A m \in map : [m EXCEPT !.slot = IF @ >= s THEN s - 1 ELSE @] \in ComeAgain(map, s)
  BY DEF ComeAgain
<1>6. ComeAgain(map, s) \subseteq Entry
  BY <1>2, <1>4
<1>7. \A m, n \in ComeAgain(map, s) : m.key = n.key => m = n
  <2> SUFFICES ASSUME NEW m \in ComeAgain(map, s), NEW n \in ComeAgain(map, s), m.key = n.key
               PROVE  m = n
    OBVIOUS
  <2>1. PICK a \in map : m = [a EXCEPT !.slot = IF @ >= s THEN s - 1 ELSE @]
    BY <1>4
  <2>2. PICK b \in map : n = [b EXCEPT !.slot = IF @ >= s THEN s - 1 ELSE @]
    BY <1>4
  <2>3. a.key = b.key
    BY <1>3, <2>1, <2>2
  <2>4. a = b
    BY <2>3 DEF IsMap
  <2>. QED
    BY <2>1, <2>2, <2>4
<1>8. IsMap(ComeAgain(map, s))
  BY <1>6, <1>7 DEF IsMap, SlotMap, Entry
<1>9. \A n \in ComeAgain(map, s) : \E m \in map :
        n.key = m.key /\ n.slot = (IF m.slot >= s THEN s - 1 ELSE m.slot)
  <2> SUFFICES ASSUME NEW n \in ComeAgain(map, s)
               PROVE  \E m \in map :
                 n.key = m.key /\ n.slot = (IF m.slot >= s THEN s - 1 ELSE m.slot)
    OBVIOUS
  <2>1. PICK m \in map : n = [m EXCEPT !.slot = IF @ >= s THEN s - 1 ELSE @]
    BY <1>4
  <2>2. n.key = m.key /\ n.slot = (IF m.slot >= s THEN s - 1 ELSE m.slot)
    BY <1>3, <2>1
  <2>. QED
    BY <2>2
<1>10. \A m \in map : \E n \in ComeAgain(map, s) :
        n.key = m.key /\ n.slot = (IF m.slot >= s THEN s - 1 ELSE m.slot)
  BY <1>3, <1>5
<1>. QED
  BY <1>8, <1>9, <1>10
-----------------------------------------------------------------------------
(***************************************************************************)
(* The types and the shape of an evaluation.                               *)
(***************************************************************************)

EditStep ==
  \/ \E t \in Types : RemoveSchedule(t)
  \/ \E t \in Types, id \in 0..MaxEdits, e \in Exprs :
       SetSchedule(t, e, id) \/ UpdateServerSettings(t, e, id)
ClearStep == \E t \in Types, id \in 0..MaxEdits : SetScheduleClear(t, id)
TaskStep == \E t \in Types : TaskEnds(t) \/ TaskEnqueuedByHand(t)
BackStep == \E s \in Slots : ClockBack(s)

\* The steps, by what they change.
LEMMA NextCases ==
  ASSUME [Next]_vars
  PROVE  \/ ClockForward \/ BackStep \/ TaskStep \/ EditStep \/ ClearStep \/ Restart
         \/ EvalBegin \/ EvalRead \/ EvalReadFails \/ EvalRow \/ EvalEnd
         \/ UNCHANGED vars
  BY DEF Next, EditStep, ClearStep, TaskStep, BackStep

\* What a step of a row does to the evaluation.
LEMMA RowShape ==
  ASSUME CronInv, NEW key \in eval.keys,
         EvalNotDue(key) \/ EvalSkip(key) \/ EvalFree(key) \/ EvalDispatch(key)
           \/ EvalRefused(key) \/ EvalRowFails(key)
  PROVE  /\ key \in Keys /\ key.type \in Types
         /\ eval.pc \in {"row", "enqueue"} /\ eval.slot \in Slots
         /\ eval' \in [pc : {"row", "enqueue"}, slot : {eval.slot}, todo : SUBSET Keys,
                       keys : {eval.keys}, cur : SUBSET Keys]
         /\ eval'.todo \subseteq eval.todo
         /\ eval'.pc = "row" => eval'.cur = {}
         /\ eval'.pc = "enqueue" => eval'.cur = {key}
         /\ UNCHANGED <<table, clock, clearing, edits, jumps, lastTick>>
<1>1. eval \in [pc : {"idle", "read", "row", "enqueue"}, slot : Slots \cup {NoSlot},
                todo : SUBSET Keys, keys : SUBSET Keys, cur : SUBSET Keys]
  BY DEF CronInv, TypeOK
<1>2. key \in Keys /\ key.type \in Types
  BY <1>1 DEF Keys
<1>3. eval.pc \in {"row", "enqueue"}
  BY <1>1 DEF CronInv, EvalShape, EvalNotDue, EvalSkip, EvalFree, EvalDispatch, EvalRefused,
              EvalRowFails, Row
<1>4. eval.slot \in Slots
  BY <1>3 DEF CronInv, EvalShape
<1>5. \/ eval' = [eval EXCEPT !.pc = "row", !.todo = @ \ {key}, !.cur = {}]
      \/ eval' = [eval EXCEPT !.pc = "enqueue", !.todo = @ \ {key}, !.cur = {key}]
  BY DEF EvalNotDue, EvalSkip, EvalFree, EvalDispatch, EvalRefused, EvalRowFails, Done
<1>6. UNCHANGED <<table, clock, clearing, edits, jumps, lastTick>>
  BY DEF EvalNotDue, EvalSkip, EvalFree, EvalDispatch, EvalRefused, EvalRowFails, EvalFrame
<1>7. CASE eval' = [eval EXCEPT !.pc = "row", !.todo = @ \ {key}, !.cur = {}]
  <2>1. /\ eval'.pc = "row" /\ eval'.slot = eval.slot /\ eval'.todo = eval.todo \ {key}
        /\ eval'.keys = eval.keys /\ eval'.cur = {}
        /\ eval' \in [pc : {"row", "enqueue"}, slot : {eval.slot}, todo : SUBSET Keys,
                      keys : {eval.keys}, cur : SUBSET Keys]
    BY <1>1, <1>7
  <2>. QED
    BY <1>2, <1>3, <1>4, <1>6, <2>1
<1>8. CASE eval' = [eval EXCEPT !.pc = "enqueue", !.todo = @ \ {key}, !.cur = {key}]
  <2>1. /\ eval'.pc = "enqueue" /\ eval'.slot = eval.slot /\ eval'.todo = eval.todo \ {key}
        /\ eval'.keys = eval.keys /\ eval'.cur = {key}
    BY <1>1, <1>8
  <2>2. eval' \in [pc : {"row", "enqueue"}, slot : {eval.slot}, todo : SUBSET Keys,
                   keys : {eval.keys}, cur : SUBSET Keys]
    BY <1>1, <1>2, <1>8
  <2>. QED
    BY <1>2, <1>3, <1>4, <1>6, <2>1, <2>2
<1>. QED
  BY <1>5, <1>7, <1>8

\* An evaluation goes idle, read, row, enqueue, with the row it decided on.
LEMMA ShapeStep ==
  ASSUME CronInv, [Next]_vars
  PROVE  EvalShape'
<1> USE SlotsAreIntegers
<1>1. /\ EvalShape /\ clock \in Slots /\ jumps \in Int
      /\ eval \in [pc : {"idle", "read", "row", "enqueue"}, slot : Slots \cup {NoSlot},
                   todo : SUBSET Keys, keys : SUBSET Keys, cur : SUBSET Keys]
  BY DEF CronInv, TypeOK
<1>2. CASE ClockForward
  <2>1. clock' = clock + 1 /\ eval' = eval
    BY <1>2 DEF ClockForward, memory
  <2>2. eval.pc # "idle" => clock' <= eval.slot + CatchUp + 1
    BY <1>2 DEF ClockForward
  <2>. QED
    BY <1>1, <2>1, <2>2 DEF EvalShape, NoEval
<1>3. CASE BackStep
  <2>1. clock' \in Slots /\ clock' < clock /\ eval' = eval
    BY <1>3 DEF BackStep, ClockBack, memory
  <2>2. ASSUME eval.pc # "idle" PROVE clock' <= eval.slot + CatchUp + 1
    <3>1. clock <= eval.slot + CatchUp + 1 /\ eval.slot \in Slots
      BY <1>1, <2>2 DEF EvalShape
    <3>2. clock' \in Int /\ clock \in Int /\ eval.slot \in Int /\ CatchUp \in Int
      BY <1>1, <2>1, <3>1
    <3>. QED
      BY <2>1, <3>1, <3>2
  <2>. QED
    BY <1>1, <2>1, <2>2 DEF EvalShape, NoEval
<1>4. CASE TaskStep \/ EditStep \/ UNCHANGED vars
  <2>1. UNCHANGED <<clock, eval>>
    BY <1>4 DEF TaskStep, TaskEnds, TaskEnqueuedByHand, EditStep, RemoveSchedule, SetSchedule,
                UpdateServerSettings, Save, vars, memory
  <2>. QED
    BY <1>1, <2>1 DEF EvalShape, NoEval
<1>5. CASE ClearStep
  BY <1>1, <1>5 DEF ClearStep, SetScheduleClear, EvalShape, NoEval
<1>6. CASE Restart \/ EvalReadFails \/ EvalEnd
  <2>1. eval' = NoEval
    BY <1>6 DEF Restart, EvalReadFails, EvalEnd
  <2>. QED
    BY <2>1 DEF EvalShape, NoEval
<1>7. CASE EvalBegin
  BY <1>1, <1>7 DEF EvalBegin, EvalFrame, EvalShape, NoEval
<1>8. CASE EvalRead
  <2> DEFINE on == {Key(t) : t \in {u \in Types : table[u].on}}
  <2>1. eval' = [eval EXCEPT !.pc = "row", !.todo = on, !.keys = on] /\ UNCHANGED clock
    BY <1>8 DEF EvalRead, EvalFrame
  <2>2. eval.pc = "read"
    BY <1>8 DEF EvalRead
  <2> HIDE DEF on
  <2>. QED
    BY <1>1, <2>1, <2>2 DEF EvalShape, NoEval
<1>9. CASE EvalRow
  <2>1. PICK key \in eval.keys :
          EvalNotDue(key) \/ EvalSkip(key) \/ EvalFree(key) \/ EvalDispatch(key)
            \/ EvalRefused(key) \/ EvalRowFails(key)
    BY <1>9 DEF EvalRow
  <2>. QED
    BY <1>1, <2>1, RowShape DEF EvalShape
<1>. QED
  BY <1>2, <1>3, <1>4, <1>5, <1>6, <1>7, <1>8, <1>9, NextCases

\* No step leaves the types.
LEMMA TypeStep ==
  ASSUME CronInv, [Next]_vars
  PROVE  TypeOK'
<1> USE CronBoundsAssumption, SlotsAreIntegers
<1>1. TypeOK /\ EvalShape
  BY DEF CronInv
<1>2. CASE ClockForward
  BY <1>1, <1>2 DEF TypeOK, IsMap, ClockForward, memory, history, Slots
<1>3. CASE BackStep
  BY <1>1, <1>3 DEF TypeOK, IsMap, BackStep, ClockBack, memory, history, Slots
<1>4. CASE TaskStep
  BY <1>1, <1>4 DEF TypeOK, IsMap, TaskStep, TaskEnds, TaskEnqueuedByHand, memory, history
<1>5. CASE EditStep
  <2>1. CASE \E t \in Types : RemoveSchedule(t)
    <3>1. PICK t \in Types : RemoveSchedule(t)
      BY <2>1
    <3>2. /\ edits < MaxEdits /\ edits' = edits + 1
          /\ table' = [table EXCEPT ![t] = [table[t] EXCEPT !.on = FALSE]]
          /\ UNCHANGED <<clock, active, memory, jumps, history>>
      BY <3>1 DEF RemoveSchedule
    <3>3. table' \in [Types -> [on : BOOLEAN, id : 0..MaxEdits, expr : Exprs]]
      BY <1>1, <3>2 DEF TypeOK
    <3>4. edits' \in 0..MaxEdits
      BY <1>1, <3>2 DEF TypeOK
    <3>. QED
      BY <1>1, <3>2, <3>3, <3>4 DEF TypeOK, IsMap, memory, history
  <2>2. ASSUME NEW t \in Types, NEW id \in 0..MaxEdits, NEW e \in Exprs, Save(t, e, id),
               clearing' \in {clearing, clearing \cup {<<t, id>>}}
        PROVE  TypeOK'
    <3>1. Without(fired, t, id) \subseteq fired
      BY DEF Without
    <3>2. IsMap(Without(fired, t, id))
      BY <1>1, <3>1, PartIsMap DEF TypeOK
    <3>3. IsMap(fired')
      BY <2>2, <3>2 DEF Save
    <3>4. /\ table' \in [Types -> [on : BOOLEAN, id : 0..MaxEdits, expr : Exprs]]
          /\ edits' \in 0..MaxEdits /\ clearing' \subseteq (Types \X (0..MaxEdits))
      BY <1>1, <2>2 DEF TypeOK, Save
    <3>5. UNCHANGED <<clock, active, markers, lastTick, eval, jumps, checked>>
      BY <2>2 DEF Save
    <3>. QED
      BY <1>1, <3>3, <3>4, <3>5 DEF TypeOK, IsMap
  <2>. QED
    BY <1>5, <2>1, <2>2 DEF EditStep, SetSchedule, UpdateServerSettings
<1>6. CASE ClearStep
  <2>1. PICK t \in Types, id \in 0..MaxEdits : SetScheduleClear(t, id)
    BY <1>6 DEF ClearStep
  <2>2. /\ markers' \subseteq markers /\ fired' \subseteq fired /\ checked' \subseteq checked
        /\ clearing' \subseteq clearing
        /\ UNCHANGED <<table, clock, active, lastTick, eval, edits, jumps>>
    BY <2>1 DEF SetScheduleClear, Without
  <2>3. IsMap(markers') /\ IsMap(fired') /\ IsMap(checked')
    BY <1>1, <2>2, PartIsMap DEF TypeOK
  <2>. QED
    BY <1>1, <2>2, <2>3 DEF TypeOK, IsMap
<1>7. CASE Restart
  BY <1>1, <1>7, EmptyIsMap DEF TypeOK, IsMap, Restart, NoEval
<1>8. CASE EvalBegin
  <2>1. clock \in Slots
    BY <1>1 DEF TypeOK
  <2>2. IsMap(markers') /\ IsMap(checked') /\ IsMap(fired')
    <3>1. CASE clock < lastTick
      <4>1. /\ markers' = PutBack(markers, clock) /\ checked' = ComeAgain(checked, clock)
            /\ fired' \subseteq fired
        BY <1>8, <3>1 DEF EvalBegin
      <4>2. IsMap(markers) /\ IsMap(checked) /\ IsMap(fired)
        BY <1>1 DEF TypeOK
      <4>3. IsMap(fired')
        BY <4>1, <4>2, PartIsMap
      <4>4. IsMap(PutBack(markers, clock)) /\ IsMap(ComeAgain(checked, clock))
        BY <2>1, <4>2, PutBackIsMap, ComeAgainIsMap
      <4>. QED
        BY <4>1, <4>3, <4>4
    <3>2. CASE ~(clock < lastTick)
      BY <1>1, <1>8, <3>2 DEF TypeOK, EvalBegin, history
    <3>. QED
      BY <3>1, <3>2
  <2>3. /\ eval' = [NoEval EXCEPT !.pc = "read", !.slot = clock]
        /\ UNCHANGED <<table, clock, clearing, edits, jumps, active, lastTick>>
    BY <1>8 DEF EvalBegin, EvalFrame
  <2>. QED
    BY <1>1, <2>1, <2>2, <2>3 DEF TypeOK, IsMap, NoEval
<1>9. CASE EvalRead
  <2> DEFINE on == {Key(t) : t \in {u \in Types : table[u].on}}
  <2>1. on \subseteq Keys
    BY <1>1 DEF TypeOK, Key, Keys
  <2>2. /\ eval' = [eval EXCEPT !.pc = "row", !.todo = on, !.keys = on]
        /\ UNCHANGED <<table, clock, clearing, edits, jumps, active, markers, lastTick, history>>
    BY <1>9 DEF EvalRead, EvalFrame
  <2> HIDE DEF on
  <2>. QED
    BY <1>1, <2>1, <2>2 DEF TypeOK, IsMap, history
<1>10. CASE EvalReadFails
  BY <1>1, <1>10 DEF TypeOK, IsMap, EvalReadFails, EvalFrame, history, NoEval
<1>11. CASE EvalRow
  <2>1. PICK key \in eval.keys :
          EvalNotDue(key) \/ EvalSkip(key) \/ EvalFree(key) \/ EvalDispatch(key)
            \/ EvalRefused(key) \/ EvalRowFails(key)
    BY <1>11 DEF EvalRow
  <2>2. key \in Keys /\ key.type \in Types /\ eval.slot \in Slots
    BY <2>1, RowShape
  <2>3. /\ markers' \in {markers, Recorded(markers, key, eval.slot)}
        /\ checked' \in {checked, Recorded(checked, key, eval.slot)}
        /\ fired' \in {fired, Recorded(fired, key, eval.slot)}
        /\ active' \in {active, active \cup {key.type}}
    BY <2>1 DEF EvalNotDue, EvalSkip, EvalFree, EvalDispatch, EvalRefused, EvalRowFails, history
  <2>4. IsMap(markers') /\ IsMap(checked') /\ IsMap(fired')
    BY <1>1, <2>2, <2>3, RecordedIsMap DEF TypeOK
  <2>5. eval' \in [pc : {"idle", "read", "row", "enqueue"}, slot : Slots \cup {NoSlot},
                  todo : SUBSET Keys, keys : SUBSET Keys, cur : SUBSET Keys]
    BY <1>1, <2>1, RowShape DEF TypeOK
  <2>6. UNCHANGED <<table, clock, clearing, edits, jumps, lastTick>>
    BY <2>1, RowShape
  <2>. QED
    BY <1>1, <2>2, <2>3, <2>4, <2>5, <2>6 DEF TypeOK, IsMap
<1>12. CASE EvalEnd
  <2>1. /\ markers' \subseteq markers /\ lastTick' = eval.slot /\ eval' = NoEval
        /\ UNCHANGED <<table, clock, clearing, edits, jumps, active, checked, fired>>
    BY <1>12 DEF EvalEnd, EvalFrame, history
  <2>2. IsMap(markers')
    BY <1>1, <2>1, PartIsMap DEF TypeOK
  <2>. QED
    BY <1>1, <2>1, <2>2 DEF TypeOK, IsMap, NoEval
<1>13. CASE UNCHANGED vars
  BY <1>1, <1>13 DEF TypeOK, IsMap, vars, memory, history
<1>. QED
  BY <1>2, <1>3, <1>4, <1>5, <1>6, <1>7, <1>8, <1>9, <1>10, <1>11, <1>12, <1>13, NextCases
-----------------------------------------------------------------------------
(***************************************************************************)
(* The answers: no minute is missed.                                       *)
(***************************************************************************)

\* The slots of the entries are integers, and the windows are.
LEMMA SlotTypes ==
  ASSUME TypeOK
  PROVE  /\ \A m \in Entries : m.slot \in Slots \cup {NoSlot} /\ m.slot \in Int
         /\ \A m \in markers : \A s \in Asks[m.key.expr] : s \in Slots /\ s \in Int
         /\ clock \in Slots /\ clock \in Int
         /\ lastTick \in Slots \cup {NoSlot} /\ lastTick \in Int
         /\ eval.slot \in Slots \cup {NoSlot} /\ eval.slot \in Int
         /\ CatchUp \in Nat
<1>1. \A m \in Entries : m.key \in Keys /\ m.slot \in Slots \cup {NoSlot}
  BY DEF TypeOK, IsMap, SlotMap, Entries
<1>2. \A m \in markers : m.key.expr \in Exprs
  BY <1>1 DEF Keys, Entries
<1>3. \A m \in markers : Asks[m.key.expr] \subseteq Slots
  BY <1>2, AsksAssumption
<1>4. clock \in Slots /\ lastTick \in Slots \cup {NoSlot} /\ eval.slot \in Slots \cup {NoSlot}
  BY DEF TypeOK
<1>. QED
  BY <1>1, <1>3, <1>4, SlotsAreIntegers

\* The entries of one key in markers and checked, while the answers stand.
LEMMA AnsweredFrame ==
  ASSUME Answered, markers' \subseteq markers, checked' = checked,
         clock' = clock, eval'.pc # "idle" => eval.pc # "idle" /\ eval'.slot = eval.slot
  PROVE  Answered'
  BY DEF Answered

\* Every outcome of a row keeps the answers: a minute is either looked at or
\* still within the window of the next evaluation.
LEMMA AnsweredRow ==
  ASSUME CronInv, NEW key \in eval.keys,
         EvalNotDue(key) \/ EvalSkip(key) \/ EvalFree(key) \/ EvalDispatch(key)
           \/ EvalRefused(key) \/ EvalRowFails(key)
  PROVE  Answered'
<1>1. /\ key \in Keys /\ eval.slot \in Slots /\ clock' = clock /\ eval'.slot = eval.slot
      /\ eval.pc # "idle"
  BY RowShape
<1>2. TypeOK /\ Answered
  BY DEF CronInv
<1>3. clock <= eval.slot + CatchUp + 1 /\ eval.slot <= eval.slot + CatchUp + 1
  BY <1>1, <1>2, SlotTypes DEF CronInv, EvalShape
<1>4. CASE markers' = markers /\ checked' = checked
  BY <1>1, <1>2, <1>4, AnsweredFrame
<1>5. CASE /\ checked' = Recorded(checked, key, eval.slot)
           /\ \/ EvalNotDue(key)
              \/ markers' = Recorded(markers, key, eval.slot)
  <2>1. \A c \in checked' : \/ c \in checked /\ c.key # key
                            \/ c.key = key /\ c.slot = eval.slot
    BY <1>5 DEF Recorded
  <2>2. \A m \in markers' : \/ m \in markers
                            \/ m.key = key /\ m.slot = eval.slot
    BY DEF EvalNotDue, EvalSkip, EvalFree, EvalDispatch, EvalRefused, EvalRowFails, Recorded
  <2>3. \E c \in checked' : c.key = key
    <3>1. [key |-> key, slot |-> eval.slot] \in checked'
      BY <1>5 DEF Recorded
    <3>. QED
      BY <3>1
  <2>4. \A m \in markers' : \E c \in checked' : c.key = m.key
    <3>1. \A c \in checked : c.key # key => c \in checked'
      BY <1>5 DEF Recorded
    <3>. QED
      BY <1>2, <2>2, <2>3, <3>1 DEF Answered
  <2>5. ASSUME NEW m \in markers', NEW c \in checked', c.key = m.key, c.key # key
        PROVE  /\ clock <= c.slot + CatchUp + 1
               /\ eval.slot <= c.slot + CatchUp + 1
               /\ \A s \in Asks[m.key.expr] : m.slot < s => s > c.slot
    BY <1>1, <1>2, <2>1, <2>2, <2>5 DEF Answered
  <2>6. ASSUME NEW m \in markers', m.key = key, NEW s \in Asks[key.expr], m.slot < s
        PROVE  s > eval.slot
    <3>0. s \in Int /\ eval.slot \in Int /\ CatchUp \in Int
      <4>1. key.expr \in Exprs
        BY <1>1 DEF Keys
      <4>. QED
        BY <4>1, <1>1, AsksAssumption, SlotsAreIntegers
    <3>1. CASE markers' = Recorded(markers, key, eval.slot)
      <4>1. m.slot = eval.slot
        BY <2>6, <3>1 DEF Recorded
      <4>. QED
        BY <2>6, <3>0, <4>1
    <3>2. CASE EvalNotDue(key)
      <4>1. m \in markers /\ ~Due(key)
        BY <2>6, <3>2 DEF EvalNotDue
      <4>2. m.slot \in Int
        BY <1>2, <4>1, SlotTypes DEF Entries
      <4>3. Has(markers, key) /\ At(markers, key) = m.slot
        BY <1>2, <2>6, <4>1, AtIsSlot DEF TypeOK
      <4>4. s \notin Larger(m.slot + 1, eval.slot - CatchUp)..eval.slot
        BY <2>6, <4>1, <4>3 DEF Due
      <4>5. PICK c \in checked : c.key = m.key
        BY <1>2, <4>1 DEF Answered
      <4>6. eval.slot <= c.slot + CatchUp + 1 /\ s > c.slot
        BY <1>1, <1>2, <2>6, <4>1, <4>5 DEF Answered
      <4>7. c.slot \in Int
        BY <1>2, <4>5, SlotTypes DEF Entries
      <4>. QED
        BY <2>6, <3>0, <4>2, <4>4, <4>6, <4>7 DEF Larger
    <3>. QED
      BY <1>5, <3>1, <3>2
  <2>. QED
    BY <1>1, <1>3, <2>1, <2>4, <2>5, <2>6 DEF Answered
<1>. QED
  BY <1>4, <1>5 DEF EvalNotDue, EvalSkip, EvalFree, EvalDispatch, EvalRefused, EvalRowFails, history

\* A clock that is set back cuts the markers and the answers together.
LEMMA AnsweredBegin ==
  ASSUME CronInv, EvalBegin
  PROVE  Answered'
<1>1. TypeOK /\ Answered
  BY DEF CronInv
<1>2. eval'.slot = clock /\ clock' = clock
  BY DEF EvalBegin, EvalFrame, NoEval
<1>3. clock \in Slots /\ clock \in Int /\ CatchUp \in Nat
  BY <1>1, SlotTypes
<1>4. CASE ~(clock < lastTick)
  <2>1. markers' = markers /\ checked' = checked
    BY <1>4 DEF EvalBegin, history
  <2>. QED
    BY <1>1, <1>2, <1>3, <2>1 DEF Answered
<1>5. CASE clock < lastTick
  <2>1. /\ markers' = PutBack(markers, clock) /\ checked' = ComeAgain(checked, clock)
        /\ IsMap(markers) /\ IsMap(checked)
    BY <1>1, <1>5 DEF EvalBegin, TypeOK
  <2>2. ASSUME NEW n \in markers'
        PROVE  \E m \in markers :
                 n.key = m.key /\ n.slot = (IF m.slot > clock THEN clock - 1 ELSE m.slot)
    BY <1>3, <2>1, PutBackIsMap
  <2>3. ASSUME NEW n \in checked'
        PROVE  \E c \in checked :
                 n.key = c.key /\ n.slot = (IF c.slot >= clock THEN clock - 1 ELSE c.slot)
    BY <1>3, <2>1, ComeAgainIsMap
  <2>4. ASSUME NEW c \in checked
        PROVE  \E n \in checked' : n.key = c.key
    BY <1>3, <2>1, ComeAgainIsMap
  <2>5. \A m \in markers' : \E c \in checked' : c.key = m.key
    <3> SUFFICES ASSUME NEW m \in markers' PROVE \E c \in checked' : c.key = m.key
      OBVIOUS
    <3>1. PICK a \in markers : m.key = a.key
      BY <2>2
    <3>2. PICK b \in checked : b.key = a.key
      BY <1>1 DEF Answered
    <3>. QED
      BY <2>4, <3>1, <3>2
  <2>6. ASSUME NEW m \in markers', NEW c \in checked', c.key = m.key
        PROVE  /\ clock <= c.slot + CatchUp + 1
               /\ \A s \in Asks[m.key.expr] : m.slot < s => s > c.slot
    <3>1. PICK a \in markers :
            m.key = a.key /\ m.slot = (IF a.slot > clock THEN clock - 1 ELSE a.slot)
      BY <2>2
    <3>2. PICK b \in checked :
            c.key = b.key /\ c.slot = (IF b.slot >= clock THEN clock - 1 ELSE b.slot)
      BY <2>3
    <3>3. /\ clock <= b.slot + CatchUp + 1
          /\ \A s \in Asks[a.key.expr] : a.slot < s => s > b.slot
      BY <1>1, <2>6, <3>1, <3>2 DEF Answered
    <3>4. a.slot \in Int /\ b.slot \in Int /\ \A s \in Asks[a.key.expr] : s \in Int
      BY <1>1, SlotTypes DEF Entries
    <3>5. clock <= c.slot + CatchUp + 1
      BY <1>3, <3>2, <3>3, <3>4
    <3>6. ASSUME NEW s \in Asks[m.key.expr], m.slot < s
          PROVE  s > c.slot
      <4>1. s \in Asks[a.key.expr] /\ s \in Int
        BY <3>1, <3>4
      <4>2. CASE a.slot > clock
        BY <1>3, <3>1, <3>2, <3>4, <3>6, <4>1, <4>2
      <4>3. CASE ~(a.slot > clock)
        <5>1. s > b.slot
          BY <3>1, <3>3, <3>6, <4>1, <4>3
        <5>. QED
          BY <1>3, <3>2, <3>4, <4>1, <5>1
      <4>. QED
        BY <4>2, <4>3
    <3>. QED
      BY <3>5, <3>6
  <2>. QED
    BY <1>2, <2>5, <2>6 DEF Answered
<1>. QED
  BY <1>4, <1>5

\* No step loses a minute.
LEMMA AnsweredStep ==
  ASSUME CronInv, [Next]_vars
  PROVE  Answered'
<1>1. TypeOK /\ EvalShape /\ Answered
  BY DEF CronInv
<1>2. CASE ClockForward
  <2>1. /\ clock' = clock + 1 /\ UNCHANGED <<markers, checked, eval>>
        /\ \A m \in markers : clock' <= At(checked, m.key) + CatchUp + 1
    BY <1>2 DEF ClockForward, memory, history
  <2>2. ASSUME NEW m \in markers, NEW c \in checked, c.key = m.key
        PROVE  clock' <= c.slot + CatchUp + 1
    BY <1>1, <2>1, <2>2, AtIsSlot DEF TypeOK
  <2>. QED
    BY <1>1, <2>1, <2>2 DEF Answered
<1>3. CASE BackStep
  <2>1. clock' < clock /\ clock' \in Slots /\ UNCHANGED <<markers, checked, eval>>
    BY <1>3 DEF BackStep, ClockBack, memory, history
  <2>2. ASSUME NEW m \in markers, NEW c \in checked, c.key = m.key
        PROVE  clock' <= c.slot + CatchUp + 1
    <3>1. clock <= c.slot + CatchUp + 1
      BY <1>1, <2>2 DEF Answered
    <3>2. clock \in Int /\ clock' \in Int /\ c.slot \in Int /\ CatchUp \in Int
      BY <1>1, <2>1, SlotTypes, SlotsAreIntegers DEF Entries
    <3>. QED
      BY <2>1, <3>1, <3>2
  <2>. QED
    BY <1>1, <2>1, <2>2 DEF Answered
<1>4. CASE TaskStep \/ EditStep \/ UNCHANGED vars
  <2>1. UNCHANGED <<clock, eval, markers, checked>>
    BY <1>4 DEF TaskStep, TaskEnds, TaskEnqueuedByHand, EditStep, RemoveSchedule, SetSchedule,
                UpdateServerSettings, Save, vars, memory, history
  <2>. QED
    BY <1>1, <2>1, AnsweredFrame
<1>5. CASE ClearStep
  <2>1. PICK t \in Types, id \in 0..MaxEdits : SetScheduleClear(t, id)
    BY <1>5 DEF ClearStep
  <2>2. /\ \A m \in markers' : m \in markers /\ (m.key.type # t \/ m.key.id # id)
        /\ checked' \subseteq checked
        /\ \A c \in checked : c.key.type # t \/ c.key.id # id => c \in checked'
        /\ UNCHANGED <<clock, eval>>
    BY <2>1 DEF SetScheduleClear, Without
  <2>3. \A m \in markers' : \E c \in checked' : c.key = m.key
    BY <1>1, <2>2 DEF Answered
  <2>. QED
    BY <1>1, <2>2, <2>3 DEF Answered
<1>6. CASE Restart
  BY <1>6 DEF Answered, Restart
<1>7. CASE EvalBegin
  BY <1>7, AnsweredBegin
<1>8. CASE EvalRead \/ EvalReadFails \/ EvalEnd
  <2>1. /\ markers' \subseteq markers /\ checked' = checked /\ clock' = clock
    BY <1>8 DEF EvalRead, EvalReadFails, EvalEnd, EvalFrame, history
  <2>2. eval'.pc # "idle" => eval.pc # "idle" /\ eval'.slot = eval.slot
    <3>1. CASE EvalRead
      <4> DEFINE on == {Key(t) : t \in {u \in Types : table[u].on}}
      <4>1. eval.pc = "read" /\ eval' = [eval EXCEPT !.pc = "row", !.todo = on, !.keys = on]
        BY <3>1 DEF EvalRead
      <4> HIDE DEF on
      <4>. QED
        BY <1>1, <4>1 DEF TypeOK
    <3>2. CASE EvalReadFails \/ EvalEnd
      BY <3>2 DEF EvalReadFails, EvalEnd, NoEval
    <3>. QED
      BY <1>8, <3>1, <3>2
  <2>. QED
    BY <1>1, <2>1, <2>2, AnsweredFrame
<1>9. CASE EvalRow
  BY <1>9, AnsweredRow DEF EvalRow
<1>. QED
  BY <1>2, <1>3, <1>4, <1>5, <1>6, <1>7, <1>8, <1>9, NextCases
-----------------------------------------------------------------------------
(***************************************************************************)
(* No entry is ahead of the last evaluation.                               *)
(***************************************************************************)

\* No step puts an entry ahead of the last evaluation.
LEMMA NotAheadStep ==
  ASSUME CronInv, [Next]_vars
  PROVE  NotAhead'
<1>1. TypeOK /\ EvalShape /\ NotAhead
  BY DEF CronInv
<1>2. CASE ClockForward \/ BackStep \/ TaskStep \/ EditStep \/ ClearStep \/ UNCHANGED vars
  <2>1. /\ UNCHANGED <<eval, lastTick>>
        /\ markers' \subseteq markers /\ checked' \subseteq checked /\ fired' \subseteq fired
    BY <1>2 DEF ClockForward, BackStep, ClockBack, TaskStep, TaskEnds, TaskEnqueuedByHand,
                EditStep, RemoveSchedule, SetSchedule, UpdateServerSettings, Save, ClearStep,
                SetScheduleClear, Without, vars, memory, history
  <2>. QED
    BY <1>1, <2>1 DEF NotAhead, Entries
<1>3. CASE Restart
  BY <1>3 DEF Restart, NotAhead, Entries, NoEval
<1>4. CASE EvalBegin
  <2>1. eval.pc = "idle" /\ eval'.pc = "read" /\ eval'.slot = clock /\ lastTick' = lastTick
    BY <1>4 DEF EvalBegin, NoEval
  <2>2. \A m \in Entries : m.slot <= lastTick /\ m.slot \in Int
    BY <1>1, <2>1, SlotTypes DEF NotAhead
  <2>3. clock \in Int /\ clock \in Slots /\ lastTick \in Int
    BY <1>1, SlotTypes
  <2>4. CASE ~(clock < lastTick)
    <3>1. markers' = markers /\ checked' = checked /\ fired' = fired
      BY <1>4, <2>4 DEF EvalBegin, history
    <3>2. \A m \in Entries : m.slot <= clock
      BY <2>2, <2>3, <2>4
    <3>. QED
      BY <2>1, <2>2, <3>1, <3>2 DEF NotAhead, Entries
  <2>5. CASE clock < lastTick
    <3>1. /\ markers' = PutBack(markers, clock) /\ checked' = ComeAgain(checked, clock)
          /\ IsMap(markers) /\ IsMap(checked)
          /\ \A f \in fired' : f \in fired /\ f.slot < clock
      BY <1>1, <1>4, <2>5 DEF EvalBegin, TypeOK
    <3>2. ASSUME NEW n \in markers' PROVE n.slot <= clock /\ n.slot <= lastTick
      <4>1. PICK m \in markers : n.slot = (IF m.slot > clock THEN clock - 1 ELSE m.slot)
        BY <2>3, <3>1, PutBackIsMap
      <4>2. m.slot \in Int
        BY <2>2 DEF Entries
      <4>. QED
        BY <2>3, <2>5, <4>1, <4>2
    <3>3. ASSUME NEW n \in checked' PROVE n.slot <= clock /\ n.slot <= lastTick
      <4>1. PICK m \in checked : n.slot = (IF m.slot >= clock THEN clock - 1 ELSE m.slot)
        BY <2>3, <3>1, ComeAgainIsMap
      <4>2. m.slot \in Int
        BY <2>2 DEF Entries
      <4>. QED
        BY <2>3, <2>5, <4>1, <4>2
    <3>4. ASSUME NEW n \in fired' PROVE n.slot <= clock /\ n.slot <= lastTick
      <4>1. n.slot \in Int /\ n.slot < clock
        BY <2>2, <3>1 DEF Entries
      <4>. QED
        BY <2>3, <2>5, <4>1
    <3>. QED
      BY <2>1, <3>2, <3>3, <3>4 DEF NotAhead, Entries
  <2>. QED
    BY <2>4, <2>5
<1>5. CASE EvalRead
  <2> DEFINE on == {Key(t) : t \in {u \in Types : table[u].on}}
  <2>1. /\ eval.pc = "read" /\ eval' = [eval EXCEPT !.pc = "row", !.todo = on, !.keys = on]
        /\ UNCHANGED <<markers, history>>
    BY <1>5 DEF EvalRead
  <2> HIDE DEF on
  <2>2. eval'.pc = "row" /\ eval'.slot = eval.slot
    BY <1>1, <2>1 DEF TypeOK
  <2>. QED
    BY <1>1, <2>1, <2>2 DEF NotAhead, Entries, history
<1>6. CASE EvalReadFails
  <2>1. eval.pc = "read" /\ eval'.pc = "idle" /\ UNCHANGED <<markers, checked, fired, lastTick>>
    BY <1>6 DEF EvalReadFails, NoEval, history
  <2>. QED
    BY <1>1, <2>1 DEF NotAhead, Entries
<1>7. CASE EvalRow
  <2>1. PICK key \in eval.keys :
          EvalNotDue(key) \/ EvalSkip(key) \/ EvalFree(key) \/ EvalDispatch(key)
            \/ EvalRefused(key) \/ EvalRowFails(key)
    BY <1>7 DEF EvalRow
  <2>2. /\ eval.pc \in {"row", "enqueue"} /\ eval'.pc \in {"row", "enqueue"}
        /\ eval'.slot = eval.slot /\ eval.slot \in Slots
    BY <2>1, RowShape
  <2>3. \A m \in Entries' : m \in Entries \/ m.slot = eval.slot
    BY <2>1 DEF EvalNotDue, EvalSkip, EvalFree, EvalDispatch, EvalRefused, EvalRowFails, history,
                Recorded, Entries
  <2>4. eval.slot <= eval.slot
    BY <2>2, SlotsAreIntegers
  <2>5. \A m \in Entries : m.slot <= eval.slot
    BY <1>1, <2>2 DEF NotAhead
  <2>. QED
    BY <2>2, <2>3, <2>4, <2>5 DEF NotAhead
<1>8. CASE EvalEnd
  <2>1. /\ eval.pc = "row" /\ eval'.pc = "idle" /\ lastTick' = eval.slot
        /\ markers' \subseteq markers /\ UNCHANGED <<checked, fired>>
    BY <1>8 DEF EvalEnd, NoEval, history
  <2>. QED
    BY <1>1, <2>1 DEF NotAhead, Entries
<1>. QED
  BY <1>2, <1>3, <1>4, <1>5, <1>6, <1>7, <1>8, NextCases
-----------------------------------------------------------------------------
(***************************************************************************)
(* A dispatch leaves a marker for as long as it could be repeated.         *)
(***************************************************************************)

\* A key that a save makes current was not dispatched since it was saved.
LEMMA EditKeys ==
  ASSUME TypeOK, EditStep
  PROVE  /\ UNCHANGED <<markers, eval>> /\ fired' \subseteq fired
         /\ \A f \in fired' : f.key \in OnKeys' => f.key \in OnKeys
<1>1. CASE \E t \in Types : RemoveSchedule(t)
  <2>1. PICK t \in Types : RemoveSchedule(t)
    BY <1>1
  <2>2. /\ table' = [table EXCEPT ![t] = [table[t] EXCEPT !.on = FALSE]]
        /\ UNCHANGED <<markers, eval, fired>>
    BY <2>1 DEF RemoveSchedule, memory, history
  <2>3. \A u \in Types : table'[u].on => table[u].on /\ table'[u] = table[u]
    BY <2>2 DEF TypeOK
  <2>4. OnKeys' \subseteq OnKeys
    BY <2>3 DEF OnKeys, Key
  <2>. QED
    BY <2>2, <2>4
<1>2. CASE \E t \in Types, id \in 0..MaxEdits, e \in Exprs :
             SetSchedule(t, e, id) \/ UpdateServerSettings(t, e, id)
  <2>1. PICK t \in Types, id \in 0..MaxEdits, e \in Exprs : Save(t, e, id)
    BY <1>2 DEF SetSchedule, UpdateServerSettings
  <2>2. /\ table' = [table EXCEPT ![t] = [on |-> TRUE, id |-> id, expr |-> e]]
        /\ UNCHANGED <<markers, eval>>
        /\ \A f \in fired' : f \in fired /\ (f.key.type # t \/ f.key.id # id)
    BY <2>1 DEF Save, Without
  <2>3. \A u \in Types : u # t => table'[u] = table[u]
    BY <2>2 DEF TypeOK
  <2>4. table'[t].id = id
    BY <2>2 DEF TypeOK
  <2>5. ASSUME NEW f \in fired', f.key \in OnKeys' PROVE f.key \in OnKeys
    <3>1. PICK u \in Types :
            table'[u].on /\ f.key = [type |-> u, id |-> table'[u].id, expr |-> table'[u].expr]
      BY <2>5 DEF OnKeys, Key
    <3>2. u # t
      BY <2>2, <2>4, <3>1
    <3>. QED
      BY <2>3, <3>1, <3>2 DEF OnKeys, Key
  <2>. QED
    BY <2>2, <2>5
<1>. QED
  BY <1>1, <1>2 DEF EditStep

\* Of the outcomes of a row only a dispatch changes fired, and it leaves a marker.
LEMMA FiredRow ==
  ASSUME CronInv, NEW key \in eval.keys,
         EvalNotDue(key) \/ EvalSkip(key) \/ EvalFree(key) \/ EvalDispatch(key)
           \/ EvalRefused(key) \/ EvalRowFails(key)
  PROVE  FiredMarked'
<1>1. /\ eval.pc \in {"row", "enqueue"} /\ eval.slot \in Slots /\ eval'.slot = eval.slot
      /\ eval'.keys = eval.keys /\ table' = table
      /\ eval'.pc \in {"row", "enqueue"}
      /\ eval'.pc = "row" => eval'.cur = {}
      /\ eval'.pc = "enqueue" => eval'.cur = {key}
  BY RowShape
<1>2. TypeOK /\ FiredMarked /\ NotAhead /\ EvalShape
  BY DEF CronInv
<1>3. OnKeys' = OnKeys
  BY <1>1 DEF OnKeys, Key
<1>4. \A m \in Entries : m.slot <= eval.slot
  BY <1>1, <1>2 DEF NotAhead
<1>5. CASE EvalNotDue(key) \/ EvalRowFails(key)
  <2>1. UNCHANGED <<markers, fired>> /\ eval'.cur = {}
    BY <1>2, <1>5 DEF EvalNotDue, EvalRowFails, Done, history, TypeOK
  <2>. QED
    BY <1>1, <1>2, <1>3, <2>1 DEF FiredMarked
<1>6. CASE EvalFree(key)
  <2>1. UNCHANGED <<markers, fired>> /\ Due(key)
    BY <1>6 DEF EvalFree, history
  <2>2. ASSUME NEW m \in markers, m.key = key PROVE m.slot < eval.slot
    <3>1. Has(markers, key) /\ At(markers, key) = m.slot
      BY <1>2, <2>2, AtIsSlot DEF TypeOK
    <3>2. \E s \in Larger(m.slot + 1, eval.slot - CatchUp)..eval.slot : s \in Asks[key.expr]
      BY <2>1, <3>1 DEF Due
    <3>3. m.slot \in Int /\ eval.slot \in Int /\ CatchUp \in Int
      BY <1>2, SlotTypes DEF Entries
    <3>. QED
      BY <3>2, <3>3 DEF Larger
  <2>3. eval'.cur = {key}
    BY <1>2, <1>6 DEF EvalFree, TypeOK
  <2>. QED
    BY <1>1, <1>2, <1>3, <2>1, <2>2, <2>3 DEF FiredMarked
<1>7. CASE EvalSkip(key) \/ EvalDispatch(key) \/ EvalRefused(key)
  <2>1. eval'.cur = {}
    BY <1>2, <1>7 DEF EvalSkip, EvalDispatch, EvalRefused, Done, TypeOK
  <2>2. \A f \in fired' : f \in fired \/ (f.key = key /\ f.slot = eval.slot)
    BY <1>7 DEF EvalSkip, EvalDispatch, EvalRefused, Recorded
  <2>3. \A m \in markers : m.key # key => m \in markers'
    BY <1>7 DEF EvalSkip, EvalDispatch, EvalRefused, Recorded
  <2>4. \E m \in markers' : m.key = key /\ m.slot = eval.slot
    <3>1. [key |-> key, slot |-> eval.slot] \in markers'
      BY <1>7 DEF EvalSkip, EvalDispatch, EvalRefused, Recorded
    <3>. QED
      BY <3>1
  <2>5. \A f \in fired' : f.slot <= eval.slot
    <3>1. eval.slot <= eval.slot
      BY <1>1, SlotsAreIntegers
    <3>. QED
      BY <1>4, <2>2, <3>1 DEF Entries
  <2>6. ASSUME NEW f \in fired', f.key \in OnKeys \cup eval.keys
        PROVE  \E m \in markers' : m.key = f.key /\ f.slot <= m.slot
    <3>1. CASE f.key = key
      BY <2>4, <2>5, <3>1
    <3>2. CASE f.key # key
      BY <1>2, <2>2, <2>3, <2>6, <3>2 DEF FiredMarked
    <3>. QED
      BY <3>1, <3>2
  <2>7. \A f \in fired' : f.key \in OnKeys => f.key \in eval.keys
    BY <1>1, <1>2, <2>2 DEF FiredMarked
  <2>. QED
    BY <1>1, <1>3, <2>1, <2>6, <2>7 DEF FiredMarked
<1>. QED
  BY <1>5, <1>6, <1>7

\* A clock that is set back forgets the dispatches of the minutes to come.
LEMMA FiredBegin ==
  ASSUME CronInv, EvalBegin
  PROVE  FiredMarked'
<1>1. TypeOK /\ FiredMarked /\ EvalShape
  BY DEF CronInv
<1>2. /\ eval.pc = "idle" /\ eval'.pc = "read" /\ eval'.keys = {} /\ eval'.cur = {}
      /\ table' = table
  BY DEF EvalBegin, EvalFrame, NoEval
<1>3. OnKeys' = OnKeys
  BY <1>2 DEF OnKeys, Key
<1>4. CASE ~(clock < lastTick)
  <2>1. UNCHANGED <<markers, fired>>
    BY <1>4 DEF EvalBegin, history
  <2>. QED
    BY <1>1, <1>2, <1>3, <2>1 DEF FiredMarked
<1>5. CASE clock < lastTick
  <2>1. /\ markers' = PutBack(markers, clock) /\ IsMap(markers)
        /\ \A f \in fired' : f \in fired /\ f.slot < clock
    BY <1>1, <1>5 DEF EvalBegin, TypeOK
  <2>2. clock \in Slots /\ clock \in Int
    BY <1>1, SlotTypes
  <2>3. ASSUME NEW f \in fired', f.key \in OnKeys
        PROVE  \E n \in markers' : n.key = f.key /\ f.slot <= n.slot
    <3>1. PICK m \in markers : m.key = f.key /\ f.slot <= m.slot
      BY <1>1, <2>1, <2>3 DEF FiredMarked
    <3>2. PICK n \in markers' :
            n.key = m.key /\ n.slot = (IF m.slot > clock THEN clock - 1 ELSE m.slot)
      BY <2>1, <2>2, PutBackIsMap
    <3>3. f.slot < clock /\ f.slot \in Int /\ m.slot \in Int
      BY <1>1, <2>1, SlotTypes DEF Entries
    <3>4. f.slot <= n.slot
      BY <2>2, <3>1, <3>2, <3>3
    <3>. QED
      BY <3>1, <3>2, <3>4
  <2>. QED
    BY <1>2, <1>3, <2>3 DEF FiredMarked
<1>. QED
  BY <1>4, <1>5

\* No step takes the marker from a dispatch that could be repeated.
LEMMA FiredStep ==
  ASSUME CronInv, [Next]_vars
  PROVE  FiredMarked'
<1>1. TypeOK /\ EvalShape /\ FiredMarked
  BY DEF CronInv
<1>2. CASE ClockForward \/ BackStep \/ TaskStep \/ UNCHANGED vars
  <2>1. UNCHANGED <<table, eval, markers, fired>>
    BY <1>2 DEF ClockForward, BackStep, ClockBack, TaskStep, TaskEnds, TaskEnqueuedByHand,
                vars, memory, history
  <2>2. OnKeys' = OnKeys
    BY <2>1 DEF OnKeys, Key
  <2>. QED
    BY <1>1, <2>1, <2>2 DEF FiredMarked
<1>3. CASE EditStep
  BY <1>1, <1>3, EditKeys DEF FiredMarked
<1>4. CASE ClearStep
  <2>1. PICK t \in Types, id \in 0..MaxEdits : SetScheduleClear(t, id)
    BY <1>4 DEF ClearStep
  <2>2. /\ markers' \subseteq markers
        /\ \A m \in markers : m.key.type # t \/ m.key.id # id => m \in markers'
        /\ \A f \in fired' : f \in fired /\ (f.key.type # t \/ f.key.id # id)
        /\ UNCHANGED <<table, eval>> /\ eval.pc = "idle"
    BY <2>1 DEF SetScheduleClear, Without
  <2>3. OnKeys' = OnKeys
    BY <2>2 DEF OnKeys, Key
  <2>4. ASSUME NEW f \in fired', f.key \in OnKeys \cup eval.keys
        PROVE  \E m \in markers' : m.key = f.key /\ f.slot <= m.slot
    BY <1>1, <2>2, <2>4 DEF FiredMarked
  <2>. QED
    BY <1>1, <2>2, <2>3, <2>4 DEF FiredMarked
<1>5. CASE Restart
  BY <1>5 DEF Restart, FiredMarked
<1>6. CASE EvalBegin
  BY <1>6, FiredBegin
<1>7. CASE EvalRead
  <2>1. /\ eval.pc = "read" /\ eval' = [eval EXCEPT !.pc = "row", !.todo = OnKeys, !.keys = OnKeys]
        /\ UNCHANGED <<table, markers, fired>>
    BY <1>7 DEF EvalRead, OnKeys, EvalFrame, history
  <2>2. OnKeys' = OnKeys
    BY <2>1 DEF OnKeys, Key
  <2>3. eval'.pc = "row" /\ eval'.keys = OnKeys /\ eval'.cur = {}
    BY <1>1, <2>1 DEF TypeOK, EvalShape
  <2>. QED
    BY <1>1, <2>1, <2>2, <2>3 DEF FiredMarked
<1>8. CASE EvalReadFails
  <2>1. /\ eval'.pc = "idle" /\ eval'.keys = {} /\ eval'.cur = {}
        /\ UNCHANGED <<table, markers, fired>>
    BY <1>8 DEF EvalReadFails, EvalFrame, NoEval, history
  <2>2. OnKeys' = OnKeys
    BY <2>1 DEF OnKeys, Key
  <2>. QED
    BY <1>1, <2>1, <2>2 DEF FiredMarked
<1>9. CASE EvalRow
  BY <1>9, FiredRow DEF EvalRow
<1>10. CASE EvalEnd
  <2>1. /\ eval.pc = "row" /\ eval'.pc = "idle" /\ eval'.keys = {} /\ eval'.cur = {}
        /\ markers' = {m \in markers : m.key \in eval.keys}
        /\ UNCHANGED <<table, fired>>
    BY <1>10 DEF EvalEnd, EvalFrame, NoEval, history
  <2>2. OnKeys' = OnKeys
    BY <2>1 DEF OnKeys, Key
  <2>. QED
    BY <1>1, <2>1, <2>2 DEF FiredMarked
<1>. QED
  BY <1>2, <1>3, <1>4, <1>5, <1>6, <1>7, <1>8, <1>9, <1>10, NextCases

-----------------------------------------------------------------------------
\* A server that has just started.
LEMMA CronInitially == Init => CronInv
<1> SUFFICES ASSUME Init PROVE CronInv
  OBVIOUS
<1>1. TypeOK
  <2>1. table \in [Types -> [on : BOOLEAN, id : 0..MaxEdits, expr : Exprs]]
    <3>1. 0 \in 0..MaxEdits
      BY CronBoundsAssumption
    <3>2. \A r \in [on : {FALSE}, id : {0}, expr : Exprs] :
            r \in [on : BOOLEAN, id : 0..MaxEdits, expr : Exprs]
      BY <3>1
    <3>3. table \in [Types -> [on : {FALSE}, id : {0}, expr : Exprs]]
      BY DEF Init
    <3>. QED
      BY <3>2, <3>3
  <2>2. IsMap(markers) /\ IsMap(checked) /\ IsMap(fired)
    BY EmptyIsMap DEF Init
  <2>3. clock \in Slots /\ edits \in 0..MaxEdits /\ jumps \in 0..MaxJumps
    BY CronBoundsAssumption DEF Init, Slots
  <2>. QED
    BY <2>1, <2>2, <2>3 DEF Init, TypeOK, NoEval
<1>2. EvalShape /\ Answered /\ NotAhead /\ FiredMarked
  BY DEF Init, EvalShape, Answered, NotAhead, FiredMarked, Entries, NoEval
<1>. QED
  BY <1>1, <1>2 DEF CronInv

\* The invariant is inductive.
LEMMA CronStep == CronInv /\ [Next]_vars => CronInv'
  BY TypeStep, ShapeStep, AnsweredStep, NotAheadStep, FiredStep DEF CronInv

\* The invariant of the cron loop.
LEMMA CronInvariant == Spec => []CronInv
  BY CronInitially, CronStep, PTL DEF Spec

\* The variables keep their types, the three maps hold one slot for a key, and
\* an evaluation has the shape of evaluate_schedules_at.
THEOREM CronTypes == Spec => []TypeOK
<1>1. CronInv => TypeOK
  BY DEF CronInv
<1>. QED
  BY <1>1, CronInvariant, PTL

\* No minute that a schedule asked for since it last fired is lost, in any
\* order of ticks, failures, saves and clock adjustments, for every length of
\* the catch-up window (evaluate_schedules_at).
THEOREM NoMinuteMissed == Spec => []NoMissedSlot
<1>1. ASSUME CronInv PROVE NoMissedSlot
  <2>1. TypeOK /\ Answered
    BY <1>1 DEF CronInv
  <2>2. ASSUME NEW m \in markers, NEW s \in Asks[m.key.expr], m.slot < s
        PROVE  s > At(checked, m.key)
    <3>1. PICK c \in checked : c.key = m.key
      BY <2>1 DEF Answered
    <3>2. s > c.slot
      BY <2>1, <2>2, <3>1 DEF Answered
    <3>3. At(checked, m.key) = c.slot
      BY <2>1, <3>1, AtIsSlot DEF TypeOK
    <3>. QED
      BY <3>2, <3>3
  <2>. QED
    BY <2>2 DEF NoMissedSlot
<1>. QED
  BY <1>1, CronInvariant, PTL

\* A marker is never ahead of the last evaluation, so the next one notices that
\* the clock was set back (evaluate_schedules_at).
THEOREM MarkersBehind == Spec => []MarkersNotAhead
<1>1. CronInv => MarkersNotAhead
  BY DEF CronInv, NotAhead, Entries, MarkersNotAhead, TypeOK
<1>. QED
  BY <1>1, CronInvariant, PTL

\* A schedule is dispatched once for a minute, whatever happens within it
\* (evaluate_schedules_at).
THEOREM DispatchedOnce == Spec => FiredOnce
<1>1. ASSUME CronInv, [Next]_vars
      PROVE  [\A key \in eval.cur :
                EvalDispatch(key) /\ Has(fired, key) => eval.slot > At(fired, key)]_vars
  <2>1. TypeOK /\ EvalShape /\ FiredMarked
    BY <1>1 DEF CronInv
  <2>2. ASSUME NEW key \in eval.cur, EvalDispatch(key), Has(fired, key)
        PROVE  eval.slot > At(fired, key)
    <3>1. PICK f \in fired : f.key = key
      BY <2>2 DEF Has
    <3>2. At(fired, key) = f.slot
      BY <2>1, <3>1, AtIsSlot DEF TypeOK
    <3>3. PICK m \in markers : m.key = key /\ f.slot <= m.slot
      BY <2>1, <3>1 DEF EvalShape, FiredMarked
    <3>4. m.slot < eval.slot
      BY <2>1, <3>3 DEF FiredMarked
    <3>5. f.slot \in Int /\ m.slot \in Int /\ eval.slot \in Int
      BY <2>1, SlotTypes DEF Entries
    <3>. QED
      BY <3>2, <3>3, <3>4, <3>5
  <2>. QED
    BY <2>2
<1>. QED
  BY <1>1, CronInvariant, PTL DEF Spec, FiredOnce
=============================================================================
