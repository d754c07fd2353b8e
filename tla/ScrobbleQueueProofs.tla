------------------------ MODULE ScrobbleQueueProofs ------------------------
(***************************************************************************)
(* For every number of listens, accounts, operations and restarts: the     *)
(* types of the outbox, that a listen is submitted only for the account it *)
(* was queued for, and that the whole implements ListenOutbox.             *)
(*                                                                         *)
(* The inductive invariant adds that a row keeps its account once it is    *)
(* queued, that generations are counted by the operations that may still   *)
(* raise them, and what the worker knows at each of its places.            *)
(***************************************************************************)
EXTENDS ScrobbleQueue, TLAPS

\* The places of the worker at which it has a row.
Busy == {"permit", "fetch", "check", "send", "drop", "finish", "commit", "record"}

Queued(l) == queue[l].state \notin Unqueued

QueueInv ==
  /\ queue \in [Listens -> Row]
  /\ \A l \in Listens : Queued(l) => queue[l].account \in Accounts

ConnInv ==
  /\ conn \in Connection
  /\ change \in [pc : {"none", "validate", "save", "verify", "unblock"},
                 account : Accounts \cup {NoAccount}, gen : 0..MaxOps]
  /\ ops \in 0..MaxOps
  /\ conn.gen <= ops /\ (change.pc \in {"validate", "save"} => conn.gen < ops)
  /\ change.pc = "save" => change.account \in Accounts
  /\ conn.enabled => conn.account \in Accounts

Workers == [pc : WorkerPcs, job : Listens \cup {NoListen}, gen : 0..MaxOps,
            permit : BOOLEAN, seen : Connection, reached : BOOLEAN, result : Results]

WorkerInv ==
  /\ worker \in Workers
  /\ worker.pc \in Busy => worker.job \in Listens /\ Queued(worker.job)
  /\ worker.pc = "send" => worker.seen.account = queue[worker.job].account
  /\ worker.pc \in {"finish", "commit"} =>
       worker.result # "none" /\ (worker.result = "ok" => worker.reached)
  /\ worker.pc \in Busy /\ worker.reached => \E s \in accepted : s.listen = worker.job

AcceptedInv ==
  /\ accepted \subseteq [listen : Listens, account : Accounts]
  /\ \A s \in accepted : Queued(s.listen) /\ s.account = queue[s.listen].account

RestInv ==
  /\ dbPolicy \in BOOLEAN /\ policy \in BOOLEAN /\ suspended \in BOOLEAN /\ stopped \in BOOLEAN
  /\ retrying \in Accounts \cup {NoAccount}
  /\ policies \in 0..MaxPolicies /\ restarts \in 0..MaxRestarts

OutboxInv == QueueInv /\ ConnInv /\ WorkerInv /\ AcceptedInv /\ RestInv

-----------------------------------------------------------------------------
(* The initial states, and the rows                                        *)

\* The initial states satisfy the invariant (an empty database).
LEMMA OutboxInitially == Init => OutboxInv
<1> SUFFICES ASSUME Init PROVE OutboxInv
  OBVIOUS
<1>1. QueueInv
  BY DEF Init, QueueInv, Queued, Unheard, Row, States, Unqueued, NoAccount
<1>2. MaxOps \in Nat /\ MaxPolicies \in Nat /\ MaxRestarts \in Nat
  BY OutboxBoundsAssumption
<1>3. NotConnected \in Connection
  BY <1>2 DEF NotConnected, Connection
<1>4. ConnInv
  BY <1>2, <1>3 DEF Init, ConnInv, NotConnected, NoChange
<1>5. WorkerInv
  BY <1>2, <1>3 DEF Init, WorkerInv, Workers, WorkerAt, WorkerPcs, Results, Busy
<1>6. AcceptedInv
  BY DEF Init, AcceptedInv
<1>7. RestInv
  <2>1. policies \in 0..MaxPolicies /\ restarts \in 0..MaxRestarts
    BY <1>2 DEF Init
  <2>. QED
    BY <2>1, Zenon DEF Init, RestInv
<1>. QED
  BY <1>1, <1>4, <1>5, <1>6, <1>7 DEF OutboxInv

\* The rows q are those of the queue but for state, attempts and time, and no
\* session enters or leaves the table.
Kept(q) ==
  /\ q \in [Listens -> Row]
  /\ \A l \in Listens : /\ q[l].account = queue[l].account
                        /\ q[l].state \in Unqueued <=> queue[l].state \in Unqueued

\* What is moved from an unsent state to another or to cancelled.
LEMMA MoveKeeps ==
  ASSUME QueueInv, NEW S \in SUBSET InStates(Unsent), NEW s \in Unsent \cup {"cancelled"},
         NEW due \in BOOLEAN
  PROVE  Kept(Move(S, s, due))
<1> SUFFICES ASSUME NEW l \in Listens
             PROVE  LET row == Move(S, s, due)[l]
                    IN row \in Row /\ row.account = queue[l].account
                       /\ (row.state \in Unqueued <=> queue[l].state \in Unqueued)
  BY DEF Kept, Move
<1>1. queue[l] \in Row
  BY DEF QueueInv
<1>2. CASE l \in S
  <2>1. queue[l].state \in Unsent
    BY <1>2 DEF InStates
  <2>. QED
    BY <1>1, <1>2, <2>1 DEF Move, Row, States, Unsent, Unqueued
<1>3. CASE l \notin S
  BY <1>1, <1>3 DEF Move
<1>. QED
  BY <1>2, <1>3

\* Rows in one of the states.
LEMMA InStatesUnsent ==
  ASSUME NEW T \in SUBSET Unsent
  PROVE  InStates(T) \in SUBSET InStates(Unsent)
  BY DEF InStates

\* A cancellation keeps the rows, and so does the queue itself.
LEMMA CancelledKeeps == QueueInv => Kept(Cancelled) /\ Kept(queue)
<1>1. QueueInv => Kept(Cancelled)
  BY MoveKeeps, InStatesUnsent DEF Cancelled
<1>. QED
  BY <1>1 DEF QueueInv, Kept

\* Sessions that have become stale are still not in the table.
LEMMA AgedKeeps ==
  ASSUME NEW q, Kept(q)
  PROVE  Kept(Aged(q))
<1> SUFFICES ASSUME NEW l \in Listens
             PROVE  LET row == Aged(q)[l]
                    IN row \in Row /\ row.account = queue[l].account
                       /\ (row.state \in Unqueued <=> queue[l].state \in Unqueued)
  BY DEF Kept, Aged
<1>. QED
  BY DEF Kept, Aged, Row, States, Unqueued

\* So are the rows whose lease is recovered.
LEMMA RecoveredKeeps ==
  ASSUME QueueInv
  PROVE  Kept(Recovered(queue))
<1> SUFFICES ASSUME NEW l \in Listens
             PROVE  LET row == Recovered(queue)[l]
                    IN row \in Row /\ row.account = queue[l].account
                       /\ (row.state \in Unqueued <=> queue[l].state \in Unqueued)
  BY DEF Kept, Recovered
<1>. QED
  BY DEF QueueInv, Recovered, Row, States, Unqueued, Unsent

\* While rows are kept, what is known of them and of what was accepted stays.
LEMMA RowsFollow ==
  ASSUME QueueInv, AcceptedInv, Kept(queue'), UNCHANGED accepted
  PROVE  QueueInv' /\ AcceptedInv'
<1>1. QueueInv'
  BY DEF QueueInv, Kept, Queued
<1>2. AcceptedInv'
  <2> SUFFICES ASSUME NEW s \in accepted PROVE Queued(s.listen)' /\ s.account = queue'[s.listen].account
    BY DEF AcceptedInv
  <2>1. s.listen \in Listens
    BY DEF AcceptedInv
  <2>. QED
    BY <2>1 DEF AcceptedInv, Kept, Queued
<1>. QED
  BY <1>1, <1>2

\* A step that leaves the worker and the connection alone and keeps the rows.
LEMMA WorkerStays ==
  ASSUME QueueInv, WorkerInv, Kept(queue'), UNCHANGED <<worker, accepted>>
  PROVE  WorkerInv'
<1>1. worker.pc \in Busy => worker.job \in Listens /\ Queued(worker.job)'
                            /\ queue'[worker.job].account = queue[worker.job].account
  BY DEF WorkerInv, Kept, Queued
<1>2. worker.pc = "send" => worker.pc \in Busy
  BY DEF Busy
<1>. QED
  BY <1>1, <1>2 DEF WorkerInv

\* A step of anybody but the worker, as far as the rows go.
LEMMA QuietStep ==
  ASSUME OutboxInv, Kept(queue'), UNCHANGED <<worker, accepted>>, ConnInv', RestInv'
  PROVE  OutboxInv'
  BY RowsFollow, WorkerStays DEF OutboxInv

\* What a step leaves alone.
LEMMA ConnStays == ConnInv /\ UNCHANGED <<conn, change, ops>> => ConnInv'
  BY DEF ConnInv
LEMMA RestStays ==
  RestInv /\ UNCHANGED <<dbPolicy, policy, suspended, stopped, retrying, policies, restarts>> => RestInv'
  BY DEF RestInv

-----------------------------------------------------------------------------
(* The steps                                                               *)

\* Listening and time preserve the invariant (enqueue_playback_on_conn).
LEMMA ListeningKeeps ==
  ASSUME OutboxInv,
         (\E l \in Listens : StartSession(l) \/ Enqueue(l) \/ Elapse(l)) \/ PauseEnds
  PROVE  OutboxInv'
<1>0. QueueInv /\ ConnInv /\ WorkerInv /\ AcceptedInv /\ RestInv
  BY DEF OutboxInv
<1>1. ASSUME NEW l \in Listens, StartSession(l) \/ Elapse(l) PROVE OutboxInv'
  <2>1. Kept(queue')
    <3>1. queue[l] \in Row
      BY <1>0 DEF QueueInv
    <3>2. PICK row \in {[queue[l] EXCEPT !.state = "playing"], [queue[l] EXCEPT !.due = TRUE]} :
            queue' = [queue EXCEPT ![l] = row] /\ (row.state = queue[l].state \/ queue[l].state = "unheard")
      BY <1>1, <3>1 DEF StartSession, Elapse, Row
    <3>3. /\ row \in Row /\ row.account = queue[l].account
          /\ row.state \in Unqueued <=> queue[l].state \in Unqueued
      BY <3>1, <3>2 DEF Row, States, Unqueued
    <3>4. /\ queue' \in [Listens -> Row] /\ queue'[l] = row
          /\ \A k \in Listens \ {l} : queue'[k] = queue[k]
      BY <1>0, <3>2, <3>3 DEF QueueInv
    <3>. QED
      BY <3>3, <3>4 DEF Kept
  <2>. QED
    BY <1>0, <1>1, <2>1, QuietStep, ConnStays, RestStays DEF StartSession, Elapse, privacy, counters
<1>2. ASSUME NEW l \in Listens, Enqueue(l) PROVE OutboxInv'
  <2>1. conn.account \in Accounts /\ ~Queued(l)
    BY <1>0, <1>2 DEF Enqueue, ConnInv, Queued, Unqueued
  <2>2. /\ queue' \in [Listens -> Row]
        /\ queue'[l].account = conn.account /\ queue'[l].state = "pending"
        /\ \A k \in Listens \ {l} : queue'[k] = queue[k]
    BY <1>0, <1>2, <2>1 DEF Enqueue, QueueInv, Row, States, Unsent
  <2>3. QueueInv'
    BY <1>0, <2>1, <2>2 DEF QueueInv, Queued
  <2>4. \A k \in Listens : Queued(k) => Queued(k)' /\ queue'[k].account = queue[k].account
    BY <2>1, <2>2 DEF Queued
  <2>5. UNCHANGED <<conn, dbPolicy, policy, suspended, stopped, worker, change, retrying, accepted,
                    ops, policies, restarts>>
    BY <1>2 DEF Enqueue, privacy, counters
  <2>6. WorkerInv'
    BY <1>0, <2>4, <2>5 DEF WorkerInv, Busy
  <2>7. AcceptedInv'
    <3> SUFFICES ASSUME NEW s \in accepted PROVE Queued(s.listen)' /\ s.account = queue'[s.listen].account
      BY <1>0, <2>5 DEF AcceptedInv
    <3>1. s.listen \in Listens
      BY <1>0 DEF AcceptedInv
    <3>. QED
      BY <1>0, <2>4, <3>1 DEF AcceptedInv
  <2>. QED
    BY <1>0, <2>3, <2>5, <2>6, <2>7, ConnStays, RestStays DEF OutboxInv
<1>3. CASE PauseEnds
  <2>1. Kept(queue')
    BY <1>0, <1>3, CancelledKeeps DEF PauseEnds
  <2>2. ConnInv'
    BY <1>0, <1>3 DEF PauseEnds, ConnInv, Connection, counters
  <2>. QED
    BY <1>0, <1>3, <2>1, <2>2, QuietStep, RestStays DEF PauseEnds, privacy, counters
<1>. QED
  BY <1>1, <1>2, <1>3

\* Connecting, testing, disconnecting and retrying preserve the invariant
\* (save_connection, disconnect, test_connection, retry).
LEMMA ChangesKeep ==
  ASSUME OutboxInv,
         ConnectBegin \/ Disconnect \/ TestBegin \/ ChangeStep \/ RetryCheck \/ RetryWrite
  PROVE  OutboxInv'
<1>0. /\ QueueInv /\ ConnInv /\ WorkerInv /\ AcceptedInv /\ RestInv
      /\ Kept(queue) /\ Kept(Cancelled) /\ MaxOps \in Nat
  BY CancelledKeeps, OutboxBoundsAssumption DEF OutboxInv
<1>1. CASE ConnectBegin
  <2>1. ConnInv'
    BY <1>0, <1>1 DEF ConnectBegin, BeginChange, ConnInv, NoChange, Connection
  <2>. QED
    BY <1>0, <1>1, <2>1, QuietStep, RestStays DEF ConnectBegin, ChangeFrame, privacy
<1>2. ASSUME NEW a \in Accounts, ConnectValidate(a) PROVE OutboxInv'
  <2>1. ConnInv'
    BY <1>0, <1>2 DEF ConnectValidate, ConnInv
  <2>. QED
    BY <1>0, <1>2, <2>1, QuietStep, RestStays DEF ConnectValidate, ChangeFrame, privacy
<1>3. CASE ConnectFail
  <2>1. ConnInv'
    BY <1>0, <1>3 DEF ConnectFail, ConnInv, NoChange
  <2>. QED
    BY <1>0, <1>3, <2>1, QuietStep, RestStays DEF ConnectFail, ChangeFrame, privacy
<1>4. CASE ConnectSave
  <2>1. Kept(queue')
    <3>1. Kept(Move(InStates({"blocked", "sending"}), "pending", TRUE))
      BY <1>0, MoveKeeps, InStatesUnsent DEF Unsent
    <3>2. Kept(Aged(Cancelled))
      BY <1>0, AgedKeeps
    <3>. QED
      BY <1>4, <3>1, <3>2 DEF ConnectSave
  <2>2. ConnInv'
    <3>1. conn.gen \in 0..MaxOps /\ conn.gen < ops /\ change.account \in Accounts
      BY <1>0, <1>4 DEF ConnectSave, ConnInv, Connection
    <3>2. /\ conn' = [enabled |-> TRUE, account |-> change.account, gen |-> conn.gen + 1,
                       broken |-> FALSE, paused |-> FALSE]
          /\ change' = NoChange /\ ops' = ops
      BY <1>4, Zenon DEF ConnectSave
    <3>3. ops \in 0..MaxOps /\ conn.gen + 1 \in 0..MaxOps
      BY <1>0, <3>1 DEF ConnInv
    <3>4. conn' \in Connection /\ conn'.gen <= ops'
      BY <3>1, <3>2, <3>3 DEF Connection
    <3>5. /\ change' \in [pc : {"none", "validate", "save", "verify", "unblock"},
                           account : Accounts \cup {NoAccount}, gen : 0..MaxOps]
          /\ change'.pc = "none" /\ ops' \in 0..MaxOps
      BY <1>0, <3>2, <3>3 DEF NoChange
    <3>. QED
      BY <3>1, <3>2, <3>4, <3>5 DEF ConnInv
  <2>. QED
    BY <1>0, <1>4, <2>1, <2>2, QuietStep, RestStays DEF ConnectSave, ChangeFrame, privacy
<1>5. CASE Disconnect
  <2>1. ConnInv'
    <3>1. conn.gen \in 0..MaxOps /\ conn.gen <= ops
      BY <1>0 DEF ConnInv, Connection
    <3>2. /\ conn' = [conn EXCEPT !.enabled = FALSE, !.gen = @ + 1, !.broken = FALSE, !.paused = FALSE]
          /\ change' = change /\ change.pc = "none" /\ ops' = ops + 1 /\ ops < MaxOps
      BY <1>5 DEF Disconnect, BeginChange, NoChange
    <3>3. ops' \in 0..MaxOps /\ conn.gen + 1 \in 0..MaxOps /\ conn.gen + 1 <= ops'
      BY <1>0, <3>1, <3>2 DEF ConnInv
    <3>4. conn' \in Connection /\ conn'.gen <= ops' /\ ~conn'.enabled
      BY <1>0, <3>2, <3>3 DEF ConnInv, Connection
    <3>. QED
      BY <1>0, <3>2, <3>3, <3>4 DEF ConnInv
  <2>. QED
    BY <1>0, <1>5, <2>1, QuietStep, RestStays DEF Disconnect, BeginChange, ChangeFrame, privacy
<1>6. CASE TestBegin
  <2>1. ConnInv'
    <3>1. conn.gen \in 0..MaxOps /\ conn.gen <= ops /\ ops \in 0..MaxOps
      BY <1>0 DEF ConnInv, Connection
    <3>2. conn' = conn /\ ops' = ops + 1 /\ ops < MaxOps
          /\ change' = [pc |-> "verify", account |-> NoAccount, gen |-> conn.gen]
      BY <1>6 DEF TestBegin, BeginChange, NoChange
    <3>. QED
      BY <1>0, <3>1, <3>2 DEF ConnInv
  <2>. QED
    BY <1>0, <1>6, <2>1, QuietStep, RestStays DEF TestBegin, ChangeFrame, privacy
<1>7. CASE TestOk
  <2>1. ConnInv'
    <3>1. conn' = conn \/ conn' = [conn EXCEPT !.broken = FALSE, !.paused = FALSE]
      BY <1>7, Zenon DEF TestOk
    <3>2. conn' \in Connection /\ conn'.gen = conn.gen /\ conn'.enabled = conn.enabled
          /\ conn'.account = conn.account
      BY <1>0, <3>1 DEF ConnInv, Connection
    <3>3. change' = [change EXCEPT !.pc = "unblock"] /\ ops' = ops
      BY <1>7 DEF TestOk
    <3>. QED
      BY <1>0, <3>2, <3>3 DEF ConnInv
  <2>. QED
    BY <1>0, <1>7, <2>1, QuietStep, RestStays DEF TestOk, ChangeFrame, privacy
<1>8. CASE TestUnblock
  <2>1. Kept(queue')
    BY <1>0, <1>8, MoveKeeps, InStatesUnsent DEF TestUnblock, Unsent
  <2>2. ConnInv'
    BY <1>0, <1>8 DEF TestUnblock, ConnInv, NoChange
  <2>. QED
    BY <1>0, <1>8, <2>1, <2>2, QuietStep, RestStays DEF TestUnblock, ChangeFrame, privacy
<1>9. ASSUME NEW refused \in BOOLEAN, TestFail(refused) PROVE OutboxInv'
  <2>1. ConnInv'
    <3>1. conn' = conn \/ conn' = [conn EXCEPT !.broken = refused, !.paused = FALSE]
      BY <1>9, Zenon DEF TestFail
    <3>2. conn' \in Connection /\ conn'.gen = conn.gen /\ conn'.enabled = conn.enabled
          /\ conn'.account = conn.account
      BY <1>0, <3>1 DEF ConnInv, Connection
    <3>3. change' = NoChange /\ ops' = ops
      BY <1>9 DEF TestFail
    <3>. QED
      BY <1>0, <3>2, <3>3 DEF ConnInv, NoChange
  <2>. QED
    BY <1>0, <1>9, <2>1, QuietStep, RestStays DEF TestFail, ChangeFrame, privacy
<1>10. CASE RetryCheck
  <2>1. ConnInv'
    BY <1>0, <1>10 DEF RetryCheck, ConnInv, tables, Connection
  <2>2. RestInv'
    BY <1>0, <1>10 DEF RetryCheck, RestInv, ConnInv, tables, privacy
  <2>. QED
    BY <1>0, <1>10, <2>1, <2>2, QuietStep DEF RetryCheck, tables
<1>11. CASE RetryWrite
  <2>1. Kept(queue')
    <3> SUFFICES ASSUME NEW l \in Listens
                 PROVE  /\ queue'[l] \in Row /\ queue'[l].account = queue[l].account
                        /\ queue'[l].state \in Unqueued <=> queue[l].state \in Unqueued
      BY <1>11 DEF RetryWrite, Kept
    <3>. QED
      BY <1>0, <1>11 DEF RetryWrite, QueueInv, Row, States, Unsent, Unqueued
  <2>2. RestInv'
    BY <1>0, <1>11 DEF RetryWrite, RestInv, privacy, counters
  <2>. QED
    BY <1>0, <1>11, <2>1, <2>2, QuietStep, ConnStays DEF RetryWrite, counters
<1>. QED
  BY <1>1, <1>2, <1>3, <1>4, <1>5, <1>6, <1>7, <1>8, <1>9, <1>10, <1>11 DEF ChangeStep

\* The policy, runtime updates, shutdown and restarts preserve the invariant
\* (PrivacyManager::update, begin_runtime_update, close, recovery of the process).
LEMMA PrivacyKeeps ==
  ASSUME OutboxInv,
         (\E external \in BOOLEAN : PolicyCommit(external)) \/ PolicyPublish
         \/ Suspend \/ Resume \/ Close \/ Restart
  PROVE  OutboxInv'
<1>0. /\ QueueInv /\ ConnInv /\ WorkerInv /\ AcceptedInv /\ RestInv
      /\ Kept(queue) /\ Kept(Cancelled)
      /\ MaxOps \in Nat /\ MaxPolicies \in Nat /\ MaxRestarts \in Nat
  BY CancelledKeeps, OutboxBoundsAssumption DEF OutboxInv
<1>1. ASSUME NEW external \in BOOLEAN, PolicyCommit(external) PROVE OutboxInv'
  <2>1. Kept(queue')
    <3>1. Kept(IF external THEN queue ELSE Cancelled)
      BY <1>0
    <3>. QED
      BY <1>1, <3>1, AgedKeeps DEF PolicyCommit
  <2>2. policies' \in 0..MaxPolicies
    BY <1>0, <1>1 DEF PolicyCommit, RestInv
  <2>3. RestInv'
    BY <1>0, <1>1, <2>2 DEF PolicyCommit, RestInv, privacy
  <2>. QED
    BY <1>0, <1>1, <2>1, <2>3, QuietStep, ConnStays DEF PolicyCommit
<1>2. CASE Resume \/ Close
  <2>1. RestInv'
    BY <1>0, <1>2 DEF Resume, Close, RestInv, privacy, tables, counters
  <2>. QED
    BY <1>0, <1>2, <2>1, QuietStep, ConnStays DEF Resume, Close, tables, counters
<1>3. CASE PolicyPublish \/ Suspend
  <2>1. UNCHANGED <<queue, conn, dbPolicy, accepted, change, retrying, ops, restarts>>
        /\ QueueInv' /\ AcceptedInv'
    BY <1>0, <1>3, RowsFollow DEF PolicyPublish, Suspend, tables, counters
  <2>2. RestInv'
    <3>1. CASE PolicyPublish
      BY <1>0, <3>1 DEF PolicyPublish, RestInv, tables, counters
    <3>2. CASE Suspend
      <4>1. policies' \in 0..MaxPolicies
        BY <1>0, <3>2 DEF Suspend, RestInv
      <4>. QED
        BY <1>0, <3>2, <4>1 DEF Suspend, RestInv, tables
    <3>. QED
      BY <1>3, <3>1, <3>2
  <2>3. \E p \in BOOLEAN : worker' = [worker EXCEPT !.permit = p]
    <3>1. CASE PolicyPublish
      <4>1. (worker.permit /\ dbPolicy) \in BOOLEAN
        OBVIOUS
      <4>. QED
        BY <3>1, <4>1, Zenon DEF PolicyPublish
    <3>2. CASE Suspend
      BY <3>2 DEF Suspend
    <3>. QED
      BY <1>3, <3>1, <3>2
  <2>4. WorkerInv'
    BY <1>0, <2>1, <2>3 DEF WorkerInv, Workers, Queued
  <2>. QED
    BY <1>0, <2>1, <2>2, <2>4, ConnStays DEF OutboxInv
<1>4. CASE Restart
  <2>1. UNCHANGED <<queue, conn, dbPolicy, accepted, ops, policies>> /\ QueueInv' /\ AcceptedInv'
    BY <1>0, <1>4, RowsFollow DEF Restart, tables
  <2>2. RestInv'
    <3>1. restarts' \in 0..MaxRestarts
      BY <1>0, <1>4 DEF Restart, RestInv
    <3>. QED
      BY <1>0, <1>4, <2>1, <3>1 DEF Restart, RestInv
  <2>3. WorkerInv'
    <3>1. worker' = WorkerAt("idle") /\ NotConnected \in Connection
      BY <1>0, <1>4 DEF Restart, NotConnected, Connection
    <3>. QED
      BY <1>0, <3>1 DEF WorkerInv, Workers, WorkerAt, WorkerPcs, Results, Busy
  <2>4. ConnInv'
    BY <1>0, <1>4, <2>1 DEF Restart, ConnInv, NoChange
  <2>. QED
    BY <2>1, <2>2, <2>3, <2>4 DEF OutboxInv
<1>. QED
  BY <1>1, <1>2, <1>3, <1>4

-----------------------------------------------------------------------------
(* The worker                                                              *)

\* A step of the worker that keeps the rows.
LEMMA WorkerMoves ==
  ASSUME OutboxInv, Kept(queue'), UNCHANGED accepted, WorkerFrame, ConnInv', WorkerInv'
  PROVE  OutboxInv'
  BY RowsFollow, RestStays DEF OutboxInv, WorkerFrame, privacy, counters

\* The health of the connection is recorded.
LEMMA HealthRecorded ==
  ASSUME ConnInv, UNCHANGED <<change, ops>>, NEW broken \in BOOLEAN, NEW paused \in BOOLEAN,
         conn' = conn \/ conn' = [conn EXCEPT !.broken = broken, !.paused = paused]
  PROVE  ConnInv'
<1>1. conn' \in Connection /\ conn'.gen = conn.gen /\ conn'.enabled = conn.enabled
      /\ conn'.account = conn.account
  BY DEF ConnInv, Connection
<1>. QED
  BY <1>1 DEF ConnInv

\* A worker without a row knows nothing.
LEMMA WorkerIdles ==
  ASSUME NEW pc \in WorkerPcs \ Busy, worker' = WorkerAt(pc)
  PROVE  WorkerInv'
<1>1. 0 \in 0..MaxOps /\ NotConnected \in Connection
  BY OutboxBoundsAssumption DEF NotConnected, Connection
<1>2. worker' \in Workers /\ worker'.pc = pc
  BY <1>1 DEF WorkerAt, Workers, Results
<1>. QED
  BY <1>2 DEF WorkerInv, Busy

\* The worker goes to a place where it needs to know no more than that its row is
\* in the table.
LEMMA WorkerGoes ==
  ASSUME OutboxInv, Kept(queue'), UNCHANGED accepted, worker' \in Workers,
         worker'.pc \in Busy \ {"send", "finish", "commit"} => worker.pc \in Busy,
         worker'.pc \notin {"send", "finish", "commit"},
         worker'.job = worker.job, worker'.reached = worker.reached
  PROVE  WorkerInv'
  BY DEF OutboxInv, WorkerInv, Kept, Queued

\* The worker up to the claim preserves the invariant (drain, claim_next_job).
LEMMA ClaimKeeps ==
  ASSUME OutboxInv, DrainBegin \/ DrainCheck \/ WorkerClaim
  PROVE  OutboxInv'
<1>0. /\ QueueInv /\ ConnInv /\ WorkerInv /\ worker \in Workers
      /\ Kept(queue) /\ Kept(Cancelled) /\ MaxOps \in Nat
      /\ {"idle", "open", "claim"} \subseteq WorkerPcs \ Busy
  BY CancelledKeeps, OutboxBoundsAssumption DEF OutboxInv, WorkerInv, WorkerPcs, Busy
<1>1. CASE DrainBegin \/ DrainCheck
  <2>1. \E pc \in {"idle", "open", "claim"} : worker' = [worker EXCEPT !.pc = pc]
    BY <1>1 DEF DrainBegin, DrainCheck, Goto
  <2>2. Kept(queue') /\ UNCHANGED <<accepted, conn, change, ops>> /\ WorkerFrame
    BY <1>0, <1>1 DEF DrainBegin, DrainCheck, WorkerFrame, counters
  <2>3. worker' \in Workers /\ worker'.pc \notin Busy
    BY <1>0, <2>1 DEF Workers
  <2>4. WorkerInv'
    BY <2>3 DEF WorkerInv, Busy
  <2>. QED
    BY <1>0, <2>2, <2>4, WorkerMoves, ConnStays
<1>2. CASE WorkerClaim
  <2> DEFINE q == Recovered(queue)
  <2>0. UNCHANGED <<accepted, conn, change, ops>> /\ WorkerFrame
    BY <1>2 DEF WorkerClaim, ClaimFrom, WorkerFrame, counters
  <2>1. CASE worker' = WorkerAt("idle") /\ UNCHANGED queue
    BY <1>0, <2>0, <2>1, WorkerIdles, WorkerMoves, ConnStays
  <2>2. ASSUME NEW l \in Listens, Claimable(q, l),
               queue' = [q EXCEPT ![l].state = "sending", ![l].due = FALSE],
               worker' = [WorkerAt("permit") EXCEPT !.job = l, !.gen = conn.gen]
        PROVE  OutboxInv'
    <3>1. Kept(q) /\ q[l].state = "pending"
      BY <1>0, <2>2, RecoveredKeeps DEF Claimable
    <3> HIDE DEF q
    <3>2. /\ queue' \in [Listens -> Row] /\ queue'[l].state = "sending"
          /\ queue'[l].account = q[l].account
          /\ \A k \in Listens \ {l} : queue'[k] = q[k]
      BY <2>2, <3>1 DEF Kept, Row, States, Unsent
    <3>3. Kept(queue')
      BY <3>1, <3>2 DEF Kept, Unqueued
    <3>4. worker' \in Workers /\ worker'.pc = "permit" /\ worker'.job = l /\ ~worker'.reached
      <4>1. conn.gen \in 0..MaxOps /\ NotConnected \in Connection
        BY <1>0 DEF ConnInv, Connection, NotConnected
      <4>. QED
        BY <2>2, <4>1 DEF WorkerAt, Workers, WorkerPcs, Results
    <3>5. WorkerInv'
      BY <3>2, <3>4 DEF WorkerInv, Queued, Unqueued
    <3>. QED
      BY <1>0, <2>0, <3>3, <3>5, WorkerMoves, ConnStays
  <2>. QED
    BY <1>2, <2>1, <2>2 DEF WorkerClaim, ClaimFrom
<1>. QED
  BY <1>1, <1>2

\* The worker up to the answer preserves the invariant (deliver_job, submit).
LEMMA DeliveryKeeps ==
  ASSUME OutboxInv,
         WorkerPermit \/ WorkerFetch \/ WorkerCheck \/ ProviderAccepts \/ WorkerAnswer \/ WorkerAbort
  PROVE  OutboxInv'
<1>0. /\ QueueInv /\ ConnInv /\ WorkerInv /\ worker \in Workers /\ AcceptedInv /\ RestInv
      /\ Kept(queue) /\ NotConnected \in Connection
  BY CancelledKeeps, OutboxBoundsAssumption DEF OutboxInv, WorkerInv, NotConnected, Connection
<1>1. CASE WorkerPermit \/ WorkerFetch \/ WorkerAbort
  <2>1. /\ UNCHANGED <<queue, accepted, conn, change, ops>> /\ WorkerFrame
        /\ worker.pc \in Busy
    BY <1>1 DEF WorkerPermit, WorkerFetch, WorkerAbort, WorkerFrame, counters, Busy
  <2>2. /\ worker' \in Workers /\ worker'.pc \in {"fetch", "drop", "check"}
        /\ worker'.job = worker.job /\ worker'.reached = worker.reached
    <3>1. CASE WorkerPermit
      <4>1. \/ worker' = [worker EXCEPT !.pc = "fetch", !.permit = TRUE]
            \/ worker' = [worker EXCEPT !.pc = "drop"]
        BY <3>1 DEF WorkerPermit
      <4>. QED
        BY <1>0, <4>1 DEF Workers, WorkerPcs
    <3>2. CASE WorkerFetch
      <4>1. worker' = [worker EXCEPT !.pc = "check", !.seen = conn] /\ conn \in Connection
        BY <1>0, <3>2 DEF WorkerFetch, ConnInv
      <4>. QED
        BY <1>0, <4>1 DEF Workers, WorkerPcs
    <3>3. CASE WorkerAbort
      <4>1. worker' = [worker EXCEPT !.pc = "drop", !.seen = NotConnected]
        BY <3>3 DEF WorkerAbort
      <4>. QED
        BY <1>0, <4>1 DEF Workers, WorkerPcs
    <3>. QED
      BY <1>1, <3>1, <3>2, <3>3
  <2>3. WorkerInv'
    BY <1>0, <2>1, <2>2, WorkerGoes
  <2>. QED
    BY <1>0, <2>1, <2>3, WorkerMoves, ConnStays
<1>2. CASE WorkerCheck
  <2>1. UNCHANGED <<queue, accepted, conn, change, ops>> /\ WorkerFrame /\ worker.pc = "check"
    BY <1>2 DEF WorkerCheck, WorkerFrame, counters
  <2>2. \/ /\ worker' = [worker EXCEPT !.pc = "send"]
           /\ worker.seen.account = queue[worker.job].account
        \/ \E result \in {"blocked", "paused"} :
             worker' = [worker EXCEPT !.pc = "finish", !.result = result, !.seen = NotConnected]
    BY <1>2 DEF WorkerCheck, Goto, Answer
  <2>3. CASE worker' = [worker EXCEPT !.pc = "send"] /\ worker.seen.account = queue[worker.job].account
    <3>1. worker' \in Workers /\ worker'.pc = "send" /\ worker'.job = worker.job
          /\ worker'.reached = worker.reached /\ worker'.seen = worker.seen
      BY <1>0, <2>3 DEF Workers, WorkerPcs
    <3>2. WorkerInv'
      BY <1>0, <2>1, <2>3, <3>1 DEF WorkerInv, Queued, Busy
    <3>. QED
      BY <1>0, <2>1, <3>2, WorkerMoves, ConnStays
  <2>4. ASSUME NEW result \in {"blocked", "paused"},
               worker' = [worker EXCEPT !.pc = "finish", !.result = result, !.seen = NotConnected]
        PROVE  OutboxInv'
    <3>1. worker' \in Workers /\ worker'.pc = "finish" /\ worker'.job = worker.job
          /\ worker'.reached = worker.reached /\ worker'.result = result
      BY <1>0, <2>4 DEF Workers, WorkerPcs, Results
    <3>2. WorkerInv'
      BY <1>0, <2>1, <3>1 DEF WorkerInv, Queued, Busy
    <3>. QED
      BY <1>0, <2>1, <3>2, WorkerMoves, ConnStays
  <2>. QED
    BY <2>2, <2>3, <2>4
<1>3. CASE ProviderAccepts
  <2>1. /\ UNCHANGED <<queue, conn, change, ops>>
        /\ UNCHANGED <<dbPolicy, policy, suspended, stopped, retrying, policies, restarts>>
        /\ worker.pc = "send" /\ worker' = [worker EXCEPT !.reached = TRUE]
        /\ accepted' = accepted \cup {[listen |-> worker.job, account |-> worker.seen.account]}
    BY <1>3 DEF ProviderAccepts, tables, privacy, counters
  <2>2. /\ worker.job \in Listens /\ Queued(worker.job)
        /\ worker.seen.account = queue[worker.job].account /\ worker.seen.account \in Accounts
    BY <1>0, <2>1 DEF WorkerInv, QueueInv, Busy
  <2>3. /\ worker' \in Workers /\ worker'.pc = "send" /\ worker'.job = worker.job
        /\ worker'.seen = worker.seen
    BY <1>0, <2>1 DEF Workers
  <2>4. WorkerInv'
    <3> DEFINE new == [listen |-> worker.job, account |-> worker.seen.account]
    <3>1. new \in accepted' /\ new.listen = worker'.job
      BY <2>1, <2>3
    <3> HIDE DEF new
    <3>. QED
      BY <2>1, <2>2, <2>3, <3>1 DEF WorkerInv, Queued
  <2>5. AcceptedInv'
    BY <1>0, <2>1, <2>2 DEF AcceptedInv, Queued
  <2>6. QueueInv'
    BY <1>0, <2>1 DEF QueueInv, Queued
  <2>. QED
    BY <1>0, <2>1, <2>4, <2>5, <2>6, ConnStays, RestStays DEF OutboxInv
<1>4. CASE WorkerAnswer
  <2>1. UNCHANGED <<queue, accepted, conn, change, ops>> /\ WorkerFrame /\ worker.pc = "send"
    BY <1>4 DEF WorkerAnswer, WorkerFrame, counters
  <2>2. PICK result \in Results \ {"none"} :
          /\ result = "ok" => worker.reached
          /\ worker' = [worker EXCEPT !.pc = "finish", !.result = result, !.seen = NotConnected]
    BY <1>4 DEF WorkerAnswer, Answer, Results
  <2>3. worker' \in Workers /\ worker'.pc = "finish" /\ worker'.job = worker.job
        /\ worker'.reached = worker.reached /\ worker'.result = result
    BY <1>0, <2>2 DEF Workers, WorkerPcs
  <2>4. WorkerInv'
    BY <1>0, <2>1, <2>2, <2>3 DEF WorkerInv, Queued, Busy
  <2>. QED
    BY <1>0, <2>1, <2>4, WorkerMoves, ConnStays
<1>. QED
  BY <1>1, <1>2, <1>3, <1>4

\* A settled row has left neither the table nor its account.
LEMMA SettledRow ==
  ASSUME NEW row \in Row, row.state = "sending", NEW r \in Results \ {"none"}
  PROVE  LET new == Settled(row, r)
         IN /\ new \in Row /\ new.account = row.account
            /\ new.state = CASE r = "ok" -> "sent" [] r = "paused" -> "pending"
                             [] r = "blocked" -> "blocked" [] r = "ignored" -> "ignored"
                             [] r = "permanent" -> "failed" [] r = "transient" -> new.state
            /\ r = "transient" => new.state \in {"failed", "pending"}
<1>1. row.attempts \in Nat /\ row.attempts + 1 \in Nat
  BY DEF Row
<1>. QED
  BY <1>1 DEF Settled, Row, Results, States, Unsent

\* The worker after the answer preserves the invariant (finish_delivery,
\* cancel_claimed, record_connection_error).
LEMMA FinishKeeps ==
  ASSUME OutboxInv, WorkerDrop \/ WorkerFinish \/ WorkerCommit \/ WorkerRecord
  PROVE  OutboxInv'
<1>0. /\ QueueInv /\ ConnInv /\ WorkerInv /\ worker \in Workers /\ AcceptedInv /\ RestInv
      /\ Kept(queue) /\ "claim" \in WorkerPcs \ Busy
  BY CancelledKeeps DEF OutboxInv, WorkerInv, WorkerPcs, Busy
<1>1. WorkerFrame => UNCHANGED <<accepted, change, ops>>
  BY DEF WorkerFrame, counters
<1>2. CASE WorkerDrop
  <2>1. HoldsLease => Kept(Move({worker.job}, "cancelled", FALSE))
    <3>1. HoldsLease => {worker.job} \in SUBSET InStates(Unsent)
      BY <1>0, <1>2 DEF HoldsLease, InStates, Unsent, WorkerDrop, WorkerInv, Busy
    <3>. QED
      BY <1>0, <3>1, MoveKeeps
  <2>2. Kept(queue')
    BY <1>0, <1>2, <2>1 DEF WorkerDrop
  <2>. QED
    BY <1>0, <1>1, <1>2, <2>2, WorkerIdles, WorkerMoves, ConnStays DEF WorkerDrop, NextJob
<1>3. CASE WorkerFinish
  <2>1. UNCHANGED <<queue, accepted, conn, change, ops>> /\ WorkerFrame /\ worker.pc = "finish"
    BY <1>1, <1>3 DEF WorkerFinish
  <2>2. CASE worker' = [worker EXCEPT !.pc = "commit"]
    <3>1. worker' \in Workers /\ worker'.pc = "commit" /\ worker'.job = worker.job
          /\ worker'.reached = worker.reached /\ worker'.result = worker.result
      BY <1>0, <2>2 DEF Workers, WorkerPcs
    <3>2. WorkerInv'
      BY <1>0, <2>1, <3>1 DEF WorkerInv, Queued, Busy
    <3>. QED
      BY <1>0, <2>1, <3>2, WorkerMoves, ConnStays
  <2>3. CASE worker' = WorkerAt("claim")
    BY <1>0, <2>1, <2>3, WorkerIdles, WorkerMoves, ConnStays
  <2>. QED
    BY <1>3, <2>2, <2>3 DEF WorkerFinish, Goto, NextJob
<1>4. CASE WorkerCommit
  <2>0. WorkerFrame /\ UNCHANGED <<accepted, change, ops>> /\ worker.pc = "commit"
    BY <1>1, <1>4 DEF WorkerCommit
  <2>1. CASE ~HoldsLease
    BY <1>0, <1>4, <2>0, <2>1, WorkerIdles, WorkerMoves, ConnStays DEF WorkerCommit, NextJob
  <2>2. CASE HoldsLease
    <3>1. /\ worker.job \in Listens /\ queue[worker.job].state = "sending"
          /\ queue[worker.job] \in Row /\ worker.result \in Results \ {"none"}
      BY <1>0, <2>0, <2>2 DEF WorkerInv, Busy, HoldsLease, QueueInv, Workers
    <3>2. queue' = [queue EXCEPT ![worker.job] = Settled(queue[worker.job], worker.result)]
      BY <1>4, <2>2 DEF WorkerCommit, Commit
    <3>3. /\ Settled(queue[worker.job], worker.result) \in Row
          /\ Settled(queue[worker.job], worker.result).account = queue[worker.job].account
          /\ Settled(queue[worker.job], worker.result).state \notin Unqueued
      BY <3>1, SettledRow DEF Unqueued, Results
    <3>4. Kept(queue')
      BY <1>0, <3>1, <3>2, <3>3 DEF QueueInv, Kept, Unqueued
    <3>5. conn' = conn \/ conn' = [conn EXCEPT !.broken = FALSE, !.paused = FALSE]
      BY <1>4, <2>2 DEF WorkerCommit, Commit
    <3>6. ConnInv'
      BY <1>0, <2>0, <3>5, HealthRecorded
    <3>7. CASE worker' = WorkerAt("claim")
      BY <1>0, <2>0, <3>4, <3>6, <3>7, WorkerIdles, WorkerMoves
    <3>8. CASE worker' = [worker EXCEPT !.pc = "record"]
      <4>1. worker' \in Workers /\ worker'.pc = "record" /\ worker'.job = worker.job
            /\ worker'.reached = worker.reached
        BY <1>0, <3>8 DEF Workers, WorkerPcs
      <4>2. WorkerInv'
        BY <2>0, <3>4, <4>1, WorkerGoes DEF Busy
      <4>. QED
        BY <2>0, <3>4, <3>6, <4>2, WorkerMoves
    <3>. QED
      BY <1>4, <2>2, <3>7, <3>8 DEF WorkerCommit, Commit, Goto, NextJob
  <2>. QED
    BY <2>1, <2>2
<1>5. CASE WorkerRecord
  <2>1. \E broken, paused \in BOOLEAN :
          conn' = conn \/ conn' = [conn EXCEPT !.broken = broken, !.paused = paused]
    <3>1. (worker.result = "blocked") \in BOOLEAN /\ (worker.result = "transient") \in BOOLEAN
      OBVIOUS
    <3>. QED
      BY <1>5, <3>1, Zenon DEF WorkerRecord
  <2>2. ConnInv'
    BY <1>0, <1>1, <1>5, <2>1, HealthRecorded DEF WorkerRecord
  <2>. QED
    BY <1>0, <1>1, <1>5, <2>2, WorkerIdles, WorkerMoves DEF WorkerRecord, NextJob
<1>. QED
  BY <1>2, <1>3, <1>4, <1>5

-----------------------------------------------------------------------------
\* The invariant is inductive.
LEMMA OutboxInductive == OutboxInv /\ [Next]_vars => OutboxInv'
<1> SUFFICES ASSUME OutboxInv, [Next]_vars PROVE OutboxInv'
  OBVIOUS
<1>1. CASE UNCHANGED vars
  BY <1>1
  DEF vars, tables, privacy, counters, OutboxInv, QueueInv, Queued, ConnInv, WorkerInv, AcceptedInv, RestInv
<1>2. CASE Next
  BY <1>2, ListeningKeeps, ChangesKeep, PrivacyKeeps, ClaimKeeps, DeliveryKeeps, FinishKeeps
  DEF Next, WorkerStep
<1>. QED
  BY <1>1, <1>2

LEMMA OutboxInvariant == Spec => []OutboxInv
  BY OutboxInitially, OutboxInductive, PTL DEF Spec

\* Every variable of the outbox keeps its type; generations of the connection never
\* exceed the operations that were begun.
THEOREM OutboxTypes == Spec => []TypeOK
<1>1. OutboxInv => TypeOK
  <2> SUFFICES ASSUME OutboxInv PROVE TypeOK
    OBVIOUS
  <2>1. {dbPolicy, policy, suspended, stopped} \subseteq BOOLEAN
    BY Zenon DEF OutboxInv, RestInv
  <2>2. queue \in [Listens -> Row] /\ \A l \in Listens : queue[l].state \notin Unqueued => queue[l].account \in Accounts
    BY DEF OutboxInv, QueueInv, Queued
  <2>3. worker \in Workers /\ accepted \subseteq [listen : Listens, account : Accounts]
    BY DEF OutboxInv, WorkerInv, AcceptedInv
  <2>. QED
    BY <2>1, <2>2, <2>3 DEF OutboxInv, ConnInv, RestInv, Workers, TypeOK
<1>. QED
  BY <1>1, OutboxInvariant, PTL

\* A listen is only ever submitted with the credentials of the account it was queued
\* for, for every number of accounts, listens and restarts (deliver_job).
THEOREM SubmittedForItsAccount == Spec => []OwnAccountOnly
<1>1. OutboxInv => OwnAccountOnly
  BY DEF OutboxInv, AcceptedInv, OwnAccountOnly
<1>. QED
  BY <1>1, OutboxInvariant, PTL

-----------------------------------------------------------------------------
(* The refinement of ListenOutbox                                          *)

PhaseOf(state) ==
  CASE state \in Unqueued -> "none"
    [] state \in {"pending", "sending", "blocked"} -> "waiting"
    [] OTHER -> state

\* What the abstract outbox sees.
Phases == [l \in Listens |-> Phase(l)]
Taken == IF Delivering THEN {worker.job} ELSE {}
Received == {s.listen : s \in accepted}

\* A step that moves no listen to another phase.
LEMMA PhasesStay ==
  ASSUME \A l \in Listens : PhaseOf(queue'[l].state) = PhaseOf(queue[l].state)
  PROVE  Phases' = Phases
<1>1. \A l \in Listens : Phase(l) = PhaseOf(queue[l].state) /\ Phase(l)' = PhaseOf(queue'[l].state)
  BY DEF Phase, PhaseOf
<1>. QED
  BY <1>1 DEF Phases

\* Listens that are withdrawn, with the delivery under way or without.
LEMMA Withdraws ==
  ASSUME OutboxInv, NEW gone \in SUBSET InStates(Unsent), NEW ended \in SUBSET Taken,
         \A l \in gone : queue'[l].state = "cancelled",
         \A l \in Listens \ gone : PhaseOf(queue'[l].state) = PhaseOf(queue[l].state),
         Taken' = Taken \ ended, UNCHANGED accepted
  PROVE  Outbox!Next
<1>1. \A l \in Listens : Phase(l) = PhaseOf(queue[l].state) /\ Phase(l)' = PhaseOf(queue'[l].state)
  BY DEF Phase, PhaseOf
<1>2. gone \in SUBSET Listens /\ \A l \in gone : Phases[l] \in {"waiting", "failed"}
  BY <1>1 DEF InStates, Unsent, Phases, PhaseOf, Unqueued
<1>3. Phases' = [l \in Listens |-> IF l \in gone THEN "cancelled" ELSE Phases[l]]
  BY <1>1, <1>2 DEF Phases, PhaseOf, Unqueued
<1>4. Received' = Received
  BY DEF Received
<1>5. Outbox!Withdraw(gone, ended)
  BY <1>2, <1>3, <1>4 DEF Outbox!Withdraw, Phases, Taken, Received
<1>. QED
  BY <1>2, <1>5 DEF Outbox!Next, Taken

\* A cancellation of all that is unsent.
LEMMA CancelsUnsent ==
  ASSUME OutboxInv, queue' = Cancelled \/ queue' = Aged(Cancelled), Taken' = Taken, UNCHANGED accepted
  PROVE  Outbox!Next
<1> DEFINE gone == InStates(Unsent)
<1>1. \A l \in Listens : queue[l] \in Row
  BY DEF OutboxInv, QueueInv
<1>2. /\ \A l \in gone : l \in Listens /\ Cancelled[l] \in Row /\ Cancelled[l].state = "cancelled"
      /\ \A l \in Listens \ gone : Cancelled[l] = queue[l]
  BY <1>1 DEF InStates, Cancelled, Move, Row, States, Unsent
<1>3. ASSUME NEW l \in Listens, Cancelled[l] \in Row
      PROVE  PhaseOf(Aged(Cancelled)[l].state) = PhaseOf(Cancelled[l].state)
             /\ (Cancelled[l].state = "cancelled" => Aged(Cancelled)[l].state = "cancelled")
  <2>1. CASE Cancelled[l].state = "playing"
    BY <1>3, <2>1 DEF Aged, Row, PhaseOf, Unqueued
  <2>2. CASE Cancelled[l].state # "playing"
    BY <1>3, <2>2 DEF Aged
  <2>. QED
    BY <2>1, <2>2
<1> HIDE DEF gone
<1>4. \A l \in gone : queue'[l].state = "cancelled"
  BY <1>2, <1>3
<1>5. \A l \in Listens \ gone : PhaseOf(queue'[l].state) = PhaseOf(queue[l].state)
  BY <1>1, <1>2, <1>3
<1>6. gone \in SUBSET InStates(Unsent) /\ {} \in SUBSET Taken /\ Taken' = Taken \ {}
  BY DEF gone
<1>. QED
  BY <1>4, <1>5, <1>6, Withdraws

\* The delivery under way ends, and its listen waits as before.
LEMMA Releases ==
  ASSUME OutboxInv, Delivering, Taken' = {}, UNCHANGED accepted,
         \A l \in Listens : PhaseOf(queue'[l].state) = PhaseOf(queue[l].state)
  PROVE  Outbox!Next
<1>1. worker.job \in Listens /\ worker.job \in Taken
  BY DEF OutboxInv, WorkerInv, Busy, Delivering, Taken
<1>2. Phases' = Phases /\ Received' = Received /\ Taken' = Taken \ {worker.job}
  BY PhasesStay DEF Received, Taken
<1>3. Outbox!Release(worker.job)
  BY <1>1, <1>2 DEF Outbox!Release, Phases, Taken, Received
<1>. QED
  BY <1>1, <1>3 DEF Outbox!Next

\* A step that the abstract outbox does not see.
LEMMA Unseen ==
  ASSUME \A l \in Listens : PhaseOf(queue'[l].state) = PhaseOf(queue[l].state),
         Taken' = Taken, UNCHANGED accepted
  PROVE  UNCHANGED Outbox!outbox
<1>1. Phases' = Phases /\ Received' = Received
  BY PhasesStay DEF Received
<1>. QED
  BY <1>1 DEF Outbox!outbox, Phases, Taken, Received

\* Listening and changes of the connection are steps of the abstract outbox.
LEMMA ChangesRefine ==
  ASSUME OutboxInv,
         \/ \E l \in Listens : StartSession(l) \/ Enqueue(l) \/ Elapse(l)
         \/ PauseEnds
         \/ ConnectBegin \/ Disconnect \/ TestBegin \/ ChangeStep \/ RetryCheck \/ RetryWrite
  PROVE  Outbox!Next \/ UNCHANGED Outbox!outbox
<1>0. \A l \in Listens : queue[l] \in Row
  BY DEF OutboxInv, QueueInv
<1>1. /\ UNCHANGED <<worker, accepted>>
      /\ Taken' = Taken
  BY DEF StartSession, Enqueue, Elapse, PauseEnds, ConnectBegin, Disconnect, TestBegin, ChangeStep,
         ConnectValidate, ConnectFail, ConnectSave, TestOk, TestUnblock, TestFail, RetryCheck, RetryWrite,
         ChangeFrame, tables, privacy, counters, Taken, Delivering
<1>2. ASSUME NEW l \in Listens, StartSession(l) \/ Elapse(l) PROVE UNCHANGED Outbox!outbox
  <2>1. \A k \in Listens : PhaseOf(queue'[k].state) = PhaseOf(queue[k].state)
    <3> SUFFICES ASSUME NEW k \in Listens PROVE PhaseOf(queue'[k].state) = PhaseOf(queue[k].state)
      OBVIOUS
    <3>1. CASE StartSession(l)
      BY <1>0, <3>1 DEF StartSession, OutboxInv, QueueInv, Row, PhaseOf, Unqueued
    <3>2. CASE Elapse(l)
      BY <1>0, <3>2 DEF Elapse, OutboxInv, QueueInv, Row
    <3>. QED
      BY <1>2, <3>1, <3>2
  <2>. QED
    BY <1>1, <2>1, Unseen
<1>3. ASSUME NEW l \in Listens, Enqueue(l) PROVE Outbox!Next
  <2>1. queue[l].state = "playing" /\ queue'[l].state = "pending"
        /\ \A k \in Listens \ {l} : queue'[k] = queue[k]
    BY <1>3 DEF Enqueue, OutboxInv, QueueInv
  <2>2. \A k \in Listens : Phase(k) = PhaseOf(queue[k].state) /\ Phase(k)' = PhaseOf(queue'[k].state)
    BY DEF Phase, PhaseOf
  <2>3. Phases[l] = "none" /\ Phases' = [Phases EXCEPT ![l] = "waiting"]
    <3>1. /\ Phase(l) = "none" /\ Phase(l)' = "waiting"
          /\ \A k \in Listens \ {l} : Phase(k)' = Phase(k)
      BY <2>1, <2>2 DEF PhaseOf, Unqueued
    <3>. QED
      BY <3>1 DEF Phases
  <2>4. Received' = Received
    BY <1>1 DEF Received
  <2>5. Outbox!Queue(l)
    BY <1>1, <2>3, <2>4 DEF Outbox!Queue, Phases, Taken, Received
  <2>. QED
    BY <2>5 DEF Outbox!Next
<1>4. CASE UNCHANGED queue
  BY <1>1, <1>4, Unseen
<1>5. CASE ConnectSave \/ TestUnblock
  <2>1. CASE queue' = Aged(Cancelled)
    BY <1>1, <2>1, CancelsUnsent
  <2>2. ASSUME NEW T \in SUBSET {"blocked", "sending"}, queue' = Move(InStates(T), "pending", TRUE)
        PROVE  UNCHANGED Outbox!outbox
    <3>1. \A l \in Listens : PhaseOf(queue'[l].state) = PhaseOf(queue[l].state)
      BY <1>0, <2>2 DEF Move, InStates, Row, PhaseOf, Unqueued
    <3>. QED
      BY <1>1, <3>1, Unseen
  <2>. QED
    BY <1>5, <2>1, <2>2 DEF ConnectSave, TestUnblock
<1>6. CASE Disconnect
  BY <1>1, <1>6, CancelsUnsent DEF Disconnect
<1>7. CASE RetryWrite
  <2> DEFINE again == {l \in Listens : queue[l].state = "failed" /\ queue[l].account = retrying}
  <2>1. \A l \in Listens : Phase(l) = PhaseOf(queue[l].state) /\ Phase(l)' = PhaseOf(queue'[l].state)
    BY DEF Phase, PhaseOf
  <2>2. \A l \in Listens : queue'[l].state = IF l \in again THEN "pending" ELSE queue[l].state
    BY <1>0, <1>7 DEF RetryWrite, Row
  <2>3. /\ \A l \in again : Phases[l] = "failed"
        /\ Phases' = [l \in Listens |-> IF l \in again THEN "waiting" ELSE Phases[l]]
    BY <2>1, <2>2 DEF Phases, PhaseOf, Unqueued
  <2>4. Received' = Received
    BY <1>1 DEF Received
  <2>5. again \in SUBSET Listens
    OBVIOUS
  <2> HIDE DEF again
  <2>6. Outbox!Reopen(again)
    BY <1>1, <2>3, <2>4 DEF Outbox!Reopen, Phases, Taken, Received
  <2>. QED
    BY <2>5, <2>6 DEF Outbox!Next
<1>. QED
  BY <1>2, <1>3, <1>4, <1>5, <1>6, <1>7
  DEF PauseEnds, ConnectBegin, TestBegin, ChangeStep, ConnectValidate, ConnectFail, TestOk, TestFail,
      RetryCheck, tables

\* So are the policy, runtime updates and restarts.
LEMMA PrivacyRefines ==
  ASSUME OutboxInv,
         (\E external \in BOOLEAN : PolicyCommit(external)) \/ PolicyPublish
         \/ Suspend \/ Resume \/ Close \/ Restart
  PROVE  Outbox!Next \/ UNCHANGED Outbox!outbox
<1>1. ASSUME NEW external \in BOOLEAN, PolicyCommit(external)
      PROVE  Outbox!Next \/ UNCHANGED Outbox!outbox
  <2>1. UNCHANGED <<worker, accepted>> /\ Taken' = Taken
    BY <1>1 DEF PolicyCommit, Taken, Delivering
  <2>2. CASE queue' = Aged(Cancelled)
    BY <2>1, <2>2, CancelsUnsent
  <2>3. CASE queue' = Aged(queue)
    <3>1. \A l \in Listens : queue[l] \in Row
      BY DEF OutboxInv, QueueInv
    <3>2. \A l \in Listens : PhaseOf(queue'[l].state) = PhaseOf(queue[l].state)
      BY <2>3, <3>1 DEF Aged, Row, PhaseOf, Unqueued
    <3>. QED
      BY <2>1, <3>2, Unseen
  <2>. QED
    BY <1>1, <2>2, <2>3 DEF PolicyCommit
<1>2. CASE PolicyPublish \/ Suspend \/ Resume \/ Close
  <2>1. UNCHANGED <<queue, accepted>>
    BY <1>2 DEF PolicyPublish, Suspend, Resume, Close, tables
  <2>2. worker'.pc = worker.pc /\ worker'.job = worker.job
    BY <1>2 DEF PolicyPublish, Suspend, Resume, Close, OutboxInv, WorkerInv, Workers
  <2>3. Taken' = Taken
    BY <2>2 DEF Taken, Delivering
  <2>. QED
    BY <2>1, <2>3, Unseen
<1>3. CASE Restart
  <2>1. UNCHANGED <<queue, accepted>> /\ Taken' = {}
    BY <1>3 DEF Restart, tables, Taken, Delivering, WorkerAt
  <2>2. CASE Delivering
    BY <2>1, <2>2, Releases
  <2>3. CASE ~Delivering
    <3>1. Taken' = Taken
      BY <2>1, <2>3 DEF Taken
    <3>. QED
      BY <2>1, <3>1, Unseen
  <2>. QED
    BY <2>2, <2>3
<1>. QED
  BY <1>1, <1>2, <1>3

\* A claim takes a listen that waits.
LEMMA ClaimRefines ==
  ASSUME OutboxInv, DrainBegin \/ DrainCheck \/ WorkerClaim
  PROVE  Outbox!Next \/ UNCHANGED Outbox!outbox
<1>0. /\ UNCHANGED accepted /\ \A l \in Listens : queue[l] \in Row
      /\ worker \in Workers
  BY DEF DrainBegin, DrainCheck, WorkerClaim, ClaimFrom, WorkerFrame, OutboxInv, QueueInv, WorkerInv
<1>1. CASE DrainBegin \/ DrainCheck
  <2>1. Taken' = Taken /\ (queue' = queue \/ queue' = Cancelled)
    <3>1. worker.pc \in {"idle", "open"} /\ worker'.pc \in {"open", "claim", "idle"}
      BY <1>0, <1>1 DEF DrainBegin, DrainCheck, Goto, Workers
    <3>. QED
      BY <1>1, <3>1 DEF Taken, Delivering, DrainBegin, DrainCheck
  <2>. QED
    BY <1>0, <2>1, CancelsUnsent, Unseen
<1>2. CASE WorkerClaim
  <2> DEFINE q == Recovered(queue)
  <2>0. worker.pc = "claim" /\ Taken = {}
    BY <1>2 DEF WorkerClaim, ClaimFrom, Taken, Delivering
  <2>1. CASE worker' = WorkerAt("idle") /\ UNCHANGED queue
    <3>1. Taken' = {}
      BY <2>1 DEF Taken, Delivering, WorkerAt
    <3>. QED
      BY <1>0, <2>0, <2>1, <3>1, Unseen
  <2>2. ASSUME NEW l \in Listens, Claimable(q, l),
               queue' = [q EXCEPT ![l].state = "sending", ![l].due = FALSE],
               worker' = [WorkerAt("permit") EXCEPT !.job = l, !.gen = conn.gen]
        PROVE  Outbox!Next
    <3>1. Taken' = {l}
      BY <2>2 DEF Taken, Delivering, WorkerAt
    <3>2. \A k \in Listens : q[k] \in Row /\ PhaseOf(q[k].state) = PhaseOf(queue[k].state)
      BY <1>0 DEF Recovered, Row, States, Unsent, PhaseOf, Unqueued
    <3>3. q[l].state = "pending" /\ q \in [Listens -> Row]
      BY <2>2, <3>2 DEF Claimable, Recovered
    <3> HIDE DEF q
    <3>4. queue'[l].state = "sending" /\ \A k \in Listens \ {l} : queue'[k] = q[k]
      BY <2>2, <3>3 DEF Row
    <3>5. PhaseOf(queue[l].state) = "waiting" /\ PhaseOf(queue'[l].state) = "waiting"
      BY <3>2, <3>3, <3>4 DEF PhaseOf, Unqueued
    <3>6. \A k \in Listens : PhaseOf(queue'[k].state) = PhaseOf(queue[k].state)
      BY <3>2, <3>4, <3>5
    <3>7. Phases' = Phases /\ Received' = Received
      BY <1>0, <3>6, PhasesStay DEF Received
    <3>8. Phases[l] = "waiting"
      BY <3>5 DEF Phases, Phase, PhaseOf
    <3>9. Outbox!Take(l)
      BY <2>0, <3>1, <3>7, <3>8 DEF Outbox!Take, Phases, Taken, Received
    <3>. QED
      BY <3>9 DEF Outbox!Next
  <2>. QED
    BY <1>2, <2>1, <2>2 DEF WorkerClaim, ClaimFrom
<1>. QED
  BY <1>1, <1>2

\* The provider receives what was taken.
LEMMA DeliveryRefines ==
  ASSUME OutboxInv,
         WorkerPermit \/ WorkerFetch \/ WorkerCheck \/ ProviderAccepts \/ WorkerAnswer \/ WorkerAbort
  PROVE  Outbox!Next \/ UNCHANGED Outbox!outbox
<1>0. worker \in Workers
  BY DEF OutboxInv, WorkerInv
<1>1. /\ UNCHANGED queue
      /\ worker.pc \in {"permit", "fetch", "check", "send"} /\ worker'.job = worker.job
      /\ worker'.pc \in {"fetch", "drop", "check", "send", "finish"}
  <2>1. CASE WorkerPermit
    BY <1>0, <2>1 DEF WorkerPermit, Workers
  <2>2. CASE WorkerFetch \/ WorkerAbort
    BY <1>0, <2>2 DEF WorkerFetch, WorkerAbort, Workers
  <2>3. CASE WorkerCheck
    BY <1>0, <2>3 DEF WorkerCheck, Goto, Answer, Workers
  <2>4. CASE WorkerAnswer
    BY <1>0, <2>4 DEF WorkerAnswer, Answer, Workers
  <2>5. CASE ProviderAccepts
    BY <1>0, <2>5 DEF ProviderAccepts, tables, Workers
  <2>. QED
    BY <2>1, <2>2, <2>3, <2>4, <2>5
<1>2. Taken' = Taken /\ Taken = {worker.job}
  BY <1>1 DEF Taken, Delivering
<1>3. CASE UNCHANGED accepted
  BY <1>1, <1>2, <1>3, Unseen
<1>4. CASE ProviderAccepts
  <2> DEFINE new == [listen |-> worker.job, account |-> worker.seen.account]
  <2>1. accepted' = accepted \cup {new} /\ new.listen = worker.job
    BY <1>4 DEF ProviderAccepts
  <2> HIDE DEF new
  <2>2. Received' = Received \cup {worker.job}
    BY <2>1 DEF Received
  <2>3. Phases' = Phases
    BY <1>1, PhasesStay
  <2>4. worker.job \in Listens
    BY <1>1 DEF OutboxInv, WorkerInv, Busy
  <2>5. ASSUME NEW l \in Listens, l = worker.job PROVE Outbox!Next
    <3>1. Outbox!Receive(l)
      BY <1>2, <2>2, <2>3, <2>5 DEF Outbox!Receive, Phases, Taken, Received
    <3>. QED
      BY <3>1 DEF Outbox!Next
  <2>. QED
    BY <2>4, <2>5
<1>. QED
  BY <1>3, <1>4 DEF WorkerPermit, WorkerFetch, WorkerCheck, WorkerAnswer, WorkerAbort, WorkerFrame

\* A delivery ends with a verdict on what the provider received, or without one.
LEMMA FinishRefines ==
  ASSUME OutboxInv, WorkerDrop \/ WorkerFinish \/ WorkerCommit \/ WorkerRecord
  PROVE  Outbox!Next \/ UNCHANGED Outbox!outbox
<1>0. /\ worker \in Workers /\ UNCHANGED accepted
      /\ worker.pc \in {"drop", "finish", "commit"} =>
           Delivering /\ worker.job \in Listens /\ queue[worker.job] \in Row /\ Taken = {worker.job}
      /\ WorkerAt("claim").pc = "claim"
  BY DEF WorkerDrop, WorkerFinish, WorkerCommit, WorkerRecord, WorkerFrame, OutboxInv, QueueInv,
         WorkerInv, Busy, Delivering, Taken, WorkerAt
<1>1. worker'.pc \in {"claim", "record"} => Taken' = {}
  BY DEF Taken, Delivering
<1>2. CASE WorkerDrop
  <2>1. Taken' = {}
    BY <1>0, <1>1, <1>2 DEF WorkerDrop, NextJob
  <2>2. CASE HoldsLease
    <3>1. {worker.job} \in SUBSET InStates(Unsent)
      BY <1>0, <1>2, <2>2 DEF HoldsLease, InStates, Unsent, WorkerDrop
    <3>2. queue' = Move({worker.job}, "cancelled", FALSE)
      BY <1>2, <2>2 DEF WorkerDrop
    <3>3. /\ \A l \in {worker.job} : queue'[l].state = "cancelled"
          /\ \A l \in Listens \ {worker.job} : queue'[l] = queue[l]
      BY <1>0, <1>2, <3>2 DEF Move, Row, WorkerDrop
    <3>4. {worker.job} \in SUBSET Taken /\ Taken' = Taken \ {worker.job}
      BY <1>0, <1>2, <2>1 DEF WorkerDrop
    <3>. QED
      BY <1>0, <3>1, <3>3, <3>4, Withdraws
  <2>3. CASE ~HoldsLease
    <3>1. Delivering /\ UNCHANGED <<queue, accepted>>
      BY <1>0, <1>2, <2>3 DEF WorkerDrop
    <3>. QED
      BY <2>1, <3>1, Releases
  <2>. QED
    BY <2>2, <2>3
<1>3. CASE WorkerFinish
  <2>1. CASE worker' = [worker EXCEPT !.pc = "commit"]
    <3>1. worker'.pc = "commit" /\ worker'.job = worker.job
      BY <1>0, <2>1 DEF Workers
    <3>2. Taken' = Taken /\ UNCHANGED queue
      BY <1>0, <1>3, <3>1 DEF WorkerFinish, Taken, Delivering
    <3>. QED
      BY <1>0, <3>2, Unseen
  <2>2. CASE worker' = WorkerAt("claim")
    BY <1>0, <1>1, <1>3, <2>2, Releases DEF WorkerFinish
  <2>. QED
    BY <1>3, <2>1, <2>2 DEF WorkerFinish, Goto, NextJob
<1>4. CASE WorkerCommit
  <2>0. worker.pc = "commit"
    BY <1>4 DEF WorkerCommit
  <2>1. CASE ~HoldsLease
    BY <1>0, <1>1, <1>4, <2>1, Releases DEF WorkerCommit, NextJob
  <2>2. CASE HoldsLease
    <3> DEFINE new == Settled(queue[worker.job], worker.result)
    <3>1. /\ queue[worker.job].state = "sending" /\ worker.result \in Results \ {"none"}
          /\ worker.result = "ok" => worker.job \in Received
      BY <2>0, <2>2 DEF HoldsLease, OutboxInv, WorkerInv, Workers, Busy, Received
    <3>2. /\ new.state \in {"sent", "pending", "blocked", "ignored", "failed"}
          /\ new.state = "sent" => worker.result = "ok"
      BY <1>0, <2>0, <3>1, SettledRow DEF Results
    <3>3. queue' = [queue EXCEPT ![worker.job] = new]
      BY <1>4, <2>2 DEF WorkerCommit, Commit
    <3> HIDE DEF new
    <3>4. /\ \A l \in Listens : l = worker.job => queue'[l] = new
          /\ \A l \in Listens \ {worker.job} : queue'[l] = queue[l]
      BY <1>0, <2>0, <3>3 DEF OutboxInv, QueueInv
    <3>5. Taken' = {}
      <4>1. worker'.pc \in {"claim", "record"}
        BY <1>0, <1>4, <2>2 DEF WorkerCommit, Commit, Goto, NextJob, Workers
      <4>. QED
        BY <1>1, <4>1
    <3>6. CASE new.state \in {"pending", "blocked"}
      <4>1. \A l \in Listens : PhaseOf(queue'[l].state) = PhaseOf(queue[l].state)
        BY <3>1, <3>4, <3>6 DEF PhaseOf, Unqueued
      <4>. QED
        BY <1>0, <2>0, <3>5, <4>1, Releases
    <3>7. CASE new.state \in {"sent", "ignored", "failed"}
      <4>1. \A l \in Listens : Phase(l) = PhaseOf(queue[l].state) /\ Phase(l)' = PhaseOf(queue'[l].state)
        BY DEF Phase, PhaseOf
      <4>2. /\ Phase(worker.job) = "waiting"
            /\ \A l \in Listens : Phase(l)' = IF l = worker.job THEN new.state ELSE Phase(l)
        BY <1>0, <2>0, <3>1, <3>4, <3>7, <4>1 DEF PhaseOf, Unqueued
      <4>3. Phases[worker.job] = "waiting" /\ Phases' = [Phases EXCEPT ![worker.job] = new.state]
        BY <1>0, <2>0, <4>2 DEF Phases
      <4>4. Received' = Received
        BY <1>0 DEF Received
      <4>5. Outbox!Settle(worker.job, new.state)
        BY <1>0, <2>0, <3>1, <3>2, <3>5, <4>3, <4>4 DEF Outbox!Settle, Phases, Taken, Received
      <4>. QED
        BY <1>0, <2>0, <3>7, <4>5 DEF Outbox!Next
    <3>. QED
      BY <3>2, <3>6, <3>7
  <2>. QED
    BY <2>1, <2>2
<1>5. CASE WorkerRecord
  <2>1. Taken' = Taken /\ UNCHANGED queue
    BY <1>0, <1>1, <1>5 DEF WorkerRecord, NextJob, Taken, Delivering
  <2>. QED
    BY <1>0, <2>1, Unseen
<1>. QED
  BY <1>2, <1>3, <1>4, <1>5

\* The outbox implements ListenOutbox, for every number of listens, accounts and
\* restarts: nothing is handed out but what waits, nothing is reported as sent that
\* was not received, and nothing that was withdrawn comes back.
THEOREM OutboxImplemented == Spec => OutboxContract
<1>1. Init => Outbox!Init
  <2> SUFFICES ASSUME Init PROVE Outbox!Init
    OBVIOUS
  <2>1. Phases = [l \in Listens |-> "none"]
    BY DEF Init, Phases, Phase, Unheard, Unqueued
  <2>2. Taken = {} /\ Received = {}
    BY DEF Init, Taken, Received, Delivering, WorkerAt
  <2>. QED
    BY <2>1, <2>2 DEF Outbox!Init, Phases, Taken, Received
<1>2. OutboxInv /\ [Next]_vars => [Outbox!Next]_(Outbox!outbox)
  <2> SUFFICES ASSUME OutboxInv, [Next]_vars PROVE Outbox!Next \/ UNCHANGED Outbox!outbox
    OBVIOUS
  <2>1. CASE UNCHANGED vars
    <3>1. UNCHANGED <<queue, worker, accepted>>
      BY <2>1 DEF vars, tables
    <3>2. Taken' = Taken
      BY <3>1 DEF Taken, Delivering
    <3>. QED
      BY <3>1, <3>2, Unseen
  <2>2. CASE Next
    BY <2>2, ChangesRefine, PrivacyRefines, ClaimRefines, DeliveryRefines, FinishRefines
    DEF Next, WorkerStep
  <2>. QED
    BY <2>1, <2>2
<1>. QED
  BY <1>1, <1>2, OutboxInvariant, PTL DEF Spec, OutboxContract, Outbox!Spec
=============================================================================
