---------------------------- MODULE ScrobbleQueue ----------------------------
(***************************************************************************)
(* The durable scrobble outbox of the server (server-rust/src/scrobbling/  *)
(* queue.rs) with the part of the privacy manager that restricts it        *)
(* (server-rust/src/services/privacy.rs): one listener and one provider,   *)
(* which is one row of scrobble_connections and one ordered stream of      *)
(* scrobble_queue; the streams share only the worker and the policy.       *)
(*                                                                         *)
(* queue, conn and dbPolicy are tables and survive a restart; the rest is  *)
(* process memory, and accepted is what the provider recorded.  One action *)
(* is the code between two await points; a transaction is one action.      *)
(*                                                                         *)
(* Time is abstracted: due says that next_attempt_at, or lease_until of a  *)
(* row being sent, has passed; paused that pause_until has not.  A listen  *)
(* is its rank in the order (listened_at, created_at, id).                 *)
(***************************************************************************)
EXTENDS Naturals

CONSTANTS
  Listens,       \* bound: the listens, 1..n
  Accounts,      \* provider accounts the user may connect
  MaxAttempts,   \* SCROBBLE_MAX_ATTEMPTS
  MaxOps,        \* bound: connects, tests, disconnects and retries
  MaxPolicies,   \* bound: privacy policy saves and runtime updates
  MaxRestarts    \* bound: restarts of the process

ASSUME ListensAssumption == Listens \subseteq Nat
ASSUME AttemptsAssumption == MaxAttempts \in Nat \ {0}
ASSUME OutboxBoundsAssumption == {MaxOps, MaxPolicies, MaxRestarts} \subseteq Nat

VARIABLES
  queue,      \* scrobble_queue, and the sessions not (yet) in it
  conn,       \* the row of scrobble_connections
  dbPolicy,   \* privacy.policy as stored: external integrations allowed
  policy,     \* the policy the privacy manager has published
  suspended,  \* a runtime update suspends all outbound work
  stopped,    \* close() was called
  worker,     \* the drain of the background worker
  change,     \* the operation that holds the `changing` key
  retrying,   \* the account of a retry between its check and its update
  accepted,   \* the submissions the provider recorded
  ops, policies, restarts   \* counters of the bounds

tables == <<queue, conn, dbPolicy>>
privacy == <<policy, suspended>>
counters == <<ops, policies, restarts>>
vars == <<tables, privacy, stopped, worker, change, retrying, accepted, counters>>

NoAccount == "none"
NoListen == 0

ASSUME AccountsAssumption == NoAccount \notin Accounts

\* Before its row exists a session is unheard, playing, or stale: started
\* before the connection was made or the policy was last saved.
Unqueued == {"unheard", "playing", "stale"}
Unsent   == {"pending", "sending", "blocked", "failed"}
States   == Unqueued \cup Unsent \cup {"sent", "ignored", "cancelled"}

Results == {"none", "ok", "paused", "transient", "blocked", "permanent", "ignored"}
WorkerPcs == {"idle", "open", "claim", "permit", "fetch", "check", "send",
              "drop", "finish", "commit", "record"}

Unheard == [state |-> "unheard", attempts |-> 0, due |-> FALSE, account |-> NoAccount]
NotConnected == [enabled |-> FALSE, account |-> NoAccount, gen |-> 0,
                 broken |-> FALSE, paused |-> FALSE]
\* Where the worker is, the claimed row and its generation, the permit, the
\* connection it fetched, and what the provider answered.
WorkerAt(pc) == [pc |-> pc, job |-> NoListen, gen |-> 0, permit |-> FALSE,
                 seen |-> NotConnected, reached |-> FALSE, result |-> "none"]
NoChange == [pc |-> "none", account |-> NoAccount, gen |-> 0]

Row == [state : States, attempts : Nat, due : BOOLEAN,
        account : Accounts \cup {NoAccount}]
Connection == [enabled : BOOLEAN, account : Accounts \cup {NoAccount}, gen : 0..MaxOps,
               broken : BOOLEAN, paused : BOOLEAN]

TypeOK ==
  /\ queue \in [Listens -> Row]
  /\ \A l \in Listens : queue[l].state \notin Unqueued => queue[l].account \in Accounts
  /\ conn \in Connection
  /\ {dbPolicy, policy, suspended, stopped} \subseteq BOOLEAN
  /\ worker \in [pc : WorkerPcs, job : Listens \cup {NoListen}, gen : 0..MaxOps,
                 permit : BOOLEAN, seen : Connection, reached : BOOLEAN, result : Results]
  /\ change \in [pc : {"none", "validate", "save", "verify", "unblock"},
                 account : Accounts \cup {NoAccount}, gen : 0..MaxOps]
  /\ retrying \in Accounts \cup {NoAccount}
  /\ accepted \subseteq [listen : Listens, account : Accounts]
  /\ ops \in 0..MaxOps
  /\ policies \in 0..MaxPolicies
  /\ restarts \in 0..MaxRestarts

-----------------------------------------------------------------------------
(***************************************************************************)
(* Helpers.                                                                *)
(***************************************************************************)

\* is_external_allowed(External)
Allowed == policy /\ ~suspended
\* assert_available, but for the plugin's own switch.
Available == ~stopped /\ Allowed

InStates(states) == {l \in Listens : queue[l].state \in states}

\* The rows S take the state s, at the time `due` says.
Move(S, s, due) ==
  [l \in Listens |-> IF l \in S THEN [queue[l] EXCEPT !.state = s, !.due = due] ELSE queue[l]]

\* Unsent rows are withdrawn.
Cancelled == Move(InStates(Unsent), "cancelled", FALSE)

\* started_ms is before connected_at, or before the policy's updated_at.
Aged(q) ==
  [l \in Listens |-> IF q[l].state = "playing" THEN [q[l] EXCEPT !.state = "stale"] ELSE q[l]]

-----------------------------------------------------------------------------
Init ==
  /\ queue = [l \in Listens |-> Unheard]
  /\ conn = NotConnected
  /\ dbPolicy = TRUE
  /\ policy = TRUE
  /\ suspended = FALSE
  /\ stopped = FALSE
  /\ worker = WorkerAt("idle")
  /\ change = NoChange
  /\ retrying = NoAccount
  /\ accepted = {}
  /\ ops = 0
  /\ policies = 0
  /\ restarts = 0

-----------------------------------------------------------------------------
(***************************************************************************)
(* Listening.                                                              *)
(***************************************************************************)

StartSession(l) ==
  /\ queue[l].state = "unheard"
  /\ queue' = [queue EXCEPT ![l].state = "playing"]
  /\ UNCHANGED <<conn, dbPolicy, privacy, stopped, worker, change, retrying, accepted, counters>>

\* enqueue_playback_on_conn, in the transaction that records the listen; a
\* listen reported again finds its row and INSERT OR IGNORE does nothing.
Enqueue(l) ==
  /\ Available
  /\ queue[l].state = "playing"
  /\ conn.enabled
  /\ queue' = [queue EXCEPT ![l] = [state |-> "pending", attempts |-> 0, due |-> TRUE,
                                    account |-> conn.account]]
  /\ UNCHANGED <<conn, dbPolicy, privacy, stopped, worker, change, retrying, accepted, counters>>

\* Time passes: a backoff, a lease or the pause of the connection ends.
Elapse(l) ==
  /\ queue[l].state \in {"pending", "sending", "failed"}
  /\ ~queue[l].due
  /\ queue' = [queue EXCEPT ![l].due = TRUE]
  /\ UNCHANGED <<conn, dbPolicy, privacy, stopped, worker, change, retrying, accepted, counters>>

PauseEnds ==
  /\ conn.paused
  /\ conn' = [conn EXCEPT !.paused = FALSE]
  /\ UNCHANGED <<queue, dbPolicy, privacy, stopped, worker, change, retrying, accepted, counters>>

-----------------------------------------------------------------------------
(***************************************************************************)
(* The connection.  begin_change lets one of connect, test and disconnect  *)
(* run at a time; retry does not take the key.                             *)
(***************************************************************************)

ChangeFrame == UNCHANGED <<dbPolicy, privacy, stopped, worker, retrying, accepted,
                           policies, restarts>>

BeginChange ==
  /\ change = NoChange
  /\ ~stopped
  /\ ops < MaxOps
  /\ ops' = ops + 1

ConnectBegin ==
  /\ BeginChange
  /\ Allowed
  /\ change' = [NoChange EXCEPT !.pc = "validate"]
  /\ ChangeFrame /\ UNCHANGED <<queue, conn>>

\* The provider names the account of the credentials; save_connection asks
\* once more whether the integration is available.
ConnectValidate(a) ==
  /\ change.pc = "validate"
  /\ Available
  /\ change' = [change EXCEPT !.pc = "save", !.account = a]
  /\ ChangeFrame /\ UNCHANGED <<queue, conn, ops>>

\* The credentials are refused, or the integration became unavailable.
ConnectFail ==
  /\ change.pc = "validate"
  /\ change' = NoChange
  /\ ChangeFrame /\ UNCHANGED <<queue, conn, ops>>

\* The transaction of save_connection.
ConnectSave ==
  LET a == change.account
      same == conn.enabled /\ conn.account = a IN
  /\ change.pc = "save"
  /\ queue' = IF same THEN Move(InStates({"blocked", "sending"}), "pending", TRUE)
                      ELSE Aged(Cancelled)
  /\ conn' = [enabled |-> TRUE, account |-> a, gen |-> conn.gen + 1,
              broken |-> FALSE, paused |-> FALSE]
  /\ change' = NoChange
  /\ ChangeFrame /\ UNCHANGED ops

Disconnect ==
  /\ BeginChange
  /\ conn.account # NoAccount
  /\ queue' = Cancelled
  /\ conn' = [conn EXCEPT !.enabled = FALSE, !.gen = @ + 1, !.broken = FALSE, !.paused = FALSE]
  /\ ChangeFrame /\ UNCHANGED change

TestBegin ==
  /\ BeginChange
  /\ Allowed
  /\ conn.enabled
  /\ change' = [NoChange EXCEPT !.pc = "verify", !.gen = conn.gen]
  /\ ChangeFrame /\ UNCHANGED <<queue, conn>>

\* The credentials hold: first the connection, then the blocked rows.
TestOk ==
  /\ change.pc = "verify"
  /\ conn' = IF conn.gen = change.gen THEN [conn EXCEPT !.broken = FALSE, !.paused = FALSE]
                                      ELSE conn
  /\ change' = [change EXCEPT !.pc = "unblock"]
  /\ ChangeFrame /\ UNCHANGED <<queue, ops>>

TestUnblock ==
  /\ change.pc = "unblock"
  /\ queue' = Move(InStates({"blocked"}), "pending", TRUE)
  /\ change' = NoChange
  /\ ChangeFrame /\ UNCHANGED <<conn, ops>>

\* record_connection_error, with no pause; refused tells a credential or
\* configuration failure from any other.
TestFail(refused) ==
  /\ change.pc = "verify"
  /\ conn' = IF conn.gen = change.gen THEN [conn EXCEPT !.broken = refused, !.paused = FALSE]
                                      ELSE conn
  /\ change' = NoChange
  /\ ChangeFrame /\ UNCHANGED <<queue, ops>>

RetryCheck ==
  /\ ops < MaxOps
  /\ Available
  /\ retrying = NoAccount
  /\ conn.enabled /\ ~conn.broken
  /\ retrying' = conn.account
  /\ ops' = ops + 1
  /\ UNCHANGED <<tables, privacy, stopped, worker, change, accepted, policies, restarts>>

\* failed rows of that account go back; their waiting time is kept.
RetryWrite ==
  /\ retrying # NoAccount
  /\ queue' = [l \in Listens |->
                 IF queue[l].state = "failed" /\ queue[l].account = retrying
                 THEN [queue[l] EXCEPT !.state = "pending", !.attempts = 0] ELSE queue[l]]
  /\ retrying' = NoAccount
  /\ UNCHANGED <<conn, dbPolicy, privacy, stopped, worker, change, accepted, counters>>

-----------------------------------------------------------------------------
(***************************************************************************)
(* The privacy policy, runtime updates, shutdown and restart.              *)
(***************************************************************************)

\* The transaction of PrivacyManager::update; updated_at moves in any case.
PolicyCommit(external) ==
  /\ policies < MaxPolicies
  /\ policies' = policies + 1
  /\ policy = dbPolicy
  /\ dbPolicy' = external
  /\ queue' = Aged(IF external THEN queue ELSE Cancelled)
  /\ UNCHANGED <<conn, privacy, stopped, worker, change, retrying, accepted, ops, restarts>>

\* publish: a policy that forbids cancels the permits handed out.
PolicyPublish ==
  /\ policy # dbPolicy
  /\ policy' = dbPolicy
  /\ worker' = [worker EXCEPT !.permit = @ /\ dbPolicy]
  /\ UNCHANGED <<tables, suspended, stopped, change, retrying, accepted, counters>>

\* begin_runtime_update: outbound work is cancelled before the gate is taken.
Suspend ==
  /\ policies < MaxPolicies
  /\ policies' = policies + 1
  /\ ~suspended /\ ~stopped
  /\ suspended' = TRUE
  /\ worker' = [worker EXCEPT !.permit = FALSE]
  /\ UNCHANGED <<tables, policy, stopped, change, retrying, accepted, ops, restarts>>

\* RuntimeUpdateGuard::complete: the gate was taken when the drain and every
\* request had ended.
Resume ==
  /\ suspended
  /\ worker.pc = "idle" /\ change = NoChange /\ retrying = NoAccount /\ policy = dbPolicy
  /\ suspended' = FALSE
  /\ UNCHANGED <<tables, policy, stopped, worker, change, retrying, accepted, counters>>

\* Graceful shutdown; the restart that follows is one of the bound.
Close ==
  /\ restarts < MaxRestarts
  /\ ~stopped
  /\ stopped' = TRUE
  /\ UNCHANGED <<tables, privacy, worker, change, retrying, accepted, counters>>

\* The process ends, at any point, and the next one opens the same database.
Restart ==
  /\ restarts < MaxRestarts
  /\ restarts' = restarts + 1
  /\ policy' = dbPolicy
  /\ suspended' = FALSE
  /\ stopped' = FALSE
  /\ worker' = WorkerAt("idle")
  /\ change' = NoChange
  /\ retrying' = NoAccount
  /\ UNCHANGED <<tables, accepted, ops, policies>>

-----------------------------------------------------------------------------
(***************************************************************************)
(* The worker: drain, claim_next_job, deliver_job and finish_delivery.     *)
(***************************************************************************)

WorkerFrame == UNCHANGED <<dbPolicy, privacy, stopped, change, retrying, accepted, counters>>
Goto(pc) == worker' = [worker EXCEPT !.pc = pc]
\* The delivery is over; the loop of drain goes on.
NextJob == worker' = WorkerAt("claim")

\* A tick, a wake or a policy change: drain enters the runtime gate.
DrainBegin ==
  /\ worker.pc = "idle"
  /\ ~suspended /\ ~stopped
  /\ Goto("open")
  /\ WorkerFrame /\ UNCHANGED <<queue, conn>>

DrainCheck ==
  /\ worker.pc = "open"
  /\ Goto(IF Available THEN "claim" ELSE "idle")
  /\ queue' = IF ~stopped /\ ~Allowed /\ ~suspended THEN Cancelled ELSE queue
  /\ WorkerFrame /\ UNCHANGED conn

Recovered(q) ==
  [l \in Listens |-> IF q[l].state = "sending" /\ q[l].due
                     THEN [q[l] EXCEPT !.state = "pending"] ELSE q[l]]

\* The row the SELECT of claim_next_job finds in q: the oldest of the
\* connected account, unless an older one waits, is being sent or is blocked.
Claimable(q, l) ==
  /\ q[l].state = "pending" /\ q[l].due
  /\ conn.enabled /\ ~conn.broken /\ ~conn.paused
  /\ q[l].account = conn.account
  /\ \A k \in Listens : k < l /\ q[k].account = q[l].account
                          => q[k].state \notin {"pending", "sending", "blocked"}

\* The transaction of claim_next_job over q; without a row it is rolled back.
ClaimFrom(q) ==
  /\ worker.pc = "claim"
  /\ IF Available /\ \E l \in Listens : Claimable(q, l)
     THEN \E l \in Listens :
            /\ Claimable(q, l)
            /\ queue' = [q EXCEPT ![l].state = "sending", ![l].due = FALSE]
            /\ worker' = [WorkerAt("permit") EXCEPT !.job = l, !.gen = conn.gen]
     ELSE worker' = WorkerAt("idle") /\ UNCHANGED queue
  /\ WorkerFrame /\ UNCHANGED conn

\* Slip, told apart by WaitingSettles: expired leases are not recovered.
WorkerClaimNoRecovery == ClaimFrom(queue)
WorkerClaim == ClaimFrom(Recovered(queue))

WorkerPermit ==
  /\ worker.pc = "permit"
  /\ worker' = IF Allowed THEN [worker EXCEPT !.pc = "fetch", !.permit = TRUE]
                          ELSE [worker EXCEPT !.pc = "drop"]
  /\ WorkerFrame /\ UNCHANGED <<queue, conn>>

WorkerFetch ==
  /\ worker.pc = "fetch"
  /\ worker' = [worker EXCEPT !.pc = "check", !.seen = conn]
  /\ WorkerFrame /\ UNCHANGED <<queue, conn>>

Answer(result) == worker' = [worker EXCEPT !.pc = "finish", !.result = result,
                                           !.seen = NotConnected]

\* Slip, told apart by OwnAccountOnly: the claimed row is trusted to belong to
\* the connection.
WorkerCheckBlind ==
  /\ worker.pc = "check"
  /\ worker.permit /\ ~stopped
  /\ Goto("send")
  /\ WorkerFrame /\ UNCHANGED <<queue, conn>>
\* The submission starts if the connection fetched is still the one the row
\* was claimed under; the plugin may have been disabled meanwhile, and
\* assert_available may notice a restriction before the select does.
WorkerCheck ==
  /\ worker.pc = "check"
  /\ \/ /\ worker.permit /\ ~stopped
        /\ IF /\ worker.seen.enabled
              /\ worker.seen.gen = worker.gen
              /\ worker.seen.account = queue[worker.job].account
           THEN Goto("send") \/ Answer("blocked")
           ELSE Answer("paused")
     \/ ~Available /\ Answer("paused")
  /\ WorkerFrame /\ UNCHANGED <<queue, conn>>

\* The request reaches the provider, with the credentials that were fetched.
ProviderAccepts ==
  /\ worker.pc = "send"
  /\ ~worker.reached
  /\ worker' = [worker EXCEPT !.reached = TRUE]
  /\ accepted' = accepted \cup {[listen |-> worker.job, account |-> worker.seen.account]}
  /\ UNCHANGED <<tables, privacy, stopped, change, retrying, counters>>

\* The answer, or a network failure that says nothing of the provider.
WorkerAnswer ==
  /\ worker.pc = "send"
  /\ worker.permit /\ ~stopped
  /\ \E result \in {"transient"} \cup (IF worker.reached THEN {"ok"}
                                       ELSE {"blocked", "permanent", "ignored"}) :
       Answer(result)
  /\ WorkerFrame /\ UNCHANGED <<queue, conn>>

\* The biased select: a cancelled permit or the shutdown drops the request.
WorkerAbort ==
  /\ worker.pc \in {"check", "send"}
  /\ ~worker.permit \/ stopped
  /\ worker' = [worker EXCEPT !.pc = "drop", !.seen = NotConnected]
  /\ WorkerFrame /\ UNCHANGED <<queue, conn>>

\* lease_token = ? AND state = 'sending': the only claimer is this worker.
HoldsLease == queue[worker.job].state = "sending"

\* cancel_claimed
WorkerDrop ==
  /\ worker.pc = "drop"
  /\ queue' = IF HoldsLease THEN Move({worker.job}, "cancelled", FALSE) ELSE queue
  /\ NextJob
  /\ WorkerFrame /\ UNCHANGED conn

\* finish_delivery gives up when the connection has changed.
WorkerFinish ==
  /\ worker.pc = "finish"
  /\ IF conn.gen = worker.gen THEN Goto("commit") ELSE NextJob
  /\ WorkerFrame /\ UNCHANGED <<queue, conn>>

\* The row after the answer r.
Settled(row, r) ==
  LET tried == IF r = "paused" THEN row.attempts ELSE row.attempts + 1
      state == CASE r = "ok"        -> "sent"
                 [] r = "paused"    -> "pending"
                 [] r = "blocked"   -> "blocked"
                 [] r = "ignored"   -> "ignored"
                 [] r = "permanent" -> "failed"
                 [] r = "transient" -> IF tried >= MaxAttempts THEN "failed" ELSE "pending" IN
  [row EXCEPT !.state = state, !.due = FALSE,
              !.attempts = IF r = "ok" THEN row.attempts ELSE tried]

\* What both of the transaction's outcomes do once the lease is known to hold.
Commit ==
  /\ queue' = [queue EXCEPT ![worker.job] = Settled(@, worker.result)]
  /\ conn' = IF worker.result = "ok" /\ conn.gen = worker.gen
             THEN [conn EXCEPT !.broken = FALSE, !.paused = FALSE] ELSE conn
  /\ IF worker.result \in {"ok", "paused"} THEN NextJob ELSE Goto("record")

\* Slip, told apart by OutboxContract: the row is written without asking for
\* the lease again.
WorkerCommitNoLease ==
  /\ worker.pc = "commit"
  /\ Commit
  /\ WorkerFrame
\* The transaction of finish_delivery.
WorkerCommit ==
  /\ worker.pc = "commit"
  /\ IF HoldsLease THEN Commit ELSE NextJob /\ UNCHANGED <<queue, conn>>
  /\ WorkerFrame

\* record_connection_error, in a statement of its own after the commit.
WorkerRecord ==
  /\ worker.pc = "record"
  /\ conn' = IF conn.gen = worker.gen
             THEN [conn EXCEPT !.broken = worker.result = "blocked",
                               !.paused = worker.result = "transient"] ELSE conn
  /\ NextJob
  /\ WorkerFrame /\ UNCHANGED queue

WorkerStep ==
  \/ DrainBegin \/ DrainCheck \/ WorkerClaim \/ WorkerPermit \/ WorkerFetch
  \/ WorkerCheck \/ WorkerAnswer \/ WorkerAbort \/ WorkerDrop
  \/ WorkerFinish \/ WorkerCommit \/ WorkerRecord

ChangeStep ==
  \/ \E a \in Accounts : ConnectValidate(a)
  \/ ConnectFail \/ ConnectSave
  \/ TestOk \/ TestUnblock \/ TestFail(TRUE) \/ TestFail(FALSE)

Next ==
  \/ \E l \in Listens : StartSession(l) \/ Enqueue(l) \/ Elapse(l)
  \/ PauseEnds
  \/ ConnectBegin \/ Disconnect \/ TestBegin \/ ChangeStep
  \/ RetryCheck \/ RetryWrite
  \/ PolicyCommit(TRUE) \/ PolicyCommit(FALSE) \/ PolicyPublish
  \/ Suspend \/ Resume \/ Close \/ Restart
  \/ WorkerStep \/ ProviderAccepts

Spec == Init /\ [][Next]_vars

\* The worker's interval ticks and its future is polled, requests and policy
\* saves are carried through, time passes.
Fairness ==
  /\ WF_vars(WorkerStep)
  /\ WF_vars(ChangeStep) /\ WF_vars(RetryWrite) /\ WF_vars(PolicyPublish)
  /\ WF_vars(PauseEnds)
  /\ \A l \in Listens : WF_vars(Elapse(l))

FairSpec == Spec /\ Fairness
-----------------------------------------------------------------------------
(***************************************************************************)
(* Properties.                                                             *)
(***************************************************************************)

\* A listen is only ever submitted with the credentials of the account it was
\* queued for, whenever the user switches accounts between the claim, the
\* fetch of the credentials and the request.
OwnAccountOnly == \A s \in accepted : s.account = queue[s.listen].account

\* The abstract outbox: the connection, leases, generations and permits
\* together keep its promise.
Phase(l) ==
  CASE queue[l].state \in Unqueued -> "none"
    [] queue[l].state \in {"pending", "sending", "blocked"} -> "waiting"
    [] OTHER -> queue[l].state
Delivering == worker.pc \in {"permit", "fetch", "check", "send", "drop", "finish", "commit"}

Outbox == INSTANCE ListenOutbox WITH
  phase <- [l \in Listens |-> Phase(l)],
  taken <- IF Delivering THEN {worker.job} ELSE {},
  received <- {s.listen : s \in accepted}

OutboxContract == Outbox!Spec

\* Delivery is at least once: an unsent listen is cancelled only when the
\* connection it was queued for ends or the policy forbids external sharing.
CancelledByChoice ==
  [][\A l \in Listens :
       queue[l].state \in Unsent /\ queue'[l].state = "cancelled"
         => conn'.gen # conn.gen \/ ~dbPolicy']_vars

\* While the account is connected in good order, nothing restricts it and no
\* row waits for a test of the credentials, every queued listen is settled:
\* what a dead worker had claimed is recovered, no failure is tried for ever.
Deliverable ==
  /\ Available /\ dbPolicy
  /\ conn.enabled /\ ~conn.broken
  /\ InStates({"blocked"}) = {}
WaitingSettles ==
  <>[]Deliverable => \A l \in Listens : (Phase(l) = "waiting") ~> (Phase(l) # "waiting")

=============================================================================
