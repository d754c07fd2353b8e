---------------------------- MODULE RuntimeGate ----------------------------
(***************************************************************************)
(* The gate between requests and changes of the running configuration      *)
(* (lib.rs, routes/privacy.rs, routes/recovery_export.rs), with the        *)
(* permits that outbound work holds (services/privacy.rs).                 *)
(*                                                                         *)
(* A request, a drain of the scrobble queue or a release scan holds the    *)
(* gate shared from its beginning to its end; a saved configuration or a    *)
(* restore holds it alone.  tokio's RwLock is fair: nobody overtakes in    *)
(* its queue.  One category of outbound work stands for the four, whose    *)
(* permits are independent.                                                *)
(***************************************************************************)
EXTENDS Naturals, Sequences, SequencesExt

CONSTANTS
  Callers,      \* requests and background passes under way at once
  Updaters,     \* administrators' requests that change the runtime
  MaxUpdates    \* bound

NoUpdater == "no updater"

ASSUME GateAssumption ==
  /\ MaxUpdates \in Nat /\ NoUpdater \notin Updaters
  /\ Callers \cap Updaters = {}

VARIABLES
  caller,     \* where the requests and passes are
  queue,      \* who waits for the gate
  serial,     \* the holder of runtime_updates
  updater,    \* where the updates are
  wasReady,   \* was_ready of the RuntimeUpdateGuard
  serving,    \* runtime_ready
  suspended,  \* PrivacyRuntime::suspended
  allowed,    \* PrivacyRuntime::stored, effective for the category
  policy,     \* the privacy.policy row
  token, revoked,  \* the permit: its number and whether it is cancelled
  inTables,   \* the generation of the configuration in the tables
  inMemory,   \* the generation in memory
  lapsed,     \* history: callers whose work was forbidden since it began
  updates

gateVars == <<caller, queue, serial, updater, wasReady, serving, suspended, allowed, policy,
              token, revoked, inTables, inMemory, lapsed, updates>>
permits  == <<token, revoked, lapsed>>
runtime  == <<serving, suspended, allowed, policy, inTables, inMemory>>
updating == <<serial, updater, wasReady, updates>>

\* "library" work ends by itself; "recovery" is admitted while the runtime is not
\* ready; "external" work needs a permit, and so does a "background" pass.
Kinds == {"library", "recovery", "external", "background"}
Away == [at |-> "away"]

GateTypeOK ==
  /\ caller \in [Callers -> {Away} \cup [at : {"waits", "inside"}, kind : Kinds]
                            \cup [at : {"works"}, kind : Kinds, permit : 0..MaxUpdates]]
  /\ queue \in Seq(Callers \cup Updaters)
  /\ serial \in Updaters \cup {NoUpdater}
  /\ updater \in [Updaters -> {"idle", "policy", "publish", "begin", "waits", "alone",
                               "reload", "install"}]
  /\ wasReady \in BOOLEAN /\ serving \in BOOLEAN /\ suspended \in BOOLEAN
  /\ allowed \in BOOLEAN /\ policy \in BOOLEAN
  /\ token \in 0..MaxUpdates /\ revoked \in BOOLEAN
  /\ inTables \in 0..MaxUpdates /\ inMemory \in 0..MaxUpdates
  /\ lapsed \subseteq Callers
  /\ updates \in 0..MaxUpdates

GateInit ==
  /\ caller = [c \in Callers |-> Away]
  /\ queue = <<>> /\ serial = NoUpdater
  /\ updater = [u \in Updaters |-> "idle"]
  /\ wasReady = TRUE /\ serving = TRUE /\ suspended = FALSE
  /\ allowed \in BOOLEAN /\ policy = allowed
  /\ token = 0 /\ revoked = FALSE
  /\ inTables = 0 /\ inMemory = 0
  /\ lapsed = {} /\ updates = 0

-----------------------------------------------------------------------------
(* Permits                                                                 *)

Outbound(c) == caller[c].at = "works"

\* A permit that is allowed again is the one that was cancelled.
PublishReusesPermit(suspend, allow) ==
  /\ suspended' = suspend /\ allowed' = allow
  /\ revoked' = (suspend \/ ~allow) /\ token' = token
  /\ lapsed' = IF revoked' THEN lapsed \cup {c \in Callers : Outbound(c)} ELSE lapsed

\* publish: a permit that is not allowed is cancelled for good; when it is allowed
\* again a new one takes its place.
Publish(suspend, allow) ==
  /\ suspended' = suspend /\ allowed' = allow
  /\ IF suspend \/ ~allow
       THEN /\ revoked' = TRUE /\ token' = token
            /\ lapsed' = lapsed \cup {c \in Callers : Outbound(c)}
       ELSE /\ revoked' = FALSE /\ token' = IF revoked THEN token + 1 ELSE token
            /\ lapsed' = lapsed

\* The permit of c is cancelled.
Cancelled(c) == caller[c].permit # token \/ revoked

-----------------------------------------------------------------------------
(* Requests and background passes                                          *)

Moves(c, to) == caller' = [caller EXCEPT ![c] = to]
Ends(c) == Moves(c, Away) /\ lapsed' = lapsed \ {c}
Inside(c) == caller[c].at \in {"inside", "works"}
Alone == \E u \in Updaters : updater[u] \in {"alone", "reload", "install"}

Arrives(c, kind) ==
  /\ caller[c] = Away
  /\ Moves(c, [at |-> "waits", kind |-> kind])
  /\ queue' = Append(queue, c)
  /\ UNCHANGED <<updating, runtime, permits>>

\* The gate, then the look at runtime_ready, which a background pass does not take.
Enters(c) ==
  /\ queue # <<>> /\ Head(queue) = c /\ ~Alone
  /\ queue' = Tail(queue)
  /\ Moves(c, IF serving \/ caller[c].kind \in {"recovery", "background"}
                THEN [at |-> "inside", kind |-> caller[c].kind]
                ELSE Away)                                     \* 503
  /\ UNCHANGED <<updating, runtime, permits>>

\* Work without a permit is answered: its calls to the media server time out.
Answers(c) ==
  /\ caller[c].at = "inside" /\ caller[c].kind \in {"library", "recovery"}
  /\ Moves(c, Away)
  /\ UNCHANGED <<queue, updating, runtime, permits>>

\* outbound_permit, after the session has been read.
TakesPermit(c) ==
  /\ caller[c].at = "inside" /\ caller[c].kind \in {"external", "background"}
  /\ Moves(c, IF allowed /\ ~suspended
                THEN [at |-> "works", kind |-> caller[c].kind, permit |-> token]
                ELSE Away)                                     \* 403
  /\ UNCHANGED <<queue, updating, runtime, permits>>

\* run_external, and the looks of a pass at its permit: the cancellation is asked
\* first, then the result is taken.
Completes(c) ==
  /\ Outbound(c) /\ ~Cancelled(c)
  /\ Ends(c)
  /\ UNCHANGED <<queue, updating, runtime, token, revoked>>

\* A drain goes on with its next delivery.
GoesOn(c) ==
  /\ Outbound(c) /\ ~Cancelled(c) /\ caller[c].kind = "background"
  /\ Moves(c, [at |-> "inside", kind |-> "background"])
  /\ lapsed' = lapsed \ {c}
  /\ UNCHANGED <<queue, updating, runtime, token, revoked>>

Refused(c) ==
  /\ Outbound(c) /\ Cancelled(c)
  /\ Ends(c)
  /\ UNCHANGED <<queue, updating, runtime, token, revoked>>

\* The client has gone and the handler is dropped, wherever it is.
Leaves(c) ==
  /\ caller[c] # Away /\ caller[c].kind # "background"
  /\ Ends(c)
  /\ IF caller[c].at = "waits"
       THEN \E i \in DOMAIN queue : queue[i] = c /\ queue' = RemoveAt(queue, i)
       ELSE queue' = queue
  /\ UNCHANGED <<updating, runtime, token, revoked>>

-----------------------------------------------------------------------------
(* Updates: tasks of their own, which a client that goes does not stop.    *)

Goes(u, to) == updater' = [updater EXCEPT ![u] = to]
Releases(u) == Goes(u, "idle") /\ serial' = NoUpdater

\* privacy_update_lock, or begin_runtime_update up to the same lock.
Locks(u) ==
  /\ updater[u] = "idle" /\ serial = NoUpdater /\ updates < MaxUpdates
  /\ serial' = u /\ updates' = updates + 1
  /\ \E to \in {"policy", "begin"} : Goes(u, to)
  /\ UNCHANGED <<caller, queue, wasReady, runtime, permits>>

\* patch_privacy_policy: no longer an administrator, or a database error ...
PolicyRefused(u) ==
  /\ updater[u] = "policy"
  /\ Releases(u)
  /\ UNCHANGED <<caller, queue, wasReady, updates, runtime, permits>>

\* ... or PrivacyManager::update commits ...
PolicyCommits(u) ==
  /\ updater[u] = "policy"
  /\ policy' \in BOOLEAN
  /\ Goes(u, "publish")
  /\ UNCHANGED <<caller, queue, serial, wasReady, updates, serving, suspended, allowed, inTables, inMemory,
                 permits>>

\* ... and publishes.
PolicyPublishes(u) ==
  /\ updater[u] = "publish"
  /\ Publish(suspended, policy)
  /\ Releases(u)
  /\ UNCHANGED <<caller, queue, wasReady, updates, serving, policy, inTables, inMemory>>

\* An update that leaves it to the outbound work to end.
BeginsKeepsPermits(u) ==
  /\ updater[u] = "begin"
  /\ wasReady' = serving /\ serving' = FALSE /\ suspended' = TRUE
  /\ queue' = Append(queue, u)
  /\ Goes(u, "waits")
  /\ UNCHANGED <<caller, serial, updates, allowed, policy, inTables, inMemory, permits>>

\* begin_runtime_update: first the permits, then the wait for the gate.
Begins(u) ==
  /\ updater[u] = "begin"
  /\ wasReady' = serving /\ serving' = FALSE
  /\ Publish(TRUE, allowed)
  /\ queue' = Append(queue, u)
  /\ Goes(u, "waits")
  /\ UNCHANGED <<caller, serial, updates, policy, inTables, inMemory>>

GetsGate(u) ==
  /\ queue # <<>> /\ Head(queue) = u
  /\ \A c \in Callers : ~Inside(c)
  /\ queue' = Tail(queue)
  /\ Goes(u, "alone")
  /\ UNCHANGED <<caller, serial, wasReady, updates, runtime, permits>>

\* complete: the permits and the traffic are allowed again.
Opens == serving' = TRUE /\ Publish(FALSE, allowed)

\* unchanged: nothing was written; a runtime that was not ready stays so.
Rejected(u) ==
  /\ updater[u] = "alone"
  /\ IF wasReady THEN Opens ELSE UNCHANGED <<serving, suspended, allowed, permits>>
  /\ Releases(u)
  /\ UNCHANGED <<caller, queue, wasReady, updates, policy, inTables, inMemory>>

\* The tables have a new configuration; a restore brings its policy too.
Persists(u) ==
  /\ updater[u] = "alone"
  /\ inTables' = inTables + 1
  /\ policy' \in BOOLEAN
  /\ Goes(u, "reload")
  /\ UNCHANGED <<caller, queue, serial, wasReady, updates, serving, suspended, allowed, inMemory, permits>>

\* refresh_runtime: the policy is loaded; the providers follow, and the
\* configuration.
Reloads(u) ==
  /\ updater[u] = "reload"
  /\ Publish(suspended, policy)
  /\ Goes(u, "install")
  /\ UNCHANGED <<caller, queue, serial, wasReady, updates, serving, policy, inTables, inMemory>>

Installs(u) ==
  /\ updater[u] = "install"
  /\ inMemory' = inTables
  /\ Opens
  /\ Releases(u)
  /\ UNCHANGED <<caller, queue, wasReady, updates, policy, inTables>>

\* The guard is dropped: the gate opens, the runtime does not.
Fails(u) ==
  /\ updater[u] \in {"alone", "reload", "install"}
  /\ Releases(u)
  /\ UNCHANGED <<caller, queue, wasReady, updates, runtime, permits>>

-----------------------------------------------------------------------------
Proceeds(c) == Enters(c) \/ Answers(c) \/ TakesPermit(c) \/ Refused(c)

UpdateSteps(u) ==
  \/ PolicyRefused(u) \/ PolicyCommits(u) \/ PolicyPublishes(u) \/ Begins(u) \/ GetsGate(u)
  \/ Rejected(u) \/ Persists(u) \/ Reloads(u) \/ Installs(u) \/ Fails(u)

GateNext ==
  \/ \E c \in Callers : (\E kind \in Kinds : Arrives(c, kind)) \/ Proceeds(c) \/ Completes(c) \/ GoesOn(c) \/ Leaves(c)
  \/ \E u \in Updaters : Locks(u) \/ UpdateSteps(u)

\* Tasks are polled.  Outbound work is not assumed to end by itself.
GateFairness ==
  /\ \A c \in Callers : WF_gateVars(Proceeds(c))
  /\ \A u \in Updaters : WF_gateVars(UpdateSteps(u))

GateSpec == GateInit /\ [][GateNext]_gateVars /\ GateFairness

-----------------------------------------------------------------------------
(* Properties                                                              *)

\* Outbound work whose permission was withdrawn since it began will find its permit
\* cancelled, whatever was allowed again or resumed meanwhile: "a permit that remains
\* cancelled across rapid restrict/allow toggles" (outbound_permit).
WorkKeepsPermit ==
  \A c \in lapsed : Outbound(c) /\ Cancelled(c)

\* The runtime that serves is the one that was saved last, also after updates that
\* failed half-way were followed by updates that were rejected (RuntimeUpdateGuard,
\* refresh_runtime); only a policy between its commit and its publication differs.
ServesWhatIsSaved ==
  serving =>
    /\ inMemory = inTables
    /\ allowed = policy \/ \E u \in Updaters : updater[u] = "publish"

\* An update gets the gate and ends, although outbound work need not end by itself
\* and requests keep coming (begin_runtime_update).
UpdatesEnd ==
  \A u \in Updaters : updater[u] # "idle" ~> updater[u] = "idle"
=============================================================================
