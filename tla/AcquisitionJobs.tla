-------------------------- MODULE AcquisitionJobs --------------------------
(***************************************************************************)
(* On-demand imports: the rows of acquisition_jobs, the requests that      *)
(* create, cancel and retry them (acquisition/service.rs), and the spotDL  *)
(* runner that the task manager calls for each (tasks/scheduler.rs).       *)
(*                                                                         *)
(* A job and its task are two rows.  Of the task only what the job can     *)
(* tell matters: whether it is still queued, whether it was cancelled      *)
(* under its worker, and whether its checkpoints wait (TaskManager).       *)
(* Every statement that writes may fail: a worker ends with the error, or  *)
(* drops it, and then has not written what it meant to.                    *)
(***************************************************************************)
EXTENDS Naturals, FiniteSets

CONSTANTS
  MaxJobs,            \* bound: jobs ever created
  Users,
  Containers,         \* keys of the container cache (albums)
  Clients,            \* requests under way at once
  MaxPending,         \* AcquisitionLimits::max_pending
  MaxPendingPerUser,  \* AcquisitionLimits::max_pending_per_user
  MaxOps,             \* bound: requests
  MaxTaskCancels,     \* bound: cancels of a task from the task page
  MaxCrashes          \* bound

NoContainer == "no container"

ASSUME JobBoundsAssumption ==
  /\ {MaxJobs, MaxPending, MaxPendingPerUser, MaxOps, MaxTaskCancels, MaxCrashes} \subseteq Nat
  /\ NoContainer \notin Containers

Jobs == 1..MaxJobs

Active   == {"queued", "discovering", "downloading"}
InFlight == {"discovering", "downloading"}
Settled  == {"completed", "failed", "cancelled"}
JobStatuses == {"none"} \cup Active \cup Settled

VARIABLES
  status,     \* acquisition_jobs.status
  submitter,  \* acquisition_jobs.user_id
  container,  \* acquisition_jobs.container_id
  listed,     \* the jobs with files in files_json
  ready,      \* acquisition_containers with status 'ready'
  task,       \* "none", "queued" or "over": the row in background_tasks
  worker,     \* where run_managed_job is, per job
  cancelled,  \* the cancel token of the task
  held,       \* jobs whose checkpoints wait: a pause, or a stream of media
  staged,     \* jobs with downloaded files in their staging directory
  client,     \* the requests under way
  phase,      \* "up", "down" or "starting"
  ops, cancels, crashes

jobVars == <<status, submitter, container, listed, ready, task, worker, cancelled, held, staged,
             client, phase, ops, cancels, crashes>>
jobRows   == <<status, submitter, container, listed, ready>>
jobMemory == <<worker, cancelled, held>>
jobBounds == <<ops, cancels, crashes>>

\* "lost": the worker has ended on a statement that failed.
WorkerAt == {"off", "lost", "load", "discover", "prepare", "download", "fetched", "broken",
             "store", "container", "clean"}
Idle     == [at |-> "idle"]

Request ==
  {Idle}
  \cup [at : {"global", "user", "admitted"}, user : Users]
  \cup [at : {"enqueue", "cancel", "retry"}, job : Jobs]

JobsTypeOK ==
  /\ status \in [Jobs -> JobStatuses]
  /\ submitter \in [Jobs -> Users]
  /\ container \in [Jobs -> Containers \cup {NoContainer}]
  /\ listed \subseteq Jobs /\ staged \subseteq Jobs
  /\ ready \subseteq Containers
  /\ task \in [Jobs -> {"none", "queued", "over"}]
  /\ worker \in [Jobs -> WorkerAt]
  /\ cancelled \subseteq Jobs /\ held \subseteq Jobs
  /\ client \in [Clients -> Request]
  /\ phase \in {"up", "down", "starting"}
  /\ ops \in 0..MaxOps /\ cancels \in 0..MaxTaskCancels /\ crashes \in 0..MaxCrashes

JobsInit ==
  /\ status = [j \in Jobs |-> "none"]
  /\ submitter \in {[j \in Jobs |-> u] : u \in Users}
  /\ container = [j \in Jobs |-> NoContainer]
  /\ listed = {} /\ ready = {} /\ staged = {}
  /\ task = [j \in Jobs |-> "none"]
  /\ worker = [j \in Jobs |-> "off"]
  /\ cancelled = {} /\ held = {}
  /\ client = [c \in Clients |-> Idle]
  /\ phase = "up"
  /\ ops = 0 /\ cancels = 0 /\ crashes = 0

-----------------------------------------------------------------------------
(* Requests: each read and each write of a row is a step.                  *)

PendingJobs == {j \in Jobs : status[j] \in Active}
PendingJobsOf(u) == {j \in PendingJobs : submitter[j] = u}

Turns(c, r) == client' = [client EXCEPT ![c] = r]

\* create_job, first count: all pending jobs.
SubmitGlobal(c, u) ==
  /\ phase = "up" /\ client[c] = Idle /\ ops < MaxOps
  /\ ops' = ops + 1
  /\ IF Cardinality(PendingJobs) >= MaxPending
       THEN client' = client                   \* 429 with Retry-After
       ELSE Turns(c, [at |-> "user", user |-> u])
  /\ UNCHANGED <<jobRows, task, jobMemory, staged, phase, cancels, crashes>>

\* Second count: the pending jobs of the user. The window of submissions that
\* follows is left out: it can refuse the request, which changes nothing here.
SubmitUser(c) ==
  /\ client[c].at = "user"
  /\ Turns(c, IF Cardinality(PendingJobsOf(client[c].user)) >= MaxPendingPerUser
               THEN Idle
               ELSE [at |-> "admitted", user |-> client[c].user])
  /\ UNCHANGED <<jobRows, task, jobMemory, staged, phase, jobBounds>>

\* The INSERT; nothing counts again.
SubmitInsert(c) ==
  /\ client[c].at = "admitted"
  /\ \E j \in Jobs, k \in Containers \cup {NoContainer} :
       /\ status[j] = "none" /\ \A i \in 1..(j - 1) : status[i] # "none"
       /\ status' = [status EXCEPT ![j] = "queued"]
       /\ submitter' = [submitter EXCEPT ![j] = client[c].user]
       /\ container' = [container EXCEPT ![j] = k]
       /\ Turns(c, [at |-> "enqueue", job |-> j])
  /\ UNCHANGED <<listed, ready, task, jobMemory, staged, phase, jobBounds>>

\* The task is queued, or the error is dropped and the job has none.
SubmitEnqueue(c) ==
  /\ client[c].at = "enqueue"
  /\ task' \in {[task EXCEPT ![client[c].job] = "queued"], task}
  /\ Turns(c, Idle)
  /\ UNCHANGED <<jobRows, jobMemory, staged, phase, jobBounds>>

\* cancel_job reads the status...
CancelRead(c, j) ==
  /\ phase = "up" /\ client[c] = Idle /\ ops < MaxOps
  /\ status[j] \in Active
  /\ ops' = ops + 1
  /\ Turns(c, [at |-> "cancel", job |-> j])
  /\ UNCHANGED <<jobRows, task, jobMemory, staged, phase, cancels, crashes>>

\* A request whose statement fails ends without a change.
RequestFails(c) ==
  /\ client[c].at \in {"user", "admitted", "cancel", "retry"}
  /\ Turns(c, Idle)
  /\ UNCHANGED <<jobRows, task, jobMemory, staged, phase, jobBounds>>

\* ... and overwrites it later. The task is not told.
CancelWrite(c) ==
  /\ client[c].at = "cancel"
  /\ status' = [status EXCEPT ![client[c].job] = "cancelled"]
  /\ Turns(c, Idle)
  /\ UNCHANGED <<submitter, container, listed, ready, task, jobMemory, staged, phase, jobBounds>>

RetryRead(c, j) ==
  /\ phase = "up" /\ client[c] = Idle /\ ops < MaxOps
  /\ status[j] \in {"failed", "cancelled"}
  /\ ops' = ops + 1
  /\ Turns(c, [at |-> "retry", job |-> j])
  /\ UNCHANGED <<jobRows, task, jobMemory, staged, phase, cancels, crashes>>

\* Neither the capacity nor the window is asked, and no task is queued.
RetryWrite(c) ==
  /\ client[c].at = "retry"
  /\ status' = [status EXCEPT ![client[c].job] = "queued"]
  /\ Turns(c, Idle)
  /\ UNCHANGED <<submitter, container, listed, ready, task, jobMemory, staged, phase, jobBounds>>

-----------------------------------------------------------------------------
(* The task and its runner.                                                *)

\* The pump starts the task; register kicks it before the sweep of the start.
Running(j) == worker[j] \notin {"off", "lost"}

TaskStarts(j) ==
  /\ phase # "down" /\ task[j] = "queued"
  /\ task' = [task EXCEPT ![j] = "over"]
  /\ worker' = [worker EXCEPT ![j] = "load"]
  /\ UNCHANGED <<jobRows, cancelled, held, staged, client, phase, jobBounds>>

\* An administrator cancels the task: its row if it waits, its token if it runs.
TaskCancelled(j) ==
  /\ phase = "up" /\ cancels < MaxTaskCancels
  /\ task[j] = "queued" \/ Running(j)
  /\ cancels' = cancels + 1
  /\ task' = [task EXCEPT ![j] = "over"]
  /\ cancelled' = cancelled \cup {j}
  /\ UNCHANGED <<jobRows, worker, held, staged, client, phase, ops, crashes>>

\* An administrator pauses the task or a stream starts, and it is resumed or the stream
\* ends, or neither ever happens.
Held(j) ==
  /\ phase # "down" /\ Running(j) /\ j \notin held
  /\ held' = held \cup {j}
  /\ UNCHANGED <<jobRows, task, worker, cancelled, staged, client, phase, jobBounds>>

Released(j) ==
  /\ j \in held /\ held' = held \ {j}
  /\ UNCHANGED <<jobRows, task, worker, cancelled, staged, client, phase, jobBounds>>

\* TaskRunContext::checkpoint returns; a cancel ends its wait.
Passes(j) == j \notin held \/ j \in cancelled

Steps(j, at) == worker' = [worker EXCEPT ![j] = at]

\* The status is written, or the UPDATE fails: its error ends the worker (`?`), or it
\* was the last thing the worker did.
WorkerSets(j, s, at) ==
  /\ \/ status' = [status EXCEPT ![j] = s] /\ Steps(j, at)
     \/ UNCHANGED status /\ Steps(j, "lost")
  /\ UNCHANGED <<submitter, container, listed, ready, task, cancelled, held, client, phase, jobBounds>>

\* The first checkpoint and the SELECT: a settled job is not run again.
WorkerLoad(j) ==
  /\ worker[j] = "load" /\ Passes(j)
  /\ \/ Steps(j, IF j \in cancelled \/ status[j] \in Settled THEN "off" ELSE "discover")
     \/ Steps(j, "lost")
  /\ UNCHANGED <<jobRows, task, cancelled, held, staged, client, phase, jobBounds>>

\* The row becomes 'discovering' whatever it has become since the SELECT.
WorkerDiscover(j) ==
  /\ worker[j] = "discover"
  /\ WorkerSets(j, "discovering", "prepare")
  /\ UNCHANGED staged

\* Nothing to look for: fail_job_in_db with NO_CANDIDATES.
WorkerNoTarget(j) ==
  /\ worker[j] = "prepare"
  /\ WorkerSets(j, "failed", "off")
  /\ UNCHANGED staged

\* A checkpoint, then 'downloading'. A cancelled task leaves the row as it is.
WorkerPrepare(j) ==
  /\ worker[j] = "prepare" /\ Passes(j)
  /\ IF j \in cancelled
       THEN Steps(j, "off") /\ UNCHANGED <<jobRows, task, cancelled, held, client, phase, jobBounds>>
       ELSE WorkerSets(j, "downloading", "download")
  /\ UNCHANGED staged

\* spotDL ends: with files in the staging directory, or with an error, which
\* may leave some there. The token does not reach the process.
DownloadEnds(j) ==
  /\ worker[j] = "download"
  /\ \/ Steps(j, "fetched") /\ staged' = staged \cup {j}
     \/ Steps(j, "broken") /\ staged' \in {staged, staged \cup {j}}
  /\ UNCHANGED <<jobRows, task, cancelled, held, client, phase, jobBounds>>

\* is_cancelled is asked before the outcome of the download.
WorkerCancelled(j) ==
  /\ worker[j] \in {"fetched", "broken"} /\ j \in cancelled
  /\ staged' = staged \ {j}
  /\ WorkerSets(j, "cancelled", "off")

\* A failed download that is not written down.
WorkerFailsSilently(j) ==
  /\ worker[j] = "broken" /\ j \notin cancelled
  /\ staged' = staged \ {j}
  /\ Steps(j, "off")
  /\ UNCHANGED <<jobRows, task, cancelled, held, client, phase, jobBounds>>

WorkerFailed(j) ==
  /\ worker[j] = "broken" /\ j \notin cancelled
  /\ staged' = staged \ {j}
  /\ WorkerSets(j, "failed", "off")

\* A download that fills the container before the job lists its files.
WorkerFetchedReady(j) ==
  /\ worker[j] = "fetched" /\ j \notin cancelled
  /\ Steps(j, "store")
  /\ ready' = ready \cup ({container[j]} \cap Containers)
  /\ UNCHANGED <<status, submitter, container, listed, task, cancelled, held, staged, client, phase, jobBounds>>

WorkerFetched(j) ==
  /\ worker[j] = "fetched" /\ j \notin cancelled
  /\ Steps(j, "store")
  /\ UNCHANGED <<jobRows, task, cancelled, held, staged, client, phase, jobBounds>>

\* The last checkpoint, then 'completed' with the paths of the files.
WorkerStore(j) ==
  /\ worker[j] = "store" /\ Passes(j)
  /\ \/ j \in cancelled /\ Steps(j, "off") /\ UNCHANGED <<status, listed>>
     \/ /\ j \notin cancelled /\ Steps(j, "container")
        /\ status' = [status EXCEPT ![j] = "completed"]
        /\ listed' = listed \cup {j}
     \/ j \notin cancelled /\ Steps(j, "lost") /\ UNCHANGED <<status, listed>>
  /\ UNCHANGED <<submitter, container, ready, task, cancelled, held, staged, client, phase, jobBounds>>

\* Writes the cache also for a job that has no container.
WorkerContainerAny(j) ==
  /\ worker[j] = "container"
  /\ ready' = ready \cup {container[j]}
  /\ Steps(j, "clean")
  /\ UNCHANGED <<status, submitter, container, listed, task, cancelled, held, staged, client, phase, jobBounds>>

\* The cache is told; an error of that is dropped.
WorkerContainer(j) ==
  /\ worker[j] = "container"
  /\ ready' \in {ready, ready \cup ({container[j]} \cap Containers)}
  /\ Steps(j, "clean")
  /\ UNCHANGED <<status, submitter, container, listed, task, cancelled, held, staged, client, phase, jobBounds>>

\* remove_dir_all of the staging directory, where the listed files are.
WorkerClean(j) ==
  /\ worker[j] = "clean"
  /\ staged' = staged \ {j}
  /\ Steps(j, "off")
  /\ UNCHANGED <<jobRows, task, cancelled, held, client, phase, jobBounds>>

-----------------------------------------------------------------------------
JobsCrash ==
  /\ phase # "down" /\ crashes < MaxCrashes
  /\ crashes' = crashes + 1
  /\ phase' = "down"
  /\ worker' = [j \in Jobs |-> "off"]
  /\ cancelled' = {} /\ held' = {}
  /\ client' = [c \in Clients |-> Idle]
  /\ UNCHANGED <<jobRows, task, staged, ops, cancels>>

JobsBoot ==
  /\ phase = "down"
  /\ phase' = "starting"
  /\ UNCHANGED <<jobRows, task, jobMemory, staged, client, jobBounds>>

\* recover_interrupted_jobs forgets the downloads.
RecoverForgetsDownloads ==
  /\ phase = "starting"
  /\ phase' = "up"
  /\ status' = [j \in Jobs |-> IF status[j] = "discovering" THEN "failed" ELSE status[j]]
  /\ UNCHANGED <<submitter, container, listed, ready, task, jobMemory, staged, client, jobBounds>>

\* recover_interrupted_jobs: what was in flight has failed; the queued wait.
RecoverInterruptedJobs ==
  /\ phase = "starting"
  /\ phase' = "up"
  /\ status' = [j \in Jobs |-> IF status[j] \in InFlight THEN "failed" ELSE status[j]]
  /\ UNCHANGED <<submitter, container, listed, ready, task, jobMemory, staged, client, jobBounds>>

SubmitSteps(c) ==
  \/ \E u \in Users : SubmitGlobal(c, u)
  \/ SubmitUser(c) \/ SubmitInsert(c) \/ SubmitEnqueue(c)

CancelSteps(c) == (\E j \in Jobs : CancelRead(c, j)) \/ CancelWrite(c) \/ RequestFails(c)
RetrySteps(c)  == (\E j \in Jobs : RetryRead(c, j)) \/ RetryWrite(c)

RunsOn(j) ==
  \/ WorkerLoad(j) \/ WorkerDiscover(j) \/ WorkerNoTarget(j) \/ WorkerPrepare(j)
  \/ DownloadEnds(j) \/ WorkerCancelled(j) \/ WorkerFailed(j) \/ WorkerFetched(j)
  \/ WorkerStore(j) \/ WorkerContainer(j) \/ WorkerClean(j)

JobsNext ==
  \/ \E c \in Clients : SubmitSteps(c) \/ CancelSteps(c) \/ RetrySteps(c)
  \/ \E j \in Jobs : TaskStarts(j) \/ TaskCancelled(j) \/ Held(j) \/ Released(j) \/ RunsOn(j)
  \/ JobsCrash \/ JobsBoot \/ RecoverInterruptedJobs

\* Runners are polled when their checkpoint lets them pass, a child process ends or is
\* killed by its timeout, and a process that starts recovers before it serves.  Nobody
\* has to release what is held.
JobsFairness ==
  /\ \A j \in Jobs : WF_jobVars(RunsOn(j))
  /\ WF_jobVars(JobsBoot) /\ WF_jobVars(RecoverInterruptedJobs)

JobsSpec == JobsInit /\ [][JobsNext]_jobVars /\ JobsFairness

-----------------------------------------------------------------------------
(* Properties                                                              *)

\* Once the server is up, a job that is discovering or downloading has a worker
\* that will settle it, unless that worker is "lost" to a failed statement or its task
\* was cancelled: no crash leaves one behind (recover_interrupted_jobs), and neither
\* does a cancel, a retry or a pause of the job at any moment of its run.
InFlightHasWorker ==
  phase = "up" =>
    \A j \in Jobs : status[j] \in InFlight => worker[j] # "off" \/ j \in cancelled

\* A container that is offered as ready was filled by a job that listed its
\* files, whatever was cancelled, retried or interrupted since.
ReadyWasFilled ==
  \A k \in ready : \E j \in listed : container[j] = k

\* A job in flight is settled in the end, across crashes, unless its checkpoints keep
\* waiting, its task is cancelled, a statement of its worker fails (the next start
\* settles it then), or the job is cancelled and retried.
InFlightSettles ==
  \A j \in Jobs :
    status[j] \in InFlight ~>
      \/ status[j] \in Settled \cup {"queued"}
      \/ j \in held \/ j \in cancelled \/ worker[j] = "lost"
=============================================================================
