------------------------------- MODULE MCService -------------------------------
(***************************************************************************)
(* What the server has to bring to an end: requests that save queues,      *)
(* imports, the streams of sessions that are over, and updates of its own  *)
(* configuration.  The four share no state here, so a behaviour moves one  *)
(* of them and leaves the others as they start.  Accounts are checked      *)
(* twice: requests of administrators that overlap, while no session lapses *)
(* and none has a stream, and one request at a time among lapses and       *)
(* streams.                                                                *)
(***************************************************************************)
EXTENDS QueueSessions, AcquisitionJobs, AccountSessions, RuntimeGate

VARIABLE part

serviceVars == <<queueVars, jobVars, accountVars, gateVars, part>>

Init ==
  /\ QueueInit /\ JobsInit /\ AccountsInit /\ GateInit
  /\ part \in {"queues", "jobs", "admins", "accounts", "gate"}
  /\ part # "gate" => allowed

MoveAccounts == AccountsNext /\ UNCHANGED <<queueVars, jobVars, gateVars>>

\* Requests of administrators that overlap, or one after another.
NoStreams == lapses' = 0 /\ refreshing' = {} /\ streams' = {}
OneAtATime == \A c \in Askers \ {CHOOSE d \in Askers : TRUE} : request'[c] = NoRequest

Next ==
  /\ \/ part = "queues" /\ QueueNext /\ UNCHANGED <<jobVars, accountVars, gateVars>>
     \/ part = "jobs" /\ JobsNext /\ UNCHANGED <<queueVars, accountVars, gateVars>>
     \/ part = "admins" /\ MoveAccounts /\ NoStreams
     \/ part = "accounts" /\ MoveAccounts /\ OneAtATime
     \/ part = "gate" /\ GateNext /\ UNCHANGED <<queueVars, jobVars, accountVars>>
  /\ part' = part

Spec ==
  /\ Init /\ [][Next]_serviceVars
  /\ QueueFairness /\ JobsFairness /\ AccountsFairness /\ GateFairness

\* The rows and the requests of the four have the shape their tables and
\* handlers give them.
ServiceTypeOK == QueueTypeOK /\ JobsTypeOK /\ AccountsTypeOK /\ GateTypeOK
=============================================================================
