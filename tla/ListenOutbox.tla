---------------------------- MODULE ListenOutbox ----------------------------
(***************************************************************************)
(* What the scrobble outbox of one listener at one provider promises,      *)
(* whatever workers, leases and generations it is built from:              *)
(*   - a listen is handed to the provider only after it was taken from the *)
(*     queue while it waited there;                                        *)
(*   - a listen is reported as sent only if the provider received it;      *)
(*   - sent, ignored and cancelled are final: a listen that was withdrawn  *)
(*     by a privacy change, a disconnection or another account is never    *)
(*     put back, and only a failed one may be, by hand.                    *)
(* Delivery is at least once: a listen may be received and yet be taken    *)
(* again, when the confirmation was lost.                                  *)
(***************************************************************************)
EXTENDS Naturals

CONSTANT Listens      \* the listens, numbered by the time they started

VARIABLES
  phase,     \* where each listen stands
  taken,     \* the listens a delivery is under way for
  received   \* the listens the provider has recorded

outbox == <<phase, taken, received>>

Final == {"sent", "ignored", "cancelled"}
Phases == {"none", "waiting", "failed"} \cup Final

Init ==
  /\ phase = [l \in Listens |-> "none"]
  /\ taken = {}
  /\ received = {}

Queue(l) ==
  /\ phase[l] = "none"
  /\ phase' = [phase EXCEPT ![l] = "waiting"]
  /\ UNCHANGED <<taken, received>>

Take(l) ==
  /\ phase[l] = "waiting"
  /\ taken = {}
  /\ taken' = {l}
  /\ UNCHANGED <<phase, received>>

Receive(l) ==
  /\ l \in taken
  /\ received' = received \cup {l}
  /\ UNCHANGED <<phase, taken>>

\* The delivery ends without a verdict: it may be tried again.
Release(l) ==
  /\ l \in taken
  /\ taken' = taken \ {l}
  /\ UNCHANGED <<phase, received>>

Settle(l, verdict) ==
  /\ l \in taken
  /\ phase[l] = "waiting"
  /\ verdict = "sent" => l \in received
  /\ phase' = [phase EXCEPT ![l] = verdict]
  /\ taken' = taken \ {l}
  /\ UNCHANGED received

\* Listens that are not final are withdrawn, with or without the delivery
\* that is under way for one of them.
Withdraw(gone, ended) ==
  /\ \A l \in gone : phase[l] \in {"waiting", "failed"}
  /\ phase' = [l \in Listens |-> IF l \in gone THEN "cancelled" ELSE phase[l]]
  /\ taken' = taken \ ended
  /\ UNCHANGED received

Reopen(again) ==
  /\ \A l \in again : phase[l] = "failed"
  /\ phase' = [l \in Listens |-> IF l \in again THEN "waiting" ELSE phase[l]]
  /\ UNCHANGED <<taken, received>>

Next ==
  \/ \E l \in Listens : \/ Queue(l) \/ Take(l) \/ Receive(l) \/ Release(l)
                        \/ \E v \in {"sent", "ignored", "failed"} : Settle(l, v)
  \/ \E gone \in SUBSET Listens, ended \in SUBSET taken : Withdraw(gone, ended)
  \/ \E again \in SUBSET Listens : Reopen(again)

Spec == Init /\ [][Next]_outbox
=============================================================================
