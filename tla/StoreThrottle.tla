--------------------------- MODULE StoreThrottle ---------------------------
(***************************************************************************)
(* Requests to a music store (social/artist_follows.rs): every scan of     *)
(* releases takes a slot from release_provider_throttle before it asks,    *)
(* and an answer that asks for patience moves the next slot.               *)
(*                                                                         *)
(* A slot is taken in a deferred transaction whose write may fail: always  *)
(* (SQLITE_BUSY_SNAPSHOT) if another connection has committed since the    *)
(* read, and the code goes on as if it had not.                            *)
(***************************************************************************)
EXTENDS Integers

CONSTANTS
  Requests,   \* requests under way at once
  Spacing,    \* request_interval_ms
  Patience,   \* 30_000: the longest wait for a slot
  Pauses,     \* what a store asks for, clamped: at least 60_000
  MaxClock    \* bound

ASSUME ThrottleAssumption ==
  {Spacing, Patience, MaxClock} \subseteq Nat /\ Pauses \subseteq Nat

NoRow == -1
NoSlot == [at |-> "idle"]

VARIABLES
  clock,
  nextAt,     \* next_request_at of the store
  asking,     \* the requests
  outdated,   \* requests whose snapshot is no longer the last
  cooled      \* history: the end of the latest pause that was stored

throttleVars == <<clock, nextAt, asking, outdated, cooled>>

LastSlot == MaxClock + Patience

ThrottleTypeOK ==
  /\ clock \in 0..MaxClock
  /\ nextAt \in {NoRow} \cup Nat
  /\ asking \in [Requests -> {NoSlot} \cup
       [at : {"reads", "waits", "sent"}, slot : 0..LastSlot, kept : BOOLEAN, knew : Nat]]
  /\ outdated \subseteq Requests
  /\ cooled \in Nat

ThrottleInit ==
  /\ clock = 0 /\ nextAt = NoRow
  /\ asking = [r \in Requests |-> NoSlot]
  /\ outdated = {} /\ cooled = 0

-----------------------------------------------------------------------------
Later(a, b) == IF a >= b THEN a ELSE b

\* The other requests between their read and their write.
OthersReading(r) == {q \in Requests \ {r} : asking[q].at = "reads"}

\* The first half of the transaction; a store that cools down is not waited for.
ReadsSlot(r) ==
  /\ asking[r] = NoSlot
  /\ LET slot == Later(clock, nextAt) IN
       /\ slot - clock <= Patience
       /\ asking' = [asking EXCEPT ![r] =
                       [at |-> "reads", slot |-> slot, kept |-> FALSE, knew |-> cooled]]
  /\ outdated' = outdated \ {r}
  /\ UNCHANGED <<clock, nextAt, cooled>>

\* A write that does not depend on the snapshot.
StoresAnyway(r) == TRUE

MayStore(r) == r \notin outdated

StoresSlot(r) ==
  /\ asking[r].at = "reads" /\ MayStore(r)
  /\ nextAt' = asking[r].slot + Spacing
  /\ asking' = [asking EXCEPT ![r].at = "waits", ![r].kept = TRUE]
  /\ outdated' = (outdated \cup OthersReading(r)) \ {r}
  /\ UNCHANGED <<clock, cooled>>

\* The upsert or the commit fails, which is not looked at.
StoreFails(r) ==
  /\ asking[r].at = "reads"
  /\ asking' = [asking EXCEPT ![r].at = "waits"]
  /\ outdated' = outdated \ {r}
  /\ UNCHANGED <<clock, nextAt, cooled>>

SendsRequest(r) ==
  /\ asking[r].at = "waits" /\ clock >= asking[r].slot
  /\ asking' = [asking EXCEPT ![r].at = "sent"]
  /\ UNCHANGED <<clock, nextAt, outdated, cooled>>

\* Metadata, or an error that does not concern the next request; before that the
\* policy may cancel the request, wherever it is.
RequestEnds(r) ==
  /\ asking[r] # NoSlot
  /\ asking' = [asking EXCEPT ![r] = NoSlot]
  /\ outdated' = outdated \ {r}
  /\ UNCHANGED <<clock, nextAt, cooled>>

\* A pause replaces the slot that was there.
PausedUntil(until) == until

PauseKeepsLater(until) == Later(nextAt, until)

\* 429, 503, or the quota error of Deezer: an UPDATE, which finds no row if no slot
\* was ever stored.
StorePauses(r, pause) ==
  /\ asking[r].at = "sent"
  /\ asking' = [asking EXCEPT ![r] = NoSlot]
  /\ IF nextAt = NoRow
       THEN UNCHANGED <<nextAt, cooled, outdated>>
       ELSE /\ nextAt' = PauseKeepsLater(clock + pause)
            /\ cooled' = Later(cooled, clock + pause)
            /\ outdated' = outdated \cup OthersReading(r)
  /\ clock' = clock

ThrottleClock ==
  /\ clock < MaxClock
  /\ clock' = clock + 1
  /\ UNCHANGED <<nextAt, asking, outdated, cooled>>

ThrottleNext ==
  \/ \E r \in Requests :
       \/ ReadsSlot(r) \/ StoresSlot(r) \/ StoreFails(r) \/ SendsRequest(r) \/ RequestEnds(r)
       \/ \E pause \in Pauses : StorePauses(r, pause)
  \/ ThrottleClock

ThrottleSpec == ThrottleInit /\ [][ThrottleNext]_throttleVars

-----------------------------------------------------------------------------
(* Properties                                                              *)

\* "enforces SQLite-backed cross-worker throttling" (artist_follows.rs): a request
\* waits for the end of every pause that was stored when it looked, although slots
\* and pauses are written by overlapping transactions, and two slots that were both
\* stored are as far apart as the store wants.  Slots that were lost are not.
StoreLeftAlone ==
  \A r \in Requests : asking[r] # NoSlot =>
    /\ asking[r].slot >= asking[r].knew
    /\ \A q \in Requests \ {r} :
         asking[r].at # "reads" /\ asking[q] # NoSlot /\ asking[r].kept /\ asking[q].kept =>
           \/ asking[r].slot >= asking[q].slot + Spacing
           \/ asking[q].slot >= asking[r].slot + Spacing
=============================================================================
