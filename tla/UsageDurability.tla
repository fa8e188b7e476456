--------------------------- MODULE UsageDurability ---------------------------
(***************************************************************************)
(* What happens to a batch of usage between the provider's answer and the  *)
(* outbox: the resilient sink tries the outbox, then the emergency spool,  *)
(* and trips the circuit breaker on the way; an operator replays the spool *)
(* and resets the breaker.  Sinks, replays and resets run in several       *)
(* processes that share the files.                                         *)
(***************************************************************************)
EXTENDS Naturals, Sequences

CONSTANTS
  Batches,      \* each is given to one sink call
  Conflicting,  \* batches the outbox refuses for what it already holds
  MaxFrames,    \* frames until the spool's high-water mark
  MaxIncidents

VARIABLES
  outbox,     \* the batches in the outbox
  frames,     \* the complete frames of the spool
  torn,       \* an incomplete frame follows them
  cursor,     \* frames replayed
  breaker,    \* the circuit's state; an incident is named by its tripped_at
  sink,       \* where each batch's sink call is, or how it ended
  replay,     \* the replay, which holds the spool's lock
  operator,   \* the reset in progress
  uncovered   \* batches reported lost since the last reset

durabilityVars == <<outbox, frames, torn, cursor, breaker, sink, replay, operator, uncovered>>

DurabilityInit ==
  /\ outbox = {} /\ frames = <<>> /\ torn = FALSE /\ cursor = 0
  /\ breaker = [tripped |-> FALSE, incident |-> 0]
  /\ sink = [b \in Batches |-> "new"]
  /\ replay = "idle"
  /\ operator = [at |-> "idle", expected |-> 0]
  /\ uncovered = {}

SinkGoes(b, at) == sink' = [sink EXCEPT ![b] = at]

\* trip: a tripped circuit keeps its incident, and with it the grace of its callers.
Trips ==
  /\ breaker.tripped \/ breaker.incident < MaxIncidents
  /\ breaker' = IF breaker.tripped THEN breaker
                ELSE [tripped |-> TRUE, incident |-> breaker.incident + 1]

Unlocked == replay = "idle"

-----------------------------------------------------------------------------
(* ResilientCommercialUsageSink.__call__ *)

Enqueue(b) ==
  /\ sink[b] = "new" /\ b \notin Conflicting
  /\ outbox' = outbox \cup {b}
  /\ SinkGoes(b, "outbox")
  /\ UNCHANGED <<frames, torn, cursor, breaker, replay, operator, uncovered>>

EnqueueFails(b) ==
  /\ sink[b] = "new"
  /\ SinkGoes(b, "trip")
  /\ UNCHANGED <<outbox, frames, torn, cursor, breaker, replay, operator, uncovered>>

\* The breaker's file may fail too: the call goes on.
TripThenSpool(b) ==
  /\ sink[b] = "trip"
  /\ Trips \/ UNCHANGED breaker
  /\ SinkGoes(b, "spool")
  /\ UNCHANGED <<outbox, frames, torn, cursor, replay, operator, uncovered>>

\* append_batch parses the whole spool before it appends.
Append_(b) ==
  /\ sink[b] = "spool" /\ Unlocked
  /\ ~torn /\ Len(frames) < MaxFrames
  /\ frames' = Append(frames, b)
  /\ SinkGoes(b, "emergency_spool")
  /\ UNCHANGED <<outbox, torn, cursor, breaker, replay, operator, uncovered>>

AppendFails(b) ==
  /\ sink[b] = "spool" /\ Unlocked
  /\ torn' \in {torn, torn \/ Len(frames) < MaxFrames}
  /\ SinkGoes(b, "again")
  /\ UNCHANGED <<outbox, frames, cursor, breaker, replay, operator, uncovered>>

\* Mutant of TripAgain: the circuit is taken to be tripped already.
TripAgainNot(b) ==
  /\ sink[b] = "again"
  /\ SinkGoes(b, "lost") /\ uncovered' = uncovered \cup {b}
  /\ UNCHANGED <<outbox, frames, torn, cursor, breaker, replay, operator>>

\* trip with replace_reason; "untold" is a loss the breaker could not record either.
TripAgain(b) ==
  /\ sink[b] = "again"
  /\ \/ Trips /\ SinkGoes(b, "lost") /\ uncovered' = uncovered \cup {b}
     \/ SinkGoes(b, "untold") /\ UNCHANGED <<breaker, uncovered>>
  /\ UNCHANGED <<outbox, frames, torn, cursor, replay, operator>>

\* The sink's process is lost, in the middle of a frame or elsewhere.
SinkCrash(b) ==
  /\ sink[b] \in {"new", "trip", "spool", "again"}
  /\ SinkGoes(b, "gone")
  /\ torn' \in {torn, torn \/ (sink[b] = "spool" /\ Unlocked)}
  /\ UNCHANGED <<outbox, frames, cursor, breaker, replay, operator, uncovered>>

-----------------------------------------------------------------------------
(* replay_into, under the spool's lock *)

ReplayStart ==
  /\ replay = "idle" /\ ~torn /\ cursor < Len(frames)
  /\ replay' = "enqueue"
  /\ UNCHANGED <<outbox, frames, torn, cursor, breaker, sink, operator, uncovered>>

\* Mutant of ReplayEnqueue: the cursor is written first.
ReplayEnqueueLate ==
  /\ replay = "enqueue"
  /\ cursor' = cursor + 1
  /\ replay' = "idle"
  /\ outbox' \in {outbox, outbox \cup {frames[cursor + 1]}}
  /\ UNCHANGED <<frames, torn, breaker, sink, operator, uncovered>>

\* A batch that is stored already is no error, one that conflicts is.
ReplayEnqueue ==
  /\ replay = "enqueue" /\ frames[cursor + 1] \notin Conflicting
  /\ outbox' = outbox \cup {frames[cursor + 1]}
  /\ replay' = "cursor"
  /\ UNCHANGED <<frames, torn, cursor, breaker, sink, operator, uncovered>>

ReplayCursor ==
  /\ replay = "cursor"
  /\ cursor' = cursor + 1
  /\ replay' = IF cursor + 1 < Len(frames) THEN "enqueue" ELSE "idle"
  /\ UNCHANGED <<outbox, frames, torn, breaker, sink, operator, uncovered>>

\* The replay fails or its process is lost: the lock is free again.
ReplayStops ==
  /\ replay # "idle"
  /\ replay' = "idle"
  /\ UNCHANGED <<outbox, frames, torn, cursor, breaker, sink, operator, uncovered>>

-----------------------------------------------------------------------------
(* Admission and reset *)

\* assert_work_allowed trips the circuit for a spool that is unread or unreadable,
\* for an outbox that is unhealthy or full, then asks the circuit.
AssertWorkAllowed ==
  /\ Unlocked /\ Trips
  /\ UNCHANGED <<outbox, frames, torn, cursor, sink, replay, operator, uncovered>>

\* The operator names the incident the evidence is about.
Notice ==
  /\ operator.at = "idle" /\ breaker.tripped
  /\ operator' = [at |-> "noticed", expected |-> breaker.incident]
  /\ UNCHANGED <<outbox, frames, torn, cursor, breaker, sink, replay, uncovered>>

\* reset_after_recovery reads the outbox's health before it takes the spool's lock.
Health ==
  /\ operator.at = "noticed"
  /\ operator' \in {[operator EXCEPT !.at = "healthy"], [at |-> "idle", expected |-> 0]}
  /\ UNCHANGED <<outbox, frames, torn, cursor, breaker, sink, replay, uncovered>>

ResetWithEvidence ==
  IF breaker.tripped /\ breaker.incident = operator.expected
  THEN breaker' = [breaker EXCEPT !.tripped = FALSE] /\ uncovered' = {}
  ELSE UNCHANGED <<breaker, uncovered>>

Reset ==
  /\ operator.at = "healthy" /\ Unlocked
  /\ operator' = [at |-> "idle", expected |-> 0]
  /\ IF ~torn /\ cursor = Len(frames) THEN ResetWithEvidence ELSE UNCHANGED <<breaker, uncovered>>
  /\ UNCHANGED <<outbox, frames, torn, cursor, sink, replay>>

DurabilityNext ==
  \/ \E b \in Batches :
       \/ Enqueue(b) \/ EnqueueFails(b) \/ TripThenSpool(b) \/ Append_(b) \/ AppendFails(b)
       \/ TripAgain(b) \/ SinkCrash(b)
  \/ ReplayStart \/ ReplayEnqueue \/ ReplayCursor \/ ReplayStops
  \/ AssertWorkAllowed \/ Notice \/ Health \/ Reset

DurabilitySpec == DurabilityInit /\ [][DurabilityNext]_durabilityVars

-----------------------------------------------------------------------------
(* Properties *)

\* A batch the sink reported durable is in the outbox or in a frame still to be
\* replayed, over crashes of sinks and replays.
DurableIsKept ==
  \A b \in Batches :
    sink[b] \in {"outbox", "emergency_spool"} =>
      b \in outbox \/ \E i \in cursor + 1 .. Len(frames) : frames[i] = b

\* After a loss the circuit stays open until a reset that came later, although the
\* circuit may have been reset between the two failures of the sink.
LostStopsWork == uncovered # {} => breaker.tripped
=============================================================================
