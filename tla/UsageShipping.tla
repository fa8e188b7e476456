---------------------------- MODULE UsageShipping ----------------------------
(***************************************************************************)
(* The commercial usage outbox and the shippers that deliver its rows to   *)
(* the ingest service.  The same protocol ships usage events and, with     *)
(* one more rule, the revisions of a reconciliation report: `chained' says *)
(* which of the two tables a behaviour is about.  Time only matters        *)
(* through leases that expire and delays that pass, so both may do so at   *)
(* any lease_batch.                                                        *)
(***************************************************************************)
EXTENDS Naturals, Sequences, FiniteSets

CONSTANTS
  Rows,         \* the rows that may be recorded, numbered in the order they are
  Shippers,     \* processes running CommercialUsageShipper
  MaxAttempts,  \* max_event_attempts
  Limit,        \* batch_size
  NoLease

ASSUME ShippingConstants == IsFiniteSet(Rows) /\ MaxAttempts \in Nat

VARIABLES
  chained,   \* the rows are revisions of one reconciliation report
  nature,    \* what the ingest service thinks of each row
  state,     \* the rows' states
  attempts,  \* attempt_count, counted up to MaxAttempts
  lease,     \* sending_lease_token, which names its shipper
  shipper,   \* the batches still to be sent, and the answer to the first
  delayed,   \* requests whose senders gave up, still on their way
  ingested   \* the rows the service has recorded

shippingVars == <<chained, nature, state, attempts, lease, shipper, delayed, ingested>>

Terminal == {"accepted", "dead"}
Ready == {"pending", "retryable"}
Unanswered == [r \in {} |-> NoLease]
IdleShipper == [todo |-> <<>>, answer |-> Unanswered]

\* "schema": the payload's version is not the shippable one; "malformed": the service
\* refuses the request that holds the row.
Natures == {"valid", "conflict", "malformed", "schema"}

ShippingInit ==
  /\ chained \in BOOLEAN
  /\ nature \in [Rows -> Natures]
  /\ chained => \A r \in Rows : nature[r] # "schema"
  /\ state = [r \in Rows |-> "absent"]
  /\ attempts = [r \in Rows |-> 0]
  /\ lease = [r \in Rows |-> NoLease]
  /\ shipper = [s \in Shippers |-> IdleShipper]
  /\ delayed = {} /\ ingested = {}

-----------------------------------------------------------------------------
(* The outbox *)

\* enqueue_batch and record_reconciliation_report insert the next row; a report
\* recorded by a process that ships none is held.
Record(r, st) ==
  /\ state[r] = "absent" /\ \A p \in Rows : p < r => state[p] # "absent"
  /\ st = "held" => chained
  /\ state' = [state EXCEPT ![r] = st]
  /\ UNCHANGED <<chained, nature, attempts, lease, shipper, delayed, ingested>>

\* A reconciliation shipper starts: held reports are released.
Enable ==
  /\ \E r \in Rows : state[r] = "held"
  /\ state' = [r \in Rows |-> IF state[r] = "held" THEN "pending" ELSE state[r]]
  /\ UNCHANGED <<chained, nature, attempts, lease, shipper, delayed, ingested>>

\* Mutant of Candidate: a report waits for the revision before it to be sent.
CandidateBehindSent(r, st) ==
  /\ st[r] \in Ready
  /\ chained => \A p \in Rows : p < r => st[p] \in {"sending", "accepted", "dead"}

\* A row can be leased; a report only when every earlier revision is accepted.
Candidate(r, st) ==
  /\ st[r] \in Ready
  /\ chained => \A p \in Rows : p < r => st[p] = "accepted"

\* lease_batch: expired leases are taken back, the rows that are due are leased and
\* those of another schema version are dead-lettered.
LeaseOf(s, expired, due) ==
  LET freed == [r \in Rows |-> IF r \in expired THEN "retryable" ELSE state[r]]
      batch == {r \in due : nature[r] # "schema"}
  IN
  /\ shipper[s] = IdleShipper
  /\ due # {} /\ Cardinality(due) <= Limit
  /\ \A r \in expired : state[r] = "sending"
  /\ \A r \in due : Candidate(r, freed)
  /\ state' = [r \in Rows |-> IF r \in batch THEN "sending"
                              ELSE IF r \in due THEN "dead" ELSE freed[r]]
  /\ attempts' = [r \in Rows |-> IF r \in batch /\ attempts[r] < MaxAttempts
                                 THEN attempts[r] + 1 ELSE attempts[r]]
  /\ lease' = [r \in Rows |-> IF r \in batch THEN s
                              ELSE IF r \in expired THEN NoLease ELSE lease[r]]
  /\ shipper' = IF batch = {} THEN shipper
                ELSE [shipper EXCEPT ![s].todo = <<batch>>]
  /\ UNCHANGED <<chained, nature, delayed, ingested>>

Lease(s) == \E expired, due \in SUBSET Rows : LeaseOf(s, expired, due)

\* _finish_sending for each row of a batch: a shipper whose lease was taken back
\* changes nothing.
Finish(s, result) ==
  LET held == {r \in DOMAIN result : state[r] = "sending" /\ lease[r] = s} IN
  /\ state' = [r \in Rows |-> IF r \in held THEN result[r] ELSE state[r]]
  /\ lease' = [r \in Rows |-> IF r \in held THEN NoLease ELSE lease[r]]

-----------------------------------------------------------------------------
(* The ingest service *)

Batch(s) == Head(shipper[s].todo)
Waiting(s) == shipper[s].todo # <<>> /\ shipper[s].answer = Unanswered

\* What the service records of a request, and what it answers for each row; a row it
\* would take it may refuse for now.
Records(rows, now) ==
  IF \E r \in rows : nature[r] = "malformed" THEN {}
  ELSE {r \in rows : nature[r] = "valid" /\ r \in now}

Answer(rows, now) ==
  [r \in rows |->
     CASE \E q \in rows : nature[q] = "malformed" -> "permanent"
       [] OTHER -> IF r \in ingested \cup now THEN "accepted"
                   ELSE IF nature[r] = "conflict" THEN "conflict" ELSE "rejected_retryable"]

Serve(s) ==
  /\ Waiting(s)
  /\ \E now \in SUBSET Batch(s) :
       /\ \A r \in now : nature[r] = "valid"
       /\ ingested' = ingested \cup Records(Batch(s), now)
       /\ shipper' = [shipper EXCEPT ![s].answer = Answer(Batch(s), now)]
  /\ UNCHANGED <<chained, nature, state, attempts, lease, delayed>>

ServeLate(rows) ==
  /\ rows \in delayed
  /\ delayed' = delayed \ {rows}
  /\ \E now \in SUBSET rows : ingested' = ingested \cup Records(rows, now)
  /\ UNCHANGED <<chained, nature, state, attempts, lease, shipper>>

-----------------------------------------------------------------------------
(* The shippers *)

\* Mutant of RowOutcome: an answer that leaves the outcome open counts as acceptance.
OutcomeHopeful(r, answer) ==
  IF answer \in {"accepted", "lost"} THEN "accepted"
  ELSE IF answer \in {"conflict", "permanent"} THEN "dead" ELSE "retryable"

\* What the shipper makes of a row: an answer that was lost, refused or ambiguous is
\* always tried again, a refused row only until its attempts are exhausted.
RowOutcome(r, answer) ==
  CASE answer = "accepted" -> "accepted"
    [] answer \in {"conflict", "permanent"} -> "dead"
    [] answer = "rejected_retryable" -> IF attempts[r] >= MaxAttempts THEN "dead" ELSE "retryable"
    [] answer = "lost" -> "retryable"

Sent(s) == shipper' = [shipper EXCEPT ![s] = [IdleShipper EXCEPT !.todo = Tail(shipper[s].todo)]]

\* Mutant of Deliver: a batch refused as a whole is settled as a whole.
DeliverUnsplit(s) ==
  LET answer == shipper[s].answer IN
  /\ answer # Unanswered
  /\ Sent(s)
  /\ Finish(s, [r \in DOMAIN answer |-> RowOutcome(r, answer[r])])
  /\ UNCHANGED <<chained, nature, attempts, delayed, ingested>>

\* _deliver_rows with the answer; a batch refused as a whole is sent again in two
\* parts.
Deliver(s) ==
  LET answer == shipper[s].answer
      rest == Tail(shipper[s].todo)
      Refused == \E r \in DOMAIN answer : answer[r] = "permanent"
  IN
  /\ answer # Unanswered
  /\ IF Refused /\ Cardinality(Batch(s)) > 1
     THEN /\ \E part \in SUBSET Batch(s) \ {{}, Batch(s)} :
               shipper' = [shipper EXCEPT ![s] =
                 [IdleShipper EXCEPT !.todo = <<part, Batch(s) \ part>> \o rest]]
          /\ UNCHANGED <<state, lease>>
     ELSE /\ Sent(s)
          /\ Finish(s, [r \in DOMAIN answer |-> RowOutcome(r, answer[r])])
  /\ UNCHANGED <<chained, nature, attempts, delayed, ingested>>

\* The request fails or times out, before or after the service handled it, or its
\* answer does not name its rows.
Fails(s) ==
  /\ shipper[s].todo # <<>>
  /\ delayed' = IF Waiting(s) THEN delayed \cup {Batch(s)} ELSE delayed
  /\ Sent(s)
  /\ Finish(s, [r \in Batch(s) |-> RowOutcome(r, "lost")])
  /\ UNCHANGED <<chained, nature, attempts, ingested>>

\* The process is lost with its batches; its leases stay until they expire.
ShipperCrash(s) ==
  /\ shipper[s].todo # <<>>
  /\ delayed' = IF Waiting(s) THEN delayed \cup {Batch(s)} ELSE delayed
  /\ shipper' = [shipper EXCEPT ![s] = IdleShipper]
  /\ UNCHANGED <<chained, nature, state, attempts, lease, ingested>>

Ships(s) == Lease(s) \/ Serve(s) \/ Deliver(s) \/ Fails(s)

\* The shippers of the two tables differ in their candidates only.
ShipEvents(s) == ~chained /\ Ships(s)
ShipReports(s) == chained /\ Ships(s)

ShippingNext ==
  \/ \E r \in Rows : Record(r, "pending") \/ Record(r, "held")
  \/ Enable
  \/ \E s \in Shippers : ShipEvents(s) \/ ShipReports(s) \/ ShipperCrash(s)
  \/ \E rows \in delayed : ServeLate(rows)

ShippingSpec == ShippingInit /\ [][ShippingNext]_shippingVars

-----------------------------------------------------------------------------
(* Properties *)

\* A row counts as accepted only if the service recorded it, whatever became of the
\* requests and answers in between.
AcceptedWasIngested == \A r \in Rows : state[r] = "accepted" => r \in ingested

\* The service never sees a revision of a report before the revisions it supersedes.
RevisionsInOrder ==
  chained => \A r \in ingested, p \in Rows : p < r => p \in ingested

\* A row the service would take is given up only after all its attempts, also when it
\* shared a batch with one that is refused.
OnlyRefusedDie ==
  \A r \in Rows : state[r] = "dead" /\ nature[r] = "valid" => attempts[r] = MaxAttempts
=============================================================================
