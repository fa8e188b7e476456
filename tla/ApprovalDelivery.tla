-------------------------- MODULE ApprovalDelivery --------------------------
(***************************************************************************)
(* The decisions an owner takes for a detached child run, from the row     *)
(* that record_vote or a cancellation adds to the delivery outbox to the   *)
(* child's acknowledgement.  A row is delivered by the request that        *)
(* decided it, by a repeated request, by the cancellation of the run and   *)
(* by the drainer, each running deliver_autonomous_approval_outbox; the    *)
(* awaits of these tasks are the points where the others run.              *)
(***************************************************************************)
EXTENDS Naturals, Sequences, Functions

CONSTANTS
  Approvals,  \* the requests of one child run
  Handlers,   \* decision requests of its owner
  Cancels,    \* deletions of the run
  Drainer, None,
  MaxRestarts

ASSUME ActorsDiffer ==
  /\ Handlers \cap Cancels = {}
  /\ Drainer \notin Handlers \cup Cancels
  /\ None \notin Handlers \cup Cancels \cup {Drainer}

Workers == Handlers \cup Cancels \cup {Drainer}

VARIABLES
  request,  \* the durable requests' states
  fenced,   \* persistent_grant_cancellation_fences
  row,      \* the delivery outbox
  order,    \* the approvals with a row, by delivery_sequence
  audited,  \* the approvals whose audit receipts are durable
  txn,      \* who holds the store's write transaction over an await
  running,  \* the run's record accepts decisions and its process lives
  channel,  \* the parent's endpoint of the approval channel
  sent,     \* the decisions it sent, in order
  wire,     \* frames between the endpoints
  inbox,    \* the decisions the child was given, in order
  lock,     \* who holds the run's approval_decision_lock
  worker,   \* the deliveries in progress
  drain,    \* the drainer's loop
  wake,     \* its wake event
  retry,    \* its retry timer is armed
  restarts  \* restarts of the gateway so far

store == <<request, fenced, row, order, audited>>
child == <<running, channel, sent, wire, inbox>>
loop == <<drain, wake, retry, restarts>>
vars == <<request, fenced, row, order, audited, txn, running, channel, sent, wire, inbox,
          lock, worker, drain, wake, retry, restarts>>

NoRow == [audit |-> "none", state |-> "none"]
Idle == [at |-> "idle", for |-> None]

Init ==
  /\ request = [a \in Approvals |-> "pending_user"]
  /\ fenced = {} /\ order = <<>> /\ audited = {} /\ txn = None
  /\ row = [a \in Approvals |-> NoRow]
  /\ running = TRUE /\ channel = "open"
  /\ sent = <<>> /\ wire = <<>> /\ inbox = <<>>
  /\ lock = None
  /\ worker = [w \in Workers |-> Idle]
  /\ drain = [at |-> "waiting", upto |-> 0, rows |-> {}, failed |-> FALSE]
  /\ wake = TRUE /\ retry = FALSE /\ restarts = 0

At(w, pc) == worker[w].at = pc
Row(w) == row[worker[w].for]
Goes(w, pc) == [worker EXCEPT ![w].at = pc]
Seq_(a) == CHOOSE i \in DOMAIN order : order[i] = a
Upto(n) == {order[i] : i \in 1..n}
Pending(a) == row[a].state = "pending"

\* A delivery returns or raises: the drainer notes a row that is still pending, the
\* other callers answer their request.
Ends(w) == worker' = [worker EXCEPT ![w] = Idle]
Noted(w) == drain' = IF w = Drainer /\ Pending(worker[w].for)
                     THEN [drain EXCEPT !.failed = TRUE] ELSE drain
Unlocks(w) == lock' = IF lock = w THEN None ELSE lock
Raises(w) == Ends(w) /\ Noted(w) /\ Unlocks(w)

-----------------------------------------------------------------------------
(* Decisions *)

\* The transaction of record_vote or terminalize_pending_for_cancellation: the row
\* of the decision takes the next sequence.
Decides(a, decision) ==
  /\ txn = None
  /\ request' = [request EXCEPT ![a] = decision]
  /\ row' = [row EXCEPT ![a] = [audit |-> "pending", state |-> "pending"]]
  /\ order' = Append(order, a)

Accepts == running /\ channel # "none"

Vote(h, a, decision) ==
  /\ At(h, "idle") /\ row[a] = NoRow /\ Accepts
  /\ request[a] = "pending_user"
  /\ Decides(a, decision)
  /\ worker' = [worker EXCEPT ![h] = [at |-> "audit", for |-> a]]
  /\ UNCHANGED <<fenced, audited, txn, child, lock, loop>>

\* A repeated request finds the row and delivers it again.
Redeliver(h, a) ==
  /\ At(h, "idle") /\ Pending(a)
  /\ wake' = TRUE
  /\ worker' = [worker EXCEPT ![h] = [at |-> "audit", for |-> a]]
  /\ UNCHANGED <<store, txn, child, lock, drain, retry, restarts>>

\* Deleting the run fences each request before it looks at its state.
Fence(c, a) ==
  /\ At(c, "idle") /\ running /\ channel # "none" /\ a \notin fenced /\ txn = None
  /\ fenced' = fenced \cup {a}
  /\ worker' = [worker EXCEPT ![c] = [at |-> "terminalize", for |-> a]]
  /\ UNCHANGED <<request, row, order, audited, txn, child, lock, loop>>

\* Mutant of Terminalize: a request that is decided already is denied.
TerminalizeAlways(c) ==
  /\ At(c, "terminalize") /\ txn = None
  /\ Decides(worker[c].for, "denied")
  /\ worker' = Goes(c, "audit")
  /\ UNCHANGED <<fenced, audited, txn, child, lock, loop>>

Terminalize(c) ==
  LET a == worker[c].for IN
  /\ At(c, "terminalize") /\ txn = None
  /\ IF request[a] = "pending_user"
     THEN Decides(a, "denied") /\ worker' = Goes(c, "audit") /\ UNCHANGED wake
     ELSE Ends(c) /\ wake' = TRUE /\ UNCHANGED <<request, row, order>>
  /\ UNCHANGED <<fenced, audited, txn, child, lock, drain, retry, restarts>>

\* registry.cancel follows, whatever the denials did.
CancelRun(c) ==
  /\ At(c, "idle") /\ running /\ Approvals \subseteq fenced
  /\ channel' = "none"
  /\ UNCHANGED <<store, txn, running, sent, wire, inbox, lock, worker, loop>>

-----------------------------------------------------------------------------
(* Delivery of one row *)

\* ensure_autonomous_approval_delivery_audited: the row is read and its receipt is
\* written; the audit log may fail.  A request that took the decision then wakes
\* the drainer.
Audit(w) ==
  /\ At(w, "audit")
  /\ CASE Row(w) = [audit |-> "ready", state |-> "pending"] ->
            worker' = Goes(w, "check") /\ UNCHANGED <<audited, drain, lock>>
       [] Row(w) = [audit |-> "pending", state |-> "pending"] ->
            /\ audited' = audited \cup {worker[w].for}
            /\ worker' = Goes(w, "ready") /\ UNCHANGED <<drain, lock>>
       [] OTHER -> Raises(w) /\ UNCHANGED audited
  /\ UNCHANGED <<request, fenced, row, order, txn, child, wake, retry, restarts>>

AuditFails(w) ==
  /\ At(w, "audit") /\ Row(w).audit = "pending"
  /\ Raises(w)
  /\ wake' = (wake \/ w # Drainer)
  /\ UNCHANGED <<store, txn, child, retry, restarts>>

Ready(w) ==
  /\ At(w, "ready") /\ txn = None
  /\ wake' = (wake \/ w # Drainer)
  /\ IF Row(w).state # "pending" /\ Row(w).audit # "ready"
     THEN Raises(w) /\ UNCHANGED row
     ELSE /\ row' = [row EXCEPT ![worker[w].for].audit = "ready"]
          /\ worker' = Goes(w, "check") /\ UNCHANGED <<drain, lock>>
  /\ UNCHANGED <<request, fenced, order, audited, txn, child, retry, restarts>>

\* send_approval_decision checks the row and the run, then takes the run's lock.
Check(w) ==
  /\ At(w, "check") /\ lock = None
  /\ IF Row(w).state = "pending" /\ Accepts
     THEN lock' = w /\ worker' = Goes(w, "publish") /\ UNCHANGED drain
     ELSE Raises(w)
  /\ UNCHANGED <<store, txn, child, wake, retry, restarts>>

\* Mutant of Publishable: the fence is not read in the transaction.
PublishableUnfenced(a) ==
  row[a].audit = "ready" /\ row[a].state = "pending" /\ running

\* autonomous_approval_delivery_append_transaction admits the row, under the
\* store's write lock.
Publishable(a) ==
  /\ row[a].audit = "ready" /\ row[a].state = "pending"
  /\ request[a] = "approved" => a \notin fenced
  /\ running

Was(w) == worker[w].for \in Range(sent)

\* AutonomousApprovalChannelParent.send: a repeated decision is sent again, a later
\* sequence is sent, an earlier one is stale.
InOrder(a) == a \in Range(sent) \/ \A i \in DOMAIN sent : Seq_(sent[i]) < Seq_(a)

Send(w) ==
  LET a == worker[w].for IN
  /\ At(w, "publish") /\ txn = None
  /\ Publishable(a) /\ channel = "open" /\ InOrder(a)
  /\ txn' = w
  /\ wire' = Append(wire, a)
  /\ sent' = IF Was(w) THEN sent ELSE Append(sent, a)
  /\ worker' = Goes(w, "commit")
  /\ UNCHANGED <<store, running, channel, inbox, lock, loop>>

\* Mutant of Reconciles: every failed publication is reconciled.
ReconcilesAll(w) == worker' = Goes(w, "reconcile") /\ UNCHANGED <<drain, lock>>

\* A publication that raises is reconciled when the endpoint knows the decision.
Reconciles(w) ==
  IF Was(w) THEN worker' = Goes(w, "reconcile") /\ UNCHANGED <<drain, lock>>
  ELSE Raises(w)

\* Any failure inside send aborts the endpoint: a stale decision, or the transport.
SendFails(w) ==
  LET a == worker[w].for IN
  /\ At(w, "publish") /\ txn = None
  /\ Publishable(a) /\ channel = "open"
  /\ channel' = "aborted"
  /\ Reconciles(w)
  /\ UNCHANGED <<store, txn, running, sent, wire, inbox, wake, retry, restarts>>

Refused(w) ==
  /\ At(w, "publish") /\ txn = None
  /\ ~Publishable(worker[w].for) \/ channel # "open"
  /\ Reconciles(w)
  /\ UNCHANGED <<store, txn, child, wake, retry, restarts>>

Publishes(a) == row' = [row EXCEPT ![a].state = "published"]

\* approval_decision_sent is recorded before the lock is released.
Commit(w) ==
  /\ At(w, "commit")
  /\ txn' = None
  /\ Publishes(worker[w].for)
  /\ Ends(w) /\ Unlocks(w)
  /\ UNCHANGED <<request, fenced, order, audited, child, loop>>

CommitFails(w) ==
  /\ At(w, "commit")
  /\ txn' = None
  /\ worker' = Goes(w, "reconcile")
  /\ UNCHANGED <<store, child, lock, loop>>

\* reconcile_autonomous_approval_delivery_duplicate
Reconcile(w) ==
  LET a == worker[w].for IN
  /\ At(w, "reconcile") /\ txn = None
  /\ IF row[a].state = "pending" /\ (request[a] = "approved" => a \notin fenced)
     THEN Publishes(a) /\ Ends(w) /\ Unlocks(w) /\ UNCHANGED drain
     ELSE Raises(w) /\ UNCHANGED row
  /\ UNCHANGED <<request, fenced, order, audited, txn, child, wake, retry, restarts>>

-----------------------------------------------------------------------------
(* The drainer *)

\* The event is cleared before the rows are read, so a wake during the drain is
\* kept; the generation the code compares would set it again.
DrainWakes ==
  /\ drain.at = "waiting" /\ wake
  /\ wake' = FALSE
  /\ drain' = [drain EXCEPT !.at = "window", !.failed = FALSE]
  /\ UNCHANGED <<store, txn, child, lock, worker, retry, restarts>>

DrainWindow ==
  /\ drain.at = "window"
  /\ drain' = [drain EXCEPT !.at = "select", !.upto = Len(order)]
  /\ UNCHANGED <<store, txn, child, lock, worker, wake, retry, restarts>>

\* list_pending_autonomous_approval_deliveries; no row becomes pending again, so the
\* loop's second selection finds nothing.
DrainSelect ==
  /\ drain.at = "select"
  /\ drain' = [drain EXCEPT !.at = "rows", !.upto = 0,
                            !.rows = {a \in Upto(drain.upto) : Pending(a)}]
  /\ UNCHANGED <<store, txn, child, lock, worker, wake, retry, restarts>>

\* _deliver_one finds the run over or its owner off the roster, or takes the next row
\* to its delivery.
DrainRow(a, listed) ==
  /\ a \in drain.rows /\ At(Drainer, "idle")
  /\ \A b \in drain.rows : Seq_(a) <= Seq_(b)
  /\ drain' = [drain EXCEPT !.rows = @ \ {a}]
  /\ worker' = [worker EXCEPT ![Drainer] =
       [at |-> IF running /\ listed THEN "audit" ELSE "quarantine", for |-> a]]
  /\ UNCHANGED <<store, txn, child, lock, wake, retry, restarts>>

\* A quarantine the store refuses is reported and fails nothing.
Quarantine ==
  /\ At(Drainer, "quarantine") /\ txn = None
  /\ IF Row(Drainer).state = "pending"
     THEN /\ row' = [row EXCEPT ![worker[Drainer].for].state = "quarantined"]
          /\ worker' = Goes(Drainer, "fail_owner") /\ UNCHANGED drain
     ELSE /\ UNCHANGED row /\ Ends(Drainer)
          /\ drain' = [drain EXCEPT !.failed = TRUE]
  /\ UNCHANGED <<request, fenced, order, audited, txn, child, lock, wake, retry, restarts>>

\* The run's process group is gone: its frames and events with it.
RunStops == running' = FALSE /\ channel' = "none" /\ wire' = <<>>

FailOwner ==
  /\ At(Drainer, "fail_owner")
  /\ Ends(Drainer)
  /\ IF running THEN RunStops ELSE UNCHANGED <<running, channel, wire>>
  /\ UNCHANGED <<store, txn, sent, inbox, lock, loop>>

\* Mutant of DrainEnds: the event is cleared after the drain.
DrainEndsDeaf ==
  /\ drain.at = "rows" /\ drain.rows = {} /\ At(Drainer, "idle")
  /\ drain' = [drain EXCEPT !.at = "waiting"]
  /\ retry' = (retry \/ drain.failed) /\ wake' = FALSE
  /\ UNCHANGED <<store, txn, child, lock, worker, restarts>>

DrainEnds ==
  /\ drain.at = "rows" /\ drain.rows = {} /\ At(Drainer, "idle")
  /\ drain' = [drain EXCEPT !.at = "waiting"]
  /\ retry' = (retry \/ drain.failed)
  /\ UNCHANGED <<store, txn, child, lock, worker, wake, restarts>>

RetryWake ==
  /\ retry
  /\ retry' = FALSE /\ wake' = TRUE
  /\ UNCHANGED <<store, txn, child, lock, worker, drain, restarts>>

-----------------------------------------------------------------------------
(* The child, its process and the gateway's *)

\* AutonomousApprovalChannelChild.receive: an exact duplicate is reported, a stale
\* sequence would abort the endpoint.
Receive ==
  LET a == Head(wire) IN
  /\ running /\ wire # <<>>
  /\ wire' = Tail(wire)
  /\ \/ /\ a \in Range(inbox)
        /\ UNCHANGED inbox
     \/ /\ \A i \in DOMAIN inbox : Seq_(inbox[i]) < Seq_(a)
        /\ inbox' = Append(inbox, a)
  /\ UNCHANGED <<store, txn, running, channel, sent, lock, worker, loop>>

\* The child's acknowledgements come in order on its event channel.  The drain of
\* that channel joins one to its published row under the decision lock; without one
\* it raises, and the run is terminated.  A repeated acknowledgement changes nothing.
Acknowledged(a) == row[a].state = "acknowledged"

Acknowledge(i) ==
  LET a == inbox[i] IN
  /\ running /\ lock = None /\ txn = None
  /\ ~Acknowledged(a) /\ \A j \in 1..(i - 1) : Acknowledged(inbox[j])
  /\ IF row[a].state = "published" /\ channel # "none"
     THEN /\ row' = [row EXCEPT ![a].state = "acknowledged"]
          /\ UNCHANGED <<running, channel, wire>>
     ELSE RunStops /\ UNCHANGED row
  /\ UNCHANGED <<request, fenced, order, audited, txn, sent, inbox, lock, worker, loop>>

\* The child exits, by itself or because its approval channel closed; the reaper
\* closes the channel.
ChildExits ==
  /\ running
  /\ RunStops
  /\ UNCHANGED <<store, txn, sent, inbox, lock, worker, loop>>

\* The gateway's process is lost, and with it the child by its lifeline; a new
\* process starts its drainer on the committed rows.
Restart ==
  /\ restarts < MaxRestarts
  /\ restarts' = restarts + 1
  /\ RunStops
  /\ txn' = None /\ lock' = None
  /\ worker' = [w \in Workers |-> Idle]
  /\ drain' = [drain EXCEPT !.at = "waiting", !.rows = {}]
  /\ wake' = TRUE /\ retry' = FALSE
  /\ UNCHANGED <<store, sent, inbox>>

-----------------------------------------------------------------------------
Deliver(w) ==
  \/ Audit(w) \/ AuditFails(w) \/ Ready(w) \/ Check(w)
  \/ Send(w) \/ SendFails(w) \/ Refused(w) \/ Commit(w) \/ CommitFails(w)
  \/ Reconcile(w)

Drain ==
  \/ DrainWakes \/ DrainWindow \/ DrainSelect \/ DrainEnds
  \/ \E a \in Approvals, listed \in BOOLEAN : DrainRow(a, listed)

Next ==
  \/ \E h \in Handlers, a \in Approvals :
       Redeliver(h, a) \/ \E d \in {"approved", "denied"} : Vote(h, a, d)
  \/ \E c \in Cancels : Terminalize(c) \/ CancelRun(c) \/ \E a \in Approvals : Fence(c, a)
  \/ \E w \in Workers : Deliver(w)
  \/ Drain \/ Quarantine \/ FailOwner \/ RetryWake
  \/ Receive \/ ChildExits \/ Restart
  \/ \E i \in DOMAIN inbox : Acknowledge(i)

Spec == Init /\ [][Next]_vars

-----------------------------------------------------------------------------
(* Properties *)

\* A row says published only if the endpoint sent its decision, also when the
\* publication failed halfway and was reconciled.
PublishedWasSent ==
  \A a \in Approvals : row[a].state \in {"published", "acknowledged"} => a \in Range(sent)

\* No approval is sent once its cancellation fence is committed.
FencedNotSent ==
  [][\A a \in fenced : a \in Range(sent') /\ a \notin Range(sent) => request[a] = "denied"]_vars

\* A pending row has a delivery under way, or a drain that will read it: no wake is
\* lost between a commit and the drainer's wait.
PendingIsWatched ==
  \A a \in Approvals :
    Pending(a) =>
      \/ wake \/ retry \/ drain.at = "window"
      \/ drain.at = "rows" /\ drain.failed
      \/ drain.at = "select" /\ a \in Upto(drain.upto)
      \/ a \in drain.rows
      \/ \E w \in Workers : worker[w].for = a

\* The delivery implements what it promises the child.
Decided(s) == [i \in DOMAIN s |-> [approval |-> s[i], approved |-> request[s[i]] = "approved"]]

Promise == INSTANCE DecisionDelivery WITH
  taken <- Decided(order), receipts <- audited, given <- Decided(inbox),
  acked <- {a \in Approvals : row[a].state = "acknowledged"}

DeliversAsPromised == Promise!Spec
=============================================================================
