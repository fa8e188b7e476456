---------------------------- MODULE LiveApproval ----------------------------
(***************************************************************************)
(* One call that waits for its approval on the session's live queue        *)
(* (await_user_approval_via_pending_tools), the decisions of its owner     *)
(* (_record_vote_and_unblock) and the deletions of its run (delete_run     *)
(* with _cancel_pending_approval_and_unblock).  Every await of these       *)
(* handlers is a point where the others run; a store method is one         *)
(* transaction.                                                            *)
(***************************************************************************)
EXTENDS Naturals, Sequences

CONSTANTS
  Voters,     \* decision requests
  Cancels,    \* deletions of the run
  Linked,     \* the call's root turn is linked, so the durable route finds it
  HooksFail,  \* policy.on_resolve, and the audit of a committed row, may raise
  None

ASSUME ConstantsType == Linked \in BOOLEAN /\ HooksFail \in BOOLEAN
ASSUME ActorsDiffer == Voters \cap Cancels = {} /\ None \notin Voters \cup Cancels

VARIABLES
  state,    \* the durable request's state
  decider,  \* whose transaction decided it
  grant,    \* the persistent grant minted through the approval
  fence,    \* persistent_grant_cancellation_fences has the approval
  entry,    \* the pending_tools entry; handlers keep it after it is popped
  listed,   \* pending_tools and approval_queues hold the call
  queue,    \* its approval queue, of size 1
  lock,     \* who holds the call's resolution lock
  waiter,   \* the waiting lifecycle
  voter,    \* the decision requests
  cancel,   \* the deletions
  resolvers \* who ran policy.on_resolve

durable == <<state, decider, grant, fence>>
live == <<entry, listed, queue>>
vars == <<state, decider, grant, fence, entry, listed, queue, lock, waiter, voter, cancel,
          resolvers>>

NoPayload == [approved |-> FALSE, allow |-> FALSE]
Denial == NoPayload
Payloads == [approved : BOOLEAN, allow : BOOLEAN]

\* The request is pending_user and its notification may be out; the call has not
\* registered its queue yet.
Init ==
  /\ state = "pending_user" /\ decider = None
  /\ grant = "none" /\ fence = FALSE
  /\ entry = [status |-> "none", cancelled |-> FALSE]
  /\ listed = FALSE /\ queue = <<>> /\ lock = None
  /\ waiter = [at |-> "publishing", got |-> NoPayload]
  /\ voter = [v \in Voters |-> [at |-> "idle", live |-> FALSE, approve |-> FALSE,
                                allow |-> FALSE, seen |-> "pending_user"]]
  /\ cancel = [c \in Cancels |-> "idle"]
  /\ resolvers = {}

-----------------------------------------------------------------------------
(* The waiting call *)

Register ==
  /\ waiter.at = "publishing"
  /\ waiter' = [waiter EXCEPT !.at = "waiting"]
  /\ entry' = [status |-> "approval_pending", cancelled |-> FALSE]
  /\ listed' = TRUE
  /\ UNCHANGED <<durable, queue, lock, voter, cancel, resolvers>>

\* approval_queue.get() returns and the finally clause pops the projection.
GetPayload ==
  /\ waiter.at = "waiting" /\ queue # <<>>
  /\ waiter' = [at |-> "woken", got |-> Head(queue)]
  /\ queue' = <<>>
  /\ listed' = FALSE
  /\ UNCHANGED <<durable, entry, lock, voter, cancel, resolvers>>

\* The outcome is what the store says now; the payload only allows reuse.
ReadBack ==
  /\ waiter.at = "woken"
  /\ waiter' = [waiter EXCEPT !.at = IF state = "approved" THEN "executes" ELSE "refused"]
  /\ UNCHANGED <<durable, live, lock, voter, cancel, resolvers>>

\* The owning turn's task is cancelled at an await; the projection is popped.
CancelTask ==
  /\ waiter' = [waiter EXCEPT !.at = "cancelled"]
  /\ listed' = FALSE

Awaiting == waiter.at \in {"publishing", "waiting", "woken"}

TurnCancelled ==
  /\ Awaiting
  /\ CancelTask
  /\ UNCHANGED <<durable, entry, queue, lock, voter, cancel, resolvers>>

-----------------------------------------------------------------------------
(* Decisions *)

At(v, pc) == voter[v].at = pc
Go(v, pc) == voter' = [voter EXCEPT ![v].at = pc]

\* The route takes the live queue when the call is listed, and else, for a call
\* with a durable job, the request as it read it.
Route(v, approve, allow) ==
  /\ At(v, "idle")
  /\ listed \/ Linked
  /\ voter' = [voter EXCEPT ![v] =
       [at |-> IF listed THEN "lock" ELSE "read", live |-> listed, approve |-> approve,
        allow |-> allow, seen |-> state]]
  /\ UNCHANGED <<durable, live, lock, waiter, cancel, resolvers>>

\* The durable route of the control plane locks in its own session.
LockVote(v) ==
  /\ At(v, "lock") /\ lock = None
  /\ lock' = v
  /\ Go(v, "read")
  /\ UNCHANGED <<durable, live, waiter, cancel, resolvers>>

Unlocked(v) == lock' = IF voter[v].live THEN None ELSE lock

\* A decided request is replayed; the entry must be pending with its queue.
Admits(v, seen) ==
  /\ seen = "pending_user"
  /\ voter[v].live => entry.status = "approval_pending" /\ listed

ReadRequest(v) ==
  LET seen == IF voter[v].live THEN state ELSE voter[v].seen IN
  /\ At(v, "read")
  /\ IF Admits(v, seen) THEN Go(v, "vote") /\ UNCHANGED lock
     ELSE Go(v, "done") /\ Unlocked(v)
  /\ UNCHANGED <<durable, live, waiter, cancel, resolvers>>

\* Mutant of RecordVote: the last vote wins.
RecordVoteLast(v) ==
  /\ At(v, "vote")
  /\ state' = (IF voter[v].approve THEN "approved" ELSE "denied")
  /\ decider' = v
  /\ Go(v, "voted")
  /\ UNCHANGED <<grant, fence, live, lock, waiter, cancel, resolvers>>

\* record_vote: the first decision stays.
RecordVote(v) ==
  /\ At(v, "vote")
  /\ IF state = "pending_user"
       THEN /\ state' = IF voter[v].approve THEN "approved" ELSE "denied"
            /\ decider' = v
       ELSE UNCHANGED <<state, decider>>
  /\ Go(v, "voted")
  /\ UNCHANGED <<grant, fence, live, lock, waiter, cancel, resolvers>>

\* _cancellation_requested: the run is being cancelled, which releases the call.
Stops(v) == voter[v].live /\ entry.cancelled

\* The voter has its decision back: another's is replayed, its own is resolved.
Resolve(v) ==
  /\ At(v, "voted")
  /\ IF Stops(v) \/ decider # v THEN Go(v, "done") /\ Unlocked(v) /\ UNCHANGED resolvers
     ELSE Go(v, "resolved") /\ resolvers' = resolvers \cup {v} /\ UNCHANGED lock
  /\ UNCHANGED <<durable, live, waiter, cancel>>

\* The call is released with the decision.
Put(v) ==
  /\ entry' = IF voter[v].live THEN [entry EXCEPT !.status = "approval_received"] ELSE entry
  /\ queue' = IF voter[v].live
                THEN Append(queue, [approved |-> state = "approved", allow |-> voter[v].allow])
                ELSE queue
  /\ Go(v, "done") /\ Unlocked(v)

Grants(v) == state = "approved" /\ voter[v].allow

\* Mutant of CreateGrant: the cancellation fence is not read.
CreateGrantUnfenced(v) ==
  /\ At(v, "resolved") /\ ~Stops(v) /\ Grants(v)
  /\ grant' = "active" /\ Go(v, "granted") /\ UNCHANGED lock
  /\ UNCHANGED <<state, decider, fence, live, waiter, cancel, resolvers>>

\* create_persistent_grant, unless the approval is fenced for cancellation
CreateGrant(v) ==
  /\ At(v, "resolved") /\ ~Stops(v) /\ Grants(v)
  /\ IF fence THEN Go(v, "done") /\ Unlocked(v) /\ UNCHANGED grant
     ELSE grant' = "active" /\ Go(v, "granted") /\ UNCHANGED lock
  /\ UNCHANGED <<state, decider, fence, live, waiter, cancel, resolvers>>

\* The last part runs without a suspension up to the put, or up to the revocation.
ReleaseVoted(v) ==
  /\ At(v, "granted") \/ (At(v, "resolved") /\ (Stops(v) \/ ~Grants(v)))
  /\ IF Stops(v)
       THEN /\ grant' = IF At(v, "granted") /\ grant = "active" THEN "revoked" ELSE grant
            /\ Go(v, "done") /\ Unlocked(v)
            /\ UNCHANGED <<entry, queue>>
       ELSE Put(v) /\ UNCHANGED grant
  /\ UNCHANGED <<state, decider, fence, listed, waiter, cancel, resolvers>>

\* on_resolve, the grant's insert or the audit of a committed row raises.
HookFails(v) ==
  /\ HooksFail
  /\ \/ /\ At(v, "voted") /\ decider = v
        /\ \/ UNCHANGED resolvers
           \/ ~Stops(v) /\ resolvers' = resolvers \cup {v}
     \/ At(v, "resolved") /\ ~Stops(v) /\ Grants(v) /\ UNCHANGED resolvers
     \/ At(v, "granted") /\ UNCHANGED resolvers
  /\ Go(v, "done") /\ Unlocked(v)
  /\ UNCHANGED <<durable, live, waiter, cancel>>

-----------------------------------------------------------------------------
(* Deletions of the run *)

Goes(c, from, to) == cancel[c] = from /\ cancel' = [cancel EXCEPT ![c] = to]
Revoked == IF grant = "active" THEN "revoked" ELSE grant

\* delete_run takes the listed entries before its first suspension.
Snapshot(c) ==
  /\ Goes(c, "idle", IF listed THEN "flag" ELSE "settle")
  /\ UNCHANGED <<durable, live, lock, waiter, voter, resolvers>>

\* The flag is raised on the entry, whether or not it is still listed.
RequestCancel(c) ==
  /\ Goes(c, "flag", "fence")
  /\ entry' = [entry EXCEPT !.cancelled = TRUE]
  /\ UNCHANGED <<durable, listed, queue, lock, waiter, voter, resolvers>>

\* fence_persistent_grants_for_cancellation
FenceGrants(c) ==
  /\ Goes(c, "fence", "lock")
  /\ fence' = TRUE
  /\ grant' = Revoked
  /\ UNCHANGED <<state, decider, live, lock, waiter, voter, resolvers>>

LockCancel(c) ==
  /\ Goes(c, "lock", "terminalize") /\ lock = None
  /\ lock' = c
  /\ UNCHANGED <<durable, live, waiter, voter, resolvers>>

\* terminalize_pending_for_cancellation
Terminalize(c) ==
  /\ Goes(c, "terminalize", "resolve")
  /\ IF state = "pending_user" THEN state' = "denied" /\ decider' = c
     ELSE UNCHANGED <<state, decider>>
  /\ UNCHANGED <<grant, fence, live, lock, waiter, voter, resolvers>>

\* The resolve hook runs when this deletion decided; its errors are swallowed.
ResolveCancel(c) ==
  /\ Goes(c, "resolve", "release")
  /\ resolvers' = IF decider = c THEN resolvers \cup {c} ELSE resolvers
  /\ UNCHANGED <<durable, live, lock, waiter, voter>>

\* The grants are revoked again, and the queue is replaced by a denial.
ReleaseCancelled(c) ==
  /\ Goes(c, "release", "settle")
  /\ grant' = Revoked
  /\ lock' = None
  /\ entry' = [entry EXCEPT !.status = "approval_received"]
  /\ queue' = IF listed THEN <<Denial>> ELSE queue
  /\ UNCHANGED <<state, decider, fence, listed, waiter, voter, resolvers>>

\* Mutant of CancelFails: the error ends the deletion.
CancelAborts(c) ==
  /\ HooksFail
  /\ \/ Goes(c, "lock", "done") /\ grant = "revoked" /\ UNCHANGED lock
     \/ Goes(c, "resolve", "done") /\ decider = c /\ lock' = None
     \/ Goes(c, "release", "done") /\ lock' = None
  /\ UNCHANGED <<durable, live, waiter, voter, resolvers>>

\* The audit of the fence or of the denial, or the second revocation, raises:
\* delete_run collects the error and goes on.
CancelFails(c) ==
  /\ HooksFail
  /\ \/ Goes(c, "lock", "settle") /\ grant = "revoked" /\ UNCHANGED lock
     \/ Goes(c, "resolve", "settle") /\ decider = c /\ lock' = None
     \/ Goes(c, "release", "settle") /\ lock' = None
  /\ UNCHANGED <<durable, live, waiter, voter, resolvers>>

\* _cancel_control_chat_background_tasks, after its settle timeout
EndTurn(c) ==
  /\ Goes(c, "settle", "done")
  /\ IF Awaiting THEN CancelTask ELSE UNCHANGED <<waiter, listed>>
  /\ UNCHANGED <<durable, entry, queue, lock, voter, resolvers>>

-----------------------------------------------------------------------------
Waiter == Register \/ GetPayload \/ ReadBack
VoterStep(v) ==
  \/ LockVote(v) \/ ReadRequest(v) \/ RecordVote(v) \/ Resolve(v) \/ CreateGrant(v) \/ ReleaseVoted(v)
CancelStep(c) ==
  \/ RequestCancel(c) \/ FenceGrants(c) \/ LockCancel(c) \/ Terminalize(c)
  \/ ResolveCancel(c) \/ ReleaseCancelled(c) \/ EndTurn(c)

Next ==
  \/ Waiter \/ TurnCancelled
  \/ \E v \in Voters :
       \/ \E approve, allow \in BOOLEAN : Route(v, approve, allow)
       \/ VoterStep(v) \/ HookFails(v)
  \/ \E c \in Cancels : Snapshot(c) \/ CancelStep(c) \/ CancelFails(c)

Spec == Init /\ [][Next]_vars

\* The event loop runs every task that can run; the lock is first come, first served.
FairSpec ==
  /\ Spec
  /\ WF_vars(Waiter)
  /\ \A v \in Voters : WF_vars(VoterStep(v)) /\ SF_vars(LockVote(v))
  /\ \A c \in Cancels : WF_vars(CancelStep(c)) /\ SF_vars(LockCancel(c))

-----------------------------------------------------------------------------
(* Properties *)

\* "Hide and revoke grants at the durable cancellation boundary": from the fence on
\* no grant of the approval is active, whatever a vote in flight still does.
NoGrantPastFence == fence => grant # "active"

\* "Without resolving policy or creating reuse grants a second time": on_resolve runs
\* for the handler whose transaction decided, and for no other.
ResolvedByDecider == resolvers \subseteq {decider}

\* The payload a call is released with never says more than the durable decision,
\* and a call executes only on a durable approval.
ReleasedAsDecided ==
  /\ \A i \in 1..Len(queue) : queue[i].approved => state = "approved"
  /\ waiter.got.approved => state = "approved"
  /\ waiter.at = "executes" => state = "approved" /\ decider \in Voters

\* "Fail closed at a run-cancellation boundary and release only denial": a call that
\* is released with a denial does not execute.
ReleasedDenialHolds == waiter.at = "executes" => waiter.got.approved

\* "Waits on the live queue until the decision arrives": a decision that is made
\* reaches the waiting call.
DecisionReleases == (state # "pending_user" /\ waiter.at # "cancelled") ~>
                      waiter.at \in {"executes", "refused", "cancelled"}

\* A deletion of the run ends the waiting call, whatever a vote in flight does and
\* whatever hook or audit raises.
DeletionEndsCall == \A c \in Cancels :
  cancel[c] = "flag" ~> waiter.at \in {"executes", "refused", "cancelled"}
=============================================================================
