---------------------------- MODULE AutonomousRun ----------------------------
(* One autonomous run: the child process under its sentinel, the drain of the
   child's event channel, the reaper, and the callers that cancel the run, end
   its parked call, continue it or resume it (autonomous_runner.py,
   autonomous_runner_start.py, autonomous_runner_state.py).  Signals that may
   be ignored (SIGTERM) are covered by a child that may exit at any time.  *)
EXTENDS Naturals, Sequences

CONSTANTS Callers, MaxFaults, MaxRestarts

VARIABLES rec,      \* AutonomousTask in memory
          disk,     \* state in the task's manifest, or "removed"
          said,     \* disposition of the terminal event in the evidence
          proc,     \* the sentinel and its group: "live" or "dead"
          child,    \* "working", "ended" (stream sent), "acked" or "gone"
          status,   \* what the sentinel reported of the child
          doomed,   \* SIGKILL is on its way to the group
          lifeline, \* the owner's end of the lifeline pipe is open
          pipe,     \* what the child sent and the drain has not read
          endp,     \* the parent's endpoint of the channel is open
          drain, reap,
          ask,      \* the captured call: [vote, due]
          lock,     \* resume_lock is held by continue_approval
          cont, next, resumed, call, faults, restarts

vars == <<rec, disk, said, proc, child, status, doomed, lifeline, pipe, endp,
          drain, reap, ask, lock, cont, next, resumed, call, faults, restarts>>
os == <<proc, child, status, pipe>>
front == <<ask, lock, cont, next, resumed, call>>

Dispositions == {"completed", "awaiting_approval", "interrupted", "failed"}
Active(s) == s = "running"
DrainDone == drain \in {"acked", "broken", "cancelled", "none"}
Accepted == rec.cancel /\ ~rec.ack

Reaper(at) ==
  [at |-> at, proc |-> FALSE, chan |-> FALSE, procErr |-> FALSE, chanErr |-> FALSE,
   cleanErr |-> FALSE, fenced |-> FALSE, accepted |-> FALSE, spared |-> FALSE, dropped |-> FALSE]

Init ==
  /\ rec = [state |-> "running", cancel |-> FALSE, ack |-> FALSE, quarantined |-> FALSE]
  /\ disk = "running" /\ said = "none"
  /\ proc = "live" /\ child = "working" /\ status = "none"
  /\ doomed = FALSE /\ lifeline = TRUE /\ pipe = <<>> /\ endp = TRUE
  /\ drain = "reading" /\ reap = Reaper("wait")
  /\ ask = [vote |-> "none", due |-> FALSE]
  /\ lock = FALSE /\ cont = "idle" /\ next = 0 /\ resumed = FALSE
  /\ call = [c \in Callers |-> [at |-> "idle", why |-> "none"]]
  /\ faults = 0 /\ restarts = 0

-----------------------------------------------------------------------------
\* Terminal state and manifest, or the fence when the manifest cannot be written.
CommitOf(r, s) ==
  \E n \in 0 .. 3 :
    /\ faults + n <= MaxFaults
    /\ faults' = faults + n
    /\ rec' = [r EXCEPT !.state = IF n = 0 THEN s ELSE "failed"]
    /\ disk' = CASE n = 0 -> s
                 [] n = 1 -> "failed"
                 [] n = 2 -> "removed"
                 [] n = 3 -> disk
Commit(s) == CommitOf(rec, s)

\* Outcomes of signalling SIGKILL to the owned group: whether it raises.
KillRaises == IF proc = "live" /\ faults < MaxFaults THEN BOOLEAN ELSE {FALSE}
Kill(raises) ==
  /\ doomed' = (doomed \/ (proc = "live" /\ ~raises))
  /\ faults' = faults + (IF raises THEN 1 ELSE 0)

Settlement(exit) ==
  CASE said = "interrupted" -> "interrupted"
    [] said \in {"completed", "awaiting_approval"} -> IF exit = "zero" THEN said ELSE "failed"
    [] OTHER -> "failed"

-----------------------------------------------------------------------------
(* The child and its sentinel. *)

\* A call that needs approval is captured and its request sent.
ChildAsks ==
  /\ child = "working" /\ ask.vote = "none" /\ pipe = <<>>
  /\ pipe' = <<"ask">>
  /\ UNCHANGED <<rec, disk, said, proc, child, status, doomed, lifeline, endp, drain, reap,
                 front, faults, restarts>>

\* complete(): terminal event, END, then the wait for the acknowledgement.
ChildEnds ==
  /\ child = "working"
  /\ \E d \in Dispositions :
       /\ d = "awaiting_approval" => ask.vote # "none" \/ pipe # <<>>
       /\ pipe' = Append(pipe, d)
  /\ child' = "ended"
  /\ UNCHANGED <<rec, disk, said, proc, status, doomed, lifeline, endp, drain, reap,
                 front, faults, restarts>>

\* The sentinel reports the exit, or that it could not pass on the child's output,
\* and parks.
ChildExits ==
  /\ child # "gone"
  /\ child' = "gone"
  /\ status' \in {"zero", "other", "error"}
  /\ UNCHANGED <<rec, disk, said, proc, doomed, lifeline, pipe, endp, drain, reap,
                 front, faults, restarts>>

\* SIGKILL, or the sentinel that lost its owner: no member of the group is left.
GroupDies ==
  /\ proc = "live" /\ (doomed \/ ~lifeline)
  /\ proc' = "dead" /\ child' = "gone"
  /\ status' = IF status = "none" THEN "error" ELSE status
  /\ doomed' = FALSE
  /\ UNCHANGED <<rec, disk, said, lifeline, pipe, endp, drain, reap, front, faults, restarts>>

-----------------------------------------------------------------------------
(* _drain_event_channel. *)

Broken == drain' = "broken" /\ endp' = FALSE
\* The run was cancelled: the drain raises CancelledError.
Cancelled == drain' = "cancelled" /\ endp' = FALSE

\* _handle_event_append_failure: the run cannot go on without its evidence.
EvidenceFails ==
  /\ faults < MaxFaults /\ faults' = faults + 1
  /\ IF proc = "live"
       THEN rec' = [rec EXCEPT !.cancel = TRUE] /\ lifeline' = FALSE
       ELSE UNCHANGED <<rec, lifeline>>

\* The request's row and the manifest that names the captured call, then the event.
DrainAsk ==
  /\ drain = "reading" /\ endp /\ pipe # <<>> /\ Head(pipe) = "ask"
  /\ pipe' = Tail(pipe)
  /\ \/ /\ ask' = [ask EXCEPT !.vote = "pending"] /\ disk' = rec.state
        /\ \/ /\ IF rec.cancel THEN Cancelled ELSE UNCHANGED <<drain, endp>>
              /\ UNCHANGED <<rec, lifeline, faults>>
           \/ EvidenceFails /\ Broken
     \/ /\ faults < MaxFaults /\ faults' = faults + 1
        /\ Broken /\ UNCHANGED <<rec, disk, lifeline, ask>>
  /\ UNCHANGED <<said, proc, child, status, doomed, reap, lock, cont, next, resumed, call,
                 restarts>>

DrainTerminal ==
  /\ drain = "reading" /\ endp /\ pipe # <<>> /\ Head(pipe) # "ask"
  /\ pipe' = Tail(pipe)
  /\ \/ /\ said' = Head(pipe)
        /\ IF rec.cancel THEN Cancelled ELSE drain' = "final" /\ UNCHANGED endp
        /\ UNCHANGED <<rec, lifeline, faults>>
     \/ EvidenceFails /\ Broken /\ UNCHANGED said
  /\ UNCHANGED <<disk, proc, child, status, doomed, reap, front, restarts>>

\* Mutant of DrainFinal: the acknowledgement does not look at the cancellation again.
DrainFinalAnyway ==
  /\ drain = "final" /\ endp
  /\ rec' = [rec EXCEPT !.ack = TRUE] /\ drain' = "acking"
  /\ UNCHANGED <<disk, said, os, doomed, lifeline, endp, reap, front, faults, restarts>>

DrainFinal ==
  /\ drain = "final" /\ endp
  /\ IF rec.cancel
       THEN Cancelled /\ UNCHANGED rec
       ELSE rec' = [rec EXCEPT !.ack = TRUE] /\ drain' = "acking" /\ UNCHANGED endp
  /\ UNCHANGED <<disk, said, os, doomed, lifeline, reap, front, faults, restarts>>

DrainAck ==
  /\ drain = "acking" /\ endp /\ child = "ended"
  /\ child' = "acked" /\ drain' = "acked"
  /\ UNCHANGED <<rec, disk, said, proc, status, pipe, doomed, lifeline, endp, reap, front,
                 faults, restarts>>

\* The endpoint was aborted, or the child is gone before its part was done.
DrainStops ==
  /\ ~DrainDone
  /\ ~endp \/ (child = "gone" /\ (drain = "acking" \/ (drain = "reading" /\ pipe = <<>>)))
  /\ Broken
  /\ UNCHANGED <<rec, disk, said, os, doomed, lifeline, reap, front, faults, restarts>>

-----------------------------------------------------------------------------
(* _reap_owned_process. *)

\* An error of the drain that no interrupt or cancellation of the cleanup caused.
ChannelFailed ==
  /\ ~reap.dropped
  /\ drain = "cancelled" \/ (drain = "broken" /\ ~reap.spared)

\* harvest: the results of the tasks that are done.
Harvest ==
  [reap EXCEPT !.proc = status # "none",
               !.procErr = @ \/ status = "error",
               !.chan = DrainDone,
               !.chanErr = @ \/ ChannelFailed]

\* After the wait: interrupt and grace where something failed or was cancelled,
\* otherwise straight to the last fence of the group.
Failing(r) == r.accepted \/ r.procErr \/ r.chanErr
ToCleanup(r) ==
  /\ reap' = [r EXCEPT !.at = "cleanup", !.spared = @ \/ ~DrainDone]
  /\ endp' = FALSE /\ UNCHANGED lifeline
ToFence(r, raises) ==
  /\ lifeline' = FALSE
  /\ reap' = [r EXCEPT !.at = "reaping",
                       !.cleanErr = @ \/ raises,
                       !.procErr = @ \/ (~r.fenced /\ proc = "dead" /\ ~r.accepted)]
  /\ UNCHANGED endp

\* A task ended. A child that exited by itself leaves a group to be killed.
ReapWake ==
  /\ reap.at = "wait"
  /\ (status # "none" /\ ~reap.proc) \/ (DrainDone /\ ~reap.chan)
  /\ LET h == [Harvest EXCEPT !.accepted = Accepted]
         exited == h.proc /\ ~h.procErr /\ ~Accepted
     IN \E raises \in IF exited THEN KillRaises ELSE {FALSE} :
          LET r == [h EXCEPT !.fenced = exited, !.cleanErr = raises] IN
          /\ IF exited THEN Kill(raises) ELSE UNCHANGED <<doomed, faults>>
          /\ \/ Failing(r) /\ ToCleanup(r)
             \/ /\ ~Failing(r) /\ r.proc /\ r.chan
                /\ ToFence(r, FALSE)
             \/ /\ ~Failing(r) /\ ~(r.proc /\ r.chan)
                /\ reap' = [r EXCEPT !.at = IF r.proc THEN "settle" ELSE "wait"]
                /\ UNCHANGED <<endp, lifeline>>
  /\ UNCHANGED <<rec, disk, said, os, drain, front, restarts>>

\* The child is gone and the drain gets a last while; then it is interrupted.
ReapSettle ==
  /\ reap.at = "settle" /\ DrainDone
  /\ IF Failing(Harvest) THEN ToCleanup(Harvest) ELSE ToFence(Harvest, FALSE)
  /\ UNCHANGED <<rec, disk, said, os, doomed, drain, front, faults, restarts>>
ReapSettleTimeout ==
  /\ reap.at = "settle" /\ ~DrainDone /\ endp
  /\ endp' = FALSE
  /\ UNCHANGED <<rec, disk, said, os, doomed, lifeline, drain, reap, front, faults, restarts>>

ReapGrace ==
  /\ reap.at = "cleanup"
  /\ \E raises \in IF reap.fenced THEN {FALSE} ELSE KillRaises :
       /\ IF reap.fenced THEN UNCHANGED <<doomed, faults>> ELSE Kill(raises)
       /\ ToFence(Harvest, raises)
  /\ UNCHANGED <<rec, disk, said, os, drain, front, restarts>>

\* Mutant of ReapReaped: a process that outlives the wait is no cleanup failure.
ReapReapedQuietly ==
  /\ reap.at = "reaping"
  /\ reap' = [reap EXCEPT !.at = "collect", !.dropped = ~DrainDone]
  /\ endp' = FALSE
  /\ UNCHANGED <<rec, disk, said, os, doomed, lifeline, drain, front, faults, restarts>>

\* proc.wait, or its timeout; then both channels are closed and the tasks cancelled.
ReapReaped ==
  /\ reap.at = "reaping"
  /\ reap' = [reap EXCEPT !.at = "collect",
                          !.cleanErr = @ \/ proc = "live",
                          !.dropped = ~DrainDone]
  /\ endp' = FALSE
  /\ UNCHANGED <<rec, disk, said, os, doomed, lifeline, drain, front, faults, restarts>>

ReapCollect ==
  /\ reap.at = "collect" /\ DrainDone
  /\ reap' = [Harvest EXCEPT !.at = "decide", !.procErr = @ \/ status = "none"]
  /\ UNCHANGED <<rec, disk, said, os, doomed, lifeline, endp, drain, front, faults, restarts>>

\* The terminal state, from the errors and then from the child's own last word.
Outcome ==
  LET exit == IF status \in {"none", "error"} /\ reap.accepted /\ proc = "dead"
                THEN "other" ELSE status
      first == CASE ~Active(rec.state) -> rec.state
                 [] Active(rec.state) /\ rec.cancel /\ ~reap.cleanErr -> "killed"
                 [] Active(rec.state) /\ (~rec.cancel \/ reap.cleanErr) ->
                      IF ~reap.cleanErr /\ ~reap.chanErr /\ ~reap.procErr /\ exit = "zero"
                        THEN "completed" ELSE "failed"
      clean == ~reap.procErr /\ ~reap.chanErr /\ ~reap.cleanErr /\ ~rec.quarantined
  IN IF clean /\ first \in {"completed", "failed"} THEN Settlement(exit) ELSE first

ReapDecide ==
  /\ reap.at = "decide"
  /\ Commit(Outcome)
  /\ reap' = Reaper("over")
  /\ UNCHANGED <<said, os, doomed, lifeline, endp, drain, front, restarts>>

\* Mutant of ReapCrash: nothing follows a reaper that raises.
ReapCrashUnseen ==
  /\ reap.at \notin {"decide", "forced", "over", "none"} /\ faults < MaxFaults
  /\ reap' = [reap EXCEPT !.at = "lost"]
  /\ faults' = faults + 1
  /\ UNCHANGED <<rec, disk, said, os, doomed, lifeline, endp, drain, front, restarts>>

\* The reaper itself raises: _force_terminal_disposition_after_reaper_crash.
ReapCrash ==
  /\ reap.at \notin {"decide", "forced", "over", "none"} /\ faults < MaxFaults
  /\ reap' = [reap EXCEPT !.at = "forced"]
  /\ lifeline' = FALSE /\ endp' = FALSE
  /\ doomed' = (doomed \/ proc = "live")
  /\ faults' = faults + 1
  /\ UNCHANGED <<rec, disk, said, os, drain, front, restarts>>

ReapForced ==
  /\ reap.at = "forced" /\ DrainDone
  /\ Commit(IF Active(rec.state) THEN "failed" ELSE rec.state)
  /\ reap' = Reaper("over")
  /\ UNCHANGED <<said, os, doomed, lifeline, endp, drain, front, restarts>>

-----------------------------------------------------------------------------
(* Callers: DELETE of the run, revoke_user, and what fails or stops the run. *)

still == <<said, os, drain, reap, lock, cont, next, resumed, restarts>>

Goes(c, at) == call' = [call EXCEPT ![c].at = at]

\* DELETE: a captured call that its events still list is cancelled before its denial.
CallDelete(c) ==
  /\ call[c].at = "idle" /\ rec.state # "removed"
  /\ \E why \in IF ask.vote = "none" THEN {"run"} ELSE {"call", "run"} :
       call' = [call EXCEPT ![c].at = "asked", ![c].why = why]
  /\ UNCHANGED <<still, rec, disk, doomed, lifeline, endp, ask, faults>>

\* revoke_user cancels the active runs of the user.
CallRevoke(c) ==
  /\ call[c].at = "idle" /\ Active(rec.state)
  /\ call' = [call EXCEPT ![c].at = "asked", ![c].why = "run"]
  /\ UNCHANGED <<still, rec, disk, doomed, lifeline, endp, ask, faults>>

\* How one call of cancel ends: the first one of DELETE is followed by the denial,
\* or, when it raised, by the second one.
Returns(c) ==
  call' = [call EXCEPT ![c] = IF @.why = "call" THEN [@ EXCEPT !.at = "deny"]
                                                ELSE [@ EXCEPT !.at = "returned"]]
Raises(c) ==
  call' = [call EXCEPT ![c] = IF @.why = "call" THEN [@ EXCEPT !.at = "asked", !.why = "run"]
                                                ELSE [@ EXCEPT !.at = "raised"]]

CancelParked(c) ==
  /\ call[c].at = "asked" /\ ~lock /\ rec.state = "awaiting_approval"
  /\ CommitOf([rec EXCEPT !.cancel = TRUE], "killed")
  /\ Returns(c)
  /\ UNCHANGED <<still, doomed, lifeline, endp, ask>>

\* An acknowledged stream is left to its reaper; any other run is cancelled.
CancelActive(c) ==
  /\ call[c].at = "asked" /\ ~lock /\ Active(rec.state)
  /\ \/ rec.ack /\ Goes(c, "ackWait") /\ UNCHANGED <<rec, lifeline, endp>>
     \/ /\ ~rec.ack /\ Goes(c, "wait")
        /\ rec' = [rec EXCEPT !.cancel = TRUE] /\ lifeline' = FALSE /\ endp' = FALSE
  /\ UNCHANGED <<still, disk, doomed, ask, faults>>

CancelSettled(c) ==
  /\ call[c].at = "asked" /\ ~lock
  /\ ~Active(rec.state) /\ rec.state # "awaiting_approval"
  /\ Returns(c)
  /\ UNCHANGED <<still, rec, disk, doomed, lifeline, endp, ask, faults>>

CancelReaped(c) ==
  /\ call[c].at \in {"ackWait", "wait", "kill"} /\ reap.at = "over"
  /\ Returns(c)
  /\ UNCHANGED <<still, rec, disk, doomed, lifeline, endp, ask, faults>>

\* The first grace of a cancelled run ends in a kill, every other one in an error.
CancelTimeout(c) ==
  /\ call[c].at \in {"ackWait", "wait", "kill"} /\ reap.at # "over"
  /\ \/ /\ call[c].at = "wait" /\ Goes(c, "kill")
        /\ \E raises \in KillRaises : Kill(raises)
     \/ call[c].at # "wait" /\ Raises(c) /\ UNCHANGED <<doomed, faults>>
  /\ UNCHANGED <<still, rec, disk, lifeline, endp, ask>>

\* The denial of the captured call, without a delivery.
Deny(c) ==
  /\ call[c].at = "deny"
  /\ ask' = [ask EXCEPT !.vote = IF @ = "pending" THEN "decided" ELSE @]
  /\ call' = [call EXCEPT ![c].at = "asked", ![c].why = "run"]
  /\ UNCHANGED <<still, rec, disk, doomed, lifeline, endp, faults>>

\* An operator message, a decision or a state change cannot be appended.
EvidenceLost ==
  /\ proc = "live" /\ reap.at # "none" /\ EvidenceFails
  /\ UNCHANGED <<still, disk, doomed, endp, ask, call>>

\* fail_autonomous_approval_delivery: the drainer gave up on the decision.
Quarantine ==
  /\ Active(rec.state) /\ ask.due
  /\ CommitOf([rec EXCEPT !.cancel = TRUE, !.quarantined = TRUE], "failed")
  /\ lifeline' = FALSE
  /\ UNCHANGED <<still, doomed, endp, ask, call>>

\* shutdown: an acknowledged run may end by itself, and is killed after the grace.
Shutdown ==
  /\ proc = "live" /\ reap.at # "none"
  /\ IF Active(rec.state) /\ rec.ack
       THEN /\ reap.at # "over" /\ doomed' = TRUE
            /\ UNCHANGED <<rec, disk, lifeline, faults>>
       ELSE LET asked == [rec EXCEPT !.cancel = @ \/ Active(rec.state)] IN
            /\ lifeline' = FALSE /\ UNCHANGED doomed
            /\ \/ rec' = asked /\ UNCHANGED <<disk, faults>>
               \/ /\ faults < MaxFaults /\ faults' = faults + 1
                  /\ rec' = [asked EXCEPT !.state = "failed"] /\ disk' = "failed"
  /\ UNCHANGED <<still, endp, ask, call>>

-----------------------------------------------------------------------------
(* The decision on the captured call, and the runs that follow this one. *)

\* A vote, with its row in the delivery outbox; approved or denied, it is delivered
\* by a continuation.
Vote ==
  /\ ask.vote = "pending" /\ rec.state \in {"running", "awaiting_approval", "continued"}
  /\ ask' = [vote |-> "decided", due |-> TRUE]
  /\ UNCHANGED <<rec, disk, said, os, doomed, lifeline, endp, drain, reap, lock, cont, next,
                 resumed, call, faults, restarts>>

\* continue_approval up to its wait for the reaper, which it makes with the lock.
ContinueEnter ==
  /\ cont = "idle" /\ ask.due /\ ~lock
  /\ rec.state \in {"running", "awaiting_approval", "continued"}
  /\ IF next > 0
       THEN ask' = [ask EXCEPT !.due = FALSE] /\ UNCHANGED <<cont, lock>>
       ELSE cont' = "reaper" /\ lock' = TRUE /\ UNCHANGED ask
  /\ UNCHANGED <<rec, disk, said, os, doomed, lifeline, endp, drain, reap, next, resumed,
                 call, faults, restarts>>

ContinueReaped ==
  /\ cont = "reaper" /\ reap.at \in {"over", "none"}
  /\ IF rec.state = "awaiting_approval"
       THEN cont' = "start" /\ UNCHANGED lock
       ELSE cont' = "idle" /\ lock' = FALSE
  /\ UNCHANGED <<rec, disk, said, os, doomed, lifeline, endp, drain, reap, ask, next,
                 resumed, call, faults, restarts>>

\* Mutant of LeaseReleased: the lease is not asked for.
LeaseNotAsked == TRUE

\* _require_released_owner_lease: the sentinel held it as long as it lived.
LeaseReleased == proc = "dead"

ContinueStart ==
  /\ cont = "start"
  /\ \/ LeaseReleased /\ next' = next + 1 /\ cont' = "started" /\ UNCHANGED lock
     \/ cont' = "idle" /\ lock' = FALSE /\ UNCHANGED next
  /\ UNCHANGED <<rec, disk, said, os, doomed, lifeline, endp, drain, reap, ask, resumed,
                 call, faults, restarts>>

ContinueCommit ==
  /\ cont = "started"
  /\ Commit("continued")
  /\ ask' = [ask EXCEPT !.due = faults' >= faults + 2]
  /\ cont' = "idle" /\ lock' = FALSE
  /\ UNCHANGED <<said, os, doomed, lifeline, endp, drain, reap, next, resumed, call, restarts>>

\* POST .../resume: a new run of the same skill.
Resume ==
  /\ ~resumed /\ ~lock /\ rec.state \in {"failed", "interrupted", "killed"}
  /\ LeaseReleased
  /\ resumed' = TRUE
  /\ UNCHANGED <<rec, disk, said, os, doomed, lifeline, endp, drain, reap, ask, lock, cont,
                 next, call, faults, restarts>>

-----------------------------------------------------------------------------
\* The gateway is lost; the next one reads the manifest and the evidence.
Rehydrated ==
  IF disk = "running"
    THEN IF said = "none" THEN "interrupted" ELSE Settlement("none")
    ELSE disk
Restart ==
  /\ restarts < MaxRestarts /\ restarts' = restarts + 1
  /\ rec' = [state |-> Rehydrated, cancel |-> FALSE, ack |-> FALSE, quarantined |-> FALSE]
  /\ disk' = IF said = "none" /\ proc = "live" THEN disk ELSE Rehydrated
  /\ reap' = Reaper("none") /\ drain' = "none" /\ endp' = FALSE /\ lifeline' = FALSE
  /\ lock' = FALSE /\ cont' = "idle"
  /\ call' = [c \in Callers |-> IF call[c].at = "idle" THEN call[c] ELSE [call[c] EXCEPT !.at = "raised"]]
  /\ UNCHANGED <<said, os, doomed, ask, next, resumed, faults>>

Child == ChildAsks \/ ChildEnds \/ ChildExits
Drain == DrainAsk \/ DrainTerminal \/ DrainFinal \/ DrainAck \/ DrainStops
Reap == ReapWake \/ ReapSettle \/ ReapSettleTimeout \/ ReapGrace \/ ReapReaped \/ ReapCollect
          \/ ReapDecide \/ ReapForced
Cancel(c) == CancelParked(c) \/ CancelActive(c) \/ CancelSettled(c) \/ CancelReaped(c)
               \/ CancelTimeout(c) \/ Deny(c)
Continue == ContinueReaped \/ ContinueStart \/ ContinueCommit

Next ==
  \/ Child \/ GroupDies \/ Drain \/ Reap \/ ReapCrash
  \/ \E c \in Callers : CallDelete(c) \/ CallRevoke(c) \/ Cancel(c)
  \/ EvidenceLost \/ Quarantine \/ Shutdown \/ Vote \/ ContinueEnter \/ Continue \/ Resume
  \/ Restart

Spec == Init /\ [][Next]_vars

\* The gateway's own tasks and the kernel go on, a cancel in progress included.  The
\* child need not end, nobody need vote or cancel, and no restart need happen.
Fairness ==
  /\ WF_vars(GroupDies) /\ WF_vars(Drain) /\ WF_vars(Reap) /\ WF_vars(Continue)
  /\ \A c \in Callers : WF_vars(Cancel(c))
FairSpec == Spec /\ Fairness

-----------------------------------------------------------------------------
\* A run is reported killed only when none of its processes is left
\* (_reap_owned_process: "killed" is never reported while one may still be live).
KilledIsOver == rec.state = "killed" => proc = "dead"

\* One decision launches one successor, over crashes and failed commits, and
\* neither it nor a resume runs beside a process of this run.
SuccessorAlone == next <= 1 /\ ((next > 0 \/ resumed) => proc = "dead")

\* A cancellation accepted while the run is active and not yet acknowledged owns
\* its outcome (_reap_owned_process): the stream is never acknowledged and the run
\* is left killed or failed.
AcceptedHolds ==
  [][Accepted /\ Active(rec.state) /\ reap'.at # "none" =>
       ~rec'.ack /\ rec'.state \in {"running", "killed", "failed"}]_vars

\* _reap: the exit of the child, like a cancellation, always settles the record.
Settles == (child = "gone" \/ rec.cancel) ~> reap.at \in {"over", "none"}
=============================================================================
