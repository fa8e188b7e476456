--------------------------- MODULE BackgroundTask ---------------------------
(***************************************************************************)
(* One background task of a run, from its admission to its settlement:     *)
(* runner_background_lifecycle.py over task_registry.py, with the resume   *)
(* of sub_agent.py and the messages of sub_agent_messages.py.              *)
(*                                                                         *)
(* The task has a live entry in the registry and a durable journal.  Its   *)
(* completion is appended to the journal by a finalizer, under the entry's *)
(* finalization_lock, and only then shown in the entry.  The append runs   *)
(* in a task of its own, which the finalizer waits for only so long: a     *)
(* late append finds the finalizer gone and projects itself.  Finalizers   *)
(* compete: the worker's, those of a registration that started no worker   *)
(* or failed to end, and the one of the run's shutdown.  Kills,            *)
(* interrupts, the STOP of a parked task, its resume and messages to it    *)
(* come at any time.                                                       *)
(*                                                                         *)
(* The task is an admitted agent task: its states follow its TaskResult.   *)
(* Results, callbacks, skill results and the log's own failures are        *)
(* abstracted: an append is stored or not, and returns or raises.          *)
(***************************************************************************)
EXTENDS Naturals, Sequences

CONSTANTS
  MaxFaults,   \* bound: appends, lookups and publications that fail
  Outcomes,    \* final states a handler may return
  Messages     \* bound: messages sent to the task

VARIABLES
  state,       \* entry.state; "none": not in the registry
  journal,     \* the durable events of the task, in order
  reg,         \* the registration: "none" "append" "bracket"
               \* "finalizing" "compensating" "lost" "done"
  worker,      \* "none" "created" "run" "wait" "drain" "done"
  cancel,      \* a cancellation the worker has not received yet
  intent,      \* entry.termination_intent
  intr,        \* entry.interruption_reason is set
  persist,     \* entry.completion_persistence_state
  pend,        \* entry.pending_final_state
  detached,    \* entry.completion_finalizer_detached
  lock,        \* who holds entry.finalization_lock
  fin,         \* the finalizers
  app,         \* their append tasks
  recon,       \* a detached reconciliation is scheduled
  shut,        \* the shutdown of the run
  succ,        \* the resume successor: "none" "claimed" "started"
  sent,        \* messages sent
  faults,
  mode         \* how the run ends: its children are "cancelled" or "killed"

vars == <<state, journal, reg, worker, cancel, intent, intr, persist, pend,
          detached, lock, fin, app, recon, shut, succ, sent, faults, mode>>
entry == <<state, persist, pend, detached>>

Settled   == {"completed", "failed", "killed"}
Terminal  == Settled \cup {"interrupted"}
Parks     == {"awaiting_approval", "parked"}
Finals    == Terminal \cup Parks
Starters  == {"registration", "compensation", "worker", "shutdown"}

ASSUME OutcomesAreFinal == Outcomes \subseteq Finals

Init ==
  /\ state = "none" /\ journal = <<>> /\ reg = "none" /\ worker = "none"
  /\ cancel = FALSE /\ intent = "none" /\ intr = FALSE
  /\ persist = "not_started" /\ pend = "none" /\ detached = FALSE
  /\ lock = "free"
  /\ fin = [w \in Starters |-> [pc |-> "none", as |-> "none", try |-> 0,
                                cancelled |-> FALSE]]
  /\ app = [w \in Starters |-> [pc |-> "none", as |-> "none"]]
  /\ recon = FALSE /\ shut = "no" /\ succ = "none"
  /\ sent = 0 /\ faults = 0 /\ mode \in {"cancelled", "killed"}

Fault == faults < MaxFaults /\ faults' = faults + 1
Log(e) == journal' = Append(journal, e)
Stored(e) == \E i \in DOMAIN journal : journal[i] = e
Completions == {i \in DOMAIN journal : journal[i] \in Finals}

\* load_from_events refuses a task with two completions, which differ in their
\* time at least, or with a message accepted after the completion.
Replayable ==
  /\ \A i, j \in Completions : i = j
  /\ \A i \in Completions, j \in DOMAIN journal : journal[j] = "message" => j < i

\* What load_from_events rebuilds; a registration alone is a park without result.
Rebuilt == IF ~Replayable THEN "raises"
           ELSE IF Completions = {} THEN "none"
           ELSE IF Stored("terminated") THEN "killed"
           ELSE journal[CHOOSE i \in Completions : TRUE]

\* _confirmed_durable_background_completion: an interruption is not confirmed.
Confirmed == IF Rebuilt = "interrupted" THEN "none" ELSE Rebuilt

\* _record_completion_persistence_uncertainty.
Uncertain == persist' = IF persist = "committed" THEN persist ELSE "uncertain"

\* _interrupt_uncertain_background_completion.
InterruptUncertain ==
  /\ detached' = TRUE /\ recon' = TRUE
  /\ state' = IF state \in Terminal THEN state ELSE "interrupted"

\* _commit_background_completion_live: the state shown.  finalize_interrupted
\* replaces an interruption, and transition leaves any other terminal entry alone.
Shown(as) == IF state \in Settled THEN state ELSE as

Published == Stored("published")

\* _settle_and_commit_background_completion_live: a completion is published to
\* the parent before it is shown; a park owes none.
Settle(as) ==
  /\ state' = Shown(as) /\ persist' = "committed" /\ pend' = as
  /\ detached' = FALSE
  /\ IF as \in Parks \/ Published THEN UNCHANGED journal ELSE Log("published")
  /\ UNCHANGED faults

\* The publication raises, stored or not.
SettleRaises(as) ==
  /\ as \notin Parks /\ Fault
  /\ pend' = as /\ persist' = "committed"
  /\ \/ UNCHANGED journal
     \/ ~Published /\ Log("published")
  /\ UNCHANGED <<state, detached>>

-----------------------------------------------------------------------------
(* Registration: _append_task_registered_then_start.                       *)

StartFinalizer(w, as) ==
  fin' = [fin EXCEPT ![w] = [pc |-> "lock", as |-> as, try |-> 0,
                             cancelled |-> FALSE]]
Ended(w) == fin[w].pc \in {"none", "done", "raised"}

\* admit: the reservation, before any append.
Admit ==
  /\ state = "none" /\ reg = "none" /\ shut = "no"
  /\ state' = "pending" /\ reg' = "append"
  /\ UNCHANGED <<journal, worker, cancel, intent, intr, persist, pend, detached,
                 lock, fin, app, recon, shut, succ, sent, faults, mode>>

\* The registration is stored, as its append or the lookup after it says.
Register ==
  /\ reg = "append"
  /\ reg' = "bracket" /\ Log("registered")
  /\ UNCHANGED <<entry, worker, cancel, intent, intr, lock, fin, app, recon,
                 shut, succ, sent, faults, mode>>

\* The append fails and the log has no registration: discard_unstarted.
RegisterFails ==
  /\ reg = "append" /\ Fault
  /\ reg' = "done" /\ state' = "none"
  /\ UNCHANGED <<journal, worker, cancel, intent, intr, persist, pend, detached,
                 lock, fin, app, recon, shut, succ, sent, mode>>

\* The append fails, and so does the lookup: the reservation stays.
RegisterUnknown ==
  /\ reg = "append" /\ Fault
  /\ reg' = "lost"
  /\ \/ UNCHANGED journal
     \/ Log("registered")
  /\ UNCHANGED <<entry, worker, cancel, intent, intr, lock, fin, app, recon,
                 shut, succ, sent, mode>>

\* _background_termination_result: a killed attempt may be resumed.
TerminationState(i) == IF i = "cancelled" THEN "killed" ELSE "interrupted"

\* The worker is created and the entry is running, unless it was killed before.
Start ==
  /\ reg = "bracket"
  /\ IF intent = "none"
     THEN /\ worker' = "created" /\ state' = "running" /\ reg' = "done"
          /\ UNCHANGED fin
     ELSE /\ StartFinalizer("registration", TerminationState(intent))
          /\ reg' = "finalizing"
          /\ UNCHANGED <<worker, state>>
  /\ UNCHANGED <<journal, cancel, intent, intr, persist, pend, detached, lock,
                 app, recon, shut, succ, sent, faults, mode>>

\* _compensate_aborted_registration: no worker could be started.
StartFails ==
  /\ reg = "bracket" /\ intent = "none" /\ Fault
  /\ StartFinalizer("compensation", "failed")
  /\ reg' = "compensating"
  /\ UNCHANGED <<entry, journal, worker, cancel, intent, intr, lock, app, recon,
                 shut, succ, sent, mode>>

\* A termination that raises is compensated as well.
Registered ==
  /\ \/ /\ reg = "finalizing" /\ fin["registration"].pc = "raised"
        /\ StartFinalizer("compensation", "failed") /\ reg' = "compensating"
     \/ /\ \/ reg = "finalizing" /\ fin["registration"].pc = "done"
           \/ reg = "compensating" /\ Ended("compensation")
        /\ reg' = "done" /\ UNCHANGED fin
  /\ UNCHANGED <<entry, journal, worker, cancel, intent, intr, lock, app, recon,
                 shut, succ, sent, faults, mode>>

-----------------------------------------------------------------------------
(* Control: TaskRegistry.kill and interrupt.                               *)

Live == worker \in {"created", "run", "wait", "drain"}

\* kill: "cancelled" replaces "killed", nothing replaces "cancelled".
Killed(i) ==
  IF state \notin Terminal /\ intent # "cancelled" /\ intent # i
  THEN /\ intent' = i
       /\ cancel' = (cancel \/ Live)
  ELSE UNCHANGED <<intent, cancel>>

\* cancel_background_task.
Kill ==
  /\ state \notin Terminal \cup {"none"} /\ intent # "cancelled"
  /\ Killed("cancelled")
  /\ UNCHANGED <<entry, journal, reg, worker, intr, lock, fin, app, recon,
                 shut, succ, sent, faults, mode>>

\* interrupt: not once a final state is staged or a kill was requested.
Interrupt ==
  /\ state = "running" /\ Live /\ pend = "none" /\ intent = "none" /\ ~intr
  /\ intr' = TRUE /\ cancel' = TRUE
  /\ UNCHANGED <<entry, journal, reg, worker, intent, lock, fin, app, recon,
                 shut, succ, sent, faults, mode>>

-----------------------------------------------------------------------------
(* The worker: _run_background_agent.                                      *)

\* The first step; an interrupt is delivered after it, a kill may precede it.
Begin ==
  /\ worker = "created" /\ ~(cancel /\ intent # "none")
  /\ worker' = "run"
  /\ UNCHANGED <<entry, journal, reg, cancel, intent, intr, lock, fin, app,
                 recon, shut, succ, sent, faults, mode>>

\* Cancelled before its first step, the worker ends and stages nothing.
NeverRan ==
  /\ worker = "created" /\ cancel /\ intent # "none"
  /\ worker' = "done" /\ cancel' = FALSE
  /\ UNCHANGED <<entry, journal, reg, intent, intr, lock, fin, app, recon,
                 shut, succ, sent, faults, mode>>

\* The outcome is staged before the finalizer starts.
Stage(as) ==
  /\ worker' = "wait"
  /\ pend' = IF state \in Settled THEN pend ELSE as
  /\ StartFinalizer("worker", as)
  /\ UNCHANGED <<state, persist, detached, journal, reg, intent, intr, lock,
                 app, recon, shut, succ, sent, faults, mode>>

Interrupted == intr /\ intent = "none"

\* The handler returns; an accepted interrupt wins over what it returns.
HandlerReturns(as) ==
  /\ worker = "run"
  /\ cancel' \in {cancel, FALSE}
  /\ Stage(IF Interrupted THEN "interrupted" ELSE as)

HandlerCancelled ==
  /\ worker = "run" /\ cancel
  /\ cancel' = FALSE
  /\ Stage(IF Interrupted THEN "interrupted" ELSE "killed")

\* A cancellation does not reach the shielded finalizer.
WaitCancelled ==
  /\ worker = "wait" /\ cancel /\ ~Ended("worker")
  /\ worker' = "drain" /\ cancel' = FALSE
  /\ UNCHANGED <<entry, journal, reg, intent, intr, lock, fin, app, recon,
                 shut, succ, sent, faults, mode>>

WorkerDone ==
  /\ worker \in {"wait", "drain"} /\ Ended("worker")
  /\ worker' = "done" /\ cancel' = FALSE
  /\ UNCHANGED <<entry, journal, reg, intent, intr, lock, fin, app, recon,
                 shut, succ, sent, faults, mode>>

\* _reconcile_background_agent with a staged outcome: it takes no lock.
ReconcileStaged(p) ==
  IF p = "committed"
  THEN /\ UNCHANGED recon
       /\ Settle(pend) \/ SettleRaises(pend)
  ELSE /\ Uncertain /\ InterruptUncertain
       /\ UNCHANGED <<pend, journal, faults>>

\* A second cancellation, or the wait after the first times out: the
\* finalizer is cancelled after all, and the entry reconciled.
GiveUpFinalizer ==
  /\ worker = "drain" /\ ~Ended("worker")
  /\ worker' = "done" /\ cancel' = FALSE
  /\ fin' = [fin EXCEPT !["worker"].cancelled = TRUE]
  /\ IF state = "running" THEN ReconcileStaged(persist)
     ELSE Uncertain /\ UNCHANGED <<state, pend, detached, recon, journal, faults>>
  /\ UNCHANGED <<reg, intent, intr, lock, app, shut, succ, sent, mode>>

-----------------------------------------------------------------------------
(* A finalizer: _finalize_background_agent, and its append.                *)

Fin(w, pc) == fin' = [fin EXCEPT ![w].pc = pc]
others == <<reg, worker, cancel, intent, intr, shut, succ, sent, mode>>

\* _persist_background_completion_once, up to the wait for its append task.
Persist(w, as, n) ==
  /\ pend' = as /\ persist' = "in_flight"
  /\ app' = [app EXCEPT ![w] = [pc |-> "flying", as |-> as]]
  /\ fin' = [fin EXCEPT ![w].pc = "wait", ![w].try = n]

FinLock(w) ==
  /\ fin[w].pc = "lock" /\ lock = "free" /\ ~fin[w].cancelled
  /\ IF state \in Settled
     THEN Fin(w, "done") /\ UNCHANGED <<pend, persist, app, lock>>
     ELSE Persist(w, fin[w].as, 1) /\ lock' = w
  /\ UNCHANGED <<others, state, detached, journal, recon, faults>>

FinLockCancelled(w) ==
  /\ fin[w].pc = "lock" /\ fin[w].cancelled
  /\ Fin(w, "raised")
  /\ UNCHANGED <<others, entry, journal, lock, app, recon, faults>>

\* Mutant of AppendStored: a late append leaves its projection to the finalizer.
AppendStoredQuietly(w) ==
  /\ app[w].pc = "flying"
  /\ Log(app[w].as) /\ persist' = "committed"
  /\ app' = [app EXCEPT ![w].pc = "ok"]
  /\ UNCHANGED <<others, state, pend, detached, lock, fin, recon, faults>>

\* The append returns.  Detached, the append task projects the outcome itself.
AppendStored(w) ==
  /\ app[w].pc = "flying"
  /\ Log(app[w].as) /\ persist' = "committed"
  /\ app' = [app EXCEPT ![w].pc = IF detached THEN "late" ELSE "ok"]
  /\ UNCHANGED <<others, state, pend, detached, lock, fin, recon, faults>>

\* The append raises, although its event may be stored.
AppendRaises(w) ==
  /\ app[w].pc = "flying" /\ Fault
  /\ UNCHANGED journal \/ Log(app[w].as)
  /\ Uncertain
  /\ app' = [app EXCEPT ![w].pc = IF detached THEN "check" ELSE "err"]
  /\ UNCHANGED <<others, state, pend, detached, lock, fin, recon>>

\* _commit_detached_background_completion.
LateCommit(w) ==
  /\ app[w].pc = "late" /\ lock = "free"
  /\ app' = [app EXCEPT ![w].pc = "done"]
  /\ IF detached /\ persist = "committed"
     THEN Settle(app[w].as) \/ SettleRaises(app[w].as)
     ELSE UNCHANGED <<entry, journal, faults>>
  /\ UNCHANGED <<others, lock, fin, recon>>

\* _reconcile_detached_background_completion; its lookup may fail.
Reconciles ==
  /\ lock = "free"
  /\ \/ /\ detached /\ Confirmed \notin {"none", "raises"}
        /\ Settle(Confirmed) \/ SettleRaises(Confirmed)
     \/ /\ ~detached \/ Confirmed \in {"none", "raises"}
        /\ UNCHANGED <<entry, journal, faults>>
     \/ detached /\ Fault /\ UNCHANGED <<entry, journal>>
  /\ UNCHANGED <<others, lock, fin>>

LateCheck(w) ==
  /\ app[w].pc = "check"
  /\ app' = [app EXCEPT ![w].pc = "done"]
  /\ Reconciles /\ UNCHANGED recon

Recon ==
  /\ recon
  /\ recon' = FALSE
  /\ Reconciles /\ UNCHANGED app

\* The finalizer ends and frees the lock.
FinEnds(w, pc) == Fin(w, pc) /\ lock' = "free" /\ UNCHANGED app

FinSettles(w, as, pc) ==
  /\ \/ Settle(as) /\ FinEnds(w, pc)
     \/ SettleRaises(as) /\ FinEnds(w, "raised")
  /\ UNCHANGED recon

FinInterrupts(w) ==
  /\ Uncertain /\ InterruptUncertain /\ FinEnds(w, "raised")
  /\ UNCHANGED <<pend, journal>>

FinAppended(w) ==
  /\ fin[w].pc = "wait" /\ app[w].pc = "ok" /\ ~fin[w].cancelled
  /\ FinSettles(w, app[w].as, "done")
  /\ UNCHANGED others

\* The journal is read back: what it confirms is shown; otherwise the failure
\* is appended once; otherwise the entry is interrupted and detached.
FinRecovers(w) ==
  \/ /\ Confirmed \notin {"none", "raises"}
     /\ FinSettles(w, Confirmed, "done")
  \/ /\ Confirmed = "none" /\ fin[w].try = 1
     /\ Persist(w, "failed", 2)
     /\ UNCHANGED <<state, detached, journal, lock, recon, faults>>
  \/ /\ Confirmed = "raises" \/ (Confirmed = "none" /\ fin[w].try = 2)
     /\ FinInterrupts(w) /\ UNCHANGED faults
  \/ Fault /\ FinInterrupts(w)

FinRaised(w) ==
  /\ fin[w].pc = "wait" /\ app[w].pc = "err" /\ ~fin[w].cancelled
  /\ FinRecovers(w)
  /\ UNCHANGED others

\* Mutant of FinGivesUp: an append in flight counts as stored.
FinGivesUpBlindly(w) ==
  /\ fin[w].pc = "wait"
  /\ fin[w].cancelled \/ app[w].pc \notin {"ok", "err"}
  /\ FinSettles(w, fin[w].as, "raised")
  /\ UNCHANGED others

\* Mutant of FinGivesUp: the wait for the append has no timeout.
FinGivesUpNever(w) ==
  /\ fin[w].pc = "wait" /\ fin[w].cancelled
  /\ \/ fin[w].try = 2 /\ FinRecovers(w)
     \/ fin[w].try = 1 /\ persist = "committed" /\ FinSettles(w, fin[w].as, "raised")
     \/ fin[w].try = 1 /\ persist # "committed" /\ FinInterrupts(w) /\ UNCHANGED faults
  /\ UNCHANGED others

\* The append is not done in time, or the finalizer is cancelled: the first
\* append is left to itself, the second one is read back.
FinGivesUp(w) ==
  /\ fin[w].pc = "wait"
  /\ fin[w].cancelled \/ app[w].pc \notin {"ok", "err"}
  /\ \/ fin[w].try = 2 /\ FinRecovers(w)
     \/ fin[w].try = 1 /\ persist = "committed" /\ FinSettles(w, fin[w].as, "raised")
     \/ fin[w].try = 1 /\ persist # "committed" /\ FinInterrupts(w) /\ UNCHANGED faults
  /\ UNCHANGED others

-----------------------------------------------------------------------------
(* The end of the run: _shutdown_background_tasks.                         *)

Shut(pc) == shut' = pc

\* A task being initialized is told to stop, and waited for.
ShutdownBegins ==
  /\ shut = "no" /\ reg # "none"
  /\ Shut("init")
  /\ IF state = "pending" /\ reg # "lost" THEN Killed(mode)
     ELSE UNCHANGED <<intent, cancel>>
  /\ UNCHANGED <<entry, journal, reg, worker, intr, lock, fin, app, recon,
                 succ, sent, faults, mode>>

\* The initialization is over or late: only a running task is drained.
ShutdownLists ==
  /\ shut = "init"
  /\ \/ state # "running" /\ Shut("done") /\ UNCHANGED <<intent, cancel>>
     \/ /\ state = "running" /\ Live /\ mode = "cancelled"
        /\ Shut("drain") /\ Killed("cancelled")
     \/ /\ state = "running" /\ Live /\ mode = "killed"
        /\ Shut("grace") /\ UNCHANGED <<intent, cancel>>
     \/ /\ state = "running" /\ ~Live
        /\ Shut("drain") /\ UNCHANGED <<intent, cancel>>
  /\ UNCHANGED <<entry, journal, reg, worker, intr, lock, fin, app, recon,
                 succ, sent, faults, mode>>

\* _drain_still_pending_background_tasks: the grace is over.
GraceOver ==
  /\ shut = "grace"
  /\ Shut("drain")
  /\ IF Live THEN Killed("killed") ELSE UNCHANGED <<intent, cancel>>
  /\ UNCHANGED <<entry, journal, reg, worker, intr, lock, fin, app, recon,
                 succ, sent, faults, mode>>

\* _reconcile_background_agent, the worker drained or the drain timed out: a
\* staged outcome is reconciled, a missing one finalized.
ShutdownReconciles ==
  /\ shut = "drain"
  /\ \/ /\ state # "running" /\ Shut("done")
        /\ UNCHANGED <<entry, journal, recon, faults, intent, cancel, fin>>
     \/ /\ state = "running" /\ pend # "none" /\ Shut("done")
        /\ ReconcileStaged(persist)
        /\ UNCHANGED <<intent, cancel, fin>>
     \/ /\ state = "running" /\ pend = "none" /\ Shut("fin")
        /\ Killed(mode) /\ StartFinalizer("shutdown", TerminationState(intent'))
        /\ UNCHANGED <<entry, journal, recon, faults>>
  /\ UNCHANGED <<reg, worker, intr, lock, app, succ, sent, mode>>

ShutdownFinalized ==
  /\ shut = "fin" /\ Ended("shutdown")
  /\ Shut("done")
  /\ IF fin["shutdown"].pc = "raised" /\ state # "interrupted"
     THEN Uncertain /\ InterruptUncertain /\ UNCHANGED pend
     ELSE UNCHANGED <<entry, recon>>
  /\ UNCHANGED <<journal, reg, worker, cancel, intent, intr, lock, fin, app,
                 succ, sent, faults, mode>>

-----------------------------------------------------------------------------
(* A parked or interrupted task: STOP, resume, messages.                   *)

outside == <<reg, worker, cancel, intr, detached, lock, fin, app, recon, shut,
             mode>>

\* Mutant of Stop: the park is stopped without a look at its successor.
StopAnyway ==
  /\ lock = "free" /\ state = "awaiting_approval"
  /\ Confirmed = "awaiting_approval" /\ Log("terminated")
  /\ state' = "killed" /\ intent' = "cancelled" /\ pend' = "killed"
  /\ UNCHANGED <<outside, persist, succ, sent, faults>>

\* terminate_parked_background_task: the termination is appended and read back
\* under the lock.  A started successor is stopped in its place.
Stop ==
  /\ lock = "free" /\ succ # "started" /\ state = "awaiting_approval"
  /\ \/ /\ Confirmed = "awaiting_approval" /\ Log("terminated")
        /\ UNCHANGED faults \/ Fault
        /\ state' = "killed" /\ intent' = "cancelled" /\ pend' = "killed"
     \/ /\ Confirmed = "awaiting_approval" /\ Fault
        /\ UNCHANGED <<journal, state, intent, pend>>
  /\ UNCHANGED <<outside, persist, succ, sent>>

\* _resume_source_admission_error, and what _admitted_resume_source_error adds.
Resumable(also) ==
  /\ ~detached /\ persist \notin {"in_flight", "uncertain"}
  /\ state \in {"interrupted", "parked"} \cup also

\* A resume with a supplied successor registers it under the source's lock.
ResumeApproved ==
  /\ lock = "free" /\ succ = "none" /\ Resumable({"awaiting_approval"})
  /\ succ' = "started"
  /\ UNCHANGED <<outside, state, persist, pend, journal, intent, sent, faults>>

\* The resume tool takes no lock, and checks the source again before the start.
ResumeClaims ==
  /\ shut = "no" /\ succ = "none" /\ Resumable({})
  /\ succ' = "claimed"
  /\ UNCHANGED <<outside, state, persist, pend, journal, intent, sent, faults>>

ResumeStarts ==
  /\ succ = "claimed"
  /\ succ' = IF Resumable({}) THEN "started" ELSE "none"
  /\ UNCHANGED <<outside, state, persist, pend, journal, intent, sent, faults>>

\* _finalize_resume_abandoned: the task cannot be resumed and fails.
Abandon ==
  /\ lock = "free" /\ state \in {"interrupted", "parked"}
  /\ shut = "no" /\ Resumable({})
  /\ \/ Log("failed") /\ state' = "failed" /\ persist' = "committed" /\ UNCHANGED faults
     \/ /\ Fault /\ persist' = "uncertain" /\ UNCHANGED state
        /\ UNCHANGED journal \/ Log("failed")
  /\ UNCHANGED <<outside, pend, intent, succ, sent>>

\* _accept_on_entry: refused once the task is terminal.
Message ==
  /\ lock = "free" /\ sent < Messages /\ state \notin Terminal \cup {"none"}
  /\ Stored("registered")
  /\ Log("message") /\ sent' = sent + 1
  /\ UNCHANGED <<outside, state, persist, pend, intent, succ, faults>>

-----------------------------------------------------------------------------
Registration == Admit \/ Register \/ RegisterFails \/ RegisterUnknown \/ Start
                \/ StartFails \/ Registered
Worker == Begin \/ NeverRan \/ (\E as \in Outcomes : HandlerReturns(as))
          \/ HandlerCancelled \/ WaitCancelled \/ WorkerDone \/ GiveUpFinalizer
Finalizer(w) == FinLock(w) \/ FinLockCancelled(w) \/ FinAppended(w)
                \/ FinRaised(w) \/ FinGivesUp(w)
AppendTask(w) == AppendStored(w) \/ AppendRaises(w) \/ LateCommit(w)
                 \/ LateCheck(w)
Shutdown == ShutdownBegins \/ ShutdownLists \/ GraceOver \/ ShutdownReconciles
            \/ ShutdownFinalized
Control == Kill \/ Interrupt \/ Stop \/ ResumeApproved \/ ResumeClaims
           \/ ResumeStarts \/ Abandon \/ Message

Next == \/ Registration \/ Worker \/ Recon \/ Shutdown \/ Control
        \/ \E w \in Starters : Finalizer(w) \/ AppendTask(w)

\* The waits of a finalizer and of the shutdown are bounded by timeouts; the
\* append and the handler of the task may hang for ever.
Spec == /\ Init /\ [][Next]_vars
        /\ \A w \in Starters : WF_vars(Finalizer(w))
        /\ WF_vars(ShutdownLists \/ GraceOver \/ ShutdownReconciles
                   \/ ShutdownFinalized)

-----------------------------------------------------------------------------
\* A task is shown as settled or parked only once a completion of it is
\* durable, whichever finalizer, late append, STOP or abandoned resume did it.
ShownIsDurable == state \in Settled \cup Parks => Completions # {}

\* STOP and the start of a resume successor exclude each other: they share the
\* source's finalization_lock.
StoppedNotResumed == ~(Stored("terminated") /\ succ = "started")

Quiet == /\ \A w \in Starters : Ended(w) /\ app[w].pc \in {"none", "done", "ok", "err"}
         /\ ~recon /\ ~Live /\ reg \in {"done", "lost"}

\* When nothing is left to run, a task is left open only if its registration
\* is unknown or its stored completion could not be published; and where
\* nothing failed, a task with a confirmed completion is not left interrupted.
NothingLeftBehind ==
  Quiet /\ shut = "done" =>
    /\ state \in {"pending", "running"} => reg = "lost" \/ persist = "committed"
    /\ faults = 0 => state \in Finals
    /\ faults = 0 /\ Confirmed \in Settled \cup Parks => state # "interrupted"

\* The end of a run waits for its tasks only so long, whatever their appends do.
ShutdownEnds == shut # "no" ~> shut = "done"

\* A task gets one durable completion.
OneCompletion == \A i, j \in Completions : i = j
=============================================================================
