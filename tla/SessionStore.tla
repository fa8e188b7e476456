---------------------------- MODULE SessionStore ----------------------------
(***************************************************************************)
(* The registry of gateway sessions: registration, expiry with its         *)
(* immediate hooks, the blockers that count runtime owners, the retry timer*)
(* and the final hooks.  A step ends where the expiry task awaits a hook.  *)
(* Every session has an id of its own: create_session draws a uuid, and    *)
(* the autonomous runner registers under task ids that are never reused.   *)
(***************************************************************************)
EXTENDS Naturals

CONSTANTS
  Sessions,     \* session objects, each with its own id
  FinalHooks,   \* number of final expiry hooks
  MaxOwners     \* bound: runtime owners a session ever has

VARIABLES
  table,   \* the sessions registered under their ids
  sess,    \* the fields of every session object
  owners,  \* runtime owners the blockers count, and how many ever were
  ran,     \* history: how often the immediate hooks of a session ran to their end
  closed   \* history: how often each final hook of a session succeeded

vars == <<table, sess, owners, ran, closed>>

Fresh == [made |-> FALSE, expired |-> FALSE, hooksComplete |-> FALSE, hookIndex |-> 0,
          task |-> "none", timer |-> "none", expiring |-> FALSE, files |-> TRUE]

Init ==
  /\ table = {}
  /\ sess = [s \in Sessions |-> Fresh]
  /\ owners = [s \in Sessions |-> [now |-> 0, ever |-> 0]]
  /\ ran = [s \in Sessions |-> 0]
  /\ closed = [s \in Sessions |-> [h \in 1..FinalHooks |-> 0]]

-----------------------------------------------------------------------------
\* create_session and register_session, under a fresh id
Register(s) ==
  /\ ~sess[s].made
  /\ table' = table \cup {s}
  /\ sess' = [sess EXCEPT ![s].made = TRUE]
  /\ UNCHANGED <<owners, ran, closed>>

\* What a blocker counts is the host's: owners begin with a request that found the
\* session, or under another owner.
Acquire(s) ==
  /\ owners[s].ever < MaxOwners
  /\ (s \in table /\ ~sess[s].expired) \/ owners[s].now > 0
  /\ owners' = [owners EXCEPT ![s] = [now |-> @.now + 1, ever |-> @.ever + 1]]
  /\ UNCHANGED <<table, sess, ran, closed>>

ReleaseOwner(s) ==
  /\ owners[s].now > 0
  /\ owners' = [owners EXCEPT ![s].now = @ - 1]
  /\ UNCHANGED <<table, sess, ran, closed>>

Running(x) == x.task \in {"started", "hooks", "final"}

\* The flag is set and one expiry task runs.
Expiring(x) == [x EXCEPT !.expired = TRUE, !.task = IF Running(x) THEN @ ELSE "started"]

\* expire_session and expire_session_async on a running loop
Expire(s) ==
  /\ s \in table
  /\ sess' = [sess EXCEPT ![s] = Expiring(@)]
  /\ UNCHANGED <<table, owners, ran, closed>>

\* expire_session without a loop: with hooks to run the session is only hidden.
ExpireOffLoop(s) ==
  /\ s \in table
  /\ sess' = [sess EXCEPT ![s].expired = TRUE]
  /\ UNCHANGED <<table, owners, ran, closed>>

Blocked(s) == owners[s].now > 0

\* Mutant of WithRetry: a failed final hook arms no timer.
WithRetryIdle(x) == [x EXCEPT !.task = "done", !.timer = IF x.expiring THEN @ ELSE "armed"]

\* _schedule_expiry_retry keeps a timer that is there.
WithRetry(x) == [x EXCEPT !.task = "done", !.timer = IF @ = "none" THEN "armed" ELSE @]

\* Mutant of AfterHooks: the blockers are not asked.
AfterHooksUnblocked(s, x) ==
  [x EXCEPT !.hooksComplete = TRUE, !.expiring = TRUE, !.task = "final"]

\* The rest of the task up to its first final hook: blocked, or tearing down.
AfterHooks(s, x) ==
  IF Blocked(s) THEN WithRetry([x EXCEPT !.hooksComplete = TRUE])
  ELSE [x EXCEPT !.hooksComplete = TRUE, !.expiring = TRUE, !.task = "final"]

\* Mutant of Leaves: the row goes before the final hooks are through.
LeavesEarly(x) == x.task = "final" /\ x.hookIndex + 1 >= FinalHooks

\* Every final hook is through.
Leaves(x) == x.task = "final" /\ x.hookIndex = FinalHooks

\* The task suspends, or removes the files and pops the id.
Becomes(s, x) ==
  /\ sess' = [sess EXCEPT ![s] = IF Leaves(x) THEN [x EXCEPT !.files = FALSE, !.task = "done"] ELSE x]
  /\ table' = IF Leaves(x) THEN table \ {s} ELSE table

\* The task starts: it takes its timer back and runs the immediate hooks once.
TaskStart(s) ==
  /\ sess[s].task = "started"
  /\ LET x == [sess[s] EXCEPT !.timer = "none"] IN
     Becomes(s, IF x.hooksComplete THEN AfterHooks(s, x) ELSE [x EXCEPT !.task = "hooks"])
  /\ UNCHANGED <<owners, ran, closed>>

\* The immediate hooks end; their errors are swallowed.
HooksEnd(s) ==
  /\ sess[s].task = "hooks"
  /\ ran' = [ran EXCEPT ![s] = @ + 1]
  /\ Becomes(s, AfterHooks(s, sess[s]))
  /\ UNCHANGED <<owners, closed>>

FinalHookSucceeds(s) ==
  /\ sess[s].task = "final"
  /\ Becomes(s, [sess[s] EXCEPT !.hookIndex = @ + 1])
  /\ closed' = [closed EXCEPT ![s][sess[s].hookIndex + 1] = @ + 1]
  /\ UNCHANGED <<owners, ran>>

\* A failed hook is not skipped: it is retried.
FinalHookFails(s) ==
  /\ sess[s].task = "final"
  /\ sess' = [sess EXCEPT ![s] = WithRetry(@)]
  /\ UNCHANGED <<table, owners, ran, closed>>

\* retry(): the handle is cleared and the session, if it is still the registered
\* one, is expired again.
RetryFires(s) ==
  /\ sess[s].timer = "armed"
  /\ sess' = [sess EXCEPT ![s] = IF s \in table THEN Expiring([@ EXCEPT !.timer = "none"])
                                 ELSE [@ EXCEPT !.timer = "none"]]
  /\ UNCHANGED <<table, owners, ran, closed>>

TaskStep(s) == TaskStart(s) \/ HooksEnd(s) \/ FinalHookSucceeds(s)

Next ==
  \E s \in Sessions :
    \/ Register(s) \/ Acquire(s) \/ ReleaseOwner(s)
    \/ Expire(s) \/ ExpireOffLoop(s)
    \/ TaskStep(s) \/ FinalHookFails(s) \/ RetryFires(s)

Spec == Init /\ [][Next]_vars

\* The loop runs the task and the timer; a hook that is retried succeeds in the end,
\* and owners finish.
Fairness ==
  \A s \in Sessions :
    /\ WF_vars(TaskStep(s)) /\ SF_vars(FinalHookSucceeds(s))
    /\ WF_vars(RetryFires(s)) /\ WF_vars(ReleaseOwner(s))

-----------------------------------------------------------------------------
(* Properties *)

\* "Immediate cleanup run exactly once when expiry begins", however often and from
\* wherever the session is expired.
HooksRunOnce == \A s \in Sessions : ran[s] <= 1

\* Retry-safe final teardown: no final hook succeeds twice, and none after one that
\* has not.
FinalHooksInOrder ==
  \A s \in Sessions : \A h \in 1..FinalHooks : closed[s][h] = IF h <= sess[s].hookIndex THEN 1 ELSE 0

\* Final teardown is deferred until every runtime owner is finished.
NoTeardownUnderOwner == \A s \in Sessions : sess[s].expiring => owners[s].now = 0

\* A session leaves the registry, and loses its files, only when its cleanup and every
\* final hook are through.
GoneIsTornDown ==
  \A s \in Sessions :
    ~sess[s].files \/ (sess[s].made /\ s \notin table) =>
      /\ ran[s] = 1 /\ \A h \in 1..FinalHooks : closed[s][h] = 1
      /\ ~sess[s].files

\* An expiry that began removes its session.
ExpiryEnds == \A s \in Sessions : sess[s].task = "started" ~> s \notin table
=============================================================================
