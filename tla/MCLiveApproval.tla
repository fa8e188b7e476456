--------------------------- MODULE MCLiveApproval ---------------------------
(* A behaviour is one of LiveApproval or one of AutonomousRun: what must end once
   it is cancelled.  Only the part that takes steps is scheduled: the fair actions
   of AutonomousRun are not enabled in its initial state. *)
EXTENDS LiveApproval

CONSTANTS Callers, MaxFaults, MaxRestarts

VARIABLES part,
          rec, disk, said, proc, child, status, doomed, lifeline, pipe, endp, drain, reap,
          ask, resuming, cont, next, resumed, call, faults, restarts

Run == INSTANCE AutonomousRun WITH lock <- resuming

runVars == <<rec, disk, said, proc, child, status, doomed, lifeline, pipe, endp, drain, reap,
             ask, resuming, cont, next, resumed, call, faults, restarts>>

MCInit == Init /\ Run!Init /\ part \in {"live", "run"}

MCNext ==
  /\ UNCHANGED part
  /\ \/ part = "live" /\ Next /\ UNCHANGED runVars
     \/ part = "run" /\ Run!Next /\ UNCHANGED vars

MCSpec ==
  /\ MCInit /\ [][MCNext]_<<vars, runVars, part>> /\ Run!Fairness
  /\ WF_vars(part = "live" /\ Waiter)
  /\ \A v \in Voters : /\ WF_vars(part = "live" /\ VoterStep(v))
                       /\ SF_vars(part = "live" /\ LockVote(v))
  /\ \A c \in Cancels : /\ WF_vars(part = "live" /\ CancelStep(c))
                        /\ SF_vars(part = "live" /\ LockCancel(c))

\* The exit of the child, like a cancellation, settles the record of the run
\* (AutonomousRun.Settles).
Settles == Run!Settles
=============================================================================
