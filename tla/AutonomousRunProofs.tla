------------------------ MODULE AutonomousRunProofs ------------------------
(* A killed run has no process left, a successor runs alone, and an accepted
   cancellation owns its outcome, for any number of callers, faults and restarts. *)
EXTENDS AutonomousRun, TLAPS

RunStates == {"running", "completed", "awaiting_approval", "interrupted", "failed",
              "killed", "continued", "removed"}

Places == {"wait", "settle", "cleanup", "reaping", "collect", "decide", "forced", "over", "none"}

Reapers ==
  [at : Places, proc : BOOLEAN, chan : BOOLEAN, procErr : BOOLEAN, chanErr : BOOLEAN,
   cleanErr : BOOLEAN, fenced : BOOLEAN, accepted : BOOLEAN, spared : BOOLEAN,
   dropped : BOOLEAN]

TypeInv ==
  /\ rec \in [state : RunStates, cancel : BOOLEAN, ack : BOOLEAN, quarantined : BOOLEAN]
  /\ disk \in RunStates
  /\ proc \in {"live", "dead"}
  /\ reap \in Reapers
  /\ cont \in {"idle", "reaper", "start", "started"}
  /\ next \in {0, 1}

\* A run that is killed or parked, in memory or in its manifest, has no process.
Ended ==
  /\ rec.state \in {"killed", "awaiting_approval"} => proc = "dead"
  /\ disk \in {"killed", "awaiting_approval"} => proc = "dead"

\* A reaper past its last wait either saw the process end or has a cleanup error.
Reaped == reap.at \in {"collect", "decide"} /\ ~reap.cleanErr => proc = "dead"

\* A continuation that has not started its successor yet is the first one, and one
\* past its wait finds a run that is no longer active.
Continues ==
  /\ cont \in {"reaper", "start"} => next = 0
  /\ cont \in {"start", "started"} => ~Active(rec.state)

IInv == TypeInv /\ Ended /\ Reaped /\ Continues /\ SuccessorAlone

core == <<rec, disk, proc, reap, cont, next, resumed>>

-----------------------------------------------------------------------------
(* What the helpers compute. *)

\* A commit leaves the state it was asked for or "failed"; the manifest has one of
\* the two, is removed, or is as before (_commit_terminal_manifest_or_fence).
LEMMA CommitStates ==
  ASSUME NEW r, NEW s, CommitOf(r, s)
  PROVE  /\ rec' = [r EXCEPT !.state = s] \/ rec' = [r EXCEPT !.state = "failed"]
         /\ disk' \in {s, "failed", "removed", disk}
<1>1. PICK n \in 0 .. 3 :
        /\ rec' = [r EXCEPT !.state = IF n = 0 THEN s ELSE "failed"]
        /\ disk' = CASE n = 0 -> s
                     [] n = 1 -> "failed"
                     [] n = 2 -> "removed"
                     [] n = 3 -> disk
  BY DEF CommitOf
<1>2. CASE n = 0  BY <1>1, <1>2
<1>3. CASE n = 1  BY <1>1, <1>3
<1>4. CASE n = 2  BY <1>1, <1>4
<1>5. CASE n = 3  BY <1>1, <1>5
<1> QED  BY <1>2, <1>3, <1>4, <1>5

\* The child's last word settles a run as one of four states (_terminal_settlement).
LEMMA SettlementStates ==
  ASSUME NEW e
  PROVE  Settlement(e) \in {"interrupted", "completed", "awaiting_approval", "failed"}
<1>1. CASE said = "interrupted"  BY <1>1 DEF Settlement
<1>2. CASE said \in {"completed", "awaiting_approval"}  BY <1>2 DEF Settlement
<1>3. CASE said \notin {"interrupted", "completed", "awaiting_approval"}
  BY <1>3 DEF Settlement
<1> QED  BY <1>1, <1>2, <1>3

\* The reaper's outcome: never an active state, killed or parked for an active run
\* only without a cleanup error, and killed or failed for a cancelled one.
LEMMA OutcomeStates ==
  ASSUME TypeInv
  PROVE  /\ Outcome \in RunStates /\ ~Active(Outcome)
         /\ Outcome \in {"killed", "awaiting_approval"} =>
              Outcome = rec.state \/ ~reap.cleanErr
         /\ Active(rec.state) /\ rec.cancel => Outcome \in {"killed", "failed"}
<1> DEFINE exit == IF status \in {"none", "error"} /\ reap.accepted /\ proc = "dead"
                     THEN "other" ELSE status
           clean == ~reap.procErr /\ ~reap.chanErr /\ ~reap.cleanErr /\ ~rec.quarantined
           word == IF ~reap.cleanErr /\ ~reap.chanErr /\ ~reap.procErr /\ exit = "zero"
                     THEN "completed" ELSE "failed"
<1>1. Settlement(exit) \in {"interrupted", "completed", "awaiting_approval", "failed"}
  BY SettlementStates
<1>2. CASE ~Active(rec.state)
  <2>1. Outcome = IF clean /\ rec.state \in {"completed", "failed"}
                    THEN Settlement(exit) ELSE rec.state
    BY <1>2 DEF Outcome
  <2> QED  BY <1>1, <1>2, <2>1 DEF Active, TypeInv, RunStates
<1>3. CASE Active(rec.state) /\ rec.cancel /\ ~reap.cleanErr
  <2>1. Outcome = "killed"  BY <1>3 DEF Outcome
  <2> QED  BY <1>3, <2>1 DEF Active, RunStates
<1>4. CASE Active(rec.state) /\ (~rec.cancel \/ reap.cleanErr)
  <2>1. Outcome = IF clean /\ word \in {"completed", "failed"}
                    THEN Settlement(exit) ELSE word
    BY <1>4 DEF Outcome
  <2> QED  BY <1>1, <1>4, <2>1 DEF Active, RunStates
<1> QED  BY <1>2, <1>3, <1>4

-----------------------------------------------------------------------------
(* Every step keeps IInv. *)

\* A started run satisfies the inductive invariant (start, _launch_locked).
THEOREM InitIInv == Init => IInv
BY DEF Init, IInv, TypeInv, Ended, Reaped, Continues, SuccessorAlone, Reaper, Reapers, Places,
       RunStates, Active

\* What the steps of the child, the drain, the reaper and the callers do to the run:
\* no step makes it active again, and it is killed or parked only over a dead process.
Runs ==
  /\ TypeInv' /\ Reaped'
  /\ proc' = proc \/ proc' = "dead"
  /\ \/ rec'.state = rec.state
     \/ ~Active(rec'.state) /\ (rec'.state \in {"killed", "awaiting_approval"} => proc = "dead")
  /\ \/ disk' \in {disk, rec.state}
     \/ disk' \in {"killed", "awaiting_approval"} => proc = "dead"
  /\ UNCHANGED <<cont, next, resumed>>

\* Such a step keeps the invariant.
LEMMA RunsKeepsIInv ==
  ASSUME IInv, Runs
  PROVE  IInv'
<1> USE DEF IInv, Runs
<1>1. Ended'
  BY DEF Ended, TypeInv
<1>2. Continues'
  BY DEF Continues, Active
<1>3. SuccessorAlone'
  BY DEF SuccessorAlone
<1> QED  BY <1>1, <1>2, <1>3

\* The processes only end (the child and its sentinel).
LEMMA ProcessStep ==
  ASSUME IInv, Child \/ GroupDies
  PROVE  Runs
<1>1. CASE Child
  BY <1>1 DEF Child, ChildAsks, ChildEnds, ChildExits, IInv, Runs, TypeInv, Reaped, front
<1>2. CASE GroupDies
  BY <1>2 DEF GroupDies, IInv, Runs, TypeInv, Reaped, front
<1> QED  BY <1>1, <1>2

\* The drain sets flags of the record and rewrites the manifest with its state.
LEMMA DrainStep ==
  ASSUME IInv, Drain
  PROVE  Runs
<1> USE DEF IInv, Runs, front, os
<1>1. rec' = rec \/ rec' = [rec EXCEPT !.cancel = TRUE] \/ rec' = [rec EXCEPT !.ack = TRUE]
  BY DEF Drain, DrainAsk, DrainTerminal, DrainFinal, DrainAck, DrainStops, EvidenceFails
<1>2. /\ disk' \in {disk, rec.state}
      /\ UNCHANGED <<proc, reap, cont, next, resumed>>
  BY DEF Drain, DrainAsk, DrainTerminal, DrainFinal, DrainAck, DrainStops
<1>3. /\ rec' \in [state : RunStates, cancel : BOOLEAN, ack : BOOLEAN, quarantined : BOOLEAN]
      /\ rec'.state = rec.state /\ rec.state \in RunStates
  <2>1. rec \in [state : RunStates, cancel : BOOLEAN, ack : BOOLEAN, quarantined : BOOLEAN]
    BY DEF TypeInv
  <2> QED  BY <1>1, <2>1
<1>5. TypeInv'
  BY <1>2, <1>3 DEF TypeInv
<1>4. Reaped'
  BY <1>2 DEF Reaped
<1> QED  BY <1>2, <1>3, <1>4, <1>5

\* The reapers at the same place with the same cleanup error.
Alike(r) == {q \in Reapers : q.at = r.at /\ q.cleanErr = r.cleanErr}

\* An assignment to another field of the reaper leaves its place and cleanup error.
LEMMA FieldSet ==
  ASSUME NEW r \in Reapers, NEW b \in BOOLEAN
  PROVE  /\ [r EXCEPT !.proc = b] \in Alike(r)
         /\ [r EXCEPT !.chan = b] \in Alike(r)
         /\ [r EXCEPT !.procErr = b] \in Alike(r)
         /\ [r EXCEPT !.chanErr = b] \in Alike(r)
         /\ [r EXCEPT !.fenced = b] \in Alike(r)
         /\ [r EXCEPT !.accepted = b] \in Alike(r)
         /\ [r EXCEPT !.spared = b] \in Alike(r)
         /\ [r EXCEPT !.dropped = b] \in Alike(r)
<1>1. [r EXCEPT !.proc = b] \in Alike(r)  BY DEF Alike, Reapers
<1>2. [r EXCEPT !.chan = b] \in Alike(r)  BY DEF Alike, Reapers
<1>3. [r EXCEPT !.procErr = b] \in Alike(r)  BY DEF Alike, Reapers
<1>4. [r EXCEPT !.chanErr = b] \in Alike(r)  BY DEF Alike, Reapers
<1>5. [r EXCEPT !.fenced = b] \in Alike(r)  BY DEF Alike, Reapers
<1>6. [r EXCEPT !.accepted = b] \in Alike(r)  BY DEF Alike, Reapers
<1>7. [r EXCEPT !.spared = b] \in Alike(r)  BY DEF Alike, Reapers
<1>8. [r EXCEPT !.dropped = b] \in Alike(r)  BY DEF Alike, Reapers
<1> QED  BY <1>1, <1>2, <1>3, <1>4, <1>5, <1>6, <1>7, <1>8

\* The reaper moves on.
LEMMA PlaceSet ==
  ASSUME NEW r \in Reapers, NEW at \in Places
  PROVE  /\ [r EXCEPT !.at = at] \in Reapers
         /\ [r EXCEPT !.at = at].at = at
         /\ [r EXCEPT !.at = at].cleanErr = r.cleanErr
BY DEF Reapers

\* The reaper notes a cleanup error.
LEMMA CleanupSet ==
  ASSUME NEW r \in Reapers, NEW b \in BOOLEAN
  PROVE  /\ [r EXCEPT !.cleanErr = b] \in Reapers
         /\ [r EXCEPT !.cleanErr = b].at = r.at
         /\ [r EXCEPT !.cleanErr = b].cleanErr = b
BY DEF Reapers

\* Harvesting the tasks changes neither the place nor the cleanup error.
LEMMA HarvestType ==
  ASSUME reap \in Reapers
  PROVE  Harvest \in Alike(reap)
<1> DEFINE p == status # "none"
           e == reap.procErr \/ status = "error"
           c == DrainDone
           f == reap.chanErr \/ ChannelFailed
           r1 == [reap EXCEPT !.proc = p]
           r2 == [r1 EXCEPT !.procErr = e]
           r3 == [r2 EXCEPT !.chan = c]
<1>1. p \in BOOLEAN /\ e \in BOOLEAN /\ c \in BOOLEAN /\ f \in BOOLEAN
  BY DEF DrainDone, ChannelFailed
<1>2. Harvest = [r3 EXCEPT !.chanErr = f]
  <2>1. r1.procErr = reap.procErr /\ r3.chanErr = reap.chanErr
    BY DEF Reapers
  <2> QED  BY <2>1 DEF Harvest
<1> HIDE DEF p, e, c, f
<1>3. r1 \in Alike(reap)  BY <1>1, FieldSet
<1>4. r2 \in Alike(r1)  BY <1>1, <1>3, FieldSet DEF Alike
<1>5. r3 \in Alike(r2)  BY <1>1, <1>4, FieldSet DEF Alike
<1>6. Harvest \in Alike(r3)  BY <1>1, <1>2, <1>5, FieldSet DEF Alike
<1> HIDE DEF r1, r2, r3
<1> QED  BY <1>3, <1>4, <1>5, <1>6 DEF Alike

\* Something failed or was cancelled: the reaper interrupts the channel.
LEMMA CleanupStep ==
  ASSUME NEW r \in Reapers, ToCleanup(r)
  PROVE  reap' \in Reapers /\ reap'.at = "cleanup"
<1> DEFINE q == [r EXCEPT !.at = "cleanup"]
           b == r.spared \/ ~DrainDone
<1>1. q \in Reapers /\ q.at = "cleanup"
  BY PlaceSet DEF Places
<1>2. b \in BOOLEAN  BY DEF DrainDone
<1>3. reap' = [q EXCEPT !.spared = b]
  <2>1. q.spared = r.spared  BY DEF Reapers
  <2> QED  BY <2>1 DEF ToCleanup
<1> HIDE DEF q, b
<1> QED  BY <1>1, <1>2, <1>3, FieldSet DEF Alike

\* The last fence of the process group.
LEMMA FenceStep ==
  ASSUME NEW r \in Reapers, NEW raises \in BOOLEAN, ToFence(r, raises)
  PROVE  reap' \in Reapers /\ reap'.at = "reaping"
<1> DEFINE q == [r EXCEPT !.at = "reaping"]
           b == r.cleanErr \/ raises
           c == r.procErr \/ (~r.fenced /\ proc = "dead" /\ ~r.accepted)
           q2 == [q EXCEPT !.cleanErr = b]
<1>1. q \in Reapers /\ q.at = "reaping"
  BY PlaceSet DEF Places
<1>2. b \in BOOLEAN /\ c \in BOOLEAN  OBVIOUS
<1>3. reap' = [q2 EXCEPT !.procErr = c]
  <2>1. q.cleanErr = r.cleanErr /\ q2.procErr = r.procErr  BY DEF Reapers
  <2> QED  BY <2>1 DEF ToFence
<1> HIDE DEF q, b, c
<1>4. q2 \in Reapers /\ q2.at = "reaping"
  BY <1>1, <1>2, CleanupSet
<1> HIDE DEF q2
<1> QED  BY <1>2, <1>3, <1>4, FieldSet DEF Alike

\* The reaper's way to the last fence of the group.
LEMMA WaitStep ==
  ASSUME reap \in Reapers, ReapWake \/ ReapSettle \/ ReapGrace
  PROVE  reap' \in Reapers /\ reap'.at \in {"wait", "settle", "cleanup", "reaping"}
<1>1. CASE ReapWake
  <2> DEFINE h == [Harvest EXCEPT !.accepted = Accepted]
             exited == h.proc /\ ~h.procErr /\ ~Accepted
  <2>1. PICK raises \in BOOLEAN :
          LET r == [h EXCEPT !.fenced = exited, !.cleanErr = raises] IN
            \/ ToCleanup(r)
            \/ ToFence(r, FALSE)
            \/ reap' = [r EXCEPT !.at = IF r.proc THEN "settle" ELSE "wait"]
    BY <1>1 DEF ReapWake, KillRaises
  <2> DEFINE g == [h EXCEPT !.fenced = exited]
             r == [g EXCEPT !.cleanErr = raises]
  <2>2. h \in Reapers
    <3>1. Accepted \in BOOLEAN  BY DEF Accepted
    <3> QED  BY <3>1, HarvestType, FieldSet DEF Alike
  <2>3. exited \in BOOLEAN  OBVIOUS
  <2> HIDE DEF h, exited
  <2>4. g \in Reapers  BY <2>2, <2>3, FieldSet DEF Alike
  <2>5. \/ ToCleanup(r)
        \/ ToFence(r, FALSE)
        \/ reap' = [r EXCEPT !.at = IF r.proc THEN "settle" ELSE "wait"]
    BY <2>1
  <2> HIDE DEF g
  <2>6. r \in Reapers  BY <2>4, CleanupSet
  <2> HIDE DEF r
  <2>7. CASE ToCleanup(r)  BY <2>6, <2>7, CleanupStep
  <2>8. CASE ToFence(r, FALSE)  BY <2>6, <2>8, FenceStep
  <2>9. CASE reap' = [r EXCEPT !.at = IF r.proc THEN "settle" ELSE "wait"]
    <3>1. (IF r.proc THEN "settle" ELSE "wait") \in Places \cap {"settle", "wait"}
      BY DEF Places
    <3> QED  BY <2>6, <2>9, <3>1, PlaceSet
  <2> QED  BY <2>5, <2>7, <2>8, <2>9
<1>2. CASE ReapSettle
  <2>1. Harvest \in Reapers  BY HarvestType DEF Alike
  <2>2. ToCleanup(Harvest) \/ ToFence(Harvest, FALSE)  BY <1>2 DEF ReapSettle
  <2> QED  BY <2>1, <2>2, CleanupStep, FenceStep
<1>3. CASE ReapGrace
  <2>1. Harvest \in Reapers  BY HarvestType DEF Alike
  <2>2. PICK raises \in BOOLEAN : ToFence(Harvest, raises)
    BY <1>3 DEF ReapGrace, KillRaises
  <2> QED  BY <2>1, <2>2, FenceStep
<1> QED  BY <1>1, <1>2, <1>3
\* A commit of the reaper or of a caller, as a step of the run.
LEMMA CommitStep ==
  ASSUME IInv, NEW r, NEW s \in RunStates, CommitOf(r, s),
         r \in [state : RunStates, cancel : BOOLEAN, ack : BOOLEAN, quarantined : BOOLEAN],
         s = rec.state \/ ~Active(s),
         s \in {"killed", "awaiting_approval"} => proc = "dead",
         proc' = proc, reap' \in Reapers, Reaped', UNCHANGED <<cont, next, resumed>>
  PROVE  Runs
<1>1. PICK t \in {s, "failed"} : rec' = [r EXCEPT !.state = t]
  BY CommitStates
<1>2. disk' \in {s, "failed", "removed", disk}
  BY CommitStates
<1>3. t \in RunStates  BY DEF RunStates
<1>4. /\ rec' \in [state : RunStates, cancel : BOOLEAN, ack : BOOLEAN, quarantined : BOOLEAN]
      /\ rec'.state = t
  BY <1>1, <1>3
<1>5. TypeInv'
  BY <1>2, <1>4 DEF IInv, TypeInv, RunStates
<1>6. \/ rec'.state = rec.state
      \/ ~Active(rec'.state) /\ (rec'.state \in {"killed", "awaiting_approval"} => proc = "dead")
  BY <1>4 DEF Active
<1>7. disk' = disk \/ (disk' \in {"killed", "awaiting_approval"} => proc = "dead")
  BY <1>2
<1> QED  BY <1>5, <1>6, <1>7 DEF Runs

\* The reaper.
LEMMA ReapStep ==
  ASSUME IInv, Reap \/ ReapCrash
  PROVE  Runs
<1>0. reap \in Reapers /\ TypeInv  BY DEF IInv, TypeInv
<1>1. CASE ReapWake \/ ReapSettle \/ ReapGrace
  <2>1. reap' \in Reapers /\ reap'.at \notin {"collect", "decide"}
    BY <1>0, <1>1, WaitStep
  <2>2. UNCHANGED <<rec, disk, proc, cont, next, resumed>>
    BY <1>1 DEF ReapWake, ReapSettle, ReapGrace, os, front
  <2> QED  BY <1>0, <2>1, <2>2 DEF Runs, TypeInv, Reaped
<1>2. CASE ReapSettleTimeout
  BY <1>2 DEF ReapSettleTimeout, os, front, IInv, Runs, TypeInv, Reaped
<1>3. CASE ReapReaped
  <2> DEFINE q == [reap EXCEPT !.at = "collect"]
             b == reap.cleanErr \/ proc = "live"
             q2 == [q EXCEPT !.cleanErr = b]
             d == ~DrainDone
  <2>1. q \in Reapers /\ q.at = "collect"  BY <1>0, PlaceSet DEF Places
  <2>2. b \in BOOLEAN /\ d \in BOOLEAN  BY DEF DrainDone
  <2>3. reap' = [q2 EXCEPT !.dropped = d]
    <3>1. q.cleanErr = reap.cleanErr  BY <1>0, PlaceSet DEF Places
    <3> QED  BY <1>3, <3>1 DEF ReapReaped
  <2> HIDE DEF q, d
  <2>4. q2 \in Reapers /\ q2.at = "collect" /\ q2.cleanErr = b
    BY <2>1, <2>2, CleanupSet
  <2> HIDE DEF q2
  <2>5. reap' \in Reapers /\ reap'.cleanErr = b
    <3> HIDE DEF b
    <3>1. reap' \in Alike(q2)  BY <2>2, <2>3, <2>4, FieldSet
    <3> QED  BY <2>4, <3>1 DEF Alike
  <2>6. UNCHANGED <<rec, disk, proc, cont, next, resumed>>
    BY <1>3 DEF ReapReaped, os, front
  <2>7. Reaped'
    <3>1. ~b => proc' = "dead"  BY <1>0, <2>6 DEF TypeInv
    <3> HIDE DEF b
    <3> QED  BY <2>5, <3>1 DEF Reaped
  <2>8. TypeInv'  BY <1>0, <2>5, <2>6 DEF TypeInv
  <2> QED  BY <2>6, <2>7, <2>8 DEF Runs
<1>4. CASE ReapCollect
  <2> DEFINE q == [Harvest EXCEPT !.at = "decide"]
             b == Harvest.procErr \/ status = "none"
  <2>1. Harvest \in Reapers /\ Harvest.at = "collect" /\ Harvest.cleanErr = reap.cleanErr
    BY <1>0, <1>4, HarvestType DEF Alike, ReapCollect
  <2>2. q \in Reapers /\ q.cleanErr = reap.cleanErr  BY <2>1, PlaceSet DEF Places
  <2>3. reap' = [q EXCEPT !.procErr = b]
    <3>1. q.procErr = Harvest.procErr  BY <2>1 DEF Reapers
    <3> QED  BY <1>4, <3>1 DEF ReapCollect
  <2>4. b \in BOOLEAN  OBVIOUS
  <2> HIDE DEF q, b
  <2>5. reap' \in Reapers /\ reap'.cleanErr = reap.cleanErr
    <3>1. [q EXCEPT !.procErr = b] \in Alike(q)  BY <2>2, <2>4, FieldSet
    <3> QED  BY <2>2, <2>3, <3>1 DEF Alike
  <2>6. reap.at = "collect" /\ UNCHANGED <<rec, disk, proc, cont, next, resumed>>
    BY <1>4 DEF ReapCollect, os, front
  <2> QED  BY <1>0, <2>5, <2>6 DEF IInv, Runs, TypeInv, Reaped
<1>5. CASE ReapDecide
  <2>1. reap' \in Reapers /\ Reaped'
    BY <1>5 DEF ReapDecide, Reaper, Reapers, Places, Reaped
  <2>2. Outcome \in {"killed", "awaiting_approval"} => proc = "dead"
    <3>1. Outcome = rec.state \/ ~reap.cleanErr \/ Outcome \notin {"killed", "awaiting_approval"}
      BY <1>0, OutcomeStates
    <3>2. reap.at = "decide"  BY <1>5 DEF ReapDecide
    <3> QED  BY <3>1, <3>2 DEF IInv, Ended, Reaped
  <2>3. CommitOf(rec, Outcome) /\ UNCHANGED <<proc, cont, next, resumed>>
    BY <1>5 DEF ReapDecide, Commit, os, front
  <2>4. Outcome \in RunStates /\ ~Active(Outcome)  BY <1>0, OutcomeStates
  <2> QED  BY <1>0, <2>1, <2>2, <2>3, <2>4, CommitStep DEF TypeInv
<1>6. CASE ReapForced
  <2> DEFINE s == IF Active(rec.state) THEN "failed" ELSE rec.state
  <2>1. reap' \in Reapers /\ Reaped'
    BY <1>6 DEF ReapForced, Reaper, Reapers, Places, Reaped
  <2>2. s \in RunStates /\ ~Active(s)  BY <1>0 DEF TypeInv, RunStates, Active
  <2>3. s \in {"killed", "awaiting_approval"} => proc = "dead"
    BY DEF IInv, Ended
  <2>4. CommitOf(rec, s) /\ UNCHANGED <<proc, cont, next, resumed>>
    BY <1>6 DEF ReapForced, Commit, os, front
  <2> HIDE DEF s
  <2> QED  BY <1>0, <2>1, <2>2, <2>3, <2>4, CommitStep DEF TypeInv
<1>7. CASE ReapCrash
  <2>1. reap' \in Reapers /\ reap'.at = "forced"
    BY <1>0, <1>7, PlaceSet DEF ReapCrash, Places
  <2>2. UNCHANGED <<rec, disk, proc, cont, next, resumed>>
    BY <1>7 DEF ReapCrash, os, front
  <2> QED  BY <1>0, <2>1, <2>2 DEF Runs, TypeInv, Reaped
<1> QED  BY <1>1, <1>2, <1>3, <1>4, <1>5, <1>6, <1>7 DEF Reap
\* The callers that cancel the run and what fails or stops it.
LEMMA CallerStep ==
  ASSUME IInv,
         \/ \E c \in Callers : CallDelete(c) \/ CallRevoke(c) \/ Cancel(c)
         \/ EvidenceLost \/ Quarantine \/ Shutdown \/ Vote
  PROVE  Runs
<1>0. /\ rec \in [state : RunStates, cancel : BOOLEAN, ack : BOOLEAN, quarantined : BOOLEAN]
      /\ reap \in Reapers /\ TypeInv /\ Reaped
  BY DEF IInv, TypeInv
<1>1. CASE UNCHANGED core
  BY <1>0, <1>1 DEF core, Runs, TypeInv, Reaped
<1>2. CASE \E c \in Callers : CallDelete(c) \/ CallRevoke(c) \/ CancelSettled(c)
                                \/ CancelReaped(c) \/ CancelTimeout(c) \/ Deny(c)
  <2>1. UNCHANGED core
    BY <1>2 DEF CallDelete, CallRevoke, CancelSettled, CancelReaped, CancelTimeout, Deny,
                still, os, core
  <2> QED  BY <1>1, <2>1
<1>3. CASE \E c \in Callers : CancelParked(c)
  <2> DEFINE r == [rec EXCEPT !.cancel = TRUE]
  <2>1. /\ CommitOf(r, "killed") /\ rec.state = "awaiting_approval"
        /\ UNCHANGED <<proc, reap, cont, next, resumed>>
    BY <1>3 DEF CancelParked, still, os
  <2>2. r \in [state : RunStates, cancel : BOOLEAN, ack : BOOLEAN, quarantined : BOOLEAN]
    BY <1>0
  <2>3. proc = "dead"  BY <2>1 DEF IInv, Ended
  <2>4. Reaped'  BY <1>0, <2>1 DEF Reaped
  <2>5. "killed" \in RunStates /\ ~Active("killed")  BY DEF RunStates, Active
  <2> HIDE DEF r
  <2> QED  BY <1>0, <2>1, <2>2, <2>3, <2>4, <2>5, CommitStep
<1>4. CASE EvidenceLost \/ \E c \in Callers : CancelActive(c)
  <2>1. /\ rec' = rec \/ rec' = [rec EXCEPT !.cancel = TRUE]
        /\ UNCHANGED <<disk, proc, reap, cont, next, resumed>>
    BY <1>4 DEF EvidenceLost, EvidenceFails, CancelActive, still, os
  <2>2. /\ rec' \in [state : RunStates, cancel : BOOLEAN, ack : BOOLEAN, quarantined : BOOLEAN]
        /\ rec'.state = rec.state
    BY <1>0, <2>1
  <2> QED  BY <1>0, <2>1, <2>2 DEF Runs, TypeInv, Reaped
<1>5. CASE Quarantine
  <2> DEFINE q == [rec EXCEPT !.cancel = TRUE]
             r == [q EXCEPT !.quarantined = TRUE]
  <2>1. CommitOf(r, "failed") /\ UNCHANGED <<proc, reap, cont, next, resumed>>
    BY <1>5 DEF Quarantine, still, os
  <2>2. q \in [state : RunStates, cancel : BOOLEAN, ack : BOOLEAN, quarantined : BOOLEAN]
    BY <1>0
  <2> HIDE DEF q
  <2>3. r \in [state : RunStates, cancel : BOOLEAN, ack : BOOLEAN, quarantined : BOOLEAN]
    BY <2>2
  <2>4. Reaped'  BY <1>0, <2>1 DEF Reaped
  <2>5. "failed" \in RunStates /\ ~Active("failed")  BY DEF RunStates, Active
  <2> HIDE DEF r
  <2> QED  BY <1>0, <2>1, <2>3, <2>4, <2>5, CommitStep
<1>6. CASE Shutdown
  <2> DEFINE b == rec.cancel \/ Active(rec.state)
             r == [rec EXCEPT !.cancel = b]
  <2>1. /\ rec' = rec \/ rec' = r \/ rec' = [r EXCEPT !.state = "failed"]
        /\ disk' = disk \/ disk' = "failed"
        /\ UNCHANGED <<proc, reap, cont, next, resumed>>
    BY <1>6 DEF Shutdown, still, os
  <2>2. b \in BOOLEAN  BY DEF Active
  <2> HIDE DEF b
  <2>3. /\ r \in [state : RunStates, cancel : BOOLEAN, ack : BOOLEAN, quarantined : BOOLEAN]
        /\ r.state = rec.state
    BY <1>0, <2>2
  <2>4. "failed" \in RunStates /\ ~Active("failed")  BY DEF RunStates, Active
  <2> HIDE DEF r
  <2>5. /\ rec' \in [state : RunStates, cancel : BOOLEAN, ack : BOOLEAN, quarantined : BOOLEAN]
        /\ rec'.state \in {rec.state, "failed"}
    BY <1>0, <2>1, <2>3, <2>4
  <2> QED  BY <1>0, <2>1, <2>4, <2>5 DEF Runs, TypeInv, Reaped
<1>7. CASE Vote
  <2>1. UNCHANGED core  BY <1>7 DEF Vote, os, core
  <2> QED  BY <1>1, <2>1
<1> QED  BY <1>2, <1>3, <1>4, <1>5, <1>6, <1>7 DEF Cancel
\* continue_approval and POST .../resume: the lease of the process decides.
LEMMA ContinueStep ==
  ASSUME IInv, ContinueEnter \/ Continue \/ Resume
  PROVE  IInv'
<1>0. /\ rec \in [state : RunStates, cancel : BOOLEAN, ack : BOOLEAN, quarantined : BOOLEAN]
      /\ next \in {0, 1} /\ TypeInv /\ Ended /\ Reaped /\ Continues /\ SuccessorAlone
  BY DEF IInv, TypeInv
<1>1. CASE ContinueCommit
  <2>1. CommitOf(rec, "continued") /\ cont = "started" /\ cont' = "idle"
    BY <1>1 DEF ContinueCommit, Commit
  <2>2. UNCHANGED <<proc, reap, next, resumed>>
    BY <1>1 DEF ContinueCommit, os
  <2>3. PICK t \in {"continued", "failed"} : rec' = [rec EXCEPT !.state = t]
    BY <2>1, CommitStates
  <2>4. disk' \in {"continued", "failed", "removed", disk}
    BY <2>1, CommitStates
  <2>5. t \in RunStates \ {"killed", "awaiting_approval", "running"}  BY DEF RunStates
  <2>6. /\ rec' \in [state : RunStates, cancel : BOOLEAN, ack : BOOLEAN, quarantined : BOOLEAN]
        /\ rec'.state = t
    BY <1>0, <2>3, <2>5
  <2>7. TypeInv'  BY <1>0, <2>1, <2>2, <2>4, <2>6 DEF TypeInv, RunStates
  <2>8. Ended'  BY <1>0, <2>2, <2>4, <2>5, <2>6 DEF Ended
  <2>9. Reaped' /\ Continues' /\ SuccessorAlone'
    BY <1>0, <2>1, <2>2 DEF Reaped, Continues, SuccessorAlone
  <2> QED  BY <2>7, <2>8, <2>9 DEF IInv
<1>2. CASE ContinueEnter \/ ContinueReaped \/ ContinueStart \/ Resume
  <2>1. UNCHANGED <<rec, disk, proc, reap>>
    BY <1>2 DEF ContinueEnter, ContinueReaped, ContinueStart, Resume, os
  <2>2. CASE ContinueEnter
    BY <1>0, <2>1, <2>2 DEF ContinueEnter, IInv, TypeInv, Ended, Reaped, Continues,
                            SuccessorAlone
  <2>3. CASE ContinueReaped
    <3>1. /\ cont = "reaper" /\ UNCHANGED <<next, resumed>>
          /\ (rec.state = "awaiting_approval" /\ cont' = "start") \/ cont' = "idle"
      BY <2>3 DEF ContinueReaped
    <3> QED  BY <1>0, <2>1, <3>1 DEF IInv, TypeInv, Ended, Reaped, Continues, SuccessorAlone,
                                     Active
  <2>4. CASE ContinueStart
    <3>1. /\ cont = "start" /\ UNCHANGED resumed
          /\ \/ proc = "dead" /\ next' = next + 1 /\ cont' = "started"
             \/ next' = next /\ cont' = "idle"
      BY <2>4 DEF ContinueStart, LeaseReleased
    <3> QED  BY <1>0, <2>1, <3>1 DEF IInv, TypeInv, Ended, Reaped, Continues, SuccessorAlone
  <2>5. CASE Resume
    <3>1. proc = "dead" /\ UNCHANGED <<cont, next>>  BY <2>5 DEF Resume, LeaseReleased
    <3> QED  BY <1>0, <2>1, <3>1 DEF IInv, TypeInv, Ended, Reaped, Continues, SuccessorAlone
  <2> QED  BY <1>2, <2>2, <2>3, <2>4, <2>5
<1> QED  BY <1>1, <1>2 DEF Continue

\* The next gateway finds no active run, and a killed or parked one only where the
\* manifest said so (rehydrate).
LEMMA RestartStep ==
  ASSUME IInv, Restart
  PROVE  IInv'
<1>0. TypeInv /\ Ended /\ SuccessorAlone  BY DEF IInv
<1>1. /\ Rehydrated \in RunStates /\ ~Active(Rehydrated)
      /\ Rehydrated \in {"killed", "awaiting_approval"} => proc = "dead"
  <2>1. CASE disk = "running"
    <3>1. Settlement("none") \in {"interrupted", "failed"}
      <4>1. CASE said = "interrupted"  BY <4>1 DEF Settlement
      <4>2. CASE said \in {"completed", "awaiting_approval"}  BY <4>2 DEF Settlement
      <4>3. CASE said \notin {"interrupted", "completed", "awaiting_approval"}
        BY <4>3 DEF Settlement
      <4> QED  BY <4>1, <4>2, <4>3
    <3>2. Rehydrated \in {"interrupted", "failed"}  BY <2>1, <3>1 DEF Rehydrated
    <3> QED  BY <3>2 DEF RunStates, Active
  <2>2. CASE disk # "running"
    <3>1. Rehydrated = disk  BY <2>2 DEF Rehydrated
    <3> QED  BY <1>0, <2>2, <3>1 DEF TypeInv, Ended, Active
  <2> QED  BY <2>1, <2>2
<1>2. /\ rec' = [state |-> Rehydrated, cancel |-> FALSE, ack |-> FALSE, quarantined |-> FALSE]
      /\ disk' \in {disk, Rehydrated}
      /\ reap' = Reaper("none") /\ cont' = "idle"
      /\ UNCHANGED <<proc, next, resumed>>
  BY DEF Restart, os
<1>3. /\ rec' \in [state : RunStates, cancel : BOOLEAN, ack : BOOLEAN, quarantined : BOOLEAN]
      /\ rec'.state = Rehydrated
  BY <1>1, <1>2
<1>4. reap' \in Reapers /\ reap'.at = "none"
  BY <1>2 DEF Reaper, Reapers, Places
<1>5. TypeInv'  BY <1>0, <1>1, <1>2, <1>3, <1>4 DEF TypeInv
<1>6. Ended'  BY <1>0, <1>1, <1>2, <1>3 DEF Ended
<1>7. Reaped' /\ Continues' /\ SuccessorAlone'
  BY <1>0, <1>2, <1>4 DEF Reaped, Continues, SuccessorAlone
<1> QED  BY <1>5, <1>6, <1>7 DEF IInv

\* The inductive step.
THEOREM NextIInv == IInv /\ [Next]_vars => IInv'
<1> SUFFICES ASSUME IInv, [Next]_vars PROVE IInv'
  OBVIOUS
<1>1. CASE Child \/ GroupDies  BY <1>1, ProcessStep, RunsKeepsIInv
<1>2. CASE Drain  BY <1>2, DrainStep, RunsKeepsIInv
<1>3. CASE Reap \/ ReapCrash  BY <1>3, ReapStep, RunsKeepsIInv
<1>4. CASE \/ \E c \in Callers : CallDelete(c) \/ CallRevoke(c) \/ Cancel(c)
           \/ EvidenceLost \/ Quarantine \/ Shutdown \/ Vote
  BY <1>4, CallerStep, RunsKeepsIInv
<1>5. CASE ContinueEnter \/ Continue \/ Resume  BY <1>5, ContinueStep
<1>6. CASE Restart  BY <1>6, RestartStep
<1>7. CASE UNCHANGED vars
  BY <1>7 DEF vars, IInv, TypeInv, Ended, Reaped, Continues, SuccessorAlone
<1> QED  BY <1>1, <1>2, <1>3, <1>4, <1>5, <1>6, <1>7 DEF Next

-----------------------------------------------------------------------------
(* The results. *)

\* Every reachable state of the runner satisfies the inductive invariant.
THEOREM Invariant == Spec => []IInv
BY InitIInv, NextIInv, PTL DEF Spec

\* A run is reported killed only when none of its processes is left, whatever
\* signals, writes and reapers fail (_reap_owned_process, cancel, rehydrate).
THEOREM KilledRunsAreOver == Spec => []KilledIsOver
<1>1. IInv => KilledIsOver
  BY DEF IInv, Ended, KilledIsOver
<1> QED  BY <1>1, Invariant, PTL

\* One decision launches one successor, and neither it nor a resume runs beside a
\* process of this run (continue_approval, _resume_autonomous_record).
THEOREM SuccessorsRunAlone == Spec => []SuccessorAlone
<1>1. IInv => SuccessorAlone
  BY DEF IInv
<1> QED  BY <1>1, Invariant, PTL
\* A commit keeps the acknowledgement and ends in the state it is for, or failed.
LEMMA CommitKeepsAck ==
  ASSUME NEW r \in [state : RunStates, cancel : BOOLEAN, ack : BOOLEAN, quarantined : BOOLEAN],
         NEW s, CommitOf(r, s)
  PROVE  rec'.ack = r.ack /\ rec'.state \in {s, "failed"}
<1>1. PICK t \in {s, "failed"} : rec' = [r EXCEPT !.state = t]
  BY CommitStates
<1> QED  BY <1>1

\* A cancellation accepted while the run is active and not acknowledged owns its
\* outcome (_reap_owned_process, _drain_event_channel).
THEOREM AcceptedCancellationsHold == Spec => AcceptedHolds
<1> DEFINE A == Accepted /\ Active(rec.state) /\ reap'.at # "none" =>
                  ~rec'.ack /\ rec'.state \in {"running", "killed", "failed"}
<1>1. ASSUME IInv, Next PROVE A
  <2> SUFFICES ASSUME rec.cancel, ~rec.ack, rec.state = "running", reap'.at # "none"
               PROVE  ~rec'.ack /\ rec'.state \in {"running", "killed", "failed"}
    BY DEF Accepted, Active
  <2>0. /\ rec \in [state : RunStates, cancel : BOOLEAN, ack : BOOLEAN, quarantined : BOOLEAN]
        /\ TypeInv /\ Continues
    BY <1>1 DEF IInv, TypeInv
  <2>1. CASE rec' = rec \/ rec' = [rec EXCEPT !.cancel = TRUE]
    BY <2>0, <2>1
  <2>2. CASE Child \/ GroupDies \/ ReapCrash \/ Vote \/ ContinueEnter \/ Resume
             \/ ContinueReaped \/ ContinueStart
    <3>1. rec' = rec
      BY <2>2 DEF Child, ChildAsks, ChildEnds, ChildExits, GroupDies, ReapCrash, Vote,
                  ContinueEnter, Resume, ContinueReaped, ContinueStart
    <3> QED  BY <2>1, <3>1
  <2>3. CASE Drain
    <3>1. rec' = rec \/ rec' = [rec EXCEPT !.cancel = TRUE]
      BY <2>3 DEF Drain, DrainAsk, DrainTerminal, DrainFinal, DrainAck, DrainStops,
                  EvidenceFails
    <3> QED  BY <2>1, <3>1
  <2>4. CASE ReapDecide
    <3>1. CommitOf(rec, Outcome)  BY <2>4 DEF ReapDecide, Commit
    <3>2. Outcome \in {"killed", "failed"}  BY <2>0, OutcomeStates DEF Active
    <3> QED  BY <2>0, <3>1, <3>2, CommitKeepsAck
  <2>5. CASE ReapForced
    <3>1. CommitOf(rec, "failed")  BY <2>5 DEF ReapForced, Commit, Active
    <3> QED  BY <2>0, <3>1, CommitKeepsAck
  <2>6. CASE ReapWake \/ ReapSettle \/ ReapSettleTimeout \/ ReapGrace \/ ReapReaped \/ ReapCollect
    <3>1. rec' = rec
      BY <2>6 DEF ReapWake, ReapSettle, ReapSettleTimeout, ReapGrace, ReapReaped, ReapCollect
    <3> QED  BY <2>1, <3>1
  <2>7. CASE \E c \in Callers : CallDelete(c) \/ CallRevoke(c) \/ Cancel(c)
    <3>1. ~\E c \in Callers : CancelParked(c)  BY DEF CancelParked
    <3>2. rec' = rec \/ rec' = [rec EXCEPT !.cancel = TRUE]
      BY <2>7, <3>1 DEF CallDelete, CallRevoke, Cancel, CancelActive, CancelSettled,
                        CancelReaped, CancelTimeout, Deny
    <3> QED  BY <2>1, <3>2
  <2>8. CASE EvidenceLost
    <3>1. rec' = rec \/ rec' = [rec EXCEPT !.cancel = TRUE]
      BY <2>8 DEF EvidenceLost, EvidenceFails
    <3> QED  BY <2>1, <3>1
  <2>9. CASE Quarantine
    <3> DEFINE q == [rec EXCEPT !.cancel = TRUE]
               r == [q EXCEPT !.quarantined = TRUE]
    <3>1. CommitOf(r, "failed")  BY <2>9 DEF Quarantine
    <3>2. /\ q \in [state : RunStates, cancel : BOOLEAN, ack : BOOLEAN, quarantined : BOOLEAN]
          /\ q.ack = rec.ack
      BY <2>0
    <3> HIDE DEF q
    <3>3. /\ r \in [state : RunStates, cancel : BOOLEAN, ack : BOOLEAN, quarantined : BOOLEAN]
          /\ r.ack = q.ack
      BY <3>2
    <3> HIDE DEF r
    <3> QED  BY <3>1, <3>2, <3>3, CommitKeepsAck
  <2>10. CASE Shutdown
    <3> DEFINE b == rec.cancel \/ Active(rec.state)
               r == [rec EXCEPT !.cancel = b]
    <3>1. rec' = rec \/ rec' = r \/ rec' = [r EXCEPT !.state = "failed"]
      BY <2>10 DEF Shutdown
    <3>2. b \in BOOLEAN  BY DEF Active
    <3> HIDE DEF b
    <3>3. /\ r \in [state : RunStates, cancel : BOOLEAN, ack : BOOLEAN, quarantined : BOOLEAN]
          /\ r.state = rec.state /\ r.ack = rec.ack
      BY <2>0, <3>2
    <3> HIDE DEF r
    <3>4. "failed" \in RunStates  BY DEF RunStates
    <3> QED  BY <2>0, <3>1, <3>3, <3>4
  <2>11. CASE ContinueCommit
    BY <2>0, <2>11 DEF ContinueCommit, Continues, Active
  <2>12. CASE Restart
    BY <2>12 DEF Restart, Reaper
  <2> QED  BY <1>1, <2>2, <2>3, <2>4, <2>5, <2>6, <2>7, <2>8, <2>9, <2>10, <2>11, <2>12
           DEF Next, Reap, Continue
<1>2. IInv /\ [Next]_vars => [A]_vars
  BY <1>1
<1> QED  BY <1>2, Invariant, PTL DEF Spec, AcceptedHolds
=============================================================================
