------------------------ MODULE BackgroundTaskProofs ------------------------
(***************************************************************************)
(* The life of one background task, proved for every number of failures and *)
(* messages and every set of outcomes its worker can stage.  IInv is the   *)
(* inductive invariant.  The steps are grouped by what they leave alone:   *)
(* each lemma ...Keeps covers the actions that change the task the same    *)
(* way, and NextKeeps collects them.                                       *)
(***************************************************************************)
EXTENDS BackgroundTask, TLAPS

Events == Finals \cup {"registered", "published", "terminated", "message"}
States == {"none", "pending", "running"} \cup Finals
FinPlaces == {"none", "lock", "wait", "done", "raised"}
AppPlaces == {"none", "flying", "ok", "late", "err", "check", "done"}
Early == {"none", "append", "bracket"}

\* The registration, the worker, the shutdown and the STOP are each at one place.
Controls ==
  /\ reg \in Early \cup {"finalizing", "compensating", "lost", "done"}
  /\ worker \in {"none", "created", "run", "wait", "drain", "done"}
  /\ intent \in {"none", "cancelled", "killed"}
  /\ pend \in Finals \cup {"none"}
  /\ shut \in {"no", "init", "grace", "drain", "fin", "done"}
  /\ mode \in {"cancelled", "killed"}

\* A finalizer that started, and an append it issued, have a completion to write.
Finalizing ==
  /\ fin \in [Starters -> [pc : FinPlaces, as : Finals \cup {"none"}, try : 0..2,
                           cancelled : BOOLEAN]]
  /\ app \in [Starters -> [pc : AppPlaces, as : Finals \cup {"none"}]]
  /\ \A w \in Starters : fin[w].pc # "none" => fin[w].as \in Finals
  /\ \A w \in Starters : app[w].pc # "none" => app[w].as \in Finals

Typed ==
  /\ state \in States
  /\ journal \in Seq(Events)
  /\ persist \in {"not_started", "in_flight", "uncertain", "committed"}
  /\ detached \in BOOLEAN
  /\ recon \in BOOLEAN
  /\ faults \in Nat
  /\ Controls
  /\ Finalizing

\* A completion is in the journal; an append or a lookup has failed; a replay of the
\* journal gives the task a completion; a finalizer waits for its append.
Durable == Completions # {}
Failed == faults # 0
Fine == Confirmed \notin {"none", "raises"}
Waiting == \E w \in Starters : fin[w].pc = "wait"
\* The task is over, or somebody still has to end it: a finalizer that waits, or,
\* after a failure, a completion that is durable and not shown.
Safe == state \in Finals \/ (Failed /\ persist = "committed") \/ Waiting

\* Before the registration is durable nothing else of the task exists.
Begun == reg \in Early =>
  /\ state = IF reg = "none" THEN "none" ELSE "pending"
  /\ worker = "none"
  /\ ~recon
  /\ shut \in {"no", "init", "done"}
  /\ \A w \in Starters : fin[w].pc = "none" /\ app[w].pc = "none"
  /\ ~Stored("terminated")

\* What is shown, and what a finalizer believes, is in the journal.
Recorded ==
  /\ state \in Settled \cup Parks => Durable
  /\ persist = "committed" => Durable
  /\ \A w \in Starters : app[w].pc \in {"ok", "late"} => Stored(app[w].as)

\* A STOP that is durable has ended the task, and no successor started.
Stopped == Stored("terminated") => state = "killed" /\ succ # "started"

\* Whoever is done with the task left it over, or to one who is not.
Owned ==
  /\ \A w \in Starters : fin[w].pc = "done" => state \in Finals
  /\ \A w \in Starters : fin[w].pc = "raised" \/ fin[w].cancelled \/ app[w].pc # "none" =>
       Safe
  /\ persist # "not_started" => Safe
  /\ shut = "done" /\ state = "running" => Safe
  /\ reg = "done" /\ state = "pending" => Safe

\* The places of the registration, the worker and the shutdown agree with the
\* finalizers each of them starts.
Placed ==
  /\ reg = "finalizing" => fin["registration"].pc # "none"
  /\ reg = "compensating" => fin["compensation"].pc # "none"
  /\ reg = "finalizing" => fin["compensation"].pc = "none"
  /\ shut = "fin" => fin["shutdown"].pc # "none"
  /\ shut \in {"no", "init", "grace", "drain"} => fin["shutdown"].pc = "none"
  /\ shut # "no" /\ reg \in {"append", "bracket"} => intent # "none"
  /\ worker # "none" \/ state = "running" => reg = "done" /\ state \notin {"none", "pending"}
  /\ state = "none" => reg = "none" \/ Failed
  /\ reg = "lost" => Failed
  /\ fin["worker"].pc # "none" => worker # "none" /\ (pend # "none" \/ state \in Settled)
  /\ worker \in {"wait", "drain"} => fin["worker"].pc # "none"
  /\ worker \in {"none", "created", "run"} => fin["worker"].pc = "none"

\* The finalizer that waits for its append holds the lock, and its append is of the
\* completion it will show; an append that raised counts as a failure.
Held ==
  /\ \A w \in Starters : fin[w].pc = "wait" =>
       lock = w /\ app[w].pc \in {"flying", "ok", "late", "err", "check"}
  /\ \A w \in Starters : fin[w].pc = "wait" /\ fin[w].try = 1 => app[w].as = fin[w].as
  /\ \A w \in Starters : app[w].pc \in {"err", "check"} => Failed

\* An interruption that hides a durable completion has a projection on its way: an
\* append in flight, a finalizer that waits, a scheduled reconciliation or a late commit.
Reconcilable == state = "interrupted" /\ Fine =>
  \/ \E w \in Starters : app[w].pc = "flying"
  \/ Waiting
  \/ detached /\ recon
  \/ detached /\ persist = "committed" /\ \E w \in Starters : app[w].pc = "late"

\* An append whose finalizer gave up was detached, or a completion is durable.
Covered == \A w \in Starters :
  app[w].pc = "flying" /\ fin[w].pc # "wait" => detached \/ Durable

Projected == ~Failed => Reconcilable /\ Covered

IInv == /\ Typed /\ Begun /\ Recorded /\ Stopped
        /\ Owned /\ Placed /\ Held /\ Projected

\* The failures only grow in number.
Counted == faults' \in Nat /\ (Failed => Failed')

LEMMA FaultsCount ==
  ASSUME Typed
  PROVE  /\ UNCHANGED faults => Counted /\ (Failed' <=> Failed)
         /\ Fault => Counted /\ Failed'
BY DEF Typed, Failed, Counted, Fault

-----------------------------------------------------------------------------
(* The journal *)

\* What the journal still says after the event e, and what it did not say before.
Grows(e) ==
  /\ journal' \in Seq(Events)
  /\ Durable' <=> Durable \/ e \in Finals
  /\ \A x : Stored(x)' <=> Stored(x) \/ x = e
  /\ Fine' /\ ~Fine => (~Durable /\ e \in Finals) \/ e = "terminated"
  /\ Durable /\ e \in Finals => ~Fine'

LEMMA SequenceAppend ==
  ASSUME NEW S, NEW q \in Seq(S), NEW e \in S
  PROVE  /\ Append(q, e) \in Seq(S)
         /\ DOMAIN Append(q, e) = DOMAIN q \cup {Len(q) + 1}
         /\ Len(q) + 1 \notin DOMAIN q
         /\ \A i \in DOMAIN q : Append(q, e)[i] = q[i]
         /\ Append(q, e)[Len(q) + 1] = e
OBVIOUS

\* A completion that load_from_events confirms is stored, and no interruption.
LEMMA ConfirmedIsStored ==
  ASSUME journal \in Seq(Events), Fine
  PROVE  /\ Durable
         /\ Confirmed \in Settled \cup Parks
         /\ Stored("interrupted") => Stored("terminated")
<1>0. Replayable /\ Completions # {}
  BY DEF Fine, Confirmed, Rebuilt
<1>1. /\ Completions # {}
      /\ \A i, j \in Completions : i = j
  BY <1>0 DEF Replayable
<1>2. Durable
  BY <1>1 DEF Durable
<1>3. CASE Stored("terminated")
  <2>1. Rebuilt = "killed"
    BY <1>0, <1>3 DEF Rebuilt
  <2> QED  BY <1>2, <1>3, <2>1 DEF Confirmed, Settled
<1>4. CASE ~Stored("terminated")
  <2>1. PICK c \in Completions : c = CHOOSE i \in Completions : TRUE
    BY <1>1
  <2>2. Rebuilt = journal[c]
    BY <1>0, <1>4, <2>1 DEF Rebuilt
  <2>3. journal[c] \in Finals /\ journal[c] # "interrupted"
    BY <2>1, <2>2 DEF Fine, Confirmed, Completions
  <2>4. ~Stored("interrupted")
    <3>1. SUFFICES ASSUME NEW i \in DOMAIN journal, journal[i] = "interrupted" PROVE FALSE
      BY DEF Stored
    <3>2. i \in Completions
      BY <3>1 DEF Completions, Finals, Terminal
    <3> QED  BY <1>1, <2>1, <2>3, <3>1, <3>2
  <2> QED  BY <1>2, <2>2, <2>3, <2>4 DEF Confirmed, Finals, Terminal
<1> QED  BY <1>3, <1>4

\* Every event of the task is kept, and only a first completion or the termination
\* of a park can newly be confirmed.
LEMMA JournalGrows ==
  ASSUME journal \in Seq(Events), NEW e \in Events, Log(e)
  PROVE  Grows(e)
<1> DEFINE n == Len(journal) + 1
<1>1. /\ journal' \in Seq(Events)
      /\ DOMAIN journal' = DOMAIN journal \cup {n}
      /\ n \notin DOMAIN journal
      /\ \A i \in DOMAIN journal : journal'[i] = journal[i]
      /\ journal'[n] = e
  BY SequenceAppend DEF Log
<1> HIDE DEF n
<1>2. Completions' = Completions \cup {i \in {n} : e \in Finals}
  BY <1>1 DEF Completions
<1>3. Durable' <=> Durable \/ e \in Finals
  BY <1>2 DEF Durable
<1>4. \A x : Stored(x)' <=> Stored(x) \/ x = e
  BY <1>1 DEF Stored
<1>5. ASSUME Fine', ~Fine, e # "terminated", Durable \/ e \notin Finals  PROVE FALSE
  <2>0. Replayable' /\ Completions' # {}
    BY <1>5 DEF Fine, Confirmed, Rebuilt
  <2>1. /\ Completions' # {}
        /\ \A i, j \in Completions' : i = j
        /\ \A i \in Completions', j \in DOMAIN journal' : journal'[j] = "message" => j < i
    BY <2>0 DEF Replayable
  <2>2. Completions' = Completions /\ Completions # {}
    BY <1>1, <1>2, <1>5, <2>1 DEF Durable, Completions
  <2>3. Replayable
    BY <1>1, <2>1, <2>2 DEF Replayable, Completions
  <2>4. Replayable' /\ Completions' # {} /\ (Stored("terminated")' <=> Stored("terminated"))
    BY <1>4, <1>5, <2>1 DEF Replayable
  <2>5. PICK c \in Completions : c = CHOOSE i \in Completions : TRUE
    BY <2>2
  <2>6. journal'[c] = journal[c]
    BY <1>1, <2>5 DEF Completions
  <2>7. Rebuilt' = Rebuilt
    BY <2>2, <2>3, <2>4, <2>5, <2>6 DEF Rebuilt
  <2> QED  BY <1>5, <2>7 DEF Fine, Confirmed
<1>6. ASSUME Durable, e \in Finals  PROVE ~Fine'
  <2>1. PICK i \in Completions : i # n
    BY <1>1, <1>6 DEF Durable, Completions
  <2>2. i \in Completions' /\ n \in Completions'
    BY <1>2, <1>6, <2>1
  <2>3. ~Replayable'
    BY <2>1, <2>2 DEF Replayable
  <2> QED  BY <2>3 DEF Fine, Confirmed, Rebuilt
<1> QED  BY <1>1, <1>3, <1>4, <1>5, <1>6 DEF Grows

LEMMA JournalKept ==
  ASSUME UNCHANGED journal
  PROVE  /\ Durable' <=> Durable
         /\ \A x : Stored(x)' <=> Stored(x)
         /\ Fine' <=> Fine
         /\ Confirmed' = Confirmed
  BY DEF Durable, Stored, Fine, Confirmed, Rebuilt, Replayable, Completions

-----------------------------------------------------------------------------
(* The steps, by what they do to the entry and its finalizers *)

\* A completion of the task is durable and the entry is told, or its publication raises.
Settling(as) ==
  /\ journal' \in Seq(Events)
  /\ Durable'
  /\ \A x : Stored(x) => Stored(x)'
  /\ Stored("terminated")' => Stored("terminated")
  /\ Fine' => Fine
  /\ persist' = "committed" /\ pend' = as
  /\ faults' \in Nat /\ (Failed => Failed')
  /\ \/ state' = Shown(as) /\ detached' = FALSE
     \/ state' = state /\ detached' = detached /\ Failed'

Interrupting ==
  /\ Uncertain /\ InterruptUncertain
  /\ UNCHANGED <<pend, journal>>

LEMMA SettleOrRaise ==
  ASSUME Typed, Durable, NEW as \in Finals, Settle(as) \/ SettleRaises(as)
  PROVE  Settling(as)
<1>1. /\ persist' = "committed" /\ pend' = as
      /\ faults' \in Nat /\ (Failed => Failed')
      /\ \/ state' = Shown(as) /\ detached' = FALSE
         \/ state' = state /\ detached' = detached /\ Failed'
  <2>1. CASE Settle(as)
    <3>1. faults' \in Nat /\ (Failed => Failed')
      BY <2>1, FaultsCount DEF Counted, Settle
    <3> QED  BY Zenon, <2>1, <3>1 DEF Settle
  <2>2. CASE SettleRaises(as)
    <3>1. faults' \in Nat /\ (Failed => Failed') /\ Failed'
      BY <2>2, FaultsCount DEF Counted, SettleRaises
    <3> QED  BY Zenon, <2>2, <3>1 DEF SettleRaises
  <2> QED  BY Zenon, <2>1, <2>2
<1>2. UNCHANGED journal \/ Log("published")
  BY Zenon DEF Settle, SettleRaises
<1>3. CASE UNCHANGED journal
  BY Zenon, <1>1, <1>3, JournalKept DEF Settling, Typed
<1>4. CASE Log("published")
  <2>1. "published" \in Events /\ "published" \notin Finals
    BY DEF Events, Finals, Terminal, Settled, Parks
  <2>2. Grows("published")
    BY <1>4, <2>1, JournalGrows DEF Typed
  <2> QED  BY Zenon, <1>1, <2>1, <2>2 DEF Settling, Grows
<1> QED  BY Zenon, <1>2, <1>3, <1>4

\* A finalizer's wait is over: it settles what is durable, or interrupts the entry.
FinEnded(w) ==
  /\ fin[w].pc = "wait"
  /\ \E pc \in {"done", "raised"} :
       /\ fin' = [fin EXCEPT ![w].pc = pc]
       /\ pc = "done" => state' \in Finals
  /\ lock' = "free"
  /\ UNCHANGED <<others, app>>
  /\ \/ \E as \in Finals :
          /\ Settling(as)
          /\ as = "interrupted" => \/ Stored("interrupted")
                                   \/ app[w].pc = "flying"
                                   \/ Failed
          /\ UNCHANGED recon
     \/ Interrupting /\ Counted /\ (fin'[w].pc = "raised")

\* The failure is appended in place of what could not be stored.
FinRetries(w) ==
  /\ fin[w].pc = "wait"
  /\ Persist(w, "failed", 2)
  /\ UNCHANGED <<others, state, detached, journal, lock, recon, faults>>

LEMMA FinSettlesEnds ==
  ASSUME IInv, NEW w \in Starters, NEW as \in Finals, NEW pc \in {"done", "raised"},
         fin[w].pc = "wait", Durable, FinSettles(w, as, pc), UNCHANGED others,
         as = "interrupted" => \/ Stored("interrupted")
                               \/ app[w].pc = "flying"
                               \/ Failed
  PROVE  FinEnded(w)
<1>1. Settling(as)
  BY Zenon, SettleOrRaise DEF FinSettles, IInv
<1>2. /\ UNCHANGED <<others, app, recon>>
      /\ lock' = "free"
  BY Zenon DEF FinSettles, FinEnds, Fin
<1>3. \E p \in {"done", "raised"} :
        /\ fin' = [fin EXCEPT ![w].pc = p]
        /\ p = "done" => state' \in Finals
  <2>1. CASE Settle(as) /\ FinEnds(w, pc)
    <3>1. state' \in Finals
      BY Zenon, <2>1 DEF Settle, Shown, Finals, Terminal
    <3> QED  BY Zenon, <2>1, <3>1 DEF FinEnds, Fin
  <2>2. CASE SettleRaises(as) /\ FinEnds(w, "raised")
    BY <2>2 DEF FinEnds, Fin
  <2> QED  BY Zenon, <2>1, <2>2 DEF FinSettles
<1> QED  BY Zenon, <1>1, <1>2, <1>3 DEF FinEnded

LEMMA FinInterruptsEnds ==
  ASSUME IInv, NEW w \in Starters, fin[w].pc = "wait", FinInterrupts(w), Counted,
         UNCHANGED others
  PROVE  FinEnded(w)
<1>1. /\ Interrupting
      /\ fin' = [fin EXCEPT ![w].pc = "raised"]
      /\ lock' = "free" /\ UNCHANGED <<others, app>>
  BY DEF FinInterrupts, FinEnds, Fin, Interrupting
<1>2. fin'[w].pc = "raised"
  BY <1>1 DEF IInv, Typed, Finalizing
<1> QED  BY <1>1, <1>2 DEF FinEnded

LEMMA FinRecoversEnds ==
  ASSUME IInv, NEW w \in Starters, fin[w].pc = "wait", FinRecovers(w), UNCHANGED others
  PROVE  FinEnded(w) \/ FinRetries(w)
<1>1. CASE Confirmed \notin {"none", "raises"} /\ FinSettles(w, Confirmed, "done")
  <2>1. Durable /\ Confirmed \in Settled \cup Parks
    BY <1>1, ConfirmedIsStored DEF IInv, Typed, Fine
  <2>2. Confirmed \in Finals /\ Confirmed # "interrupted"
    BY <2>1 DEF Finals, Terminal, Settled, Parks
  <2> QED  BY <1>1, <2>1, <2>2, FinSettlesEnds
<1>2. CASE /\ Confirmed = "none" /\ fin[w].try = 1
           /\ Persist(w, "failed", 2)
           /\ UNCHANGED <<state, detached, journal, lock, recon, faults>>
  BY <1>2 DEF FinRetries
<1>3. CASE FinInterrupts(w) /\ UNCHANGED faults
  BY <1>3, FinInterruptsEnds, FaultsCount DEF IInv
<1>4. CASE Fault /\ FinInterrupts(w)
  BY <1>4, FinInterruptsEnds, FaultsCount DEF IInv
<1> QED  BY <1>1, <1>2, <1>3, <1>4 DEF FinRecovers

LEMMA FinalizerEnds ==
  ASSUME IInv, NEW w \in Starters, FinAppended(w) \/ FinRaised(w) \/ FinGivesUp(w)
  PROVE  FinEnded(w) \/ FinRetries(w)
<1>1. CASE FinAppended(w)
  <2>1. /\ fin[w].pc = "wait" /\ app[w].pc = "ok" /\ UNCHANGED others
        /\ FinSettles(w, app[w].as, "done")
    BY <1>1 DEF FinAppended
  <2>2. app[w].as \in Finals /\ Stored(app[w].as)
    BY <2>1 DEF IInv, Typed, Finalizing, Recorded
  <2>3. Durable
    BY <2>2 DEF Stored, Durable, Completions
  <2> QED  BY <2>1, <2>2, <2>3, FinSettlesEnds
<1>2. CASE FinRaised(w)
  BY <1>2, FinRecoversEnds DEF FinRaised
<1>3. CASE FinGivesUp(w)
  <2>0. fin[w].pc = "wait" /\ UNCHANGED others
    BY <1>3 DEF FinGivesUp
  <2>1. CASE FinRecovers(w)
    BY <2>0, <2>1, FinRecoversEnds
  <2>2. CASE fin[w].try = 1 /\ persist = "committed" /\ FinSettles(w, fin[w].as, "raised")
    <3>1. Durable /\ fin[w].as \in Finals
      BY <2>0, <2>2 DEF IInv, Typed, Finalizing, Recorded
    <3>2. /\ app[w].as = fin[w].as /\ app[w].pc \in {"flying", "ok", "late", "err", "check"}
          /\ app[w].pc \in {"err", "check"} => Failed
          /\ app[w].pc \in {"ok", "late"} => Stored(app[w].as)
      BY <2>0, <2>2 DEF IInv, Held, Recorded
    <3>3. fin[w].as = "interrupted" => \/ Stored("interrupted")
                                       \/ app[w].pc = "flying"
                                       \/ Failed
      BY <3>2
    <3> QED  BY <2>0, <2>2, <3>1, <3>3, FinSettlesEnds
  <2>3. CASE FinInterrupts(w) /\ UNCHANGED faults
    BY <2>0, <2>3, FinInterruptsEnds, FaultsCount DEF IInv
  <2> QED  BY <1>3, <2>1, <2>2, <2>3 DEF FinGivesUp
<1> QED  BY <1>1, <1>2, <1>3

\* A late append, or the reconciliation of a detached entry, under the lock.
Projecting ==
  /\ lock = "free"
  /\ UNCHANGED <<others, lock, fin>>
  /\ \/ \E as \in Finals : Settling(as) /\ (as = "interrupted" => Stored("interrupted"))
     \/ UNCHANGED <<entry, journal>> /\ Counted

LEMMA ReconcilesProjects ==
  ASSUME IInv, Reconciles
  PROVE  /\ Projecting
         /\ ~Failed' /\ detached /\ Fine => state' \in Settled \cup Parks
         /\ ~detached => UNCHANGED <<entry, journal>>
<1>1. CASE detached /\ Confirmed \notin {"none", "raises"}
           /\ (Settle(Confirmed) \/ SettleRaises(Confirmed))
  <2>1. Durable /\ Confirmed \in Settled \cup Parks
    BY <1>1, ConfirmedIsStored DEF IInv, Typed, Fine
  <2>2. Confirmed \in Finals /\ Confirmed # "interrupted"
    BY <2>1 DEF Finals, Terminal, Settled, Parks
  <2>3. Settling(Confirmed)
    BY <1>1, <2>1, <2>2, SettleOrRaise DEF IInv
  <2>4. lock = "free" /\ UNCHANGED <<others, lock, fin>>
    BY DEF Reconciles
  <2>5. Projecting
    BY <2>2, <2>3, <2>4 DEF Projecting
  <2>6. ~Failed' => state' \in Settled \cup Parks
    BY <2>1, <2>3 DEF Settling, Shown
  <2> QED  BY <1>1, <2>5, <2>6
<1>2. CASE /\ ~detached \/ Confirmed \in {"none", "raises"}
           /\ UNCHANGED <<entry, journal, faults>>
  BY <1>2, FaultsCount DEF Reconciles, Projecting, Fine, IInv, Typed
<1>3. CASE detached /\ Fault /\ UNCHANGED <<entry, journal>>
  <2>1. Counted /\ Failed'
    BY <1>3, FaultsCount DEF IInv
  <2> QED  BY <1>3, <2>1 DEF Reconciles, Projecting
<1> QED  BY <1>1, <1>2, <1>3 DEF Reconciles

LEMMA LateCommitProjects ==
  ASSUME IInv, NEW w \in Starters, LateCommit(w)
  PROVE  /\ Projecting
         /\ ~(detached /\ persist = "committed") => UNCHANGED <<entry, journal>>
         /\ detached /\ persist = "committed" => Settling(app[w].as)
<1>1. app[w].as \in Finals /\ Stored(app[w].as)
  BY DEF LateCommit, IInv, Typed, Finalizing, Recorded
<1>2. Durable
  BY <1>1 DEF Stored, Durable, Completions
<1>3. CASE detached /\ persist = "committed"
  <2>1. Settle(app[w].as) \/ SettleRaises(app[w].as)
    BY <1>3 DEF LateCommit
  <2>2. Settling(app[w].as)
    BY <1>1, <1>2, <2>1, SettleOrRaise DEF IInv
  <2> QED  BY <1>1, <1>3, <2>2 DEF LateCommit, Projecting
<1>4. CASE ~(detached /\ persist = "committed")
  BY <1>4, FaultsCount DEF LateCommit, Projecting, IInv, Typed
<1> QED  BY <1>3, <1>4

-----------------------------------------------------------------------------
(* The steps that leave the entry to its finalizers *)

\* What the task showed stays, and at most one finalizer is started.
Still ==
  /\ UNCHANGED <<state, persist, detached, journal, recon, lock, app>>
  /\ Counted
  /\ \/ UNCHANGED fin
     \/ \E w \in Starters, as \in Finals : fin[w].pc = "none" /\ StartFinalizer(w, as)

LEMMA StillKeeps ==
  ASSUME IInv, Still, Controls', Begun', Stopped', Placed',
         shut' = "done" /\ state = "running" => Safe,
         reg' = "done" /\ state = "pending" => Safe
  PROVE  IInv'
<1>1. /\ UNCHANGED <<state, persist, detached, journal, recon, lock, app>>
      /\ faults \in Nat /\ faults' \in Nat /\ (Failed => Failed')
  BY DEF Still, Counted, IInv, Typed
<1>2. /\ Durable' <=> Durable
      /\ \A x : Stored(x)' <=> Stored(x)
      /\ Fine' <=> Fine
  BY <1>1, JournalKept
<1>3. /\ fin' \in [Starters -> [pc : FinPlaces, as : Finals \cup {"none"}, try : 0..2,
                                cancelled : BOOLEAN]]
      /\ \A x \in Starters :
           \/ fin'[x] = fin[x]
           \/ /\ fin[x].pc = "none" /\ fin'[x].pc = "lock" /\ ~fin'[x].cancelled
              /\ fin'[x].as \in Finals
  <2>1. CASE UNCHANGED fin
    BY <2>1 DEF IInv, Typed, Finalizing
  <2>2. CASE \E w \in Starters, as \in Finals : fin[w].pc = "none" /\ StartFinalizer(w, as)
    <3>1. PICK w \in Starters, as \in Finals : fin[w].pc = "none" /\ StartFinalizer(w, as)
      BY Zenon, <2>2
    <3>2. [pc |-> "lock", as |-> as, try |-> 0, cancelled |-> FALSE]
             \in [pc : FinPlaces, as : Finals \cup {"none"}, try : 0..2, cancelled : BOOLEAN]
      <4>1. 0 \in 0..2
        OBVIOUS
      <4> QED  BY <4>1, Zenon DEF FinPlaces
    <3> QED  BY Zenon, <3>1, <3>2 DEF StartFinalizer, IInv, Typed, Finalizing
  <2> QED  BY <2>1, <2>2 DEF Still
<1>4. Finalizing'
  <2>1. \A x \in Starters : fin'[x].pc # "none" => fin'[x].as \in Finals
    BY <1>3 DEF IInv, Typed, Finalizing
  <2> QED  BY <1>1, <1>3, <2>1 DEF IInv, Typed, Finalizing
<1>5. Typed'
  BY <1>1, <1>4 DEF IInv, Typed
<1>6. Waiting' <=> Waiting
  BY <1>3 DEF Waiting
<1>7. Safe => Safe'
  BY <1>1, <1>6 DEF Safe
<1>8. Recorded'
  BY <1>1, <1>2 DEF IInv, Recorded
<1>9. Owned'
  <2>1. \A w \in Starters : fin'[w].pc = "done" => state' \in Finals
    BY <1>1, <1>3 DEF IInv, Owned
  <2>2. \A w \in Starters :
          fin'[w].pc = "raised" \/ fin'[w].cancelled \/ app'[w].pc # "none" => Safe'
    BY <1>1, <1>3, <1>7 DEF IInv, Owned
  <2> QED  BY <1>1, <1>7, <2>1, <2>2 DEF IInv, Owned
<1>10. Held'
  BY <1>1, <1>3 DEF IInv, Held
<1>11. Projected'
  BY <1>1, <1>2, <1>3, <1>6 DEF IInv, Projected, Reconcilable, Covered
<1> QED  BY <1>5, <1>8, <1>9, <1>10, <1>11 DEF IInv

\* A kill, an interrupt, and the worker's own steps up to its end.
Steering == Kill \/ Interrupt \/ Begin \/ NeverRan \/ WaitCancelled \/ WorkerDone

LEMMA SteeringKeeps ==
  ASSUME IInv, Steering
  PROVE  IInv'
<1> USE DEF Steering, Kill, Interrupt, Begin, NeverRan, WaitCancelled, WorkerDone, Killed, entry
<1>1. Still /\ UNCHANGED <<fin, faults>>
  BY FaultsCount DEF Still, IInv
<1>2. Controls'
  BY DEF IInv, Typed, Controls
<1>3. \A x : Stored(x)' <=> Stored(x)
  BY <1>1, JournalKept DEF Still
<1>4. Begun'
  BY <1>1, <1>3 DEF Still, IInv, Begun, Early
<1>5. Stopped'
  BY <1>1, <1>3 DEF Still, IInv, Stopped
<1>6. Placed'
  BY Zenon, <1>1 DEF Still, Counted, IInv, Placed, Begun, Early
<1>7. /\ shut' = "done" /\ state = "running" => Safe
      /\ reg' = "done" /\ state = "pending" => Safe
  BY Zenon DEF IInv, Owned
<1> QED  BY <1>1, <1>2, <1>4, <1>5, <1>6, <1>7, StillKeeps

\* The shutdown, up to the end of the grace.
Draining == ShutdownBegins \/ ShutdownLists \/ GraceOver

LEMMA DrainingKeeps ==
  ASSUME IInv, Draining
  PROVE  IInv'
<1> USE DEF Draining, ShutdownBegins, ShutdownLists, GraceOver, Shut, Killed, entry
<1>1. Still /\ UNCHANGED <<fin, faults>>
  BY FaultsCount DEF Still, IInv
<1>2. Controls'
  BY DEF IInv, Typed, Controls
<1>3. \A x : Stored(x)' <=> Stored(x)
  BY <1>1, JournalKept DEF Still
<1>4. Begun'
  BY <1>1, <1>3 DEF Still, IInv, Begun, Early
<1>5. Stopped'
  BY <1>1, <1>3 DEF Still, IInv, Stopped
<1>6. Placed'
  BY Zenon, <1>1 DEF Still, Counted, IInv, Placed, Begun, Early, Terminal, Settled, Typed, Controls
<1>7. /\ shut' = "done" /\ state = "running" => Safe
      /\ reg' = "done" /\ state = "pending" => Safe
  BY Zenon DEF IInv, Owned
<1> QED  BY <1>1, <1>2, <1>4, <1>5, <1>6, <1>7, StillKeeps

\* A resume of the parked or interrupted task.
Resuming == ResumeApproved \/ ResumeClaims \/ ResumeStarts

LEMMA ResumingKeeps ==
  ASSUME IInv, Resuming
  PROVE  IInv'
<1> USE DEF Resuming, ResumeApproved, ResumeClaims, ResumeStarts, Resumable, outside
<1>1. Still /\ UNCHANGED <<fin, faults>>
  BY FaultsCount DEF Still, IInv
<1>2. Controls'
  BY DEF IInv, Typed, Controls
<1>3. \A x : Stored(x)' <=> Stored(x)
  BY <1>1, JournalKept DEF Still
<1>4. Begun'
  BY <1>1, <1>3 DEF Still, IInv, Begun, Early
<1>5. Stopped'
  BY <1>1, <1>3 DEF Still, IInv, Stopped
<1>6. Placed'
  BY <1>1 DEF Still, Counted, IInv, Placed, Begun, Early
<1>7. /\ shut' = "done" /\ state = "running" => Safe
      /\ reg' = "done" /\ state = "pending" => Safe
  BY Zenon DEF IInv, Owned
<1> QED  BY <1>1, <1>2, <1>4, <1>5, <1>6, <1>7, StillKeeps

\* The registration ends or is compensated, a handler is over, or the shutdown
\* finds nothing staged: at most a finalizer is started.
Handing ==
  \/ reg = "bracket" /\ intent # "none" /\ Start
  \/ StartFails \/ Registered
  \/ (\E as \in Outcomes : HandlerReturns(as)) \/ HandlerCancelled
  \/ (state # "running" \/ pend = "none") /\ ShutdownReconciles

LEMMA StagedIsFinal ==
  ASSUME NEW as, worker = "run", IInv, Stage(as), as \in Finals
  PROVE  Still /\ Controls' /\ Placed'
<1>1. fin["worker"].pc = "none" /\ "worker" \in Starters
  BY DEF IInv, Placed, Starters
<1>2. Still
  <2>1. Counted
    BY FaultsCount DEF Stage, IInv
  <2>2. \E w \in Starters, x \in Finals : fin[w].pc = "none" /\ StartFinalizer(w, x)
    BY Zenon, <1>1 DEF Stage
  <2> QED  BY <2>1, <2>2 DEF Still, Stage
<1>3. Controls'
  BY Zenon DEF Stage, IInv, Typed, Controls
<1>4. /\ fin'["worker"].pc # "none" /\ worker' = "wait"
      /\ \A x \in Starters \ {"worker"} : fin'[x] = fin[x]
      /\ pend' # "none" \/ state \in Settled
      /\ UNCHANGED <<state, reg, intent, shut, faults>>
  <2>1. pend' # "none" \/ state \in Settled
    BY Zenon DEF Stage, Finals, Terminal, Settled, Parks
  <2> QED  BY Zenon, <1>1, <2>1 DEF Stage, StartFinalizer, IInv, Typed, Finalizing
<1>5. Placed'
  BY <1>4 DEF IInv, Placed, Starters
<1> QED  BY <1>2, <1>3, <1>5

LEMMA HandingKeeps ==
  ASSUME IInv, Handing
  PROVE  IInv'
<1>0. /\ Starters = {"registration", "compensation", "worker", "shutdown"}
      /\ {"failed", "killed", "interrupted"} \subseteq Finals
  BY DEF Starters, Finals, Terminal, Settled
<1>1. /\ Still /\ Controls' /\ Placed'
      /\ UNCHANGED succ
      /\ reg' \notin Early
      /\ shut' = "done" /\ state = "running" => Safe
      /\ reg' = "done" /\ state = "pending" => Safe
  <2>1. CASE reg = "bracket" /\ intent # "none" /\ Start
    <3>1. StartFinalizer("registration", TerminationState(intent)) /\ reg' = "finalizing"
      BY <2>1 DEF Start
    <3>2. /\ \A x \in Starters : fin[x].pc = "none"
          /\ worker = "none" /\ state = "pending" /\ shut \in {"no", "init", "done"}
      BY <2>1 DEF IInv, Begun, Early
    <3>3. /\ fin'["registration"].pc = "lock"
          /\ \A x \in Starters \ {"registration"} : fin'[x] = fin[x]
      BY <1>0, <3>1 DEF StartFinalizer, IInv, Typed, Finalizing
    <3>4. TerminationState(intent) \in Finals
      BY <1>0 DEF TerminationState
    <3>5. Still
      BY <1>0, <2>1, <3>1, <3>2, <3>4, FaultsCount DEF Still, Start, IInv
    <3>6. Controls'
      BY <2>1 DEF Start, IInv, Typed, Controls
    <3>7. Placed'
      BY Zenon, <1>0, <2>1, <3>1, <3>2, <3>3 DEF Start, IInv, Placed
    <3> QED  BY Zenon, <2>1, <3>1, <3>2, <3>5, <3>6, <3>7 DEF Start, Early
  <2>2. CASE StartFails
    <3>1. StartFinalizer("compensation", "failed") /\ reg' = "compensating"
      BY <2>2 DEF StartFails
    <3>2. /\ \A x \in Starters : fin[x].pc = "none"
          /\ worker = "none" /\ state = "pending" /\ shut \in {"no", "init", "done"}
      BY <2>2 DEF StartFails, IInv, Begun, Early
    <3>3. /\ fin'["compensation"].pc = "lock"
          /\ \A x \in Starters \ {"compensation"} : fin'[x] = fin[x]
      BY <1>0, <3>1 DEF StartFinalizer, IInv, Typed, Finalizing
    <3>4. Counted
      BY <2>2, FaultsCount DEF StartFails, IInv
    <3>5. Still
      BY Zenon, <1>0, <2>2, <3>1, <3>2, <3>4 DEF Still, StartFails, entry
    <3>6. Controls'
      BY <2>2 DEF StartFails, entry, IInv, Typed, Controls
    <3>7. Placed'
      BY Zenon, <1>0, <2>2, <3>1, <3>2, <3>3 DEF StartFails, entry, IInv, Placed
    <3> QED  BY <2>2, <3>1, <3>2, <3>5, <3>6, <3>7 DEF StartFails, Early
  <2>3. CASE Registered
    <3>1. Controls'
      BY <2>3 DEF Registered, entry, IInv, Typed, Controls
    <3>2. reg' \notin Early
      BY <2>3 DEF Registered, Early
    <3>3. Counted
      BY <2>3, FaultsCount DEF Registered, IInv
    <3>4. CASE /\ reg = "finalizing" /\ StartFinalizer("compensation", "failed")
               /\ reg' = "compensating"
      <4>1. fin["compensation"].pc = "none"
        BY <3>4 DEF IInv, Placed
      <4>2. /\ fin'["compensation"].pc = "lock"
            /\ \A x \in Starters \ {"compensation"} : fin'[x] = fin[x]
        BY <1>0, <3>4 DEF StartFinalizer, IInv, Typed, Finalizing
      <4>3. Still
        BY <1>0, <2>3, <3>3, <3>4, <4>1 DEF Still, Registered, entry
      <4>4. Placed'
        BY <1>0, <2>3, <3>4, <4>2, FaultsCount DEF Registered, entry, IInv, Placed
      <4> QED  BY <2>3, <3>1, <3>2, <3>4, <4>3, <4>4 DEF Registered, IInv, Owned
    <3>5. CASE /\ \/ reg = "finalizing" /\ fin["registration"].pc = "done"
                  \/ reg = "compensating" /\ Ended("compensation")
               /\ reg' = "done" /\ UNCHANGED fin
      <4>1. Safe
        BY <1>0, <3>5 DEF IInv, Placed, Owned, Ended, Safe
      <4>2. Still
        BY <2>3, <3>3, <3>5 DEF Still, Registered, entry
      <4>3. Placed'
        BY <2>3, <3>5, FaultsCount DEF Registered, entry, IInv, Placed, Begun, Early
      <4> QED  BY <2>3, <3>1, <3>2, <4>1, <4>2, <4>3 DEF Registered
    <3> QED  BY Zenon, <2>3, <3>4, <3>5 DEF Registered
  <2>4. CASE (\E as \in Outcomes : HandlerReturns(as)) \/ HandlerCancelled
    <3>1. PICK as \in Finals : Stage(as)
      BY Zenon, <1>0, <2>4, OutcomesAreFinal DEF HandlerReturns, HandlerCancelled
    <3>2. worker = "run" /\ reg = "done"
      BY Zenon, <2>4 DEF HandlerReturns, HandlerCancelled, IInv, Placed
    <3>3. UNCHANGED <<reg, shut, succ>>
      BY <3>1 DEF Stage
    <3> QED  BY Zenon, <3>1, <3>2, <3>3, StagedIsFinal DEF IInv, Owned, Early
  <2>5. CASE (state # "running" \/ pend = "none") /\ ShutdownReconciles
    <3>1. shut = "drain" /\ reg \notin Early /\ UNCHANGED <<reg, worker, succ>>
      BY <2>5 DEF ShutdownReconciles, IInv, Begun
    <3>2. CASE /\ state # "running" /\ Shut("done")
               /\ UNCHANGED <<entry, journal, recon, faults, intent, cancel, fin>>
      <4>1. Still
        BY <2>5, <3>2, FaultsCount DEF Still, ShutdownReconciles, entry, IInv
      <4>2. Controls'
        BY <2>5, <3>2 DEF ShutdownReconciles, Shut, entry, IInv, Typed, Controls
      <4>3. Placed'
        BY Zenon, <2>5, <3>1, <3>2, FaultsCount DEF ShutdownReconciles, Shut, entry, IInv, Placed, Early
      <4> QED  BY <3>1, <3>2, <4>1, <4>2, <4>3 DEF IInv, Owned
    <3>3. CASE /\ state = "running" /\ pend = "none" /\ Shut("fin")
               /\ Killed(mode) /\ StartFinalizer("shutdown", TerminationState(intent'))
               /\ UNCHANGED <<entry, journal, recon, faults>>
      <4>0. fin["shutdown"].pc = "none" /\ reg = "done"
        BY Zenon, <3>1, <3>3 DEF IInv, Placed
      <4>1. TerminationState(intent') \in Finals
        BY <1>0 DEF TerminationState
      <4>2. Still
        BY Zenon, <1>0, <2>5, <3>3, <4>0, <4>1, FaultsCount DEF Still, ShutdownReconciles, entry, IInv
      <4>3. Controls'
        BY <2>5, <3>3 DEF ShutdownReconciles, Shut, Killed, entry, IInv, Typed, Controls
      <4>4. /\ fin'["shutdown"].pc = "lock"
            /\ \A x \in Starters \ {"shutdown"} : fin'[x] = fin[x]
        BY Zenon, <1>0, <3>3 DEF StartFinalizer, IInv, Typed, Finalizing
      <4>5. Placed'
        BY <1>0, <2>5, <3>3, <4>0, <4>4 DEF ShutdownReconciles, Shut, entry, IInv, Placed
      <4> QED  BY <3>1, <3>3, <4>0, <4>2, <4>3, <4>5 DEF Shut, Early
    <3> QED  BY <2>5, <3>2, <3>3 DEF ShutdownReconciles
  <2> QED  BY <2>1, <2>2, <2>3, <2>4, <2>5 DEF Handing
<1>2. \A x : Stored(x)' <=> Stored(x)
  BY <1>1, JournalKept DEF Still
<1>3. Begun' /\ Stopped'
  BY <1>1, <1>2 DEF Begun, Stopped, Still, IInv
<1> QED  BY <1>1, <1>3, StillKeeps

-----------------------------------------------------------------------------
(* The steps that settle or interrupt the entry *)

Closing ==
  \/ \E as \in Finals : Settling(as)
  \/ Interrupting /\ Counted

Leaving ==
  /\ UNCHANGED <<state, pend, detached, journal>>
  /\ UNCHANGED persist \/ Uncertain
  /\ Counted

\* What these steps do to the entry and the journal.
Moves ==
  /\ state' \in States /\ journal' \in Seq(Events)
  /\ persist' \in {"not_started", "in_flight", "uncertain", "committed"}
  /\ detached' \in BOOLEAN /\ Counted
  /\ state' = state \/ state' \in Finals
  /\ state \in Finals => state' \in Finals
  /\ state \in Settled => state' = state
  /\ state' \in Settled \cup Parks => Durable'
  /\ persist' = "committed" => Durable'
  /\ pend' \in Finals \/ pend' = pend
  /\ Durable => Durable'
  /\ \A x : Stored(x) => Stored(x)'
  /\ Stored("terminated")' => Stored("terminated")
  /\ Fine' => Fine

LEMMA LeavingMoves ==
  ASSUME IInv, Leaving
  PROVE  Moves
<1>1. /\ Durable' <=> Durable
      /\ \A x : Stored(x)' <=> Stored(x)
      /\ Fine' <=> Fine
  BY JournalKept DEF Leaving
<1>2. /\ persist' \in {"not_started", "in_flight", "uncertain", "committed"}
      /\ persist' = "committed" => persist = "committed"
  BY DEF Leaving, Uncertain, IInv, Typed
<1> QED  BY Zenon, <1>1, <1>2 DEF Leaving, Moves, IInv, Typed, Recorded

\* What a settlement or an interruption leaves: a final entry, or a stored
\* completion whose publication failed.
LEMMA ClosingMoves ==
  ASSUME IInv, Closing
  PROVE  /\ Moves
         /\ Safe'
         /\ Durable' \/ detached'
<1>1. ASSUME NEW as \in Finals, Settling(as)
      PROVE  /\ Durable'
             /\ persist' = "committed" /\ pend' \in Finals
             /\ state' \in Finals \/ (Failed' /\ state' = state)
             /\ state \in Finals => state' \in Finals
             /\ state \in Settled => state' = state
             /\ state' \in States /\ detached' \in BOOLEAN
  <2>1. /\ Durable' /\ persist' = "committed" /\ pend' \in Finals
        /\ state' = Shown(as) \/ (state' = state /\ Failed')
    BY Zenon, <1>1 DEF Settling
  <2>2. detached' \in BOOLEAN
    BY Zenon, <1>1 DEF Settling, IInv, Typed
  <2>3. Shown(as) \in Finals /\ (state \in Settled => Shown(as) = state)
    BY Zenon DEF Shown, Finals, Terminal, Settled
  <2> QED  BY Zenon, <2>1, <2>2, <2>3 DEF IInv, Typed, States
<1>2. CASE \E as \in Finals : Settling(as)
  <2>1. PICK as \in Finals : Settling(as)
    BY Zenon, <1>2
  <2>2. /\ journal' \in Seq(Events) /\ Counted
        /\ \A x : Stored(x) => Stored(x)'
        /\ Stored("terminated")' => Stored("terminated")
        /\ Fine' => Fine
    BY <2>1 DEF Settling, Counted
  <2> QED  BY Zenon, <1>1, <2>1, <2>2 DEF Moves, Safe
<1>3. CASE Interrupting /\ Counted
  <2>1. UNCHANGED <<pend, journal>> /\ Uncertain /\ InterruptUncertain
    BY <1>3 DEF Interrupting
  <2>2. /\ Durable' <=> Durable
        /\ \A x : Stored(x)' <=> Stored(x)
        /\ Fine' <=> Fine
    BY <2>1, JournalKept
  <2>3. /\ state' \in Terminal /\ state' \in States
        /\ state \in Settled => state' = state
        /\ state' \in Settled \cup Parks => state' = state
    BY <2>1 DEF InterruptUncertain, Terminal, Settled, Parks, States, Finals
  <2>4. state' \in Finals
    BY <2>3 DEF Finals
  <2>5. /\ persist' = "committed" => persist = "committed"
        /\ persist' \in {"not_started", "in_flight", "uncertain", "committed"}
    BY <2>1 DEF Uncertain
  <2>6. detached' /\ detached' \in BOOLEAN
    BY <2>1 DEF InterruptUncertain
  <2> QED  BY <1>3, <2>1, <2>2, <2>3, <2>4, <2>5, <2>6 DEF Moves, Safe, IInv, Typed, Recorded
<1> QED  BY <1>2, <1>3 DEF Closing

\* Finalizers end or are cancelled, and append tasks end.
Retiring ==
  /\ Finalizing'
  /\ \A x \in Starters :
       /\ \/ fin'[x].pc = fin[x].pc
          \/ fin[x].pc \in {"wait", "lock"} /\ fin'[x].pc \in {"done", "raised"}
       /\ fin'[x].pc = "done" => fin[x].pc = "done" \/ state' \in Finals
       /\ fin'[x].try = fin[x].try /\ fin'[x].as = fin[x].as
       /\ \/ app'[x].pc = app[x].pc
          \/ app'[x].pc = "done" /\ fin'[x].pc # "wait"
       /\ app'[x].as = app[x].as
       /\ app'[x].pc # "none" => app[x].pc # "none"

LEMMA RetiringKeeps ==
  ASSUME IInv, Moves, Retiring, recon' \in BOOLEAN,
         UNCHANGED <<reg, succ, intent, mode>>, reg \notin Early,
         UNCHANGED worker \/ (worker # "none" /\ worker' = "done"),
         UNCHANGED shut \/ (shut # "no" /\ shut' = "done"),
         Safe' \/ UNCHANGED <<state, persist, fin, app, shut>>,
         lock' = lock \/ (lock' = "free" /\ fin'[lock].pc # "wait"),
         Projected'
  PROVE  IInv'
<1>1. Typed'
  <2>1. Controls'
    BY DEF Moves, IInv, Typed, Controls
  <2> QED  BY Zenon, <2>1 DEF Moves, Typed, Retiring, Counted
<1>2. Begun'
  BY DEF Begun
<1>3. Recorded'
  <2>1. ASSUME NEW w \in Starters, app'[w].pc \in {"ok", "late"}
        PROVE  Stored(app[w].as)'
    <3>1. app[w].pc \in {"ok", "late"} /\ app'[w].as = app[w].as
      BY Zenon, <2>1 DEF Retiring
    <3>2. Stored(app[w].as)
      BY Zenon, <3>1 DEF IInv, Recorded
    <3> QED  BY Zenon, <3>1, <3>2 DEF Moves, Stored
  <2> QED  BY <2>1 DEF Moves, Recorded
<1>4. Stopped'
  BY DEF Moves, IInv, Stopped, Settled
<1>5. ASSUME Safe'  PROVE Owned'
  BY Zenon, <1>5 DEF Moves, IInv, Owned, Retiring
<1>6. ASSUME UNCHANGED <<state, persist, fin, app, shut>>  PROVE Owned'
  <2>1. Safe => Safe'
    BY <1>6 DEF Moves, Counted, Safe, Waiting, IInv, Typed
  <2> QED  BY <1>6, <2>1 DEF IInv, Owned
<1>7. Held'
  <2>1. \A w \in Starters : app'[w].pc \in {"err", "check"} => Failed'
    BY Zenon DEF Moves, Retiring, Counted, IInv, Typed, Held
  <2>2. SUFFICES ASSUME NEW w \in Starters, fin'[w].pc = "wait"
                 PROVE  /\ lock' = w
                        /\ app'[w].pc \in {"flying", "ok", "late", "err", "check"}
                        /\ fin'[w].try = 1 => app'[w].as = fin'[w].as
    BY <2>1 DEF Held
  <2>3. fin[w].pc = "wait" /\ app'[w].pc = app[w].pc /\ app'[w].as = app[w].as
    BY <2>2 DEF Retiring
  <2> QED  BY Zenon, <2>2, <2>3 DEF IInv, Held, Retiring
<1>8. Placed'
  <2>1. /\ \A x \in Starters : fin'[x].pc = "none" <=> fin[x].pc = "none"
        /\ "registration" \in Starters /\ "compensation" \in Starters
        /\ "worker" \in Starters /\ "shutdown" \in Starters
    BY DEF Retiring, Starters
  <2>2. /\ state' \in {"none", "pending", "running"} => state' = state
        /\ pend # "none" => pend' # "none"
        /\ Failed => Failed'
        /\ state \in Settled => state' \in Settled
        /\ reg \notin {"append", "bracket"}
    BY DEF Moves, Counted, Finals, Terminal, Settled, Parks, IInv, Typed, Early
  <2> QED  BY <2>1, <2>2 DEF IInv, Placed
<1> QED  BY <1>1, <1>2, <1>3, <1>4, <1>5, <1>6, <1>7, <1>8 DEF IInv

\* A settlement shows an interruption only if that is what it settles, and
\* then no interruption was stored.
LEMMA SettlingShows ==
  ASSUME IInv, NEW as \in Finals, Settling(as), ~Failed', state' = "interrupted", Fine'
  PROVE  as = "interrupted" /\ ~Stored("interrupted") /\ ~Failed
<1>1. state' = Shown(as) /\ ~Failed /\ Fine
  <2>1. ~Failed /\ ~Failed'
    BY DEF Settling, IInv, Typed
  <2> QED  BY Zenon, <2>1 DEF Settling
<1>2. as = "interrupted" /\ state \notin Settled
  BY Zenon, <1>1 DEF Shown, Settled
<1>3. Stored("interrupted") => Stored("terminated")
  BY <1>1, ConfirmedIsStored DEF IInv, Typed
<1> QED  BY <1>1, <1>2, <1>3 DEF IInv, Stopped, Settled

LEMMA FinEndedKeeps ==
  ASSUME IInv, NEW w \in Starters, FinEnded(w)
  PROVE  IInv'
<1>1. PICK pc \in {"done", "raised"} :
        /\ fin' = [fin EXCEPT ![w].pc = pc]
        /\ pc = "done" => state' \in Finals
  BY Zenon DEF FinEnded
<1>2. /\ fin[w].pc = "wait" /\ lock' = "free" /\ UNCHANGED app
      /\ UNCHANGED <<reg, worker, intent, shut, succ, mode>>
  BY DEF FinEnded, others
<1>3. /\ Finalizing' /\ fin'[w].pc = pc
      /\ \A x \in Starters \ {w} : fin'[x] = fin[x]
      /\ fin'[w].as = fin[w].as /\ fin'[w].try = fin[w].try
  BY <1>1, <1>2 DEF IInv, Typed, Finalizing, FinPlaces
<1>4. Retiring
  BY <1>1, <1>2, <1>3 DEF Retiring
<1>5. lock = w /\ reg \notin Early
  BY <1>2 DEF IInv, Held, Begun
<1>6. Closing /\ recon' \in BOOLEAN
  BY Zenon DEF FinEnded, Closing, Interrupting, InterruptUncertain, IInv, Typed
<1>7. Projected'
  <2>1. SUFFICES ASSUME ~Failed', state' = "interrupted", Fine'
                 PROVE  (\E x \in Starters : app'[x].pc = "flying") \/ (detached' /\ recon')
    BY Zenon, <1>6, ClosingMoves DEF Projected, Reconcilable, Covered
  <2>2. CASE Interrupting
    BY <2>2 DEF Interrupting, InterruptUncertain
  <2>3. ASSUME NEW as \in Finals, Settling(as),
               as = "interrupted" => \/ Stored("interrupted")
                                     \/ app[w].pc = "flying"
                                     \/ Failed
        PROVE  app[w].pc = "flying"
    <3>1. as = "interrupted" /\ ~Stored("interrupted") /\ ~Failed
      BY Zenon, <2>1, <2>3, SettlingShows
    <3> QED  BY <2>3, <3>1
  <2> QED  BY <1>2, <2>2, <2>3 DEF FinEnded
<1> QED  BY <1>1, <1>2, <1>3, <1>4, <1>5, <1>6, <1>7, ClosingMoves, RetiringKeeps

\* A late append task, or a scheduled reconciliation.
LEMMA ProjectingKeeps ==
  ASSUME IInv, Projecting, recon' \in BOOLEAN, reg \notin Early,
         \/ UNCHANGED app
         \/ \E w \in Starters : /\ app[w].pc \in {"late", "check"}
                                /\ app' = [app EXCEPT ![w].pc = "done"],
         Projected'
  PROVE  IInv'
<1>1. /\ lock = "free" /\ UNCHANGED <<fin, lock>>
      /\ UNCHANGED <<reg, worker, intent, shut, succ, mode>>
  BY DEF Projecting, others
<1>2. \A x \in Starters : fin[x].pc # "wait"
  BY <1>1 DEF IInv, Held, Starters
<1>3. /\ Retiring
      /\ UNCHANGED app \/ Safe
  <2>1. CASE UNCHANGED app
    BY <1>1, <2>1 DEF Retiring, IInv, Typed, Finalizing
  <2>2. CASE \E w \in Starters : /\ app[w].pc \in {"late", "check"}
                                 /\ app' = [app EXCEPT ![w].pc = "done"]
    <3>1. PICK w \in Starters : /\ app[w].pc \in {"late", "check"}
                                /\ app' = [app EXCEPT ![w].pc = "done"]
      BY Zenon, <2>2
    <3>2. /\ Finalizing' /\ app'[w].pc = "done" /\ app'[w].as = app[w].as
          /\ \A x \in Starters \ {w} : app'[x] = app[x]
      BY <1>1, <3>1 DEF IInv, Typed, Finalizing, AppPlaces
    <3>3. Retiring
      BY <1>1, <1>2, <3>1, <3>2 DEF Retiring
    <3> QED  BY <3>1, <3>3 DEF IInv, Owned
  <2> QED  BY <2>1, <2>2
<1>4. CASE \E as \in Finals : Settling(as)
  BY Zenon, <1>1, <1>3, <1>4, ClosingMoves, RetiringKeeps DEF Closing
<1>5. CASE UNCHANGED <<entry, journal>> /\ Counted
  <2>1. Leaving
    BY <1>5 DEF Leaving, entry
  <2>2. Safe => Safe'
    BY <1>1, <1>5 DEF entry, Safe, Waiting, Counted, IInv, Typed
  <2>3. Safe' \/ UNCHANGED <<state, persist, fin, app, shut>>
    BY <1>1, <1>3, <1>5, <2>2 DEF entry
  <2> QED  BY <1>1, <1>3, <2>1, <2>3, LeavingMoves, RetiringKeeps
<1> QED  BY <1>4, <1>5 DEF Projecting

LEMMA LateKeeps ==
  ASSUME IInv, Recon \/ \E w \in Starters : LateCommit(w) \/ LateCheck(w)
  PROVE  IInv'
<1>1. CASE Recon
  <2>1. /\ Reconciles /\ recon /\ recon' = FALSE /\ UNCHANGED app
        /\ UNCHANGED fin
    BY <1>1 DEF Recon, Reconciles
  <2>2. /\ Projecting
        /\ ~Failed' /\ detached /\ Fine => state' \in Settled \cup Parks
        /\ ~detached => UNCHANGED <<entry, journal>>
    BY <2>1, ReconcilesProjects
  <2>3. Moves /\ (UNCHANGED detached \/ Durable')
    <3>1. CASE \E as \in Finals : Settling(as)
      BY Zenon, <3>1, ClosingMoves DEF Closing, Settling
    <3>2. CASE UNCHANGED <<entry, journal>> /\ Counted
      BY <3>2, LeavingMoves DEF Leaving, entry
    <3> QED  BY <2>2, <3>1, <3>2 DEF Projecting
  <2>4. Projected'
    <3>1. SUFFICES ASSUME ~Failed'  PROVE Reconcilable' /\ Covered'
      BY DEF Projected
    <3>2. Reconcilable /\ Covered
      BY <2>3, <3>1 DEF IInv, Typed, Projected, Moves, Counted
    <3>3. Covered'
      BY <2>1, <2>3, <3>2 DEF Covered, Moves
    <3>4. ASSUME state' = "interrupted", Fine'
          PROVE  Waiting' \/ \E w \in Starters : app'[w].pc = "flying"
      <4>1. ~detached
        BY <2>2, <2>3, <3>1, <3>4 DEF Moves, Settled, Parks
      <4>2. state = "interrupted" /\ Fine
        BY <2>2, <2>3, <3>4, <4>1 DEF entry, Moves
      <4> QED  BY <2>1, <3>2, <4>1, <4>2 DEF Reconcilable, Waiting
    <3> QED  BY Zenon, <3>3, <3>4 DEF Reconcilable
  <2> QED  BY Zenon, <2>1, <2>2, <2>4, ProjectingKeeps DEF IInv, Begun
<1>2. ASSUME NEW w \in Starters, LateCommit(w)
      PROVE  IInv'
  <2>1. /\ app[w].pc = "late" /\ app' = [app EXCEPT ![w].pc = "done"]
        /\ UNCHANGED <<fin, recon>> /\ recon' \in BOOLEAN
    BY <1>2 DEF LateCommit, IInv, Typed
  <2>2. reg \notin Early
    BY <2>1 DEF IInv, Begun
  <2>3. /\ app'[w].pc = "done"
        /\ \A x \in Starters \ {w} : app'[x] = app[x]
    BY <2>1 DEF IInv, Typed, Finalizing
  <2>4. Projecting /\ app[w].as \in Finals /\ Stored(app[w].as)
    BY <1>2, <2>1, LateCommitProjects DEF IInv, Typed, Finalizing, Recorded
  <2>5. Projected'
    <3>1. CASE detached /\ persist = "committed"
      <4>1. Settling(app[w].as)
        BY <1>2, <3>1, LateCommitProjects
      <4>2. Durable'
        BY <4>1 DEF Settling
      <4>3. ~(~Failed' /\ state' = "interrupted" /\ Fine')
        BY <2>4, <4>1, SettlingShows
      <4> QED  BY <4>2, <4>3 DEF Projected, Reconcilable, Covered
    <3>2. CASE ~(detached /\ persist = "committed")
      <4>1. UNCHANGED <<entry, journal>> /\ Counted
        BY <1>2, <3>2, LateCommitProjects, FaultsCount DEF LateCommit, IInv, Typed
      <4>2. /\ Durable' <=> Durable
            /\ Fine' <=> Fine
        BY <4>1, JournalKept
      <4>3. ~Failed' => ~Failed
        BY <4>1 DEF Counted, IInv, Typed
      <4>4. Waiting' <=> Waiting
        BY <2>1 DEF Waiting
      <4>5. \A x \in Starters : app'[x].pc = "flying" <=> app[x].pc = "flying"
        BY <2>1, <2>3
      <4> QED  BY <2>1, <3>2, <4>1, <4>2, <4>3, <4>4, <4>5
                  DEF IInv, Projected, Reconcilable, Covered, entry
    <3> QED  BY <3>1, <3>2
  <2> QED  BY Zenon, <2>1, <2>2, <2>4, <2>5, ProjectingKeeps
<1>3. ASSUME NEW w \in Starters, LateCheck(w)
      PROVE  IInv'
  <2>1. /\ app[w].pc = "check" /\ app' = [app EXCEPT ![w].pc = "done"]
        /\ Reconciles /\ recon' \in BOOLEAN
    BY <1>3 DEF LateCheck, IInv, Typed
  <2>2. Projecting
    BY <2>1, ReconcilesProjects
  <2>3. Failed /\ reg \notin Early
    BY <2>1 DEF IInv, Held, Begun
  <2>4. Counted
    BY <2>2 DEF Projecting, Settling, Counted
  <2>5. Projected'
    BY <2>3, <2>4 DEF Projected, Counted, IInv, Typed
  <2> QED  BY Zenon, <2>1, <2>2, <2>3, <2>5, ProjectingKeeps
<1> QED  BY <1>1, <1>2, <1>3

\* A reconciliation without the lock, of an outcome that is staged.
LEMMA StagedCloses ==
  ASSUME IInv, state = "running", pend # "none", ReconcileStaged(persist)
  PROVE  /\ Closing /\ recon' \in BOOLEAN
         /\ ~Failed' /\ state' = "interrupted" => Waiting \/ (detached' /\ recon')
<1>1. pend \in Finals
  BY DEF IInv, Typed, Controls
<1>2. CASE persist = "committed"
  <2>1. Settling(pend) /\ UNCHANGED recon
    BY <1>1, <1>2, SettleOrRaise DEF ReconcileStaged, IInv, Recorded
  <2>2. ~Failed' => Waiting
    <3>1. Safe /\ state \notin Finals
      BY <1>2 DEF IInv, Owned, Finals, Terminal, Settled, Parks
    <3>2. ~Failed' => ~Failed
      BY <2>1 DEF Settling, IInv, Typed
    <3> QED  BY <3>1, <3>2 DEF Safe
  <2> QED  BY <1>1, <2>1, <2>2 DEF Closing, IInv, Typed
<1>3. CASE persist # "committed"
  <2>1. /\ Uncertain /\ InterruptUncertain
        /\ UNCHANGED <<pend, journal, faults>>
    BY <1>3 DEF ReconcileStaged
  <2> QED  BY <2>1, FaultsCount DEF Closing, Interrupting, InterruptUncertain, IInv, Typed
<1> QED  BY <1>2, <1>3

\* The finalizers keep their places; one may be told to end.
Retained ==
  /\ Finalizing'
  /\ UNCHANGED app
  /\ \A x \in Starters : /\ fin'[x].pc = fin[x].pc /\ fin'[x].as = fin[x].as
                         /\ fin'[x].try = fin[x].try

\* The entry is settled, interrupted or left alone from outside its lock.
LEMMA RetainedKeeps ==
  ASSUME IInv, Retained, recon' \in BOOLEAN, Moves, Safe',
         UNCHANGED <<reg, succ, intent, mode, lock>>, reg \notin Early,
         UNCHANGED worker \/ (worker # "none" /\ worker' = "done"),
         UNCHANGED shut \/ (shut # "no" /\ shut' = "done"),
         ~Failed' /\ state' = "interrupted" =>
            \/ Waiting
            \/ detached' /\ recon'
            \/ UNCHANGED <<state, detached, journal, recon>> /\ (UNCHANGED persist \/ Uncertain),
         Durable' \/ detached' \/ UNCHANGED <<detached, journal>>
  PROVE  IInv'
<1>1. Retiring
  BY DEF Retained, Retiring
<1>2. Waiting' <=> Waiting
  BY DEF Waiting, Retained
<1>3. Projected'
  <2>1. SUFFICES ASSUME ~Failed'  PROVE Reconcilable' /\ Covered'
    BY DEF Projected
  <2>2. Reconcilable /\ Covered
    BY <2>1 DEF IInv, Typed, Projected, Moves, Counted
  <2>3. Covered'
    BY <2>2 DEF Covered, Moves, Retained
  <2>4. ASSUME state' = "interrupted", Fine',
               UNCHANGED <<state, detached, journal, recon>>, UNCHANGED persist \/ Uncertain
        PROVE  Reconcilable'
    <3>1. Fine /\ (persist = "committed" => persist' = "committed")
      BY <2>4 DEF Moves, Uncertain
    <3> QED  BY Zenon, <1>2, <2>2, <2>4, <3>1 DEF Reconcilable, Retained
  <2>5. Reconcilable'
    BY Zenon, <1>2, <2>1, <2>4 DEF Reconcilable
  <2> QED  BY <2>3, <2>5
<1> QED  BY <1>1, <1>3, RetiringKeeps

LEMMA GiveUpFinalizerKeeps ==
  ASSUME IInv, GiveUpFinalizer
  PROVE  IInv'
<1>0. /\ worker = "drain" /\ worker' = "done" /\ UNCHANGED app
      /\ fin' = [fin EXCEPT !["worker"].cancelled = TRUE]
      /\ UNCHANGED <<reg, intent, lock, shut, succ, mode>>
      /\ fin["worker"].pc # "none"
  BY DEF GiveUpFinalizer, Ended
<1>1. Retained
  BY Zenon, <1>0 DEF Retained, IInv, Typed, Finalizing, Starters
<1>2. reg \notin Early /\ state \notin {"none", "pending"} /\ (pend # "none" \/ state \in Settled)
  BY <1>0 DEF IInv, Placed, Early
<1>3. CASE state = "running"
  <2>1. pend # "none" /\ ReconcileStaged(persist)
    BY <1>2, <1>3 DEF GiveUpFinalizer, Settled
  <2>2. /\ Closing /\ recon' \in BOOLEAN
        /\ ~Failed' /\ state' = "interrupted" => Waiting \/ (detached' /\ recon')
    BY <1>3, <2>1, StagedCloses
  <2> QED  BY <1>0, <1>1, <1>2, <2>2, ClosingMoves, RetainedKeeps
<1>4. CASE state # "running"
  <2>1. Uncertain /\ UNCHANGED <<state, pend, detached, recon, journal, faults>>
    BY <1>4 DEF GiveUpFinalizer
  <2>2. Leaving /\ recon' \in BOOLEAN
    BY <2>1, FaultsCount DEF Leaving, IInv, Typed
  <2>3. Safe'
    BY <1>2, <1>4, <2>1 DEF Safe, IInv, Typed, States
  <2> QED  BY <1>0, <1>1, <1>2, <2>1, <2>2, <2>3, LeavingMoves, RetainedKeeps
<1> QED  BY <1>3, <1>4

LEMMA ShutdownEndsKeeps ==
  ASSUME IInv, \/ state = "running" /\ pend # "none" /\ ShutdownReconciles
               \/ ShutdownFinalized
  PROVE  IInv'
<1>0. /\ shut \notin {"no", "init", "done"} /\ shut' = "done"
      /\ UNCHANGED <<reg, worker, intent, lock, fin, app, succ, mode>>
  BY Zenon DEF ShutdownReconciles, ShutdownFinalized, Shut
<1>1. Retained /\ reg \notin Early
  BY <1>0 DEF Retained, IInv, Typed, Finalizing, Begun
<1>2. CASE state = "running" /\ pend # "none" /\ ShutdownReconciles
  <2>1. ReconcileStaged(persist)
    BY <1>2 DEF ShutdownReconciles
  <2>2. /\ Closing /\ recon' \in BOOLEAN
        /\ ~Failed' /\ state' = "interrupted" => Waiting \/ (detached' /\ recon')
    BY <1>2, <2>1, StagedCloses
  <2> QED  BY <1>0, <1>1, <2>2, ClosingMoves, RetainedKeeps
<1>3. CASE ShutdownFinalized
  <2>1. CASE fin["shutdown"].pc = "raised" /\ state # "interrupted"
    <3>1. Interrupting /\ Counted
      BY <1>3, <2>1, FaultsCount DEF ShutdownFinalized, Interrupting, IInv
    <3>2. Closing /\ detached' /\ recon'
      BY <3>1 DEF Closing, Interrupting, InterruptUncertain
    <3>3. recon' \in BOOLEAN
      BY <3>1 DEF Interrupting, InterruptUncertain
    <3> QED  BY <1>0, <1>1, <3>2, <3>3, ClosingMoves, RetainedKeeps
  <2>2. CASE ~(fin["shutdown"].pc = "raised" /\ state # "interrupted")
    <3>1. UNCHANGED <<state, persist, pend, detached, recon, journal, faults>>
      BY <1>3, <2>2 DEF ShutdownFinalized, entry
    <3>2. Leaving /\ recon' \in BOOLEAN
      BY <3>1, FaultsCount DEF Leaving, IInv, Typed
    <3>3. fin["shutdown"].pc \in {"done", "raised"} /\ "shutdown" \in Starters
      BY Zenon, <1>3 DEF ShutdownFinalized, Ended, IInv, Placed, Starters
    <3>4. Safe
      BY <3>3 DEF IInv, Owned, Safe
    <3>5. Safe'
      BY <1>0, <3>1, <3>4 DEF Safe, Waiting, Failed
    <3> QED  BY <1>0, <1>1, <3>1, <3>2, <3>5, LeavingMoves, RetainedKeeps
  <2> QED  BY <2>1, <2>2
<1> QED  BY <1>2, <1>3

-----------------------------------------------------------------------------
(* Registration *)

\* Before a worker or a finalizer exists, nothing is appended but the registration.
Registering ==
  \/ Admit \/ Register \/ RegisterFails \/ RegisterUnknown
  \/ intent = "none" /\ Start

LEMMA RegisteringKeeps ==
  ASSUME IInv, Registering
  PROVE  IInv'
<1> USE DEF Registering, Admit, Register, RegisterFails, RegisterUnknown, Start, entry
<1>1. /\ UNCHANGED <<intent, persist, pend, detached, lock, fin, app, recon, shut, succ, mode>>
      /\ Counted
  BY Zenon, FaultsCount DEF IInv
<1>2. /\ reg \in Early /\ ~Stored("terminated")
      /\ \A x \in Starters : fin[x].pc = "none" /\ app[x].pc = "none"
      /\ state \in {"none", "pending"} /\ worker = "none" /\ ~recon
  BY Zenon DEF IInv, Begun, Early
<1>3. UNCHANGED journal \/ Log("registered")
  OBVIOUS
<1>4. /\ journal' \in Seq(Events)
      /\ Durable' <=> Durable
      /\ ~Stored("terminated")'
  <2>1. CASE UNCHANGED journal
    BY Zenon, <1>2, <2>1, JournalKept DEF IInv, Typed
  <2>2. CASE Log("registered")
    <3>1. "registered" \in Events /\ "registered" \notin Finals
      BY DEF Events, Finals, Terminal, Settled, Parks
    <3> QED  BY Zenon, <1>2, <2>2, <3>1, JournalGrows DEF Grows, IInv, Typed
  <2> QED  BY Zenon, <1>3, <2>1, <2>2
<1>5. Typed'
  <2>1. Controls'
    BY Zenon, <1>1 DEF IInv, Typed, Controls, Early
  <2>2. Finalizing' /\ recon' \in BOOLEAN /\ detached' \in BOOLEAN
    BY Zenon, <1>1 DEF IInv, Typed, Finalizing
  <2>3. state' \in States
    BY Zenon DEF IInv, Typed, States
  <2> QED  BY Zenon, <1>1, <1>4, <2>1, <2>2, <2>3 DEF IInv, Typed, Counted
<1>6. Begun'
  BY Zenon, <1>1, <1>2, <1>4 DEF IInv, Begun, Early
<1>7. Recorded'
  BY Zenon, <1>1, <1>2, <1>4 DEF IInv, Recorded, Settled, Parks
<1>8. Safe => Safe'
  BY Zenon, <1>1, <1>2 DEF Safe, Waiting, Counted, Finals, Terminal, Settled, Parks, IInv, Typed
<1>9. Owned'
  BY Zenon, <1>1, <1>2, <1>8 DEF IInv, Owned, Placed, Begun, Early
<1>10. Placed'
  BY Zenon, <1>1, <1>2, FaultsCount DEF IInv, Placed, Begun, Early, Typed, Starters
<1>11. Held'
  BY Zenon, <1>1, <1>2 DEF Held
<1>12. Projected'
  BY Zenon, <1>1, <1>2 DEF Projected, Reconcilable, Covered
<1> QED  BY Zenon, <1>4, <1>5, <1>6, <1>7, <1>9, <1>10, <1>11, <1>12 DEF IInv, Stopped

-----------------------------------------------------------------------------
(* The lock and the append *)

\* A finalizer that finds the entry settled, or that was cancelled, ends.
FinLeaves(w) ==
  /\ fin[w].pc = "lock"
  /\ \E pc \in {"done", "raised"} :
       /\ Fin(w, pc)
       /\ pc = "done" => state \in Settled
       /\ pc = "raised" => fin[w].cancelled
  /\ UNCHANGED <<others, entry, journal, lock, app, recon, faults>>

\* It takes the lock, or appends the failure under it.
FinPersists(w) ==
  \E as \in Finals, n \in {1, 2} :
    /\ Persist(w, as, n) /\ lock' = w
    /\ \/ fin[w].pc = "lock" /\ lock = "free" /\ as = fin[w].as /\ state \notin Settled
       \/ fin[w].pc = "wait" /\ lock = w /\ n = 2
    /\ n = 1 => as = fin[w].as
    /\ UNCHANGED <<others, state, detached, journal, recon, faults>>

LEMMA FinLockSteps ==
  ASSUME IInv, NEW w \in Starters, FinLock(w) \/ FinLockCancelled(w) \/ FinRetries(w)
  PROVE  FinLeaves(w) \/ FinPersists(w)
<1>1. CASE FinLock(w) /\ state \in Settled
  BY Zenon, <1>1 DEF FinLock, FinLeaves, entry
<1>2. CASE FinLock(w) /\ state \notin Settled
  <2>1. fin[w].as \in Finals
    BY <1>2 DEF FinLock, IInv, Typed, Finalizing
  <2> QED  BY Zenon, <1>2, <2>1 DEF FinLock, FinPersists
<1>3. CASE FinLockCancelled(w)
  BY Zenon, <1>3 DEF FinLockCancelled, FinLeaves
<1>4. CASE FinRetries(w)
  <2>1. lock = w /\ "failed" \in Finals
    BY Zenon, <1>4 DEF FinRetries, IInv, Held, Finals, Terminal, Settled
  <2>2. 2 \in {1, 2} /\ 2 # 1
    OBVIOUS
  <2> QED  BY Zenon, <1>4, <2>1, <2>2 DEF FinRetries, FinPersists
<1> QED  BY <1>1, <1>2, <1>3, <1>4

LEMMA FinLeavesKeeps ==
  ASSUME IInv, NEW w \in Starters, FinLeaves(w)
  PROVE  IInv'
<1>1. PICK pc \in {"done", "raised"} : /\ Fin(w, pc)
                                       /\ pc = "done" => state \in Settled
                                       /\ pc = "raised" => fin[w].cancelled
  BY Zenon DEF FinLeaves
<1>2. /\ fin[w].pc = "lock" /\ UNCHANGED <<journal, lock, app, recon, faults>>
      /\ UNCHANGED <<state, persist, pend, detached>>
      /\ UNCHANGED <<reg, worker, intent, shut, succ, mode>>
  BY Zenon DEF FinLeaves, others, entry
<1>3. /\ Finalizing' /\ fin'[w].pc = pc
      /\ \A x \in Starters \ {w} : fin'[x] = fin[x]
      /\ fin'[w].as = fin[w].as /\ fin'[w].try = fin[w].try
  BY Zenon, <1>1, <1>2 DEF Fin, IInv, Typed, Finalizing, FinPlaces
<1>4. /\ Safe /\ (pc = "done" => state \in Finals)
      /\ reg \notin Early
  BY Zenon, <1>1, <1>2 DEF Safe, IInv, Owned, Begun, Finals, Terminal
<1>5. Retiring
  BY Zenon, <1>1, <1>2, <1>3, <1>4 DEF Retiring
<1>6. Waiting' <=> Waiting
  BY Zenon, <1>2, <1>3 DEF Waiting
<1>7. Leaving
  BY <1>2, FaultsCount DEF Leaving, IInv
<1>8. /\ Durable' <=> Durable
      /\ Fine' <=> Fine
  BY Zenon, <1>2, JournalKept
<1>9. Projected'
  BY Zenon, <1>2, <1>3, <1>6, <1>8, FaultsCount DEF IInv, Projected, Reconcilable, Covered
<1>10. Safe' /\ recon' \in BOOLEAN
  BY Zenon, <1>2, <1>4, <1>6, FaultsCount DEF Safe, IInv, Typed
<1> QED  BY Zenon, <1>2, <1>4, <1>5, <1>7, <1>9, <1>10, LeavingMoves, RetiringKeeps

LEMMA FinPersistsKeeps ==
  ASSUME IInv, NEW w \in Starters, FinPersists(w)
  PROVE  IInv'
<1>1. PICK as \in Finals, n \in {1, 2} :
        /\ Persist(w, as, n) /\ lock' = w
        /\ \/ fin[w].pc = "lock" /\ lock = "free" /\ as = fin[w].as /\ state \notin Settled
           \/ fin[w].pc = "wait" /\ lock = w /\ n = 2
        /\ n = 1 => as = fin[w].as
        /\ UNCHANGED <<others, state, detached, journal, recon, faults>>
  BY Zenon DEF FinPersists
<1>2. /\ UNCHANGED <<reg, worker, intent, shut, succ, mode>>
      /\ UNCHANGED <<state, detached, journal, recon, faults>>
      /\ pend' = as /\ persist' = "in_flight" /\ lock' = w
      /\ fin[w].pc # "none"
  BY Zenon, <1>1 DEF Persist, others
<1>3. /\ \A x \in Starters \ {w} : fin'[x] = fin[x] /\ app'[x] = app[x]
      /\ app'[w].pc = "flying" /\ app'[w].as = as
      /\ fin'[w].pc = "wait" /\ fin'[w].try = n /\ fin'[w].as = fin[w].as
      /\ fin'[w].cancelled = fin[w].cancelled
  BY <1>1 DEF Persist, IInv, Typed, Finalizing
<1>4. Finalizing'
  <2>1. n \in 0..2 /\ "wait" \in FinPlaces /\ "flying" \in AppPlaces
    BY DEF FinPlaces, AppPlaces
  <2>2. app' \in [Starters -> [pc : AppPlaces, as : Finals \cup {"none"}]]
    BY Zenon, <1>1, <2>1 DEF Persist, IInv, Typed, Finalizing
  <2>3. fin' \in [Starters -> [pc : FinPlaces, as : Finals \cup {"none"}, try : 0..2,
                               cancelled : BOOLEAN]]
    <3> DEFINE R == [pc : FinPlaces, as : Finals \cup {"none"}, try : 0..2, cancelled : BOOLEAN]
    <3>1. fin \in [Starters -> R]
      BY DEF IInv, Typed, Finalizing
    <3>2. [fin[w] EXCEPT !.pc = "wait", !.try = n] \in R
      BY Zenon, <2>1, <3>1
    <3>3. fin' = [fin EXCEPT ![w] = [fin[w] EXCEPT !.pc = "wait", !.try = n]]
      BY Zenon, <1>1, <3>1 DEF Persist
    <3> HIDE DEF R
    <3>4. fin' \in [Starters -> R]
      BY <3>1, <3>2, <3>3
    <3> QED  BY <3>4 DEF R
  <2>4. \A x \in Starters : fin'[x].pc # "none" => fin'[x].as \in Finals
    BY Zenon, <1>2, <1>3 DEF IInv, Typed, Finalizing
  <2>5. \A x \in Starters : app'[x].pc # "none" => app'[x].as \in Finals
    BY Zenon, <1>3 DEF IInv, Typed, Finalizing
  <2> QED  BY <2>2, <2>3, <2>4, <2>5 DEF Finalizing
<1>5. Typed'
  <2>1. Controls'
    BY Zenon, <1>2 DEF IInv, Typed, Controls
  <2>2. persist' \in {"not_started", "in_flight", "uncertain", "committed"}
    BY Zenon, <1>2
  <2> QED  BY Zenon, <1>2, <1>4, <2>1, <2>2 DEF IInv, Typed
<1>6. /\ Durable' <=> Durable
      /\ \A x : Stored(x)' <=> Stored(x)
      /\ Fine' <=> Fine
  BY Zenon, <1>2, JournalKept
<1>7. Waiting' /\ Safe' /\ reg \notin Early
  BY Zenon, <1>2, <1>3 DEF Waiting, Safe, IInv, Begun
<1>8. Begun' /\ Stopped'
  BY Zenon, <1>2, <1>6, <1>7 DEF Begun, IInv, Stopped
<1>9. Recorded'
  <2>1. ASSUME NEW x \in Starters, app'[x].pc \in {"ok", "late"}
        PROVE  Stored(app[x].as)'
    <3>1. app[x].pc \in {"ok", "late"} /\ app'[x].as = app[x].as
      BY <1>3, <2>1
    <3>2. Stored(app[x].as)
      BY <3>1 DEF IInv, Recorded
    <3> QED  BY Zenon, <1>2, <3>1, <3>2 DEF Stored
  <2> QED  BY Zenon, <1>2, <1>6, <2>1 DEF IInv, Recorded
<1>10. Owned'
  BY Zenon, <1>2, <1>3, <1>7 DEF IInv, Owned
<1>11. Placed'
  <2>1. /\ \A x \in Starters : fin'[x].pc = "none" <=> fin[x].pc = "none"
        /\ "registration" \in Starters /\ "compensation" \in Starters
        /\ "worker" \in Starters /\ "shutdown" \in Starters
    BY <1>2, <1>3 DEF Starters
  <2>2. pend' # "none" /\ (Failed' <=> Failed)
    BY Zenon, <1>2, FaultsCount DEF IInv, Finals, Terminal, Settled, Parks
  <2> QED  BY Zenon, <1>2, <2>1, <2>2 DEF IInv, Placed
<1>12. Held'
  <2>1. \A x \in Starters \ {w} : fin[x].pc # "wait"
    BY Zenon, <1>1 DEF IInv, Held, Starters
  <2>2. n = 1 => as = fin[w].as
    BY Zenon, <1>1
  <2>3. ASSUME NEW x \in Starters
        PROVE  /\ fin'[x].pc = "wait" =>
                    /\ lock' = x /\ app'[x].pc = "flying"
                    /\ fin'[x].try = 1 => app'[x].as = fin'[x].as
               /\ app'[x].pc \in {"err", "check"} => Failed
    <3>1. CASE x = w
      BY Zenon, <1>2, <1>3, <2>2, <3>1
    <3>2. CASE x # w
      BY Zenon, <1>3, <2>1, <3>2 DEF IInv, Held
    <3> QED  BY Zenon, <3>1, <3>2
  <2>4. Failed' <=> Failed
    BY <1>2, FaultsCount DEF IInv
  <2> QED  BY Zenon, <2>3, <2>4 DEF Held
<1>13. Projected'
  BY Zenon, <1>2, <1>3, <1>6, <1>7, FaultsCount DEF IInv, Projected, Reconcilable, Covered
<1> QED  BY <1>5, <1>8, <1>9, <1>10, <1>11, <1>12, <1>13 DEF IInv

LEMMA AppendKeeps ==
  ASSUME IInv, NEW w \in Starters, AppendStored(w) \/ AppendRaises(w)
  PROVE  IInv'
<1>1. /\ UNCHANGED <<reg, worker, intent, shut, succ, mode>>
      /\ UNCHANGED <<state, pend, detached, lock, fin, recon>>
      /\ app[w].pc = "flying" /\ app[w].as \in Finals
  BY DEF AppendStored, AppendRaises, others, IInv, Typed, Finalizing
<1>2. PICK a \in Finals : a = app[w].as
  BY <1>1
<1>3. /\ Finalizing' /\ app'[w].as = a
      /\ \A x \in Starters \ {w} : app'[x] = app[x]
      /\ AppendStored(w) => app'[w].pc = IF detached THEN "late" ELSE "ok"
      /\ AppendRaises(w) => app'[w].pc \in {"err", "check"}
  <2>1. AppendStored(w) => app' = [app EXCEPT ![w].pc = IF detached THEN "late" ELSE "ok"]
    BY DEF AppendStored
  <2>2. AppendRaises(w) => app' = [app EXCEPT ![w].pc = IF detached THEN "check" ELSE "err"]
    BY DEF AppendRaises
  <2>3. PICK pc \in AppPlaces \ {"none"} : app' = [app EXCEPT ![w].pc = pc]
    BY <2>1, <2>2 DEF AppPlaces
  <2>4. /\ Finalizing' /\ app'[w].as = a /\ app'[w].pc = pc
        /\ \A x \in Starters \ {w} : app'[x] = app[x]
    BY <1>1, <1>2, <2>3 DEF IInv, Typed, Finalizing
  <2>5. AppendStored(w) => app'[w].pc = IF detached THEN "late" ELSE "ok"
    BY <2>1 DEF IInv, Typed, Finalizing
  <2>6. AppendRaises(w) => app'[w].pc \in {"err", "check"}
    BY <2>2 DEF IInv, Typed, Finalizing
  <2> QED  BY Zenon, <2>4, <2>5, <2>6
<1>4. /\ AppendStored(w) => Log(a) /\ persist' = "committed" /\ UNCHANGED faults
      /\ AppendRaises(w) => Uncertain /\ faults' \in Nat /\ Failed'
      /\ UNCHANGED journal \/ Log(a)
  BY <1>2, FaultsCount DEF AppendStored, AppendRaises, IInv, Counted
<1>5. a \in Events /\ a # "terminated"
  BY DEF Events, Finals, Terminal, Settled, Parks
<1>6. Log(a) => Grows(a)
  BY <1>5, JournalGrows DEF IInv, Typed
<1>7. /\ journal' \in Seq(Events)
      /\ Durable => Durable'
      /\ \A x : Stored(x) => Stored(x)'
      /\ Stored("terminated")' => Stored("terminated")
  <2>1. CASE UNCHANGED journal
    BY <2>1, JournalKept DEF IInv, Typed
  <2>2. CASE Log(a)
    BY <1>5, <1>6, <2>2 DEF Grows
  <2> QED  BY <1>4, <2>1, <2>2
<1>8. AppendStored(w) => Durable' /\ Stored(a)' /\ (Fine' => ~Durable)
  BY <1>4, <1>6 DEF Grows
<1>9. Typed'
  <2>1. Controls'
    BY Zenon, <1>1 DEF IInv, Typed, Controls
  <2>2. persist' \in {"not_started", "in_flight", "uncertain", "committed"} /\ faults' \in Nat
    BY <1>4 DEF Uncertain, IInv, Typed
  <2> QED  BY Zenon, <1>1, <1>3, <1>7, <2>1, <2>2 DEF IInv, Typed
<1>10. Begun' /\ Stopped'
  BY Zenon, <1>1, <1>7 DEF IInv, Begun, Stopped
<1>11. Recorded'
  <2>1. ASSUME NEW x \in Starters, app'[x].pc \in {"ok", "late"}
        PROVE  Stored(app[x].as)'
    <3>1. CASE x = w
      BY <1>3, <1>8, <2>1, <3>1 DEF Stored
    <3>2. CASE x # w
      BY Zenon, <1>3, <1>7, <2>1, <3>2 DEF IInv, Recorded, Stored
    <3> QED  BY <3>1, <3>2
  <2>2. persist' = "committed" => Durable'
    BY Zenon, <1>4, <1>7, <1>8 DEF Uncertain, IInv, Recorded
  <2> QED  BY Zenon, <1>1, <1>7, <2>1, <2>2 DEF IInv, Recorded
<1>12. Safe'
  <2>1. Safe /\ (Waiting' <=> Waiting)
    BY Zenon, <1>1 DEF IInv, Owned, Waiting
  <2>2. Failed /\ persist = "committed" => Failed' /\ persist' = "committed"
    BY <1>4 DEF Uncertain, Failed
  <2> QED  BY Zenon, <1>1, <2>1, <2>2 DEF Safe
<1>13. Owned'
  BY Zenon, <1>1, <1>12 DEF IInv, Owned
<1>14. Failed => Failed'
  BY <1>4 DEF Failed
<1>15. Placed'
  BY Zenon, <1>1, <1>14 DEF IInv, Placed
<1>16. Held'
  BY Zenon, <1>1, <1>2, <1>3, <1>4, <1>14 DEF IInv, Held
<1>17. Projected'
  <2>1. CASE AppendRaises(w)
    BY <1>4, <2>1 DEF Projected
  <2>2. CASE AppendStored(w)
    <3>1. Covered'
      BY Zenon, <1>8, <2>2 DEF Covered
    <3>2. ASSUME ~Failed', state' = "interrupted", Fine'
          PROVE  Reconcilable'
      <4>1. CASE detached
        BY Zenon, <1>1, <1>3, <1>4, <2>2, <4>1 DEF Reconcilable
      <4>2. CASE ~detached
        <5>1. Covered
          BY <1>4, <2>2, <3>2 DEF IInv, Projected, Failed
        <5>2. fin[w].pc = "wait"
          BY Zenon, <1>1, <1>8, <2>2, <3>2, <4>2, <5>1 DEF Covered
        <5> QED  BY Zenon, <1>1, <5>2 DEF Reconcilable, Waiting
      <4> QED  BY <4>1, <4>2
    <3> QED  BY Zenon, <3>1, <3>2 DEF Projected, Reconcilable
  <2> QED  BY <2>1, <2>2
<1> QED  BY <1>9, <1>10, <1>11, <1>13, <1>15, <1>16, <1>17 DEF IInv

-----------------------------------------------------------------------------
(* STOP, an abandoned resume, messages *)

LEMMA ControlKeeps ==
  ASSUME IInv, Stop \/ Abandon \/ Message
  PROVE  IInv'
<1>1. /\ UNCHANGED <<reg, worker, detached, lock, fin, app, recon, shut, mode, succ>>
      /\ lock = "free"
      /\ faults' \in Nat /\ (Failed => Failed')
  BY Zenon, FaultsCount DEF Stop, Abandon, Message, outside, IInv, Counted
<1>2. Waiting' <=> Waiting
  BY <1>1 DEF Waiting
<1>3. PICK e \in {"terminated", "failed", "message"} :
        /\ UNCHANGED journal \/ Log(e)
        /\ e = "terminated" => Stop
        /\ e = "failed" => Abandon
        /\ e = "message" => Message
  BY DEF Stop, Abandon, Message
<1>4. e \in Events
  BY DEF Events, Finals, Terminal, Settled
<1>5. Log(e) => Grows(e)
  BY <1>4, JournalGrows DEF IInv, Typed
<1>6. /\ journal' \in Seq(Events)
      /\ Durable => Durable'
      /\ \A x : Stored(x) => Stored(x)'
      /\ Stored("terminated")' /\ e # "terminated" => Stored("terminated")
  <2>1. CASE UNCHANGED journal
    BY <2>1, JournalKept DEF IInv, Typed
  <2>2. CASE Log(e)
    BY <1>5, <2>2 DEF Grows
  <2> QED  BY <1>3, <2>1, <2>2
<1>7. /\ state' \in {state, "killed", "failed"}
      /\ state' \in Settled => Durable'
      /\ state' # state => state' \in Finals /\ state \in Finals
      /\ state' = "interrupted" => Failed'
      /\ persist' = "committed" => Durable'
      /\ persist' \in {persist, "committed", "uncertain"}
      /\ persist' # persist => state' \in Finals
      /\ pend' \in {pend, "killed"}
      /\ intent' \in {intent, "cancelled"}
      /\ Stored("terminated")' => state' = "killed" /\ succ # "started"
      /\ reg \in Early => UNCHANGED state /\ e = "message"
  <2>1. CASE e = "terminated"
    <3>1. Stop /\ state = "awaiting_approval" /\ Durable /\ succ # "started"
      BY Zenon, <1>3, <2>1 DEF Stop, IInv, Recorded, Parks
    <3>2. ~Stored("terminated") /\ reg \notin Early
      BY <3>1 DEF IInv, Stopped, Begun
    <3>3. Durable'
      BY <1>6, <3>1
    <3>4. /\ \/ state' = "killed" /\ pend' = "killed" /\ intent' = "cancelled"
             \/ UNCHANGED <<journal, state, pend, intent>>
          /\ UNCHANGED persist
      BY <3>1 DEF Stop
    <3>5. Stored("terminated")' => state' = "killed"
      BY <3>2, <3>4, JournalKept
    <3>6. {"killed", "awaiting_approval"} \subseteq Finals
      BY DEF Finals, Terminal, Settled, Parks
    <3> QED  BY <3>1, <3>2, <3>3, <3>4, <3>5, <3>6
  <2>2. CASE e = "failed"
    <3>1. /\ state \in {"interrupted", "parked"} /\ UNCHANGED <<pend, intent>>
          /\ \/ Log("failed") /\ state' = "failed" /\ persist' = "committed"
             \/ persist' = "uncertain" /\ UNCHANGED state /\ Fault
      BY <1>3, <2>2 DEF Abandon
    <3>2. ~Stored("terminated") /\ reg \notin Early
      BY <3>1 DEF IInv, Stopped, Begun
    <3>3. ~Stored("terminated")'
      BY <1>6, <2>2, <3>2
    <3>4. Log("failed") => Durable'
      BY <1>4, <2>2, JournalGrows DEF Grows, IInv, Typed, Finals, Terminal, Settled
    <3>5. {"failed", "interrupted", "parked"} \subseteq Finals
      BY DEF Finals, Terminal, Settled, Parks
    <3>6. Fault => Failed'
      BY FaultsCount DEF IInv
    <3> QED  BY <3>1, <3>2, <3>3, <3>4, <3>5, <3>6 DEF Settled
  <2>3. CASE e = "message"
    <3>1. /\ state \notin Terminal \cup {"none"}
          /\ UNCHANGED <<state, persist, pend, intent>>
      BY <1>3, <2>3 DEF Message
    <3>2. ~Stored("terminated")'
      BY <1>6, <2>3, <3>1 DEF IInv, Stopped, Terminal, Settled
    <3> QED  BY <1>6, <2>3, <3>1, <3>2 DEF Terminal, IInv, Recorded
  <2> QED  BY Zenon, <2>1, <2>2, <2>3
<1>8. Typed'
  <2>1. Controls'
    BY <1>1, <1>7 DEF IInv, Typed, Controls, Finals, Terminal, Settled
  <2>2. /\ state' \in States
        /\ persist' \in {"not_started", "in_flight", "uncertain", "committed"}
    BY <1>7 DEF IInv, Typed, States
  <2>3. Finalizing' /\ recon' \in BOOLEAN /\ detached' \in BOOLEAN
    BY <1>1 DEF IInv, Typed, Finalizing
  <2> QED  BY <1>1, <1>6, <2>1, <2>2, <2>3 DEF Typed
<1>9. Begun'
  BY Zenon, <1>1, <1>6, <1>7 DEF IInv, Begun
<1>10. Recorded'
  <2>1. ASSUME NEW x \in Starters, app'[x].pc \in {"ok", "late"}
        PROVE  Stored(app[x].as)'
    BY Zenon, <1>1, <1>6, <2>1 DEF IInv, Recorded, Stored
  <2>2. state' \in Settled \cup Parks => Durable'
    BY <1>6, <1>7 DEF IInv, Recorded, Settled, Parks
  <2> QED  BY Zenon, <1>7, <2>1, <2>2 DEF Recorded
<1>11. Stopped'
  BY <1>1, <1>7 DEF Stopped
<1>12. Safe => Safe'
  BY <1>1, <1>2, <1>7 DEF Safe, IInv, Typed
<1>13. persist' # "not_started" => Safe'
  BY <1>7, <1>12 DEF Safe, IInv, Owned
<1>14. Owned'
  BY Zenon, <1>1, <1>7, <1>12, <1>13 DEF IInv, Owned, Finals, Terminal, Settled, Parks
<1>15. Placed'
  BY Zenon, <1>1, <1>7 DEF IInv, Typed, Placed, Finals, Terminal, Settled, Parks
<1>16. Held'
  BY Zenon, <1>1 DEF IInv, Typed, Held
<1>17. Projected'
  BY Zenon, <1>1, <1>6, <1>7 DEF IInv, Typed, Projected, Reconcilable, Covered
<1> QED  BY <1>8, <1>9, <1>10, <1>11, <1>14, <1>15, <1>16, <1>17 DEF IInv

-----------------------------------------------------------------------------
(* The theorems *)

LEMMA InitHolds == Init => IInv
<1> SUFFICES ASSUME Init  PROVE IInv
  OBVIOUS
<1> USE DEF Init
<1>1. /\ \A x : ~Stored(x)
      /\ \A w \in Starters : fin[w] = [pc |-> "none", as |-> "none", try |-> 0,
                                       cancelled |-> FALSE]
      /\ \A w \in Starters : app[w] = [pc |-> "none", as |-> "none"]
  BY DEF Stored
<1>2. Finalizing
  <2>1. 0 \in 0..2 /\ "none" \in FinPlaces /\ "none" \in AppPlaces
    BY DEF FinPlaces, AppPlaces
  <2> QED  BY <2>1 DEF Finalizing
<1>3. Controls
  BY DEF Controls, Early
<1>4. Typed
  <2>1. journal \in Seq(Events) /\ faults \in Nat
    OBVIOUS
  <2>2. /\ state \in States /\ detached \in BOOLEAN /\ recon \in BOOLEAN
        /\ persist \in {"not_started", "in_flight", "uncertain", "committed"}
    BY Zenon DEF States
  <2> QED  BY <1>2, <1>3, <2>1, <2>2 DEF Typed
<1>5. Begun /\ Stopped /\ Placed
  BY Zenon, <1>1 DEF Begun, Stopped, Placed, Early, Starters
<1>6. Recorded /\ Owned /\ Held /\ Projected
  BY Zenon, <1>1 DEF Recorded, Owned, Held, Projected, Reconcilable, Covered, Settled, Parks
<1> QED  BY <1>4, <1>5, <1>6 DEF IInv

LEMMA NextKeeps == IInv /\ [Next]_vars => IInv'
<1> SUFFICES ASSUME IInv, [Next]_vars  PROVE IInv'
  OBVIOUS
<1>1. CASE UNCHANGED vars
  <2>1. Still /\ UNCHANGED <<reg, worker, intent, pend, shut, succ, mode>>
    BY Zenon, <1>1, FaultsCount DEF vars, Still, IInv
  <2>2. \A x : Stored(x)' <=> Stored(x)
    BY <1>1, JournalKept DEF vars
  <2>3. Controls'
    BY <2>1 DEF IInv, Typed, Controls
  <2>4. UNCHANGED <<state, recon, fin, app, faults>>
    BY <1>1 DEF vars
  <2>5. Begun' /\ Stopped'
    BY Zenon, <2>1, <2>2, <2>4 DEF IInv, Begun, Stopped
  <2>6. Placed'
    BY Zenon, <2>1, <2>4 DEF IInv, Placed, Failed
  <2> QED  BY Zenon, <2>1, <2>3, <2>5, <2>6, StillKeeps DEF IInv, Owned
<1>2. CASE Registration
  BY Zenon, <1>2, RegisteringKeeps, HandingKeeps DEF Registration, Registering, Handing, Start
<1>3. CASE Worker
  BY <1>3, SteeringKeeps, HandingKeeps, GiveUpFinalizerKeeps DEF Worker, Steering, Handing
<1>4. CASE Shutdown
  BY <1>4, DrainingKeeps, HandingKeeps, ShutdownEndsKeeps DEF Shutdown, Draining, Handing
<1>5. CASE Control
  BY <1>5, SteeringKeeps, ResumingKeeps, ControlKeeps DEF Control, Steering, Resuming
<1>6. CASE Recon
  BY <1>6, LateKeeps
<1>7. ASSUME NEW w \in Starters, Finalizer(w) \/ AppendTask(w)
      PROVE  IInv'
  <2>1. CASE FinLock(w) \/ FinLockCancelled(w)
    BY <2>1, FinLockSteps, FinLeavesKeeps, FinPersistsKeeps
  <2>2. CASE FinAppended(w) \/ FinRaised(w) \/ FinGivesUp(w)
    <3>1. FinEnded(w) \/ FinRetries(w)
      BY <2>2, FinalizerEnds
    <3> QED  BY <3>1, FinEndedKeeps, FinLockSteps, FinLeavesKeeps, FinPersistsKeeps
  <2>3. CASE AppendTask(w)
    BY <2>3, AppendKeeps, LateKeeps DEF AppendTask
  <2> QED  BY <1>7, <2>1, <2>2, <2>3 DEF Finalizer
<1> QED  BY <1>1, <1>2, <1>3, <1>4, <1>5, <1>6, <1>7 DEF Next

\* Whatever the finalizers, the late appends and the reconciliations do in which
\* order, a task is shown as settled or parked only once a completion of it is in
\* the journal: for every number of failures, outcome set and number of messages.
THEOREM ShownDurable == Spec => []ShownIsDurable
<1>1. IInv => ShownIsDurable
  BY DEF IInv, Recorded, ShownIsDurable, Durable
<1> QED  BY <1>1, InitHolds, NextKeeps, PTL DEF Spec

\* A task whose termination is stored gets no resume successor, and one with a
\* started successor is not terminated: they look at each other under the lock,
\* and the second look of a resume without it refuses a killed task.
THEOREM StoppedOrResumed == Spec => []StoppedNotResumed
<1>1. IInv => StoppedNotResumed
  BY DEF IInv, Stopped, StoppedNotResumed
<1> QED  BY <1>1, InitHolds, NextKeeps, PTL DEF Spec

LEMMA QuietIsClosed ==
  ASSUME IInv, Quiet, shut = "done"
  PROVE  /\ state \in {"pending", "running"} => reg = "lost" \/ persist = "committed"
         /\ ~Failed => state \in Finals
         /\ ~Failed /\ Confirmed \in Settled \cup Parks => state # "interrupted"
<1>1. /\ \A w \in Starters : fin[w].pc # "wait" /\ app[w].pc \notin {"flying", "late"}
      /\ ~recon /\ reg \in {"done", "lost"}
  BY DEF Quiet, Ended
<1>2. ~Waiting
  BY <1>1 DEF Waiting
<1>3. state \in {"pending", "running"} /\ reg = "done" => Safe
  BY DEF IInv, Owned
<1>4. state = "running" => reg = "done"
  BY DEF IInv, Placed
<1>5. state \in {"pending", "running"} => state \notin Finals
  BY DEF Finals, Terminal, Settled, Parks
<1>6. state \in {"pending", "running"} => reg = "lost" \/ (Failed /\ persist = "committed")
  BY <1>1, <1>2, <1>3, <1>5 DEF Safe
<1>7. reg = "lost" \/ state = "none" => Failed
  BY <1>1 DEF IInv, Placed
<1>9. ~Failed => state \in Finals
  BY <1>6, <1>7 DEF IInv, Typed, States
<1>10. ~Failed /\ Confirmed \in Settled \cup Parks => state # "interrupted"
  <2>1. Confirmed \in Settled \cup Parks => Fine
    BY DEF Fine, Settled, Parks
  <2> QED  BY <1>1, <1>2, <2>1 DEF IInv, Projected, Reconcilable
<1> QED  BY <1>6, <1>9, <1>10

\* Once the run is over and nothing is left to run, no task is left open but one
\* whose registration is unknown or whose stored completion could not be
\* published; and without a failure no confirmed completion is left interrupted.
THEOREM NoneLeftBehind == Spec => []NothingLeftBehind
<1>1. IInv => NothingLeftBehind
  BY QuietIsClosed DEF NothingLeftBehind, Failed
<1> QED  BY <1>1, InitHolds, NextKeeps, PTL DEF Spec
=============================================================================
