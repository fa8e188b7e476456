---------------------------- MODULE ServerProofs ----------------------------
(***************************************************************************)
(* The event log, proved for any number of readers, any cursors, either    *)
(* closing and either sink policy; and the teardown of a session, proved   *)
(* for any number of sessions, of final hooks and of owners.               *)
(***************************************************************************)
EXTENDS MCServer, TLAPS

-----------------------------------------------------------------------------
(* The event log *)

\* Where a reader can be.  A yielded reader's index names the entry it yielded; one
\* that ended did so on a log that is closed, so nothing can follow.
Placed ==
  \A i \in Readers :
    /\ reader[i].at = "yielded" => reader[i].index \in 1..Len(entries)
    /\ reader[i].at = "waiting" => ~closed /\ reader[i].index >= Len(entries)
    /\ reader[i].at = "done" => closed /\ reader[i].index >= Len(entries)
    /\ reader[i].at # "idle" => First + reader[i].index > reader[i].after

\* A log that closes on its terminal event is closed once it has one.
ClosesOnTerminal ==
  ~deferred => \A k \in 1..Len(entries) : entries[k] => closed /\ k = Len(entries)

IInv == TypeOK /\ Placed /\ ClosesOnTerminal /\ TerminalAgrees

\* Notify keeps every reader's cursor and index, and leaves none waiting.
LEMMA NotifyMoves ==
  ASSUME TypeOK, Notify
  PROVE  /\ updated' \in BOOLEAN
         /\ reader' \in [Readers -> [at : {"idle", "runs", "yielded", "waiting", "done"},
                                     after : Nat, index : Nat]]
         /\ \A i \in Readers :
              /\ reader'[i].at # "waiting"
              /\ reader'[i].at = reader[i].at \/ (reader[i].at = "waiting" /\ reader'[i].at = "runs")
              /\ reader'[i].index = reader[i].index
              /\ reader'[i].after = reader[i].after
BY Zenon DEF TypeOK, Notify

\* A step of the writer that notifies keeps the readers placed, when the entries only
\* grow, and only on a log that was open.
LEMMA WriterPlaces ==
  ASSUME TypeOK, TypeOK', Placed, Notify,
         closed => closed',
         Len(entries') >= Len(entries),
         closed => entries' = entries
  PROVE  Placed'
<1> SUFFICES ASSUME NEW i \in Readers
    PROVE  /\ reader'[i].at = "yielded" => reader'[i].index \in 1..Len(entries')
           /\ reader'[i].at = "waiting" => ~closed' /\ reader'[i].index >= Len(entries')
           /\ reader'[i].at = "done" => closed' /\ reader'[i].index >= Len(entries')
           /\ reader'[i].at # "idle" => First + reader'[i].index > reader'[i].after
  BY DEF Placed
<1>1. /\ reader'[i].at # "waiting"
      /\ reader'[i].at = reader[i].at \/ (reader[i].at = "waiting" /\ reader'[i].at = "runs")
      /\ reader'[i].index = reader[i].index
      /\ reader'[i].after = reader[i].after
  BY NotifyMoves
<1>2. Len(entries) \in Nat /\ Len(entries') \in Nat /\ reader[i].index \in Nat
  BY DEF TypeOK
<1>3. /\ reader[i].at = "yielded" => reader[i].index \in 1..Len(entries)
      /\ reader[i].at = "done" => closed /\ reader[i].index >= Len(entries)
      /\ reader[i].at # "idle" => First + reader[i].index > reader[i].after
  BY DEF Placed
<1> QED BY <1>1, <1>2, <1>3

\* What storing one event does to the entries.
LEMMA StoredEntry ==
  ASSUME TypeOK, NEW terminal \in BOOLEAN, entries' = Append(entries, terminal)
  PROVE  /\ entries' \in Seq(BOOLEAN)
         /\ Len(entries') = Len(entries) + 1
         /\ Len(entries) \in Nat
         /\ entries'[Len(entries) + 1] = terminal
         /\ \A k \in 1..Len(entries) : entries'[k] = entries[k]
BY DEF TypeOK

\* Storing an event, with the closing and the terminal mark that append gives it.
LEMMA StoreKeeps ==
  ASSUME IInv, NEW terminal \in BOOLEAN, NEW failed \in BOOLEAN,
         ~closed, Notify, UNCHANGED options, failed => strict,
         entries' = Append(entries, terminal),
         closed' \in BOOLEAN,
         terminal /\ ~deferred => closed',
         ended' = (ended \/ (terminal /\ ~failed))
  PROVE  IInv'
<1>1. TypeOK'
  BY StoredEntry, NotifyMoves DEF IInv, TypeOK, options
<1>2. Placed'
  BY <1>1, StoredEntry, WriterPlaces DEF IInv
<1>3. ClosesOnTerminal'
  <2> SUFFICES ASSUME ~deferred, NEW k \in 1..Len(entries'), entries'[k]
      PROVE closed' /\ k = Len(entries')
    BY DEF ClosesOnTerminal, options
  <2>1. k \in 1..Len(entries) => FALSE
    BY StoredEntry DEF IInv, ClosesOnTerminal
  <2>2. k = Len(entries) + 1
    BY <2>1, StoredEntry DEF IInv
  <2> QED BY <2>2, StoredEntry DEF IInv
<1>4. TerminalAgrees'
  <2> SUFFICES ASSUME ~strict PROVE ended' <=> \E k \in 1..Len(entries') : entries'[k]
    BY DEF TerminalAgrees, options
  <2>1. ended <=> \E k \in 1..Len(entries) : entries[k]
    BY DEF IInv, TerminalAgrees
  <2>2. ended' <=> (ended \/ terminal)
    OBVIOUS
  <2>3. (\E k \in 1..Len(entries') : entries'[k])
          <=> ((\E k \in 1..Len(entries) : entries[k]) \/ terminal)
    BY StoredEntry DEF IInv
  <2> QED BY <2>1, <2>2, <2>3
<1> QED BY <1>1, <1>2, <1>3, <1>4 DEF IInv

\* Closing without storing anything.
LEMMA CloseKeeps ==
  ASSUME IInv, closed' = TRUE, Notify, UNCHANGED <<options, entries, ended>>
  PROVE  IInv'
<1>1. TypeOK'
  BY NotifyMoves DEF IInv, TypeOK, options
<1>2. Len(entries') >= Len(entries)
  BY DEF IInv, TypeOK
<1>3. Placed'
  BY <1>1, <1>2, WriterPlaces DEF IInv
<1>4. ClosesOnTerminal' /\ TerminalAgrees'
  BY DEF IInv, ClosesOnTerminal, TerminalAgrees, options
<1> QED BY <1>1, <1>3, <1>4 DEF IInv

\* A step of one reader that leaves the log alone.
LEMMA ReaderKeeps ==
  ASSUME IInv, NEW i \in Readers, UNCHANGED log, updated' \in BOOLEAN,
         NEW rd \in [at : {"idle", "runs", "yielded", "waiting", "done"},
                     after : Nat, index : Nat],
         reader' = [reader EXCEPT ![i] = rd],
         rd.at = "yielded" => rd.index \in 1..Len(entries),
         rd.at = "waiting" => ~closed /\ rd.index >= Len(entries),
         rd.at = "done" => closed /\ rd.index >= Len(entries),
         rd.at # "idle" => First + rd.index > rd.after
  PROVE  IInv'
<1>1. TypeOK'
  BY DEF IInv, TypeOK, log, options
<1>2. Placed'
  BY DEF IInv, TypeOK, Placed, log
<1>3. ClosesOnTerminal' /\ TerminalAgrees'
  BY DEF IInv, ClosesOnTerminal, TerminalAgrees, log, options
<1> QED BY <1>1, <1>2, <1>3 DEF IInv

LEMMA IterFromKeeps ==
  ASSUME IInv, NEW i \in Readers, NEW after \in Cursors, IterFrom(i, after)
  PROVE  IInv'
<1> DEFINE rd == [at |-> "runs", after |-> after, index |-> StartIndex(after)]
<1>1. after \in Nat /\ First \in Nat
  BY ConstantsType
<1>2. StartIndex(after) \in Nat /\ First + StartIndex(after) > after
  BY <1>1 DEF StartIndex
<1>3. rd \in [at : {"idle", "runs", "yielded", "waiting", "done"}, after : Nat, index : Nat]
  BY <1>1, <1>2
<1>4. reader' = [reader EXCEPT ![i] = rd] /\ UNCHANGED log /\ updated' \in BOOLEAN
  BY DEF IterFrom, IInv, TypeOK
<1>5. rd.at = "runs" /\ First + rd.index > rd.after
  BY <1>2
<1> HIDE DEF rd
<1> QED BY Zenon, <1>3, <1>4, <1>5, ReaderKeeps

LEMMA ResumeKeeps ==
  ASSUME IInv, NEW i \in Readers, Resume(i)
  PROVE  IInv'
<1> DEFINE k == reader[i].index
           stops == reader[i].at = "yielded" /\ entries[k] /\ ~deferred
           Types == [at : {"idle", "runs", "yielded", "waiting", "done"}, after : Nat, index : Nat]
<1>1. /\ reader \in [Readers -> Types] /\ reader[i] \in Types
      /\ k \in Nat /\ Len(entries) \in Nat /\ First \in Nat /\ reader[i].after \in Nat
      /\ updated \in BOOLEAN
  BY ConstantsType DEF IInv, TypeOK
<1>2. First + k > reader[i].after
  BY DEF Resume, IInv, Placed
<1>3. UNCHANGED log
  BY DEF Resume
<1>4. CASE stops /\ Finish(i)
  <2>1. closed /\ k >= Len(entries)
    BY <1>1, <1>4 DEF IInv, Placed, ClosesOnTerminal
  <2> DEFINE rd == [reader[i] EXCEPT !.at = "done"]
  <2>2. rd \in Types /\ rd.at = "done" /\ rd.index = k /\ rd.after = reader[i].after
    BY <1>1
  <2>3. reader' = [reader EXCEPT ![i] = rd] /\ updated' \in BOOLEAN
    BY <1>1, <1>4 DEF Finish
  <2> HIDE DEF rd
  <2> QED BY Zenon, <1>2, <1>3, <2>1, <2>2, <2>3, ReaderKeeps
<1>5. CASE k < Len(entries) /\ Yield(i)
  <2> DEFINE rd == Yielding(reader[i])
  <2>1. k + 1 \in Nat /\ k + 1 \in 1..Len(entries) /\ First + (k + 1) > reader[i].after
    BY <1>1, <1>2, <1>5
  <2>2. rd \in Types /\ rd.at = "yielded" /\ rd.index = k + 1 /\ rd.after = reader[i].after
    BY Zenon, <1>1, <2>1 DEF Yielding
  <2>3. reader' = [reader EXCEPT ![i] = rd] /\ updated' \in BOOLEAN
    BY <1>1, <1>5 DEF Yield
  <2> HIDE DEF rd
  <2> QED BY Zenon, <1>3, <2>1, <2>2, <2>3, ReaderKeeps
<1>6. CASE k >= Len(entries) /\ closed /\ Finish(i)
  <2> DEFINE rd == [reader[i] EXCEPT !.at = "done"]
  <2>1. rd \in Types /\ rd.at = "done" /\ rd.index = k /\ rd.after = reader[i].after
    BY <1>1
  <2>2. reader' = [reader EXCEPT ![i] = rd] /\ updated' \in BOOLEAN
    BY <1>1, <1>6 DEF Finish
  <2> HIDE DEF rd
  <2> QED BY Zenon, <1>2, <1>3, <1>6, <2>1, <2>2, ReaderKeeps
<1>7. CASE k >= Len(entries) /\ ~closed /\ Wait(i)
  <2> DEFINE rd == [reader[i] EXCEPT !.at = "waiting"]
  <2>1. rd \in Types /\ rd.at = "waiting" /\ rd.index = k /\ rd.after = reader[i].after
    BY <1>1
  <2>2. reader' = [reader EXCEPT ![i] = rd] /\ updated' \in BOOLEAN
    BY Zenon, <1>1, <1>7 DEF Wait
  <2> HIDE DEF rd
  <2> QED BY Zenon, <1>2, <1>3, <1>7, <2>1, <2>2, ReaderKeeps
<1> QED BY <1>4, <1>5, <1>6, <1>7 DEF Resume

LEMMA InitHolds == Init => IInv
<1> SUFFICES ASSUME Init PROVE IInv
  OBVIOUS
<1>1. TypeOK
  <2>1. Idle \in [at : {"idle", "runs", "yielded", "waiting", "done"}, after : Nat, index : Nat]
    BY DEF Idle
  <2>2. reader = [i \in Readers |-> Idle]
    BY DEF Init
  <2>3. reader \in [Readers -> [at : {"idle", "runs", "yielded", "waiting", "done"},
                                after : Nat, index : Nat]]
    BY <2>1, <2>2, Zenon
  <2>4. deferred \in BOOLEAN /\ strict \in BOOLEAN /\ closed \in BOOLEAN /\ ended \in BOOLEAN /\ updated \in BOOLEAN
    BY Zenon DEF Init
  <2>5. <<>> \in Seq(BOOLEAN)
    OBVIOUS
  <2>6. entries \in Seq(BOOLEAN)
    BY <2>5 DEF Init
  <2> QED BY <2>3, <2>4, <2>6 DEF TypeOK
<1>2. Placed
  BY Zenon DEF Init, Placed, Idle
<1>3. entries = <<>> /\ Len(entries) = 0 /\ ended = FALSE
  BY DEF Init
<1>4. ClosesOnTerminal /\ TerminalAgrees
  BY <1>3 DEF ClosesOnTerminal, TerminalAgrees
<1> QED BY <1>1, <1>2, <1>4 DEF IInv

LEMMA StepKeeps == IInv /\ [Next]_vars => IInv'
<1> SUFFICES ASSUME IInv, [Next]_vars PROVE IInv'
  OBVIOUS
<1>1. CASE \E terminal, sinkFails \in BOOLEAN : AppendEvent(terminal, sinkFails)
  <2> PICK terminal \in BOOLEAN, sinkFails \in BOOLEAN : AppendEvent(terminal, sinkFails)
    BY <1>1
  <2> DEFINE failed == sinkFails /\ strict
  <2>1. failed \in BOOLEAN /\ (failed => strict)
    BY DEF IInv, TypeOK
  <2>2. /\ ~closed /\ Notify /\ UNCHANGED options /\ entries' = Append(entries, terminal)
        /\ closed' \in BOOLEAN
        /\ terminal /\ ~deferred => closed'
        /\ ended' = (ended \/ (terminal /\ ~failed))
    BY DEF AppendEvent
  <2> HIDE DEF failed
  <2> QED BY <2>1, <2>2, StoreKeeps
<1>2. CASE PrepareFails \/ CloseWithoutTerminal
  BY Zenon, <1>2, CloseKeeps DEF PrepareFails, CloseWithoutTerminal
<1>3. CASE \E sinkFails \in BOOLEAN : Close(sinkFails)
  <2> PICK sinkFails \in BOOLEAN : Close(sinkFails)
    BY <1>3
  <2>1. CASE ended
    BY <2>1, CloseKeeps DEF Close
  <2>2. CASE ~ended
    <3> DEFINE failed == sinkFails /\ strict
    <3>1. failed \in BOOLEAN /\ (failed => strict)
      BY DEF IInv, TypeOK
    <3>2. /\ ~closed /\ Notify /\ UNCHANGED options /\ entries' = Append(entries, TRUE)
          /\ closed' = TRUE /\ ended' = (ended \/ (TRUE /\ ~failed))
      BY Zenon, <2>2 DEF Close, IInv, TypeOK
    <3> HIDE DEF failed
    <3> QED BY Zenon, <3>1, <3>2, StoreKeeps
  <2> QED BY <2>1, <2>2
<1>4. CASE \E i \in Readers, after \in Cursors : IterFrom(i, after)
  BY <1>4, IterFromKeeps
<1>5. CASE \E i \in Readers : Resume(i)
  BY <1>5, ResumeKeeps
<1>6. CASE UNCHANGED vars
  BY <1>6 DEF IInv, TypeOK, Placed, ClosesOnTerminal, TerminalAgrees, vars, options
<1> QED BY <1>1, <1>2, <1>3, <1>4, <1>5, <1>6 DEF Next

LEMMA Invariance == Spec => []IInv
BY InitHolds, StepKeeps, PTL DEF Spec

\* The log and its iterators keep their types, whatever appends, fails and closes.
THEOREM TypeCorrect == Spec => []TypeOK
<1>1. IInv => TypeOK
  BY DEF IInv
<1> QED BY <1>1, Invariance, PTL

\* iter_from never returns early: an iterator that ended was given everything the log
\* holds from then on.
THEOREM ReadersComplete == Spec => []DoneHasAll
<1>1. IInv => DoneHasAll
  BY DEF IInv, Placed, DoneHasAll
<1> QED BY <1>1, Invariance, PTL

\* No append and no close is missed by a reader that waits on _updated, although
\* every reader clears the event all of them share.
THEOREM WakeupsAreKept == Spec => []NoLostWakeup
<1>1. IInv => NoLostWakeup
  BY DEF IInv, Placed, NoLostWakeup
<1> QED BY <1>1, Invariance, PTL

\* A log that closes on its terminal event has one, as its last entry.
THEOREM TerminalIsLast == Spec => []TerminalLast
<1>1. IInv => TerminalLast
  BY DEF IInv, ClosesOnTerminal, TerminalLast
<1> QED BY <1>1, Invariance, PTL

\* With ignored sink errors the terminal mark and the entries agree.
THEOREM TerminalMarkAgrees == Spec => []TerminalAgrees
<1>1. IInv => TerminalAgrees
  BY DEF IInv
<1> QED BY <1>1, Invariance, PTL

\* What StartsAfterCursor says of one reader in one step.
Exact(i) ==
  /\ reader[i].at = "idle" /\ reader'[i].at # "idle" =>
       \A k \in 1..reader'[i].index : First + k - 1 <= reader'[i].after
  /\ reader[i].at # "yielded" /\ reader'[i].at = "yielded" =>
       First + reader'[i].index - 1 > reader[i].after

\* A step that changes only where readers other than j wait, and puts j at rd, is
\* exact when it is for j.
LEMMA OthersExact ==
  ASSUME TypeOK, NEW j \in Readers, NEW rd, reader' = [reader EXCEPT ![j] = rd], Exact(j)
  PROVE  \A i \in Readers : Exact(i)
<1> SUFFICES ASSUME NEW i \in Readers, i # j PROVE Exact(i)
  OBVIOUS
<1>1. reader'[i] = reader[i]
  BY DEF TypeOK
<1> QED BY <1>1 DEF Exact

LEMMA ResumeExact ==
  ASSUME IInv, NEW j \in Readers, Resume(j)
  PROVE  \A i \in Readers : Exact(i)
<1>1. TypeOK /\ reader[j].at \in {"runs", "yielded"}
  BY DEF IInv, Resume
<1>2. CASE Yield(j)
  <2>1. reader' = [reader EXCEPT ![j] = Yielding(reader[j])]
    BY <1>2 DEF Yield
  <2>2. reader'[j] = Yielding(reader[j])
    BY <1>1, <2>1 DEF TypeOK
  <2>3. reader'[j].index = reader[j].index + 1
    BY <1>1, <2>2 DEF TypeOK, Yielding
  <2>4. First + reader[j].index > reader[j].after
    BY <1>1 DEF IInv, Placed
  <2>5. reader[j].index \in Nat /\ First \in Nat /\ reader[j].after \in Nat
    BY <1>1, ConstantsType DEF TypeOK
  <2>6. Exact(j)
    BY <1>1, <2>3, <2>4, <2>5 DEF Exact
  <2> QED BY Zenon, <1>1, <2>1, <2>6, OthersExact
<1>3. CASE Finish(j)
  <2>1. reader' = [reader EXCEPT ![j] = [reader[j] EXCEPT !.at = "done"]]
    BY <1>1, <1>3 DEF Finish, TypeOK
  <2>2. reader'[j].at = "done"
    BY <1>1, <2>1 DEF TypeOK
  <2>3. Exact(j)
    BY <1>1, <2>2 DEF Exact
  <2> QED BY Zenon, <1>1, <2>1, <2>3, OthersExact
<1>4. CASE Wait(j)
  <2>1. reader' = [reader EXCEPT ![j] = [reader[j] EXCEPT !.at = "waiting"]]
    BY <1>1, <1>4 DEF Wait, TypeOK
  <2>2. reader'[j].at = "waiting"
    BY <1>1, <2>1 DEF TypeOK
  <2>3. Exact(j)
    BY <1>1, <2>2 DEF Exact
  <2> QED BY Zenon, <1>1, <2>1, <2>3, OthersExact
<1> QED BY <1>2, <1>3, <1>4 DEF Resume

LEMMA IterFromExact ==
  ASSUME IInv, NEW j \in Readers, NEW after \in Cursors, IterFrom(j, after)
  PROVE  \A i \in Readers : Exact(i)
<1> DEFINE rd == [at |-> "runs", after |-> after, index |-> StartIndex(after)]
<1>1. TypeOK /\ after \in Nat /\ First \in Nat
  BY ConstantsType DEF IInv
<1>2. reader' = [reader EXCEPT ![j] = rd]
  BY DEF IterFrom
<1>3. reader'[j] = rd
  BY <1>1, <1>2 DEF TypeOK
<1>4. \A k \in 1..StartIndex(after) : First + k - 1 <= after
  BY <1>1 DEF StartIndex
<1>5. Exact(j)
  BY <1>3, <1>4 DEF Exact
<1> HIDE DEF rd
<1> QED BY Zenon, <1>1, <1>2, <1>5, OthersExact

\* iter_from skips exactly what its cursor covers, also on a continuation log whose
\* first number is not 1.
THEOREM CursorsAreExact == Spec => StartsAfterCursor
<1>1. IInv /\ [Next]_vars => [\A i \in Readers : Exact(i)]_vars
  <2> SUFFICES ASSUME IInv, Next PROVE \A i \in Readers : Exact(i)
    OBVIOUS
  <2>1. Notify => \A i \in Readers : Exact(i)
    BY NotifyMoves DEF IInv, Exact
  <2>2. CASE \E terminal, sinkFails \in BOOLEAN : AppendEvent(terminal, sinkFails)
    BY <2>1, <2>2 DEF AppendEvent
  <2>3. CASE PrepareFails \/ CloseWithoutTerminal
    BY <2>1, <2>3 DEF PrepareFails, CloseWithoutTerminal
  <2>4. CASE \E sinkFails \in BOOLEAN : Close(sinkFails)
    BY <2>1, <2>4 DEF Close
  <2>5. CASE \E j \in Readers, after \in Cursors : IterFrom(j, after)
    BY <2>5, IterFromExact
  <2>6. CASE \E j \in Readers : Resume(j)
    BY <2>6, ResumeExact
  <2> QED BY Zenon, <2>2, <2>3, <2>4, <2>5, <2>6 DEF Next
<1>2. (\A i \in Readers : Exact(i)) => \A i \in Readers :
        /\ reader[i].at = "idle" /\ reader'[i].at # "idle" =>
             \A k \in 1..reader'[i].index : First + k - 1 <= reader'[i].after
        /\ reader[i].at # "yielded" /\ reader'[i].at = "yielded" =>
             First + reader'[i].index - 1 > reader[i].after
  BY DEF Exact
<1> QED BY <1>1, <1>2, Invariance, PTL DEF Spec, StartsAfterCursor

-----------------------------------------------------------------------------
(* The session store.  A step of the store touches one session; the invariant
   speaks of one session at a time. *)

Owners == [now : Nat, ever : Nat]
Session == [made : BOOLEAN, expired : BOOLEAN, hooksComplete : BOOLEAN, hookIndex : Nat,
            task : {"none", "started", "hooks", "final", "done"}, timer : {"none", "armed"},
            expiring : BOOLEAN, files : BOOLEAN]

Typed ==
  /\ table \subseteq Sessions
  /\ sess \in [Sessions -> Session]
  /\ owners \in [Sessions -> Owners]
  /\ ran \in [Sessions -> Nat]
  /\ hooked \in [Sessions -> [1..FinalHooks -> Nat]]

\* The registry and the task of s: it is registered until its files are gone, and
\* a task only runs while it is.
Registered(s) ==
  /\ s \in table => sess[s].made /\ sess[s].files
  /\ s \notin table => sess[s].task \in {"none", "done"}
  /\ s \notin table /\ sess[s].made => ~sess[s].files
  /\ ~sess[s].made => sess[s].files /\ ~sess[s].expiring

\* The progress of its expiry: hooks, then the question to the blockers, then the
\* final hooks one by one.
Ordered(s) ==
  /\ sess[s].task = "hooks" => ~sess[s].hooksComplete
  /\ sess[s].task \in {"started", "hooks"} => sess[s].expired
  /\ sess[s].task = "final" => sess[s].expiring /\ sess[s].hookIndex < FinalHooks
  /\ sess[s].expiring => sess[s].expired /\ sess[s].hooksComplete
  /\ sess[s].hookIndex <= FinalHooks
  /\ sess[s].files => sess[s].hookIndex < FinalHooks \/ FinalHooks = 0
  /\ ~sess[s].files => sess[s].expiring /\ sess[s].hookIndex = FinalHooks

\* What ran, and who still owns the session.
Counted(s) ==
  /\ sess[s].expiring => owners[s].now = 0
  /\ ran[s] = IF sess[s].hooksComplete THEN 1 ELSE 0
  /\ \A h \in 1..FinalHooks : hooked[s][h] = IF h <= sess[s].hookIndex THEN 1 ELSE 0

Good(s) == Registered(s) /\ Ordered(s) /\ Counted(s)

StoreIInv == Typed /\ \A s \in Sessions : Good(s)

-----------------------------------------------------------------------------
\* A session no variable of which changed keeps what is said of it.
LEMMA Untouched ==
  ASSUME NEW s, Good(s), sess'[s] = sess[s], owners'[s] = owners[s], ran'[s] = ran[s],
         hooked'[s] = hooked[s], s \in table' <=> s \in table
  PROVE  Good(s)'
BY DEF Good, Registered, Ordered, Counted

LEMMA Initially == ASSUME FinalHooks \in Nat, Store!Init PROVE StoreIInv
<1>1. Typed
  BY DEF Store!Init, Typed, Store!Fresh, Session, Owners
<1>2. ASSUME NEW s \in Sessions PROVE Good(s)
  <2>1. /\ sess[s] = Store!Fresh /\ owners[s].now = 0 /\ ran[s] = 0 /\ s \notin table
        /\ \A h \in 1..FinalHooks : hooked[s][h] = 0
    BY DEF Store!Init
  <2> QED BY <2>1 DEF Good, Registered, Ordered, Counted, Store!Fresh
<1> QED BY <1>1, <1>2 DEF StoreIInv

-----------------------------------------------------------------------------
\* A step of s leaves every other session alone.
Others(s) ==
  \A o \in Sessions \ {s} :
    /\ sess'[o] = sess[o] /\ owners'[o] = owners[o] /\ ran'[o] = ran[o] /\ hooked'[o] = hooked[o]
    /\ o \in table' <=> o \in table

\* What replacing the fields of s does.
LEMMA Update ==
  ASSUME NEW s \in Sessions, Typed, NEW x \in Session, sess' = [sess EXCEPT ![s] = x]
  PROVE  /\ sess' \in [Sessions -> Session] /\ sess'[s] = x
         /\ \A o \in Sessions \ {s} : sess'[o] = sess[o]
BY DEF Typed

LEMMA RegisterKeeps ==
  ASSUME FinalHooks \in Nat, NEW s \in Sessions, Typed, Good(s), Store!Register(s)
  PROVE  Typed' /\ Good(s)' /\ Others(s)
<1>0. sess[s] \in Session /\ [sess[s] EXCEPT !.made = TRUE] \in Session
  BY Zenon DEF Typed, Session
<1>1. /\ sess' \in [Sessions -> Session] /\ sess'[s] = [sess[s] EXCEPT !.made = TRUE]
      /\ \A o \in Sessions \ {s} : sess'[o] = sess[o]
  BY Zenon, <1>0, Update DEF Store!Register
<1>2. Typed' /\ Others(s)
  BY <1>1 DEF Typed, Store!Register, Others
<1>3. Good(s)'
  BY <1>0, <1>1 DEF Good, Registered, Ordered, Counted, Store!Register, Typed, Session
<1> QED BY <1>2, <1>3

LEMMA AcquireKeeps ==
  ASSUME FinalHooks \in Nat, NEW s \in Sessions, Typed, Good(s), Store!Acquire(s)
  PROVE  Typed' /\ Good(s)' /\ Others(s)
<1>1. owners[s].now \in Nat /\ owners[s].ever \in Nat
  BY DEF Typed, Owners
<1>2. Typed' /\ Others(s)
  BY <1>1 DEF Typed, Store!Acquire, Others, Owners
<1>3. ~sess[s].expiring
  BY DEF Good, Ordered, Counted, Store!Acquire
<1>4. Good(s)'
  BY <1>3 DEF Good, Registered, Ordered, Counted, Store!Acquire
<1> QED BY <1>2, <1>4

LEMMA ReleaseKeeps ==
  ASSUME FinalHooks \in Nat, NEW s \in Sessions, Typed, Good(s), Store!ReleaseOwner(s)
  PROVE  Typed' /\ Good(s)' /\ Others(s)
<1>1. owners[s].now \in Nat /\ owners[s].now > 0 /\ owners[s] \in Owners
  BY DEF Typed, Owners, Store!ReleaseOwner
<1>2. owners[s].now - 1 \in Nat
  BY <1>1
<1>3. Typed' /\ Others(s)
  BY Zenon, <1>1, <1>2 DEF Typed, Store!ReleaseOwner, Others, Owners
<1>4. ~sess[s].expiring
  BY <1>1 DEF Good, Counted
<1>5. Good(s)'
  BY <1>4 DEF Good, Registered, Ordered, Counted, Store!ReleaseOwner
<1> QED BY <1>3, <1>5

\* Setting the flag, and starting a task where none runs.
LEMMA ExpiredKeeps ==
  ASSUME FinalHooks \in Nat, NEW s \in Sessions, Typed, Good(s), s \in table, NEW t,
         NEW m \in {"none", "armed"},
         t = sess[s].task \/ (t = "started" /\ ~Store!Running(sess[s])),
         sess' = [sess EXCEPT ![s] = [sess[s] EXCEPT !.expired = TRUE, !.task = t, !.timer = m]],
         UNCHANGED <<table, owners, ran, hooked>>
  PROVE  Typed' /\ Good(s)' /\ Others(s)
<1> DEFINE x == [sess[s] EXCEPT !.expired = TRUE, !.task = t, !.timer = m]
<1>0. sess[s] \in Session
  BY DEF Typed
<1>1. sess[s] \in Session /\ x \in Session
  <2>1. t \in {"none", "started", "hooks", "final", "done"}
    BY <1>0 DEF Session
  <2> QED BY Zenon, <1>0, <2>1 DEF Session
<1>2. /\ sess' \in [Sessions -> Session] /\ sess'[s] = x
      /\ \A o \in Sessions \ {s} : sess'[o] = sess[o]
  BY Zenon, <1>1, Update
<1>3. Typed' /\ Others(s)
  BY <1>2 DEF Typed, Others
<1>4. /\ x.made = sess[s].made /\ x.expired = TRUE /\ x.hooksComplete = sess[s].hooksComplete
      /\ x.hookIndex = sess[s].hookIndex /\ x.task = t /\ x.expiring = sess[s].expiring
      /\ x.files = sess[s].files
  BY <1>1 DEF Session
<1> HIDE DEF x
<1>5. Registered(s)'
  BY <1>2, <1>4 DEF Good, Registered
<1>6. Ordered(s)'
  BY <1>2, <1>4 DEF Good, Ordered
<1>7. Counted(s)'
  BY <1>2, <1>4 DEF Good, Counted
<1> QED BY <1>3, <1>5, <1>6, <1>7 DEF Good

LEMMA ExpireKeeps ==
  ASSUME FinalHooks \in Nat, NEW s \in Sessions, Typed, Good(s), Store!Expire(s)
  PROVE  Typed' /\ Good(s)' /\ Others(s)
<1> DEFINE t == IF Store!Running(sess[s]) THEN sess[s].task ELSE "started"
<1>1. sess[s] \in Session
  BY DEF Typed
<1>2. sess' = [sess EXCEPT ![s] = [sess[s] EXCEPT !.expired = TRUE, !.task = t,
                                              !.timer = sess[s].timer]]
  BY Zenon, <1>1 DEF Store!Expire, Store!Expiring, Typed, Session
<1>3. sess[s].timer \in {"none", "armed"}
  BY <1>1 DEF Session
<1> QED BY Zenon, <1>2, <1>3, ExpiredKeeps DEF Store!Expire

LEMMA ExpireOffLoopKeeps ==
  ASSUME FinalHooks \in Nat, NEW s \in Sessions, Typed, Good(s), Store!ExpireOffLoop(s)
  PROVE  Typed' /\ Good(s)' /\ Others(s)
<1>1. sess[s] \in Session
  BY DEF Typed
<1>2. sess' = [sess EXCEPT ![s] = [sess[s] EXCEPT !.expired = TRUE, !.task = sess[s].task,
                                              !.timer = sess[s].timer]]
  BY Zenon, <1>1 DEF Store!ExpireOffLoop, Typed, Session
<1>3. sess[s].timer \in {"none", "armed"}
  BY <1>1 DEF Session
<1> QED BY Zenon, <1>2, <1>3, ExpiredKeeps DEF Store!ExpireOffLoop

-----------------------------------------------------------------------------
\* The fields x of a registered session, between two awaits of its task.
Fields(s, x) ==
  /\ x \in Session /\ x.made /\ x.files /\ x.expired
  /\ x.task \in {"hooks", "final", "done"}
  /\ x.task = "hooks" => ~x.hooksComplete
  /\ x.task = "final" => x.expiring
  /\ x.expiring => x.hooksComplete /\ owners[s].now = 0
  /\ x.hookIndex <= FinalHooks
  /\ x.task # "final" => x.hookIndex < FinalHooks \/ FinalHooks = 0

\* The task that suspends with such fields, or leaves the table with them.
LEMMA BecomesKeeps ==
  ASSUME FinalHooks \in Nat, NEW s \in Sessions, Typed, s \in table, NEW x, Fields(s, x),
         Store!Becomes(s, x), UNCHANGED owners,
         ran' \in [Sessions -> Nat], hooked' \in [Sessions -> [1..FinalHooks -> Nat]],
         ran'[s] = IF x.hooksComplete THEN 1 ELSE 0,
         \A h \in 1..FinalHooks : hooked'[s][h] = IF h <= x.hookIndex THEN 1 ELSE 0
  PROVE  /\ Typed' /\ Good(s)'
         /\ \A o \in Sessions \ {s} : sess'[o] = sess[o] /\ (o \in table' <=> o \in table)
<1> DEFINE y == IF Store!Leaves(x) THEN [x EXCEPT !.files = FALSE, !.task = "done"] ELSE x
<1>1. x \in Session /\ y \in Session
  BY Zenon DEF Fields, Session
<1>2. /\ sess' \in [Sessions -> Session] /\ sess'[s] = y
      /\ \A o \in Sessions \ {s} : sess'[o] = sess[o]
  BY Zenon, <1>1, Update DEF Store!Becomes
<1>3. Typed' /\ \A o \in Sessions \ {s} : o \in table' <=> o \in table
  BY <1>2 DEF Typed, Store!Becomes
<1>4. CASE Store!Leaves(x)
  <2>1. /\ y.made = x.made /\ y.expired = x.expired /\ y.hooksComplete = x.hooksComplete
        /\ y.hookIndex = x.hookIndex /\ y.task = "done" /\ y.expiring = x.expiring
        /\ y.files = FALSE /\ s \notin table' /\ x.task = "final" /\ x.hookIndex = FinalHooks
    BY <1>1, <1>4 DEF Session, Store!Leaves, Store!Becomes
  <2> HIDE DEF y
  <2>2. Registered(s)'
    BY <1>2, <2>1 DEF Registered, Fields
  <2>3. Ordered(s)'
    BY <1>2, <2>1 DEF Ordered, Fields
  <2>4. Counted(s)'
    BY <1>2, <2>1 DEF Counted, Fields
  <2> QED BY <1>2, <1>3, <2>2, <2>3, <2>4 DEF Good
<1>5. CASE ~Store!Leaves(x)
  <2>1. y = x /\ s \in table'
    BY <1>5 DEF Store!Becomes
  <2> HIDE DEF y
  <2>2. Registered(s)'
    BY <1>2, <2>1 DEF Registered, Fields
  <2>3. x.task = "final" => x.hookIndex < FinalHooks
    <3>1. x.hookIndex \in Nat
      BY <1>1 DEF Session
    <3> QED BY <1>5, <3>1 DEF Store!Leaves, Fields
  <2>4. Ordered(s)'
    BY <1>2, <2>1, <2>3 DEF Ordered, Fields
  <2>5. Counted(s)'
    BY <1>2, <2>1 DEF Counted, Fields
  <2> QED BY <1>2, <1>3, <2>2, <2>4, <2>5 DEF Good
<1> QED BY <1>4, <1>5

\* The fields after the immediate hooks, from fields before them.
LEMMA AfterHooksFields ==
  ASSUME FinalHooks \in Nat, NEW s \in Sessions, Typed, NEW x \in Session, x.made, x.files, x.expired,
         x.expiring => owners[s].now = 0, x.hookIndex < FinalHooks \/ (FinalHooks = 0 /\ x.hookIndex = 0)
  PROVE  /\ Fields(s, Store!AfterHooks(s, x)) /\ Store!AfterHooks(s, x).hooksComplete
         /\ Store!AfterHooks(s, x).hookIndex = x.hookIndex
<1>1. owners[s].now \in Nat /\ x.hookIndex \in Nat
  BY DEF Typed, Owners, Session
<1>2. CASE Store!Blocked(s)
  <2> DEFINE z == [x EXCEPT !.hooksComplete = TRUE, !.task = "done", !.timer = "armed"]
  <2>1. Store!AfterHooks(s, x) = z
    BY Zenon, <1>2 DEF Store!AfterHooks, Store!WithRetry, Session
  <2>2. /\ z \in Session /\ z.made = x.made /\ z.files = x.files /\ z.expired = x.expired
        /\ z.hooksComplete = TRUE /\ z.task = "done" /\ z.expiring = x.expiring /\ z.hookIndex = x.hookIndex
    BY Zenon DEF Session
  <2> HIDE DEF z
  <2> QED BY <1>1, <2>1, <2>2 DEF Fields
<1>3. CASE ~Store!Blocked(s)
  <2> DEFINE z == [x EXCEPT !.hooksComplete = TRUE, !.expiring = TRUE, !.task = "final"]
  <2>1. Store!AfterHooks(s, x) = z
    BY <1>3 DEF Store!AfterHooks
  <2>2. /\ z \in Session /\ z.made = x.made /\ z.files = x.files /\ z.expired = x.expired
        /\ z.hooksComplete = TRUE /\ z.task = "final" /\ z.expiring = TRUE /\ z.hookIndex = x.hookIndex
    BY Zenon DEF Session
  <2>3. owners[s].now = 0
    BY <1>1, <1>3 DEF Store!Blocked
  <2> HIDE DEF z
  <2> QED BY <1>1, <2>1, <2>2, <2>3 DEF Fields
<1> QED BY <1>2, <1>3

-----------------------------------------------------------------------------
LEMMA TaskStartKeeps ==
  ASSUME FinalHooks \in Nat, NEW s \in Sessions, Typed, Good(s), Store!TaskStart(s)
  PROVE  Typed' /\ Good(s)' /\ Others(s)
<1> DEFINE x == [sess[s] EXCEPT !.timer = "none"]
<1>1. sess[s] \in Session /\ sess[s].task = "started" /\ s \in table
  BY DEF Typed, Good, Registered, Store!TaskStart
<1>2. /\ sess[s].made /\ sess[s].files /\ sess[s].expired
      /\ sess[s].expiring => sess[s].hooksComplete /\ owners[s].now = 0
      /\ sess[s].hookIndex <= FinalHooks /\ sess[s].hookIndex \in Nat
      /\ sess[s].hookIndex < FinalHooks \/ (FinalHooks = 0 /\ sess[s].hookIndex = 0)
  BY <1>1 DEF Good, Registered, Ordered, Counted, Session
<1>3. /\ x \in Session /\ x.made = sess[s].made /\ x.files = sess[s].files
      /\ x.expired = sess[s].expired /\ x.expiring = sess[s].expiring
      /\ x.hooksComplete = sess[s].hooksComplete /\ x.hookIndex = sess[s].hookIndex
  BY <1>1 DEF Session
<1>4. /\ Store!Becomes(s, IF x.hooksComplete THEN Store!AfterHooks(s, x) ELSE [x EXCEPT !.task = "hooks"])
      /\ UNCHANGED <<owners, ran, hooked>>
  BY DEF Store!TaskStart
<1> HIDE DEF x
<1>5. /\ ran[s] = IF x.hooksComplete THEN 1 ELSE 0
      /\ \A h \in 1..FinalHooks : hooked[s][h] = IF h <= x.hookIndex THEN 1 ELSE 0
  BY <1>3 DEF Good, Counted
<1>6. CASE x.hooksComplete
  <2>1. /\ Fields(s, Store!AfterHooks(s, x)) /\ Store!AfterHooks(s, x).hooksComplete
        /\ Store!AfterHooks(s, x).hookIndex = x.hookIndex
    BY Zenon, <1>2, <1>3, AfterHooksFields
  <2> QED BY Zenon, <1>1, <1>4, <1>5, <1>6, <2>1, BecomesKeeps DEF Typed, Others
<1>7. CASE ~x.hooksComplete
  <2> DEFINE z == [x EXCEPT !.task = "hooks"]
  <2>1. /\ z \in Session /\ z.made = x.made /\ z.files = x.files /\ z.expired = x.expired
        /\ z.hooksComplete = x.hooksComplete /\ z.task = "hooks" /\ z.expiring = x.expiring
        /\ z.hookIndex = x.hookIndex
    BY <1>3 DEF Session
  <2>2. Store!Becomes(s, z)
    BY <1>4, <1>7
  <2> HIDE DEF z
  <2>3. Fields(s, z)
    BY <1>2, <1>3, <1>7, <2>1 DEF Fields
  <2> QED BY Zenon, <1>1, <1>4, <1>5, <2>1, <2>2, <2>3, BecomesKeeps DEF Typed, Others
<1> QED BY <1>6, <1>7

LEMMA HooksEndKeeps ==
  ASSUME FinalHooks \in Nat, NEW s \in Sessions, Typed, Good(s), Store!HooksEnd(s)
  PROVE  Typed' /\ Good(s)' /\ Others(s)
<1>1. sess[s] \in Session /\ sess[s].task = "hooks" /\ s \in table
  BY DEF Typed, Good, Registered, Store!HooksEnd
<1>2. /\ sess[s].made /\ sess[s].files /\ sess[s].expired /\ ~sess[s].hooksComplete
      /\ sess[s].expiring => owners[s].now = 0
      /\ sess[s].hookIndex < FinalHooks \/ (FinalHooks = 0 /\ sess[s].hookIndex = 0)
  BY <1>1 DEF Good, Registered, Ordered, Counted, Session
<1>3. /\ Fields(s, Store!AfterHooks(s, sess[s])) /\ Store!AfterHooks(s, sess[s]).hooksComplete
      /\ Store!AfterHooks(s, sess[s]).hookIndex = sess[s].hookIndex
  BY <1>1, <1>2, AfterHooksFields
<1>4. ran[s] = 0 /\ \A h \in 1..FinalHooks : hooked[s][h] = IF h <= sess[s].hookIndex THEN 1 ELSE 0
  BY <1>2 DEF Good, Counted
<1>5. /\ ran' \in [Sessions -> Nat] /\ ran'[s] = 1 /\ \A o \in Sessions \ {s} : ran'[o] = ran[o]
  BY <1>4 DEF Typed, Store!HooksEnd
<1>6. Store!Becomes(s, Store!AfterHooks(s, sess[s])) /\ UNCHANGED <<owners, hooked>>
  BY DEF Store!HooksEnd
<1> QED BY Zenon, <1>1, <1>3, <1>4, <1>5, <1>6, BecomesKeeps DEF Typed, Others

LEMMA FinalHookSucceedsKeeps ==
  ASSUME FinalHooks \in Nat, NEW s \in Sessions, Typed, Good(s), Store!FinalHookSucceeds(s)
  PROVE  Typed' /\ Good(s)' /\ Others(s)
<1> DEFINE k == sess[s].hookIndex
           x == [sess[s] EXCEPT !.hookIndex = k + 1]
<1>1. sess[s] \in Session /\ sess[s].task = "final" /\ s \in table
  BY DEF Typed, Good, Registered, Store!FinalHookSucceeds
<1>2. /\ sess[s].made /\ sess[s].files /\ sess[s].expired /\ sess[s].hooksComplete
      /\ sess[s].expiring /\ owners[s].now = 0 /\ k < FinalHooks /\ k \in Nat
  BY <1>1 DEF Good, Registered, Ordered, Counted, Session
<1>3. k + 1 \in 1..FinalHooks
  BY <1>2
<1>4. /\ x \in Session /\ x.made = sess[s].made /\ x.files = sess[s].files
      /\ x.expired = sess[s].expired /\ x.expiring = sess[s].expiring
      /\ x.hooksComplete = sess[s].hooksComplete /\ x.hookIndex = k + 1 /\ x.task = "final"
  BY <1>1, <1>3 DEF Session
<1>5. /\ Store!Becomes(s, x) /\ UNCHANGED <<owners, ran>>
      /\ hooked' = [hooked EXCEPT ![s][k + 1] = @ + 1]
  BY DEF Store!FinalHookSucceeds
<1> HIDE DEF x
<1>6. Fields(s, x)
  BY <1>2, <1>3, <1>4 DEF Fields
<1>7. /\ ran[s] = 1 /\ hooked \in [Sessions -> [1..FinalHooks -> Nat]]
      /\ \A h \in 1..FinalHooks : hooked[s][h] = IF h <= k THEN 1 ELSE 0
  BY <1>2 DEF Good, Counted, Typed
<1> HIDE DEF k
<1>8. hooked[s][k + 1] = 0
  BY <1>2, <1>3, <1>7
<1>9. /\ hooked' \in [Sessions -> [1..FinalHooks -> Nat]]
      /\ hooked'[s][k + 1] = 1
      /\ \A h \in 1..FinalHooks : h # k + 1 => hooked'[s][h] = hooked[s][h]
      /\ \A o \in Sessions \ {s} : hooked'[o] = hooked[o]
  BY <1>3, <1>5, <1>7, <1>8
<1>10. \A h \in 1..FinalHooks : hooked'[s][h] = IF h <= x.hookIndex THEN 1 ELSE 0
  BY <1>2, <1>4, <1>7, <1>9
<1> QED BY <1>1, <1>2, <1>4, <1>5, <1>6, <1>7, <1>9, <1>10, BecomesKeeps DEF Typed, Others

LEMMA FinalHookFailsKeeps ==
  ASSUME FinalHooks \in Nat, NEW s \in Sessions, Typed, Good(s), Store!FinalHookFails(s)
  PROVE  Typed' /\ Good(s)' /\ Others(s)
<1> DEFINE x == [sess[s] EXCEPT !.task = "done", !.timer = "armed"]
<1>1. sess[s] \in Session /\ sess[s].task = "final"
  BY DEF Typed, Store!FinalHookFails
<1>2. sess' = [sess EXCEPT ![s] = x] /\ UNCHANGED <<table, owners, ran, hooked>>
  BY <1>1 DEF Store!FinalHookFails, Store!WithRetry, Session, Typed
<1>3. /\ x \in Session /\ x.made = sess[s].made /\ x.files = sess[s].files
      /\ x.expired = sess[s].expired /\ x.expiring = sess[s].expiring
      /\ x.hooksComplete = sess[s].hooksComplete /\ x.hookIndex = sess[s].hookIndex /\ x.task = "done"
  BY <1>1 DEF Session
<1> HIDE DEF x
<1>4. /\ sess' \in [Sessions -> Session] /\ sess'[s] = x
      /\ \A o \in Sessions \ {s} : sess'[o] = sess[o]
  BY <1>2, <1>3, Update
<1>5. Typed' /\ Others(s)
  BY <1>2, <1>4 DEF Typed, Others
<1>6. Good(s)'
  BY <1>1, <1>2, <1>3, <1>4 DEF Good, Registered, Ordered, Counted
<1> QED BY <1>5, <1>6

LEMMA RetryFiresKeeps ==
  ASSUME FinalHooks \in Nat, NEW s \in Sessions, Typed, Good(s), Store!RetryFires(s)
  PROVE  Typed' /\ Good(s)' /\ Others(s)
<1>1. sess[s] \in Session /\ UNCHANGED <<table, owners, ran, hooked>>
  BY DEF Typed, Store!RetryFires
<1>2. CASE s \in table
  <2> DEFINE t == IF Store!Running(sess[s]) THEN sess[s].task ELSE "started"
  <2>1. sess' = [sess EXCEPT ![s] = Store!Expiring([sess[s] EXCEPT !.timer = "none"])]
    BY <1>2 DEF Store!RetryFires, Typed
  <2>2. Store!Expiring([sess[s] EXCEPT !.timer = "none"])
          = [sess[s] EXCEPT !.expired = TRUE, !.task = t, !.timer = "none"]
    BY <1>1 DEF Store!Expiring, Store!Running, Session
  <2> QED BY <1>1, <1>2, <2>1, <2>2, ExpiredKeeps
<1>3. CASE s \notin table
  <2> DEFINE x == [sess[s] EXCEPT !.timer = "none"]
  <2>1. sess' = [sess EXCEPT ![s] = x]
    BY <1>3 DEF Store!RetryFires, Typed
  <2>2. /\ x \in Session /\ x.made = sess[s].made /\ x.files = sess[s].files
        /\ x.expired = sess[s].expired /\ x.expiring = sess[s].expiring
        /\ x.hooksComplete = sess[s].hooksComplete /\ x.hookIndex = sess[s].hookIndex
        /\ x.task = sess[s].task
    BY <1>1 DEF Session
  <2> HIDE DEF x
  <2>3. /\ sess' \in [Sessions -> Session] /\ sess'[s] = x
        /\ \A o \in Sessions \ {s} : sess'[o] = sess[o]
    BY <2>1, <2>2, Update
  <2>4. Typed' /\ Others(s)
    BY <1>1, <2>3 DEF Typed, Others
  <2>5. Good(s)'
    BY <1>1, <2>2, <2>3 DEF Good, Registered, Ordered, Counted
  <2> QED BY <2>4, <2>5
<1> QED BY <1>2, <1>3

-----------------------------------------------------------------------------
LEMMA Steps == ASSUME FinalHooks \in Nat, StoreIInv, [Store!Next]_Store!vars PROVE StoreIInv'
<1>1. CASE UNCHANGED Store!vars
  BY <1>1 DEF StoreIInv, Typed, Good, Registered, Ordered, Counted, Store!vars
<1>2. CASE Store!Next
  <2>1. PICK s \in Sessions :
          \/ Store!Register(s) \/ Store!Acquire(s) \/ Store!ReleaseOwner(s)
          \/ Store!Expire(s) \/ Store!ExpireOffLoop(s)
          \/ Store!TaskStart(s) \/ Store!HooksEnd(s) \/ Store!FinalHookSucceeds(s)
          \/ Store!FinalHookFails(s) \/ Store!RetryFires(s)
    BY <1>2 DEF Store!Next, Store!TaskStep
  <2>2. Typed /\ Good(s)
    BY DEF StoreIInv
  <2>3. Typed' /\ Good(s)' /\ Others(s)
    BY <2>1, <2>2, RegisterKeeps, AcquireKeeps, ReleaseKeeps, ExpireKeeps, ExpireOffLoopKeeps,
       TaskStartKeeps, HooksEndKeeps, FinalHookSucceedsKeeps, FinalHookFailsKeeps, RetryFiresKeeps
  <2>4. ASSUME NEW o \in Sessions, o # s PROVE Good(o)'
    BY <2>3, <2>4, Untouched DEF StoreIInv, Others
  <2> QED BY <2>3, <2>4 DEF StoreIInv
<1> QED BY <1>1, <1>2

LEMMA StoreInvariance == ASSUME FinalHooks \in Nat PROVE Store!Spec => []StoreIInv
BY Initially, Steps, PTL DEF Store!Spec

\* A session is never torn down under a runtime owner: the blockers are asked once,
\* and no owner begins on a session that is expiring (expire_session_async).
THEOREM TeardownHasNoOwner == ASSUME FinalHooks \in Nat PROVE Store!Spec => []NoTeardownUnderOwner
<1>1. StoreIInv => NoTeardownUnderOwner
  BY DEF StoreIInv, Good, Counted, NoTeardownUnderOwner, Store!NoTeardownUnderOwner
<1> QED BY <1>1, StoreInvariance, PTL

\* The immediate hooks of a session run once, however often it is expired.
THEOREM CleanupRunsOnce == ASSUME FinalHooks \in Nat PROVE Store!Spec => []Store!HooksRunOnce
<1>1. StoreIInv => Store!HooksRunOnce
  <2> SUFFICES ASSUME StoreIInv, NEW s \in Sessions PROVE ran[s] <= 1
    BY DEF Store!HooksRunOnce
  <2>1. ran[s] = 0 \/ ran[s] = 1
    BY DEF StoreIInv, Good, Counted
  <2> QED BY <2>1
<1> QED BY <1>1, StoreInvariance, PTL

\* The final hooks succeed once each and in their order, over any failures and retries.
THEOREM FinalHooksAreOrdered == ASSUME FinalHooks \in Nat PROVE Store!Spec => []Store!FinalHooksInOrder
<1>1. StoreIInv => Store!FinalHooksInOrder
  BY DEF StoreIInv, Good, Counted, Store!FinalHooksInOrder
<1> QED BY <1>1, StoreInvariance, PTL

\* A session leaves the registry and loses its files only when all of its cleanup,
\* and every final hook once, is through.
THEOREM GoneMeansTornDown == ASSUME FinalHooks \in Nat PROVE Store!Spec => []GoneIsTornDown
<1>1. StoreIInv => GoneIsTornDown
  <2> SUFFICES ASSUME StoreIInv, NEW s \in Sessions, ~sess[s].files \/ (sess[s].made /\ s \notin table)
               PROVE  /\ ran[s] = 1 /\ ~sess[s].files
                      /\ \A h \in 1..FinalHooks : hooked[s][h] = 1
    BY DEF GoneIsTornDown, Store!GoneIsTornDown
  <2>1. Registered(s) /\ Ordered(s) /\ Counted(s)
    BY DEF StoreIInv, Good
  <2>2. ~sess[s].files /\ sess[s].hooksComplete /\ sess[s].hookIndex = FinalHooks
    BY <2>1 DEF Registered, Ordered
  <2> QED BY <2>1, <2>2 DEF Counted
<1> QED BY <1>1, StoreInvariance, PTL
=============================================================================
