------------------------------ MODULE EventLog ------------------------------
(***************************************************************************)
(* EventLog of agent_gateway/event_log.py: the append-only buffer a runner *)
(* writes and the HTTP layer reads with iter_from().  Everything runs on   *)
(* one event loop, so a reader's step is what it does between two          *)
(* suspensions (a yield or the wait on _updated).                          *)
(***************************************************************************)
EXTENDS Naturals, Sequences

CONSTANTS
  Readers,   \* iter_from() iterators
  Cursors,   \* the after_seq values they start from
  First,     \* first_seq: 1, or the predecessor's next_seq of a continuation
  MaxLen     \* bound: entries of the log

ASSUME ConstantsType ==
  /\ Cursors \subseteq Nat
  /\ First \in Nat \ {0}
  /\ MaxLen \in Nat

VARIABLES
  deferred, \* _defer_terminal_close
  strict,   \* _on_event_error is "raise"
  entries,  \* _entries: whether each event is terminal; seq is First + position - 1
  closed,   \* _closed
  ended,    \* _has_terminal
  updated,  \* _updated.is_set()
  reader    \* the iterators

options == <<deferred, strict>>
log == <<options, entries, closed, ended>>
vars == <<options, entries, closed, ended, updated, reader>>

Idle == [at |-> "idle", after |-> 0, index |-> 0]

Init ==
  /\ deferred \in BOOLEAN /\ strict \in BOOLEAN
  /\ entries = <<>>
  /\ closed = FALSE /\ ended = FALSE /\ updated = FALSE
  /\ reader = [i \in Readers |-> Idle]

\* _updated.set() schedules every reader that waits on it.
Notify ==
  /\ updated' = TRUE
  /\ reader' = [i \in Readers |->
       IF reader[i].at = "waiting" THEN [reader[i] EXCEPT !.at = "runs"] ELSE reader[i]]

-----------------------------------------------------------------------------
(* Writing *)

\* append: the entry is stored before the sink is called, and a sink error under
\* the raise policy closes the log before the terminal mark.
AppendEvent(terminal, sinkFails) ==
  /\ ~closed /\ Len(entries) < MaxLen
  /\ entries' = Append(entries, terminal)
  /\ closed' = ((sinkFails /\ strict) \/ (terminal /\ ~deferred))
  /\ ended' = (ended \/ (terminal /\ ~(sinkFails /\ strict)))
  /\ Notify
  /\ UNCHANGED options

\* append, when prepare_event fails: nothing is stored.
PrepareFails ==
  /\ ~closed
  /\ closed' = TRUE
  /\ Notify
  /\ UNCHANGED <<options, entries, ended>>

\* Mutant of CloseWithoutTerminal: waiting readers are not woken.
CloseQuiet ==
  /\ closed' = TRUE
  /\ UNCHANGED <<options, entries, ended, updated, reader>>

\* close_without_terminal, also of a log that is closed already
CloseWithoutTerminal ==
  /\ closed' = TRUE
  /\ Notify
  /\ UNCHANGED <<options, entries, ended>>

\* close: an error event, unless the stream has its terminal; then closed, also
\* when terminal events do not close the log.
Close(sinkFails) ==
  /\ ~closed
  /\ IF ended THEN UNCHANGED <<entries, ended>>
     ELSE /\ Len(entries) < MaxLen
          /\ entries' = Append(entries, TRUE)
          /\ ended' = ~(sinkFails /\ strict)
  /\ closed' = TRUE
  /\ Notify
  /\ UNCHANGED options

-----------------------------------------------------------------------------
(* Reading *)

\* max(after_seq - first_seq + 1, 0)
StartIndex(after) == IF after < First THEN 0 ELSE after - First + 1

\* iter_from, up to its first suspension being scheduled
IterFrom(i, after) ==
  /\ reader[i].at = "idle"
  /\ reader' = [reader EXCEPT ![i] =
       [at |-> "runs", after |-> after, index |-> StartIndex(after)]]
  /\ UNCHANGED <<log, updated>>

Yielding(x) == [x EXCEPT !.at = "yielded", !.index = x.index + 1]
Yield(i) ==
  /\ reader' = [reader EXCEPT ![i] = Yielding(reader[i])]
  /\ UNCHANGED updated
Finish(i) ==
  /\ reader' = [reader EXCEPT ![i].at = "done"]
  /\ UNCHANGED updated
Wait(i) ==
  /\ updated' = FALSE
  /\ reader' = [reader EXCEPT ![i].at = "waiting"]

\* Mutant of Resume: a terminal entry ends the reader of a deferred log too.
ResumeStops(i) ==
  LET k == reader[i].index
      stops == reader[i].at = "yielded" /\ entries[k]
  IN /\ reader[i].at \in {"runs", "yielded"}
     /\ \/ stops /\ Finish(i)
        \/ ~stops /\ k < Len(entries) /\ Yield(i)
        \/ ~stops /\ k >= Len(entries) /\ closed /\ Finish(i)
        \/ ~stops /\ k >= Len(entries) /\ ~closed /\ Wait(i)
     /\ UNCHANGED log

\* The reader runs to its next suspension: the entry it yielded last was
\* terminal, an entry is left, the log is closed, or it waits for more.
Resume(i) ==
  LET k == reader[i].index
      stops == reader[i].at = "yielded" /\ entries[k] /\ ~deferred
  IN /\ reader[i].at \in {"runs", "yielded"}
     /\ \/ stops /\ Finish(i)
        \/ ~stops /\ k < Len(entries) /\ Yield(i)
        \/ ~stops /\ k >= Len(entries) /\ closed /\ Finish(i)
        \/ ~stops /\ k >= Len(entries) /\ ~closed /\ Wait(i)
     /\ UNCHANGED log

Next ==
  \/ \E terminal, sinkFails \in BOOLEAN : AppendEvent(terminal, sinkFails)
  \/ PrepareFails
  \/ CloseWithoutTerminal
  \/ \E sinkFails \in BOOLEAN : Close(sinkFails)
  \/ \E i \in Readers, after \in Cursors : IterFrom(i, after)
  \/ \E i \in Readers : Resume(i)

Spec == Init /\ [][Next]_vars

\* A scheduled reader runs and its consumer asks for the next entry.
Fairness == \A i \in Readers : WF_vars(Resume(i))

FairSpec == Spec /\ Fairness

-----------------------------------------------------------------------------
(* Properties *)

\* The log's fields and the iterators keep their types.
TypeOK ==
  /\ entries \in Seq(BOOLEAN)
  /\ deferred \in BOOLEAN /\ strict \in BOOLEAN
  /\ closed \in BOOLEAN /\ ended \in BOOLEAN /\ updated \in BOOLEAN
  /\ reader \in [Readers -> [at : {"idle", "runs", "yielded", "waiting", "done"},
                             after : Nat, index : Nat]]

\* An iterator that ended was given everything the log will ever hold above its
\* cursor: iter_from returns at a terminal event only because nothing follows it.
DoneHasAll == \A i \in Readers : reader[i].at = "done" => reader[i].index >= Len(entries)

\* A reader is parked on _updated only when it has read every entry and the log
\* is open: neither an append nor a close is missed while it waits.
NoLostWakeup ==
  \A i \in Readers : reader[i].at = "waiting" =>
    ~closed /\ reader[i].index >= Len(entries)

\* iter_from(after_seq) skips exactly what its cursor covers: nothing above it when
\* it starts, and nothing at or below it is yielded.
StartsAfterCursor == [][\A i \in Readers :
  /\ reader[i].at = "idle" /\ reader'[i].at # "idle" =>
       \A k \in 1..reader'[i].index : First + k - 1 <= reader'[i].after
  /\ reader[i].at # "yielded" /\ reader'[i].at = "yielded" =>
       First + reader'[i].index - 1 > reader[i].after]_vars

\* A log that closes on its terminal event has one, and has it last.
TerminalLast ==
  ~deferred => \A k \in 1..Len(entries) : entries[k] => k = Len(entries)

\* When sink errors are ignored, _has_terminal and the entries agree, so
\* log_has_terminal and completion_read report the same stream.
TerminalAgrees == ~strict => (ended <=> \E k \in 1..Len(entries) : entries[k])

\* Every iterator ends once the log closes, whichever way it closed.
ReadersEnd == \A i \in Readers :
  closed /\ reader[i].at # "idle" ~> reader[i].at = "done"
=============================================================================
