---------------------------- MODULE UserEventBus ----------------------------
(***************************************************************************)
(* UserEventBus of agent_gateway/event_log.py, for one user: a bounded     *)
(* replay buffer per run, a bounded queue per subscriber with drop-oldest  *)
(* and a sentinel, bounded backpressure on the publishers, and the         *)
(* deferred cleanup of terminated runs.                                    *)
(*                                                                         *)
(* Every method holds the bus lock for the part that touches its state, so *)
(* each is one action; only publish goes on after it (the wait on          *)
(* backlogged subscribers).  A run publishes one event at a time           *)
(* (record.event_record_lock), so a publisher is its run.                  *)
(***************************************************************************)
EXTENDS Naturals, FiniteSets, Sequences, FiniteSetsExt

CONSTANTS
  Runs,       \* control_run_ids of the user
  Subs,       \* subscriptions
  QueueMax,   \* subscriber_queue_max
  ReplayMax,  \* replay_buffer_max
  Floors,     \* the after_seq values clients resume from
  MaxSeq,     \* bound: events of a run, seeded ones included
  None

ASSUME BoundsPositive == {QueueMax, ReplayMax, MaxSeq} \subseteq Nat \ {0}
ASSUME FloorsType == Floors \subseteq Nat
ASSUME NoneIsNoRun == None \notin Runs \cup Subs
ASSUME RunsAreFinite == IsFiniteSet(Runs)

VARIABLES
  buf,    \* _replay_buffers
  next,   \* _next_seq_by_run; 0 is a run the bus does not know
  dead,   \* _terminated_runs
  timer,  \* the runs whose cleanup task is sleeping
  down,   \* _shutdown
  sub,    \* subscriptions
  pub,    \* the publishers' waits on backlogged subscribers
  cover,  \* the seq a scoped subscription was served or told up to (history)
  debt    \* deliveries since a publisher spent a deadline on it (history)

bus == <<buf, next, dead, timer, down>>
history == <<cover, debt>>
vars == <<buf, next, dead, timer, down, sub, pub, cover, debt>>

Known(r) == next[r] # 0

NoSub == [state |-> "idle", scope |-> None, stop |-> FALSE, floor |-> 0, term |-> FALSE,
          ended |-> FALSE, trunc |-> 0, replay |-> <<>>, queue |-> <<>>, dropped |-> 0,
          through |-> 0, high |-> 0, spent |-> FALSE, reads |-> 0, drained |-> FALSE]
NotWaiting == [on |-> None, rest |-> {}]

\* No debt: the publisher has not spent a deadline on it, or it has caught up.
Free == QueueMax * Cardinality(Runs) + 1

Init ==
  /\ buf = [r \in Runs |-> <<>>]
  /\ next = [r \in Runs |-> 0]
  /\ dead = {}
  /\ timer = {}
  /\ down = FALSE
  /\ sub = [s \in Subs |-> NoSub]
  /\ pub = [r \in Runs |-> NotWaiting]
  /\ cover = [s \in Subs |-> None]
  /\ debt = [s \in Subs |-> [r \in Runs |-> Free]]

-----------------------------------------------------------------------------
(* Subscribers *)

\* _Subscriber.matches; a closed subscriber is unregistered.
Matches(x, r) == x.state = "open" /\ x.scope \in {None, r}

\* _has_matching_subscriber_locked
Watched(r) == \E s \in Subs : Matches(sub[s], r)

LiveRuns(known, gone) == Cardinality({r \in Runs : known[r] # 0 /\ r \notin gone})

\* _subscriber_queue_bound: of a global subscriber, per live run, never shrinking.
QueueBound(x, live) ==
  IF x.scope # None THEN QueueMax ELSE Max({x.high, QueueMax, QueueMax * live})
Sized(x, live) == [x EXCEPT !.high = IF x.scope # None THEN 0 ELSE QueueBound(x, live)]

\* Mutant of Enqueue: an event dropped for the bound is not counted.
EnqueueSilent(x, e, live) ==
  LET y == [Sized(x, live) EXCEPT !.term = @ \/ (x.stop /\ e.terminal)] IN
  IF e.seq <= x.floor THEN [x EXCEPT !.term = y.term]
  ELSE IF Len(x.queue) < QueueBound(x, live) THEN [y EXCEPT !.queue = Append(@, e)]
  ELSE [y EXCEPT !.queue = Append(Tail(@), e)]

\* _enqueue_for_subscriber: drop-oldest, counted for the sentinel.
Enqueue(x, e, live) ==
  LET y == [Sized(x, live) EXCEPT !.term = @ \/ (x.stop /\ e.terminal)] IN
  IF e.seq <= x.floor THEN [x EXCEPT !.term = y.term]
  ELSE IF Len(x.queue) < QueueBound(x, live) THEN [y EXCEPT !.queue = Append(@, e)]
  ELSE [y EXCEPT !.queue = Append(Tail(@), e), !.dropped = @ + 1,
                 !.through = Head(x.queue).seq]

\* Behind by half its bound, and its current episode has not spent a deadline.
Backlogged(x, live) == ~x.spent /\ Len(x.queue) * 2 >= QueueBound(x, live)

\* _note_drained_locked: half a bound of deliveries re-arms backpressure, and a
\* queue below the mark ends the episode and releases the waiting publishers.
NoteDrained(x, live) ==
  LET b == QueueBound(x, live)
      rearmed == x.spent /\ (x.reads + 1) * 2 >= b
      below == Len(x.queue) * 2 < b
  IN [Sized(x, live) EXCEPT
        !.spent = @ /\ ~rearmed /\ ~below,
        !.reads = IF x.spent /\ ~rearmed /\ ~below THEN @ + 1 ELSE 0,
        !.drained = @ \/ below]

\* drained.set() wakes the publishers that wait on the subscribers of S.
Wake(S) ==
  pub' = [r \in Runs |-> IF pub[r].on \in S THEN [pub[r] EXCEPT !.on = None] ELSE pub[r]]

-----------------------------------------------------------------------------
(* Publishing *)

Keep(q) == IF Len(q) > ReplayMax THEN SubSeq(q, Len(q) - ReplayMax + 1, Len(q)) ELSE q

\* The entry is numbered, buffered and enqueued under the lock.
Deliver(r, terminal) ==
  LET q == IF Known(r) THEN next[r] ELSE 1
      e == [run |-> r, seq |-> q, terminal |-> terminal]
      live == LiveRuns([next EXCEPT ![r] = q + 1], dead')
  IN /\ q <= MaxSeq
     /\ next' = [next EXCEPT ![r] = q + 1]
     /\ buf' = [buf EXCEPT ![r] = Keep(Append(@, e))]
     /\ sub' = [s \in Subs |->
          LET x == IF Matches(sub[s], r) THEN Enqueue(sub[s], e, live) ELSE sub[s]
          IN  IF ~terminal /\ Matches(sub[s], r) /\ Backlogged(x, live)
                THEN [x EXCEPT !.drained = FALSE] ELSE x]

\* The subscribers a publisher waits on after its event is enqueued.
Backlog(r) ==
  {s \in Subs : Matches(sub[s], r) /\ Backlogged(sub'[s], LiveRuns(next', dead))}

\* publish
Publish(r) ==
  /\ pub[r] = NotWaiting
  /\ ~down
  /\ dead' = dead
  /\ Deliver(r, FALSE)
  /\ pub' = [pub EXCEPT ![r] = [on |-> None, rest |-> Backlog(r)]]
  /\ UNCHANGED <<timer, down, cover, debt>>

\* The publisher takes up the next wait; a drained subscriber passes at once.
Await(r) ==
  /\ pub[r].on = None
  /\ \E s \in pub[r].rest :
       pub' = [pub EXCEPT ![r] = [on |-> IF sub[s].drained THEN None ELSE s,
                                  rest |-> @.rest \ {s}]]
  /\ UNCHANGED <<bus, sub, history>>

\* Mutant of Deadline: the wait on a backlogged subscriber has no deadline.
DeadlineNever(r) == pub[r].on # None /\ sub[pub[r].on].drained /\ UNCHANGED vars

\* Mutant of Deadline: the episode is not marked spent.
DeadlineForgot(r) ==
  LET s == pub[r].on IN
  /\ s # None
  /\ pub' = [pub EXCEPT ![r].on = None]
  /\ debt' = [debt EXCEPT ![s][r] = 0]
  /\ UNCHANGED <<bus, sub, cover>>

\* The deadline passes: the episode is spent, whatever it read meanwhile.
Deadline(r) ==
  LET s == pub[r].on IN
  /\ s # None
  /\ pub' = [pub EXCEPT ![r].on = None]
  /\ sub' = [sub EXCEPT ![s] = [@ EXCEPT !.spent = TRUE, !.reads = 0]]
  /\ debt' = [debt EXCEPT ![s][r] = 0]
  /\ UNCHANGED <<bus, cover>>

\* _schedule_cleanup_locked: not while the run is watched.
ScheduleCleanup(r) == timer' = IF Watched(r) THEN timer ELSE timer \cup {r}

\* publish_terminal_if_absent, of a run that is not terminated yet
PublishTerminal(r) ==
  /\ ~down
  /\ r \notin dead
  /\ dead' = dead \cup {r}
  /\ ScheduleCleanup(r)
  /\ Deliver(r, TRUE)
  /\ UNCHANGED <<down, pub, cover, debt>>

\* seed_replay_buffer: n durable events, numbered by their position, of a run
\* the bus does not know; a known run can only be marked terminated.  Who already
\* watches an unknown run is not sent the seeded events: its cover is lost.
SeedReplayBuffer(r, n, terminated) ==
  /\ ~down
  /\ IF Known(r)
       THEN /\ terminated
            /\ next' = next
            /\ buf' = [buf EXCEPT ![r] =
                 IF @ = <<>> THEN @ ELSE [buf[r] EXCEPT ![Len(buf[r])].terminal = TRUE]]
       ELSE /\ next' = [next EXCEPT ![r] = n + 1]
            /\ buf' = [buf EXCEPT ![r] = Keep([i \in 1..n |->
                 [run |-> r, seq |-> i, terminal |-> terminated /\ i = n]])]
  /\ dead' = IF terminated THEN dead \cup {r} ELSE dead
  /\ IF terminated THEN ScheduleCleanup(r) ELSE timer' = timer
  /\ cover' = [s \in Subs |-> IF n > 0 /\ ~Known(r) /\ sub[s].scope = r THEN None ELSE cover[s]]
  /\ UNCHANGED <<down, sub, pub, debt>>

-----------------------------------------------------------------------------
(* Subscribing *)

\* The entries of a buffer above a cursor; a buffer is in the order of its seqs.
Above(q, floor) ==
  LET I == {i \in DOMAIN q : q[i].seq > floor}
  IN  IF I = {} THEN <<>> ELSE SubSeq(q, Min(I), Len(q))

\* subscribe_entries: the replay above after_seq, and a notice when the buffer
\* no longer reaches back to it.
SubscribeEntries(s, scope, floor) ==
  LET scoped == scope # None
      replay == IF scoped THEN buf[scope] ELSE <<>>
      head == IF replay = <<>> THEN 0 ELSE Head(replay).seq
  IN /\ sub[s].state = "idle"
     /\ ~down
     /\ sub' = [sub EXCEPT ![s] =
          [@ EXCEPT !.state = "open", !.scope = scope, !.stop = scoped,
                    !.floor = IF scoped THEN floor ELSE 0,
                    !.term = scoped /\ scope \in dead,
                    !.trunc = IF head # 0 /\ floor < head - 1 THEN head ELSE 0,
                    !.replay = Above(replay, floor)]]
     /\ timer' = timer \ {r \in Runs : scope \in {None, r}}
     /\ cover' = [cover EXCEPT ![s] = IF scoped THEN floor ELSE None]
     /\ UNCHANGED <<buf, next, dead, down, pub, debt>>

\* subscribe: the whole buffer, no cursor, and no end at the terminal event.
Subscribe(s, scope) ==
  /\ sub[s].state = "idle"
  /\ ~down
  /\ sub' = [sub EXCEPT ![s] =
       [@ EXCEPT !.state = "open", !.scope = scope,
                 !.replay = IF scope = None THEN <<>> ELSE buf[scope]]]
  /\ timer' = timer \ {r \in Runs : scope \in {None, r}}
  /\ UNCHANGED <<buf, next, dead, down, pub, history>>

\* Nothing else of a closed subscription is read again.
Closed == [NoSub EXCEPT !.state = "closed", !.drained = TRUE]
Forgotten(s) ==
  /\ cover' = [cover EXCEPT ![s] = None]
  /\ debt' = [debt EXCEPT ![s] = [r \in Runs |-> Free]]

\* Mutant of Unsubscribe: only the cleanup of its own run is rescheduled.
UnsubscribeOwn(s) ==
  /\ sub[s].state \in {"open", "shut"}
  /\ sub' = [sub EXCEPT ![s] = Closed]
  /\ Wake({s})
  /\ timer' = IF down THEN timer
              ELSE timer \cup {r \in dead : /\ sub[s].scope = r
                                            /\ ~\E u \in Subs \ {s} : Matches(sub[u], r)}
  /\ Forgotten(s)
  /\ UNCHANGED <<buf, next, dead, down>>

\* aclose and _unsubscribe: the terminated runs it held get their cleanup back.
Unsubscribe(s) ==
  /\ sub[s].state \in {"open", "shut"}
  /\ sub' = [sub EXCEPT ![s] = Closed]
  /\ Wake({s})
  /\ timer' = IF down THEN timer
              ELSE timer \cup {r \in dead : /\ sub[s].scope \in {None, r}
                                            /\ ~\E u \in Subs \ {s} : Matches(sub[u], r)}
  /\ Forgotten(s)
  /\ UNCHANGED <<buf, next, dead, down>>

-----------------------------------------------------------------------------
(* Reading *)

\* What the history records of a delivery that went through NoteDrained.
Repaid(s, y) ==
  debt' = [debt EXCEPT ![s] = [r \in Runs |->
    LET d == @[r] IN
    IF d = Free \/ Len(y.queue) * 2 < QueueBound(y, 0) \/ (d + 1) * 2 >= QueueBound(y, 0)
      THEN Free ELSE d + 1]]

\* A delivery from the live queue or of its sentinel.
Drained(s, x) ==
  LET y == NoteDrained(x, LiveRuns(next, dead)) IN
  /\ sub' = [sub EXCEPT ![s] = y]
  /\ IF y.drained /\ ~x.drained THEN Wake({s}) ELSE pub' = pub
  /\ Repaid(s, y)

Covered(s, q) == cover' = [cover EXCEPT ![s] = IF @ = None THEN None ELSE q]

\* The notice that the buffer was truncated, then the replay.
ReadReplay(s) ==
  LET x == sub[s] IN
  /\ x.state \in {"open", "shut"}
  /\ \/ /\ x.trunc # 0
        /\ sub' = [sub EXCEPT ![s] = [@ EXCEPT !.trunc = 0]]
        /\ Covered(s, x.trunc - 1)
     \/ /\ x.trunc = 0 /\ x.replay # <<>>
        /\ sub' = [sub EXCEPT ![s] =
             [x EXCEPT !.replay = Tail(x.replay),
                       !.ended = x.ended \/ (x.stop /\ Head(x.replay).terminal)]]
        /\ Covered(s, Head(x.replay).seq)
  /\ UNCHANGED <<bus, pub, debt>>

\* _next_entry and _next_event: the sentinel of what was dropped goes first.
ReadLive(s) ==
  LET x == sub[s] IN
  /\ x.state \in {"open", "shut"}
  /\ x.trunc = 0 /\ x.replay = <<>>
  /\ ~x.ended
  /\ \/ /\ x.dropped > 0
        /\ Drained(s, [x EXCEPT !.dropped = 0, !.through = 0])
        /\ Covered(s, x.through)
     \/ /\ x.dropped = 0 /\ x.queue # <<>>
        /\ Drained(s, [x EXCEPT !.queue = Tail(@), !.ended = x.stop /\ Head(x.queue).terminal])
        /\ Covered(s, Head(x.queue).seq)
  /\ UNCHANGED bus

\* Mutant of ReadEnd: only a terminal event that was delivered ends it.
ReadEndDelivered(s) ==
  LET x == sub[s] IN
  /\ x.trunc = 0 /\ x.replay = <<>>
  /\ x.ended \/ (x.dropped = 0 /\ x.queue = <<>> /\ x.state = "shut")
  /\ Unsubscribe(s)

\* The iteration ends: the terminal event was delivered, or nothing is left of a
\* terminated stream or of a bus that shut down.
ReadEnd(s) ==
  LET x == sub[s] IN
  /\ x.trunc = 0 /\ x.replay = <<>>
  /\ \/ x.ended
     \/ x.dropped = 0 /\ x.queue = <<>> /\ (x.state = "shut" \/ (x.stop /\ x.term))
  /\ Unsubscribe(s)

-----------------------------------------------------------------------------
(* Cleanup and shutdown *)

\* cleanup_run
CleanupRun(r) ==
  /\ ~down
  /\ dead' = dead \cup {r}
  /\ ScheduleCleanup(r)
  /\ UNCHANGED <<buf, next, down, sub, pub, history>>

\* _deferred_cleanup, when its delay has passed and it is still the run's task
DeferredCleanup(r) ==
  /\ r \in timer
  /\ timer' = timer \ {r}
  /\ IF Watched(r)
       THEN UNCHANGED <<buf, next, dead>>
       ELSE /\ buf' = [buf EXCEPT ![r] = <<>>]
            /\ next' = [next EXCEPT ![r] = 0]
            /\ dead' = dead \ {r}
  /\ UNCHANGED <<down, sub, pub, history>>

\* shutdown: subscribers drain what they hold and end.
Shutdown ==
  /\ ~down
  /\ down' = TRUE
  /\ sub' = [s \in Subs |-> IF sub[s].state = "open"
                              THEN [sub[s] EXCEPT !.state = "shut", !.drained = TRUE]
                              ELSE sub[s]]
  /\ Wake({s \in Subs : sub[s].state = "open"})
  /\ buf' = [r \in Runs |-> <<>>]
  /\ next' = [r \in Runs |-> 0]
  /\ dead' = {}
  /\ timer' = {}
  /\ UNCHANGED history

-----------------------------------------------------------------------------
RunStep(r) ==
  \/ Publish(r) \/ Await(r) \/ Deadline(r) \/ PublishTerminal(r)
  \/ \E n \in 0..MaxSeq, t \in BOOLEAN : SeedReplayBuffer(r, n, t)
  \/ CleanupRun(r) \/ DeferredCleanup(r)

Read(s) == ReadReplay(s) \/ ReadLive(s) \/ ReadEnd(s)

SubStep(s) ==
  \/ \E scope \in Runs \cup {None} :
       \/ \E floor \in Floors : SubscribeEntries(s, scope, floor)
       \/ Subscribe(s, scope)
  \/ Read(s) \/ Unsubscribe(s)

Next ==
  \/ \E r \in Runs : RunStep(r)
  \/ \E s \in Subs : SubStep(s)
  \/ Shutdown

Spec == Init /\ [][Next]_vars

\* asyncio runs a publisher that was woken and a timer that has run out; clients
\* may stop reading.
Fairness == \A r \in Runs : WF_vars(Await(r)) /\ WF_vars(Deadline(r))

-----------------------------------------------------------------------------
(* Properties *)

\* subscribe_entries of a run delivers every event above after_seq once and in
\* order, or says how far it skipped: the next entry is the one after what was
\* delivered or announced, events_dropped counts exactly the ones it skips, and
\* replay_truncated is sent only when events are missing.
NoSilentGap == [][\A s \in Subs :
  LET x == sub[s] y == sub'[s] IN
  cover[s] # None /\ y.state # "closed" =>
    /\ Len(y.replay) < Len(x.replay) => Head(x.replay).seq = cover[s] + 1
    /\ Len(y.queue) < Len(x.queue) => Head(x.queue).seq = cover[s] + 1
    /\ x.dropped > 0 /\ y.dropped = 0 => x.through = cover[s] + x.dropped
    /\ x.trunc # 0 /\ y.trunc = 0 => x.trunc > cover[s] + 1]_vars

\* A terminated run nobody watches has its cleanup pending, through every order of
\* subscribing, closing, terminating and reseeding: its buffer is not leaked.
CleanupKept == \A r \in dead : r \in timer \/ \E s \in Subs : Matches(sub[s], r)

\* "A stalled watcher costs a run one deadline, not one per event": a publisher
\* that spent a deadline on a subscriber waits on it again only after it took half
\* a bound of deliveries or fell below the mark.
StalledCostsOnce == \A r \in Runs : pub[r].on # None => debt[pub[r].on][r] = Free

\* A scoped subscription whose run was terminated by publish_terminal_if_absent, or
\* already was when it subscribed, ends once its client has read what is left,
\* also when the terminal event lies below its cursor and whatever other clients do.
TerminatedEnds == \A s \in Subs :
  WF_vars(Read(s)) => (sub[s].term ~> sub[s].state = "closed")

\* publish returns: subscribers that stop reading hold a publisher up to their
\* deadlines and no longer.
PublisherReturns == \A r \in Runs : pub[r] # NotWaiting ~> pub[r] = NotWaiting
=============================================================================
