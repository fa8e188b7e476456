------------------------- MODULE UserEventBusProofs -------------------------
(***************************************************************************)
(* The event bus of one user, proved for any finite set of runs, any number *)
(* of subscriptions, any cursors and any bounds of queues and buffers.     *)
(* IInv is the inductive invariant: the buffers have no gap (Buffered), a  *)
(* terminated run keeps its cleanup (Cleaned), a deadline is spent once    *)
(* (Indebted), and what a scoped subscription still holds continues what   *)
(* it was served or told (Unbroken).  Each lemma ...Keeps shows of one     *)
(* action that it keeps IInv and tells every gap it makes (AllTold).       *)
(***************************************************************************)
EXTENDS UserEventBus, TLAPS, FiniteSetTheorems

\* What the buffers, the replays and the queues hold.
Entries == [run : Runs, seq : Nat, terminal : BOOLEAN]

Subscriptions ==
  [state : {"idle", "open", "shut", "closed"}, scope : Runs \cup {None}, stop : BOOLEAN,
   floor : Nat, term : BOOLEAN, ended : BOOLEAN, trunc : Nat, replay : Seq(Entries),
   queue : Seq(Entries), dropped : Nat, through : Nat, high : Nat, spent : BOOLEAN,
   reads : Nat, drained : BOOLEAN]

Typed ==
  /\ buf \in [Runs -> Seq(Entries)]
  /\ next \in [Runs -> Nat]
  /\ dead \subseteq Runs
  /\ timer \subseteq Runs
  /\ down \in BOOLEAN
  /\ sub \in [Subs -> Subscriptions]
  /\ pub \in [Runs -> [on : Subs \cup {None}, rest : SUBSET Subs]]
  /\ cover \in [Subs -> Nat \cup {None}]
  /\ debt \in [Subs -> [Runs -> Nat]]

\* A buffer holds the last events of its run, without a gap.
Filled(q, n) ==
  /\ n > 1 => q # <<>>
  /\ q # <<>> => Len(q) < n
  /\ \A i \in 1 .. Len(q) : q[i].seq + Len(q) + 1 = n + i

\* _publish numbers the events of a run one after another.
Buffered == \A r \in Runs : Filled(buf[r], next[r])

\* A bus that was shut down has no terminated runs left.
Cleaned == (down => dead = {}) /\ CleanupKept

\* A publisher waits on subscribers it has not spent a deadline on; one it has
\* spent one on has taken fewer deliveries since the last deadline.
Indebted ==
  /\ \A r \in Runs, s \in Subs : s \in pub[r].rest \/ pub[r].on = s => debt[s][r] = Free
  /\ \A r \in Runs : pub[r].on \notin pub[r].rest
  /\ \A r \in Runs, s \in Subs : debt[s][r] # Free => sub[s].spent /\ sub[s].reads <= debt[s][r]

\* The first entry of the replay; what is read once the replay is.
First(x, c) == IF x.trunc # 0 THEN x.trunc ELSE c + 1
Behind(x, c) == First(x, c) + Len(x.replay) + x.dropped

\* A subscription x that was served or told everything up to c, on a run whose next
\* number is n, still holds what follows c: the replay, then the dropped events its
\* notice will tell, then the queue, up to the last event of the run.
Served(x, c, n) ==
  /\ x.state \in {"open", "shut"}
  /\ x.scope \in Runs
  /\ x.trunc # 0 => x.trunc > c + 1 /\ x.replay # <<>>
  /\ \A i \in 1 .. Len(x.replay) : x.replay[i].seq + 1 = First(x, c) + i
  /\ x.dropped > 0 => x.through + 1 = Behind(x, c)
  /\ \A i \in 1 .. Len(x.queue) : x.queue[i].seq + 1 = Behind(x, c) + i
  /\ x.state = "open" =>
       Behind(x, c) + Len(x.queue) = IF n <= x.floor + 1 THEN x.floor + 1 ELSE n

\* Every scoped subscription continues where its client was left.
Unbroken == \A s \in Subs :
  /\ sub[s].state = "idle" => sub[s].queue = <<>> /\ sub[s].dropped = 0
  /\ cover[s] # None => Served(sub[s], cover[s], next[sub[s].scope])

IInv == Typed /\ Buffered /\ Cleaned /\ Indebted /\ Unbroken

-----------------------------------------------------------------------------
(* The queue bound *)

\* Sums and lengths are naturals.
LEMMA SumIsNat == \A i, j \in Nat : i + j \in Nat
OBVIOUS

LEMMA NextIsNat == \A i \in Nat : i + 1 \in Nat
OBVIOUS

LEMMA LenIsNat == \A q \in Seq(Entries) : Len(q) \in Nat
OBVIOUS

LEMMA FreeIsNat == Free \in Nat
<1> DEFINE k == Cardinality(Runs)
<1>1. k \in Nat
  BY Zenon, RunsAreFinite, FS_CardinalityType
<1> HIDE DEF k
<1>2. QueueMax \in Nat
  BY BoundsPositive
<1>3. QueueMax * k + 1 \in Nat
  BY <1>1, <1>2
<1> QED  BY Zenon, <1>3 DEF Free, k

\* The maximum of three numbers.
LEMMA MaxOfThree ==
  ASSUME NEW a \in Nat, NEW b \in Nat, NEW c \in Nat
  PROVE  /\ Max({a, b, c}) \in {a, b, c}
         /\ Max({a, b, c}) >= a /\ Max({a, b, c}) >= b /\ Max({a, b, c}) >= c
<1>1. \E x \in {a, b, c} : \A y \in {a, b, c} : x >= y
  OBVIOUS
<1>2. /\ Max({a, b, c}) \in {a, b, c}
      /\ \A y \in {a, b, c} : Max({a, b, c}) >= y
  BY <1>1 DEF Max
<1> QED  BY <1>2

\* A bus knows finitely many runs.
LEMMA LiveIsNat ==
  ASSUME NEW known, NEW gone
  PROVE  LiveRuns(known, gone) \in Nat
<1>1. IsFiniteSet({r \in Runs : known[r] # 0 /\ r \notin gone})
  BY RunsAreFinite, FS_Subset
<1> QED  BY <1>1, FS_CardinalityType DEF LiveRuns

\* _subscriber_queue_bound is at least the configured one, and that one for a scoped
\* subscription.
LEMMA Bounds ==
  ASSUME NEW x \in Subscriptions, NEW live \in Nat
  PROVE  /\ QueueBound(x, live) \in Nat
         /\ QueueBound(x, live) >= QueueMax
         /\ x.scope # None => QueueBound(x, live) = QueueMax
<1>1. QueueMax \in Nat /\ QueueMax * live \in Nat /\ x.high \in Nat
  BY BoundsPositive DEF Subscriptions
<1>2. /\ Max({x.high, QueueMax, QueueMax * live}) \in {x.high, QueueMax, QueueMax * live}
      /\ Max({x.high, QueueMax, QueueMax * live}) >= QueueMax
  BY <1>1, MaxOfThree
<1> QED  BY <1>1, <1>2 DEF QueueBound

\* The high-water mark keeps the bound once it was computed.
LEMMA BoundKept ==
  ASSUME NEW x \in Subscriptions, NEW y \in Subscriptions, NEW live \in Nat,
         y.scope = x.scope, x.scope = None => y.high = QueueBound(x, live)
  PROVE  QueueBound(y, 0) = QueueBound(x, live)
<1>1. QueueMax \in Nat /\ QueueMax * 0 = 0
  BY BoundsPositive
<1>2. CASE x.scope # None
  BY <1>2 DEF QueueBound
<1>3. CASE x.scope = None
  <2> DEFINE b == QueueBound(x, live)
  <2>1. b \in Nat /\ b >= QueueMax
    BY Bounds
  <2> HIDE DEF b
  <2>2. /\ Max({b, QueueMax, 0}) \in {b, QueueMax, 0}
        /\ Max({b, QueueMax, 0}) >= b
    BY <1>1, <2>1, MaxOfThree
  <2>3. Max({b, QueueMax, 0}) = b
    BY <1>1, <2>1, <2>2
  <2>4. QueueBound(y, 0) = Max({b, QueueMax, 0})
    BY <1>1, <1>3 DEF QueueBound, b
  <2> QED  BY <2>3, <2>4 DEF b
<1> QED  BY <1>2, <1>3

\* What an event does to a matching subscription.
Taken(x, y, e) ==
  /\ y \in Subscriptions
  /\ y.state = x.state /\ y.scope = x.scope /\ y.floor = x.floor /\ y.trunc = x.trunc
  /\ y.replay = x.replay /\ y.spent = x.spent /\ y.reads = x.reads
  /\ \/ e.seq <= x.floor /\ y.queue = x.queue /\ y.dropped = x.dropped /\ y.through = x.through
     \/ /\ e.seq > x.floor /\ y.queue = Append(x.queue, e)
        /\ y.dropped = x.dropped /\ y.through = x.through
     \/ /\ e.seq > x.floor /\ x.queue # <<>> /\ y.queue = Append(Tail(x.queue), e)
        /\ y.dropped = x.dropped + 1 /\ y.through = Head(x.queue).seq

\* Computing the bound changes the high-water mark and nothing else.
LEMMA SizedKeeps ==
  ASSUME NEW x \in Subscriptions, NEW live \in Nat
  PROVE  /\ Sized(x, live) \in Subscriptions
         /\ \A f \in DOMAIN x : f # "high" => Sized(x, live)[f] = x[f]
         /\ x.scope = None => Sized(x, live).high = QueueBound(x, live)
<1> DEFINE h == IF x.scope # None THEN 0 ELSE QueueBound(x, live)
<1>1. h \in Nat
  BY Bounds
<1> HIDE DEF h
<1>2. Sized(x, live) = [x EXCEPT !.high = h]
  BY DEF Sized, h
<1>3. x.scope = None => h = QueueBound(x, live)
  BY DEF h
<1> QED  BY Zenon, <1>1, <1>2, <1>3 DEF Subscriptions

\* _enqueue_for_subscriber skips, queues, or drops the oldest and queues.
LEMMA Enqueues ==
  ASSUME NEW x \in Subscriptions, NEW e \in Entries, NEW live \in Nat
  PROVE  Taken(x, Enqueue(x, e, live), e)
<1> DEFINE t == x.term \/ (x.stop /\ e.terminal)
           b == QueueBound(x, live)
           y == [Sized(x, live) EXCEPT !.term = @ \/ (x.stop /\ e.terminal)]
<1>1. b \in Nat /\ b >= 1
  BY Bounds, BoundsPositive
<1>2. Sized(x, live).term = x.term /\ "term" \in DOMAIN Sized(x, live)
  <2>1. "term" \in DOMAIN x
    BY DEF Subscriptions
  <2>2. Sized(x, live).term = x.term
    BY <2>1, SizedKeeps
  <2>3. Sized(x, live) \in Subscriptions
    BY SizedKeeps
  <2>4. "term" \in DOMAIN Sized(x, live)
    BY <2>3 DEF Subscriptions
  <2> QED  BY <2>2, <2>4
<1>3. t \in BOOLEAN
  BY DEF Subscriptions, Entries
<1>4. y = [Sized(x, live) EXCEPT !.term = t]
  BY <1>2
<1>5. y.term = t
  BY <1>2, <1>4
<1>6. /\ y \in Subscriptions
      /\ \A f \in DOMAIN x : f \notin {"high", "term"} => y[f] = x[f]
  <2> HIDE DEF t, y
  <2>1. \A f \in DOMAIN x : f # "high" => Sized(x, live)[f] = x[f]
    BY SizedKeeps
  <2>2. Sized(x, live) \in Subscriptions
    BY SizedKeeps
  <2>3. y \in Subscriptions
    BY Zenon, <1>3, <1>4, <2>2 DEF Subscriptions
  <2>4. \A f \in DOMAIN x : f \notin {"high", "term"} => y[f] = Sized(x, live)[f]
    BY Zenon, <1>4, <2>2 DEF Subscriptions
  <2> QED  BY <2>1, <2>3, <2>4
<1>7. Enqueue(x, e, live) =
        IF e.seq <= x.floor THEN [x EXCEPT !.term = t]
        ELSE IF Len(x.queue) < b THEN [y EXCEPT !.queue = Append(@, e)]
        ELSE [y EXCEPT !.queue = Append(Tail(@), e), !.dropped = @ + 1,
                       !.through = Head(x.queue).seq]
  BY <1>5 DEF Enqueue
<1> HIDE DEF t, y, b
<1>8. /\ y.state = x.state /\ y.scope = x.scope /\ y.floor = x.floor /\ y.trunc = x.trunc
      /\ y.replay = x.replay /\ y.spent = x.spent /\ y.reads = x.reads /\ y.queue = x.queue
      /\ y.dropped = x.dropped /\ y.through = x.through
  BY Zenon, <1>6 DEF Subscriptions
<1>9. x.queue \in Seq(Entries) /\ x.floor \in Nat /\ e.seq \in Nat /\ x.dropped + 1 \in Nat
  BY DEF Subscriptions, Entries
<1>10. CASE e.seq <= x.floor
  <2>1. Enqueue(x, e, live) = [x EXCEPT !.term = t]
    BY <1>7, <1>10
  <2> QED  BY Zenon, <1>3, <1>10, <2>1 DEF Taken, Subscriptions
<1>11. CASE ~(e.seq <= x.floor) /\ Len(x.queue) < b
  <2> DEFINE q == Append(x.queue, e)
  <2>1. Enqueue(x, e, live) = [y EXCEPT !.queue = q]
    BY <1>6, <1>7, <1>8, <1>11 DEF Subscriptions
  <2>2. q \in Seq(Entries)
    BY <1>9
  <2>3. e.seq > x.floor
    BY <1>9, <1>11
  <2> HIDE DEF q
  <2>4. Enqueue(x, e, live) \in Subscriptions
    BY Zenon, <1>6, <2>1, <2>2 DEF Subscriptions
  <2>5. /\ Enqueue(x, e, live).queue = q
        /\ \A f \in DOMAIN y : f # "queue" => Enqueue(x, e, live)[f] = y[f]
    BY Zenon, <1>6, <2>1, <2>2 DEF Subscriptions
  <2> QED  BY Zenon, <1>6, <1>8, <2>3, <2>4, <2>5 DEF Taken, Subscriptions, q
<1>12. CASE ~(e.seq <= x.floor) /\ ~(Len(x.queue) < b)
  <2> DEFINE q == Append(Tail(x.queue), e)
             d == x.dropped + 1
             m == Head(x.queue).seq
  <2>1. Enqueue(x, e, live) = [y EXCEPT !.queue = q, !.dropped = d, !.through = m]
    BY <1>6, <1>7, <1>8, <1>12 DEF Subscriptions
  <2>2. x.queue # <<>>
    BY <1>1, <1>9, <1>12
  <2>3. Tail(x.queue) \in Seq(Entries) /\ Head(x.queue) \in Entries
    BY <1>9, <2>2
  <2>4. q \in Seq(Entries)
    BY <2>3
  <2>5. m \in Nat
    BY <2>3 DEF Entries
  <2>6. e.seq > x.floor /\ d \in Nat
    BY <1>9, <1>12
  <2> HIDE DEF q, d, m
  <2>7. Enqueue(x, e, live) \in Subscriptions
    BY Zenon, <1>6, <2>1, <2>4, <2>5, <2>6 DEF Subscriptions
  <2>8. /\ Enqueue(x, e, live).queue = q
        /\ Enqueue(x, e, live).dropped = d
        /\ Enqueue(x, e, live).through = m
        /\ \A f \in DOMAIN y : f \notin {"queue", "dropped", "through"} =>
             Enqueue(x, e, live)[f] = y[f]
    BY Zenon, <1>6, <2>1, <2>4, <2>5, <2>6 DEF Subscriptions
  <2>9. /\ y.state = x.state /\ y.scope = x.scope /\ y.floor = x.floor /\ y.trunc = x.trunc
        /\ y.replay = x.replay /\ y.spent = x.spent /\ y.reads = x.reads
    BY Zenon, <1>6 DEF Subscriptions
  <2>10. {"state", "scope", "floor", "trunc", "replay", "spent", "reads"} \subseteq DOMAIN y
    BY <1>6 DEF Subscriptions
  <2> DEFINE w == Enqueue(x, e, live)
  <2>11. /\ w.state = x.state /\ w.scope = x.scope /\ w.floor = x.floor /\ w.trunc = x.trunc
         /\ w.replay = x.replay /\ w.spent = x.spent /\ w.reads = x.reads
    <3> HIDE DEF y, w
    <3>1. \A f \in {"state", "scope", "floor", "trunc", "replay", "spent", "reads"} : w[f] = y[f]
      BY <2>8, <2>10 DEF w
    <3> QED  BY <2>9, <3>1
  <2> HIDE DEF w, y
  <2>12. w.queue = q /\ w.dropped = d /\ w.through = m /\ w \in Subscriptions
    BY Zenon, <2>7, <2>8 DEF w
  <2>13. Taken(x, w, e)
    BY Zenon, <2>2, <2>6, <2>11, <2>12 DEF Taken, q, d, m
  <2> QED  BY Zenon, <2>13 DEF w
<1> QED  BY <1>10, <1>11, <1>12

-----------------------------------------------------------------------------
(* The replay buffer *)

\* An entry of a sequence has a seq.
LEMMA SeqOf ==
  ASSUME NEW q \in Seq(Entries), NEW i \in 1 .. Len(q)
  PROVE  q[i].seq \in Nat
<1>1. q[i] \in Entries
  OBVIOUS
<1> QED  BY <1>1 DEF Entries

\* A suffix of a buffer.
LEMMA Suffix ==
  ASSUME NEW q \in Seq(Entries), NEW k \in Nat \ {0}, k <= Len(q)
  PROVE  /\ SubSeq(q, k, Len(q)) \in Seq(Entries)
         /\ Len(SubSeq(q, k, Len(q))) = Len(q) - k + 1
         /\ \A i \in 1 .. Len(q) - k + 1 : SubSeq(q, k, Len(q))[i] = q[k + i - 1]
OBVIOUS

\* Trimming a buffer to its bound leaves no gap.
LEMMA KeepFills ==
  ASSUME NEW q \in Seq(Entries), NEW n \in Nat, Filled(q, n)
  PROVE  Keep(q) \in Seq(Entries) /\ Filled(Keep(q), n)
<1>1. ReplayMax \in Nat /\ ReplayMax >= 1
  BY BoundsPositive
<1>2. CASE ~(Len(q) > ReplayMax)
  BY <1>2 DEF Keep
<1>3. CASE Len(q) > ReplayMax
  <2> DEFINE k == Len(q) - ReplayMax + 1
             p == SubSeq(q, k, Len(q))
  <2>1. Keep(q) = p
    BY Zenon, <1>3 DEF Keep
  <2>2. k \in Nat \ {0} /\ k <= Len(q) /\ Len(q) - k + 1 = ReplayMax
    BY <1>1, <1>3
  <2> HIDE DEF k
  <2>3. /\ p \in Seq(Entries)
        /\ Len(p) = ReplayMax
        /\ \A i \in 1 .. ReplayMax : p[i] = q[k + i - 1]
    BY <2>2, Suffix
  <2> HIDE DEF p
  <2>4. p # <<>>
    BY <1>1, <2>3
  <2>5. Len(q) < n
    BY <1>1, <1>3 DEF Filled
  <2>6. ASSUME NEW i \in 1 .. Len(p)
        PROVE  p[i].seq + Len(p) + 1 = n + i
    <3>1. k + i - 1 \in 1 .. Len(q) /\ p[i] = q[k + i - 1]
      BY <1>1, <2>2, <2>3
    <3> DEFINE v == q[k + i - 1].seq
               l == Len(q)
    <3>3. v \in Nat /\ l \in Nat
      BY <3>1, SeqOf
    <3>4. v + l + 1 = n + (k + i - 1)
      BY <3>1 DEF Filled
    <3>5. p[i].seq = v
      BY <3>1
    <3>6. i \in Nat /\ k \in Nat /\ l - k + 1 = ReplayMax
      BY <2>2
    <3> HIDE DEF v, l
    <3>7. v + ReplayMax + 1 = n + i
      BY <1>1, <3>3, <3>4, <3>6
    <3> QED  BY <2>3, <3>5, <3>7
  <2>7. Len(p) < n
    BY <1>1, <1>3, <2>3, <2>5
  <2> QED  BY <2>1, <2>3, <2>4, <2>6, <2>7 DEF Filled
<1> QED  BY <1>2, <1>3

\* The next event of a run leaves no gap.
LEMMA AppendFills ==
  ASSUME NEW q \in Seq(Entries), NEW n \in Nat, Filled(q, n), NEW e \in Entries,
         e.seq = IF n = 0 THEN 1 ELSE n
  PROVE  Append(q, e) \in Seq(Entries) /\ Filled(Append(q, e), e.seq + 1)
<1> DEFINE p == Append(q, e)
           l == Len(q)
<1>1. l \in Nat /\ e.seq \in Nat
  BY DEF Entries
<1>2. /\ p \in Seq(Entries) /\ p # <<>> /\ Len(p) = l + 1
      /\ p[l + 1] = e /\ \A i \in 1 .. l : p[i] = q[i]
  OBVIOUS
<1> HIDE DEF p
<1>3. l = 0 \/ l < n
  BY DEF Filled
<1>4. \A i \in 1 .. l : q[i].seq + l + 1 = n + i
  BY DEF Filled
<1>5. \A i \in 1 .. l : q[i].seq \in Nat
  BY SeqOf
<1> HIDE DEF l
<1>6. Len(p) < e.seq + 1
  BY <1>1, <1>2, <1>3
<1>7. ASSUME NEW i \in 1 .. l + 1
      PROVE  p[i].seq + (l + 1) + 1 = (e.seq + 1) + i
  <2>1. CASE i = l + 1
    BY <1>1, <1>2, <2>1
  <2>2. CASE i # l + 1
    <3> DEFINE v == q[i].seq
               w == e.seq
    <3>1. i \in 1 .. l /\ n = w
      BY <1>1, <1>3, <2>2
    <3>2. p[i].seq = v
      BY <1>2, <3>1
    <3>3. v \in Nat /\ v + l + 1 = n + i
      BY <1>4, <1>5, <3>1
    <3> HIDE DEF v, w
    <3>4. v + (l + 1) + 1 = (w + 1) + i
      BY <1>1, <3>1, <3>3
    <3> QED  BY <3>2, <3>4 DEF w
  <2> QED  BY <2>1, <2>2
<1> QED  BY <1>2, <1>6, <1>7 DEF Filled, p

\* What subscribe_entries announces as truncated, and where its replay starts.
Truncation(q, floor) ==
  LET head == IF q = <<>> THEN 0 ELSE Head(q).seq
  IN  IF head # 0 /\ floor < head - 1 THEN head ELSE 0
Start(trunc, floor) == IF trunc # 0 THEN trunc ELSE floor + 1

\* Of a subscription from floor: the replay has no gap and reaches the end of the
\* buffer.
LEMMA AboveServes ==
  ASSUME NEW q \in Seq(Entries), NEW n \in Nat, Filled(q, n), NEW floor \in Nat
  PROVE  /\ Truncation(q, floor) \in Nat
         /\ Above(q, floor) \in Seq(Entries)
         /\ Truncation(q, floor) # 0 =>
              Truncation(q, floor) > floor + 1 /\ Above(q, floor) # <<>>
         /\ \A i \in 1 .. Len(Above(q, floor)) :
              Above(q, floor)[i].seq + 1 = Start(Truncation(q, floor), floor) + i
         /\ Start(Truncation(q, floor), floor) + Len(Above(q, floor)) =
              IF n <= floor + 1 THEN floor + 1 ELSE n
<1> DEFINE head == IF q = <<>> THEN 0 ELSE Head(q).seq
           trunc == Truncation(q, floor)
           first == Start(trunc, floor)
<1>0. /\ trunc = IF head # 0 /\ floor < head - 1 THEN head ELSE 0
      /\ first = IF trunc # 0 THEN trunc ELSE floor + 1
  BY DEF Truncation, Start
<1> DEFINE I == {i \in DOMAIN q : q[i].seq > floor}
           l == Len(q)
           a == Above(q, floor)
<1>1. l \in Nat /\ DOMAIN q = 1 .. l /\ (q = <<>> <=> l = 0)
  OBVIOUS
<1>2. \A i \in 1 .. l : q[i].seq \in Nat
  BY SeqOf
<1>3. /\ n > 1 => l # 0
      /\ l # 0 => l < n
      /\ \A i \in 1 .. l : q[i].seq + l + 1 = n + i
  BY <1>1 DEF Filled
<1>4. a = IF I = {} THEN <<>> ELSE SubSeq(q, Min(I), l)
  BY DEF Above
<1>5. ASSUME NEW i \in 1 .. l
      PROVE  i \in I <=> n + i > floor + l + 1
  <2> DEFINE v == q[i].seq
  <2>1. v \in Nat /\ v + l + 1 = n + i
    BY <1>2, <1>3
  <2>2. i \in I <=> v > floor
    BY <1>1
  <2> HIDE DEF v, l, I
  <2> QED  BY <1>1, <2>1, <2>2
<1>6. q # <<>> => Head(q) = q[1]
  OBVIOUS
<1>7. q # <<>> => Head(q).seq = n - l
  BY <1>1, <1>2, <1>3, <1>6
<1>8. I \subseteq 1 .. l
  BY <1>1
<1> HIDE DEF I, l, a, trunc, first
<1>9. ASSUME NEW k \in 1 .. l, \A i \in 1 .. l : i \in I <=> i >= k
      PROVE  /\ a \in Seq(Entries)
             /\ Len(a) = l - k + 1
             /\ \A i \in 1 .. l - k + 1 : a[i].seq + l + 2 = n + k + i
  <2>1. k \in I /\ \A j \in I : k <= j
    BY <1>1, <1>8, <1>9
  <2>2. Min(I) \in I /\ \A j \in I : Min(I) <= j
    BY Zenon, <2>1 DEF Min
  <2>3. Min(I) = k
    <3> DEFINE m == Min(I)
    <3>1. m \in I /\ m <= k /\ k <= m
      BY Zenon, <2>1, <2>2
    <3> HIDE DEF m
    <3>2. m \in 1 .. l
      BY <1>8, <3>1
    <3>3. m = k
      BY <3>1, <3>2
    <3> QED  BY <3>3 DEF m
  <2>4. a = SubSeq(q, k, l)
    BY Zenon, <1>4, <2>1, <2>3
  <2>5. /\ a \in Seq(Entries)
        /\ Len(a) = l - k + 1
        /\ \A i \in 1 .. l - k + 1 : a[i] = q[k + i - 1]
    BY <1>1, <1>9, <2>4, Suffix DEF l
  <2>6. ASSUME NEW i \in 1 .. l - k + 1
        PROVE  a[i].seq + l + 2 = n + k + i
    <3> DEFINE v == q[k + i - 1].seq
    <3>1. k + i - 1 \in 1 .. l
      BY <1>1
    <3>2. v \in Nat /\ v + l + 1 = n + (k + i - 1) /\ a[i].seq = v
      BY <1>2, <1>3, <2>5, <3>1
    <3> HIDE DEF v
    <3>3. v + l + 2 = n + k + i
      BY <1>1, <3>2
    <3> QED  BY <3>2, <3>3
  <2> QED  BY <2>5, <2>6
<1>10. CASE l = 0
  <2>1. I = {}
    BY <1>8, <1>10
  <2>2. a = <<>> /\ q = <<>>
    BY <1>1, <1>4, <1>10, <2>1
  <2>3. a \in Seq(Entries) /\ Len(a) = 0
    BY <2>2
  <2>4. trunc = 0 /\ first = floor + 1 /\ n <= floor + 1
    BY <1>0, <1>3, <1>10, <2>2
  <2> QED  BY <2>2, <2>3, <2>4 DEF a, trunc, first
<1>11. CASE l # 0 /\ floor + 1 < n - l
  <2>1. head = n - l /\ n - l > 0 /\ trunc = n - l /\ first = n - l
    BY <1>0, <1>1, <1>3, <1>7, <1>11
  <2>2. 1 \in 1 .. l /\ \A i \in 1 .. l : i \in I <=> i >= 1
    BY <1>1, <1>5, <1>11
  <2>0. l - 1 + 1 = l
    BY <1>1
  <2>3. a \in Seq(Entries) /\ Len(a) = l /\ \A i \in 1 .. l : a[i].seq + l + 2 = n + 1 + i
    BY <1>9, <2>0, <2>2
  <2>4. \A i \in 1 .. l : a[i].seq \in Nat
    BY <2>3, SeqOf
  <2>5. a # <<>>
    BY <1>11, <2>3
  <2>6. ASSUME NEW i \in 1 .. l
        PROVE  a[i].seq + 1 = (n - l) + i
    <3> DEFINE v == a[i].seq
    <3>1. v \in Nat /\ v + l + 2 = n + 1 + i
      BY <2>3, <2>4
    <3> HIDE DEF v
    <3>2. v + 1 = (n - l) + i
      BY <1>1, <3>1
    <3> QED  BY <3>2 DEF v
  <2>7. first + Len(a) = n /\ ~(n <= floor + 1) /\ trunc > floor + 1 /\ trunc \in Nat
    <3> DEFINE d == Len(a)
    <3>1. d = l
      BY <2>3
    <3> HIDE DEF d
    <3>2. first + d = n /\ ~(n <= floor + 1) /\ trunc > floor + 1 /\ trunc \in Nat
      BY <1>1, <1>11, <2>1, <3>1
    <3> QED  BY <3>2 DEF d
  <2>8. \A i \in 1 .. Len(a) : a[i].seq + 1 = first + i
    BY <2>1, <2>3, <2>6
  <2> QED  BY <2>3, <2>5, <2>7, <2>8 DEF a, trunc, first
<1>12. CASE l # 0 /\ ~(floor + 1 < n - l) /\ n > floor + 1
  <2> DEFINE k == floor + l + 2 - n
  <2>1. trunc = 0 /\ first = floor + 1
    BY <1>0, <1>1, <1>3, <1>7, <1>12
  <2>2. k \in 1 .. l /\ \A i \in 1 .. l : i \in I <=> i >= k
    BY <1>1, <1>5, <1>12
  <2>3. l - k + 1 = n - floor - 1
    BY <1>1
  <2> HIDE DEF k
  <2>4. /\ a \in Seq(Entries) /\ Len(a) = n - floor - 1
        /\ \A i \in 1 .. n - floor - 1 : a[i].seq + l + 2 = n + k + i
    BY Zenon, <1>9, <2>2, <2>3
  <2>5. \A i \in 1 .. n - floor - 1 : a[i].seq \in Nat
    BY <2>4, SeqOf
  <2>6. ASSUME NEW i \in 1 .. n - floor - 1
        PROVE  a[i].seq + 1 = (floor + 1) + i
    <3> DEFINE v == a[i].seq
    <3>1. v \in Nat /\ v + l + 2 = n + k + i
      BY <2>4, <2>5
    <3> HIDE DEF v
    <3>2. v + 1 = (floor + 1) + i
      BY <1>1, <3>1 DEF k
    <3> QED  BY <3>2 DEF v
  <2>7. first + Len(a) = n /\ ~(n <= floor + 1)
    <3> DEFINE d == Len(a)
    <3>1. d = n - floor - 1
      BY <2>4
    <3> HIDE DEF d
    <3>2. first + d = n /\ ~(n <= floor + 1)
      BY <1>12, <2>1, <3>1
    <3> QED  BY <3>2 DEF d
  <2>8. \A i \in 1 .. Len(a) : a[i].seq + 1 = first + i
    BY <2>1, <2>4, <2>6
  <2> QED  BY <2>1, <2>4, <2>7, <2>8 DEF a, trunc, first
<1>13. CASE l # 0 /\ ~(n > floor + 1)
  <2>1. trunc = 0 /\ first = floor + 1
    BY <1>0, <1>1, <1>3, <1>7, <1>13
  <2>2. I = {}
    BY <1>1, <1>5, <1>8, <1>13
  <2>3. a = <<>>
    BY <1>4, <2>2
  <2>4. a \in Seq(Entries) /\ Len(a) = 0
    BY <2>3
  <2>5. first + Len(a) = floor + 1 /\ n <= floor + 1
    BY <1>13, <2>1, <2>4
  <2> QED  BY <2>1, <2>3, <2>4, <2>5 DEF a, trunc, first
<1> QED  BY <1>1, <1>10, <1>11, <1>12, <1>13

-----------------------------------------------------------------------------
(* A subscription of a run *)

\* An event that is queued, or for which the oldest one is dropped, comes next.
LEMMA TakenServed ==
  ASSUME NEW x \in Subscriptions, NEW y, NEW e \in Entries, NEW c \in Nat, NEW n \in Nat,
         Served(x, c, n), x.state = "open", Taken(x, y, e),
         e.seq = IF n = 0 THEN 1 ELSE n
  PROVE  Served(y, c, e.seq + 1)
<1> DEFINE b == Behind(x, c)
           m == Len(x.queue)
           f == x.floor
           q == e.seq
<1>0. /\ x.queue \in Seq(Entries) /\ x.replay \in Seq(Entries) /\ x.floor \in Nat
      /\ x.dropped \in Nat /\ x.trunc \in Nat /\ e.seq \in Nat
  BY Zenon DEF Subscriptions, Entries
<1>1a. Len(x.queue) \in Nat /\ Len(x.replay) \in Nat
  BY Zenon, <1>0, LenIsNat
<1>1b. First(x, c) \in Nat
  BY Zenon, <1>0, NextIsNat DEF First
<1>1c. First(x, c) + Len(x.replay) \in Nat
  BY Zenon, <1>1a, <1>1b, SumIsNat
<1>1. b \in Nat /\ m \in Nat /\ f \in Nat /\ q \in Nat /\ x.queue \in Seq(Entries)
  BY Zenon, <1>0, <1>1a, <1>1c, SumIsNat DEF Behind
<1>2. b + m = IF n <= f + 1 THEN f + 1 ELSE n
  BY DEF Served
<1>3. /\ \A i \in 1 .. m : x.queue[i].seq + 1 = b + i
      /\ x.dropped > 0 => x.through + 1 = b
  BY DEF Served
<1>4. First(y, c) = First(x, c)
  BY DEF Taken, First
<1>5a. y.dropped \in Nat
  BY Zenon DEF Taken, Subscriptions
<1>5. x.dropped \in Nat /\ y.dropped \in Nat /\ First(x, c) + Len(x.replay) \in Nat
  BY Zenon, <1>0, <1>1c, <1>5a
<1> DEFINE g == First(x, c) + Len(x.replay)
<1>6. b = g + x.dropped /\ Behind(y, c) = g + y.dropped
  BY <1>4 DEF Taken, Behind
<1>7. /\ y.state \in {"open", "shut"} /\ y.scope \in Runs
      /\ y.trunc # 0 => y.trunc > c + 1 /\ y.replay # <<>>
      /\ \A i \in 1 .. Len(y.replay) : y.replay[i].seq + 1 = First(y, c) + i
  BY <1>4 DEF Taken, Served
<1>8. y.floor = f
  BY DEF Taken
<1> HIDE DEF b, m, f, q, g
<1>9. SUFFICES /\ y.dropped > 0 => y.through + 1 = Behind(y, c)
               /\ \A i \in 1 .. Len(y.queue) : y.queue[i].seq + 1 = Behind(y, c) + i
               /\ Behind(y, c) + Len(y.queue) = IF q + 1 <= f + 1 THEN f + 1 ELSE q + 1
  BY <1>7, <1>8 DEF Served, q
<1>10. CASE /\ q <= f /\ y.queue = x.queue
            /\ y.dropped = x.dropped /\ y.through = x.through
  <2>1. Behind(y, c) = b
    BY <1>6, <1>10
  <2>2. b + m = f + 1 /\ q + 1 <= f + 1
    BY <1>1, <1>2, <1>10 DEF q
  <2> QED  BY <1>3, <1>10, <2>1, <2>2 DEF m
<1>11. q > f => b + m = q
  BY <1>1, <1>2 DEF q
<1>12. CASE /\ q > f /\ y.queue = Append(x.queue, e)
            /\ y.dropped = x.dropped /\ y.through = x.through
  <2>1. Behind(y, c) = b
    BY <1>6, <1>12
  <2>2. /\ Len(y.queue) = m + 1 /\ y.queue[m + 1] = e
        /\ \A i \in 1 .. m : y.queue[i] = x.queue[i]
    BY <1>1, <1>12 DEF m
  <2>3. b + (m + 1) = q + 1 /\ ~(q + 1 <= f + 1)
    BY <1>1, <1>11, <1>12
  <2>4. ASSUME NEW i \in 1 .. m + 1
        PROVE  y.queue[i].seq + 1 = b + i
    <3>1. CASE i = m + 1
      BY <2>2, <2>3, <3>1 DEF q
    <3>2. CASE i # m + 1
      <4>1. i \in 1 .. m
        BY <1>1, <3>2
      <4> QED  BY <1>3, <2>2, <4>1
    <3> QED  BY <3>1, <3>2
  <2> QED  BY <1>3, <1>12, <2>1, <2>2, <2>3, <2>4
<1>13. CASE /\ q > f /\ x.queue # <<>> /\ y.queue = Append(Tail(x.queue), e)
            /\ y.dropped = x.dropped + 1 /\ y.through = Head(x.queue).seq
  <2>1. Behind(y, c) = b + 1
    BY <1>5, <1>6, <1>13 DEF g
  <2>2. m >= 1 /\ Head(x.queue) = x.queue[1]
    BY <1>1, <1>13 DEF m
  <2>3. /\ Len(y.queue) = m /\ y.queue[m] = e
        /\ \A i \in 1 .. m - 1 : y.queue[i] = x.queue[i + 1]
    <3> DEFINE t == Tail(x.queue)
    <3>1. t \in Seq(Entries) /\ Len(t) = m - 1 /\ \A i \in 1 .. m - 1 : t[i] = x.queue[i + 1]
      BY <1>1, <1>13 DEF m
    <3> HIDE DEF t
    <3>2. /\ Len(Append(t, e)) = (m - 1) + 1 /\ Append(t, e)[(m - 1) + 1] = e
          /\ \A i \in 1 .. m - 1 : Append(t, e)[i] = t[i]
      BY <3>1
    <3>3. (m - 1) + 1 = m
      BY <1>1
    <3> QED  BY Zenon, <1>13, <3>1, <3>2, <3>3 DEF t
  <2>4. (b + 1) + m = q + 1 /\ ~(q + 1 <= f + 1)
    BY <1>1, <1>11, <1>13
  <2>5. ASSUME NEW i \in 1 .. m
        PROVE  y.queue[i].seq + 1 = (b + 1) + i
    <3>1. CASE i = m
      BY <2>3, <2>4, <3>1 DEF q
    <3>2. CASE i # m
      <4>1. i \in 1 .. m - 1 /\ i + 1 \in 1 .. m /\ b + (i + 1) = (b + 1) + i
        BY <1>1, <3>2
      <4> QED  BY Zenon, <1>3, <2>3, <4>1
    <3> QED  BY <3>1, <3>2
  <2>6. y.through + 1 = b + 1
    <3>1. 1 \in 1 .. m
      BY <1>1, <2>2
    <3> QED  BY <1>3, <1>13, <2>2, <3>1
  <2> QED  BY <2>1, <2>3, <2>4, <2>5, <2>6
<1> QED  BY <1>10, <1>12, <1>13 DEF Taken, q, f

\* What NoSilentGap says of one step of one subscription.
Told(x, y, c) ==
  /\ Len(y.replay) < Len(x.replay) => Head(x.replay).seq = c + 1
  /\ Len(y.queue) < Len(x.queue) => Head(x.queue).seq = c + 1
  /\ x.dropped > 0 /\ y.dropped = 0 => x.through = c + x.dropped
  /\ x.trunc # 0 /\ y.trunc = 0 => x.trunc > c + 1

\* Nothing was delivered; the bus may have shut down.
Same(x, y) ==
  /\ y.state = x.state \/ (x.state = "open" /\ y.state = "shut")
  /\ y.scope = x.scope /\ y.floor = x.floor /\ y.trunc = x.trunc /\ y.replay = x.replay
  /\ y.queue = x.queue /\ y.dropped = x.dropped /\ y.through = x.through

\* A subscription that is left alone continues where it was.
LEMMA SameServed ==
  ASSUME NEW x \in Subscriptions, NEW y, NEW c \in Nat, NEW n \in Nat, Served(x, c, n),
         Same(x, y)
  PROVE  Served(y, c, n) /\ Told(x, y, c)
<1>1. First(y, c) = First(x, c) /\ Behind(y, c) = Behind(x, c)
  BY DEF Same, Behind, First
<1>2. y.state = "open" => x.state = "open"
  BY DEF Same
<1>3. Served(y, c, n)
  BY <1>1, <1>2 DEF Same, Served
<1>4. Len(x.replay) \in Nat /\ Len(x.queue) \in Nat /\ x.dropped \in Nat
  BY DEF Subscriptions
<1>5. Told(x, y, c)
  BY <1>4 DEF Same, Told
<1> QED  BY <1>3, <1>5

\* A delivery drops nothing that is not added to the notice.
LEMMA TakenTold ==
  ASSUME NEW x \in Subscriptions, NEW y, NEW c \in Nat, NEW e \in Entries, Taken(x, y, e)
  PROVE  Told(x, y, c)
<1>1. /\ Len(x.replay) \in Nat /\ Len(x.queue) \in Nat /\ x.dropped \in Nat
      /\ x.queue \in Seq(Entries)
  BY DEF Subscriptions
<1>2. y.replay = x.replay /\ y.trunc = x.trunc
  BY DEF Taken
<1>3. y.dropped = 0 => x.dropped = 0
  BY <1>1 DEF Taken
<1>4. Len(y.queue) >= Len(x.queue)
  <2>1. Len(Append(x.queue, e)) = Len(x.queue) + 1
    BY <1>1
  <2>2. x.queue # <<>> => Len(Append(Tail(x.queue), e)) = Len(x.queue)
    <3> HAVE x.queue # <<>>
    <3>1. Tail(x.queue) \in Seq(Entries) /\ Len(Tail(x.queue)) = Len(x.queue) - 1
      BY <1>1
    <3>2. Len(Append(Tail(x.queue), e)) = Len(Tail(x.queue)) + 1
      BY <3>1
    <3> QED  BY <1>1, <3>1, <3>2
  <2>3. y.queue \in {x.queue, Append(x.queue, e)} \/
        (x.queue # <<>> /\ y.queue = Append(Tail(x.queue), e))
    BY DEF Taken
  <2> QED  BY <1>1, <2>1, <2>2, <2>3
<1>5. ~(Len(y.queue) < Len(x.queue))
  <2>1. y.queue \in Seq(Entries)
    BY DEF Taken, Subscriptions
  <2>2. Len(y.queue) \in Nat
    BY <2>1
  <2> QED  BY <1>1, <1>4, <2>2
<1> QED  BY <1>1, <1>2, <1>3, <1>5 DEF Told

\* What a delivery leaves alone.
Rest(x, y) == y.state = x.state /\ y.scope = x.scope /\ y.floor = x.floor

\* replay_truncated announces what the buffer no longer has.
LEMMA TruncationServed ==
  ASSUME NEW x \in Subscriptions, NEW y, NEW c \in Nat, NEW n \in Nat, Served(x, c, n),
         Rest(x, y), x.trunc # 0, y.trunc = 0, y.replay = x.replay, y.queue = x.queue,
         y.dropped = x.dropped, y.through = x.through
  PROVE  x.trunc - 1 \in Nat /\ Served(y, x.trunc - 1, n) /\ Told(x, y, c)
<1>1. x.trunc \in Nat
  BY DEF Subscriptions
<1>2. First(y, x.trunc - 1) = First(x, c)
  BY <1>1 DEF First
<1>3. Behind(y, x.trunc - 1) = Behind(x, c)
  BY <1>2 DEF Behind
<1>4. Served(y, x.trunc - 1, n)
  BY <1>2, <1>3 DEF Served, Rest
<1>5. Len(x.replay) \in Nat /\ Len(x.queue) \in Nat /\ x.dropped \in Nat
  BY DEF Subscriptions
<1>6. Told(x, y, c)
  BY <1>5 DEF Told, Served
<1> QED  BY <1>1, <1>4, <1>6

\* Reading a replayed event yields the one that follows, and serves it.
LEMMA ReplayServed ==
  ASSUME NEW x \in Subscriptions, NEW y, NEW c \in Nat, NEW n \in Nat, Served(x, c, n),
         Rest(x, y), x.trunc = 0, y.trunc = 0, x.replay # <<>>, y.replay = Tail(x.replay),
         y.queue = x.queue, y.dropped = x.dropped, y.through = x.through
  PROVE  /\ Head(x.replay).seq = c + 1
         /\ Served(y, c + 1, n) /\ Told(x, y, c)
<1> DEFINE l == Len(x.replay)
           d == x.dropped
<1>1. x.replay \in Seq(Entries) /\ l \in Nat /\ l >= 1 /\ d \in Nat /\ Len(x.queue) \in Nat
  BY DEF Subscriptions
<1>2. /\ Head(x.replay) = x.replay[1] /\ Len(y.replay) = l - 1
      /\ \A i \in 1 .. l - 1 : y.replay[i] = x.replay[i + 1]
  BY <1>1
<1>3. First(x, c) = c + 1 /\ First(y, c + 1) = c + 2
  BY DEF First
<1>4. \A i \in 1 .. l : x.replay[i].seq + 1 = c + 1 + i
  BY <1>3 DEF Served
<1>5. \A i \in 1 .. l : x.replay[i].seq \in Nat
  BY <1>1, SeqOf
<1> HIDE DEF l
<1>6. Head(x.replay).seq = c + 1
  <2> DEFINE v == x.replay[1].seq
  <2>1. v \in Nat /\ v + 1 = c + 1 + 1
    BY <1>1, <1>4, <1>5
  <2> HIDE DEF v
  <2>2. v = c + 1
    BY <2>1
  <2> QED  BY <1>2, <2>2 DEF v
<1>7. ASSUME NEW i \in 1 .. l - 1
      PROVE  y.replay[i].seq + 1 = c + 2 + i
  <2>1. i + 1 \in 1 .. l /\ c + 1 + (i + 1) = c + 2 + i
    BY <1>1
  <2> QED  BY <1>2, <1>4, <2>1
<1>8. Behind(y, c + 1) = Behind(x, c)
  <2>1. Behind(x, c) = c + 1 + l + d /\ Behind(y, c + 1) = c + 2 + (l - 1) + d
    BY <1>2, <1>3 DEF Behind, l
  <2> HIDE DEF d
  <2> QED  BY <1>1, <2>1
<1>9. Served(y, c + 1, n)
  BY Zenon, <1>2, <1>3, <1>7, <1>8 DEF Served, Rest
<1>10. Told(x, y, c)
  BY <1>1, <1>6 DEF Told
<1> QED  BY <1>6, <1>9, <1>10

\* events_dropped announces the events up to through.
LEMMA DropsServed ==
  ASSUME NEW x \in Subscriptions, NEW y, NEW c \in Nat, NEW n \in Nat, Served(x, c, n),
         Rest(x, y), x.trunc = 0, y.trunc = 0, x.replay = <<>>, y.replay = <<>>,
         x.dropped > 0, y.dropped = 0, y.queue = x.queue
  PROVE  x.through \in Nat /\ Served(y, x.through, n) /\ Told(x, y, c)
<1>1. x.dropped \in Nat /\ x.through \in Nat /\ Len(x.queue) \in Nat
  BY DEF Subscriptions
<1>2. Behind(x, c) = c + 1 + x.dropped
  BY <1>1 DEF Behind, First
<1>3. x.through = c + x.dropped
  <2>1. x.through + 1 = c + 1 + x.dropped
    BY <1>2 DEF Served
  <2> QED  BY <1>1, <2>1
<1>4. First(y, x.through) = c + 1 + x.dropped
  BY <1>1, <1>3 DEF First
<1>5. Behind(y, x.through) = Behind(x, c)
  BY <1>1, <1>2, <1>4 DEF Behind
<1>6. Served(y, x.through, n)
  <2>1. Len(y.replay) = 0
    OBVIOUS
  <2> QED  BY <1>5, <2>1 DEF Served, Rest
<1>7. Told(x, y, c)
  BY <1>1, <1>3 DEF Told
<1> QED  BY <1>1, <1>6, <1>7

\* Reading a queued event yields the one that follows, and serves it.
LEMMA QueueServed ==
  ASSUME NEW x \in Subscriptions, NEW y, NEW c \in Nat, NEW n \in Nat, Served(x, c, n),
         Rest(x, y), x.trunc = 0, y.trunc = 0, x.replay = <<>>, y.replay = <<>>,
         x.dropped = 0, y.dropped = 0, x.queue # <<>>, y.queue = Tail(x.queue)
  PROVE  /\ Head(x.queue).seq = c + 1
         /\ Served(y, c + 1, n) /\ Told(x, y, c)
<1> DEFINE l == Len(x.queue)
<1>1. x.queue \in Seq(Entries) /\ l \in Nat /\ l >= 1
  BY DEF Subscriptions
<1>2. /\ Head(x.queue) = x.queue[1] /\ Len(y.queue) = l - 1
      /\ \A i \in 1 .. l - 1 : y.queue[i] = x.queue[i + 1]
  BY <1>1
<1>3. Behind(x, c) = c + 1 /\ Behind(y, c + 1) = c + 2
  BY DEF Behind, First
<1>4. /\ \A i \in 1 .. l : x.queue[i].seq + 1 = c + 1 + i
      /\ x.state = "open" => c + 1 + l = IF n <= x.floor + 1 THEN x.floor + 1 ELSE n
  BY Zenon, <1>3 DEF Served
<1>5. \A i \in 1 .. l : x.queue[i].seq \in Nat
  BY <1>1, SeqOf
<1> HIDE DEF l
<1>6. Head(x.queue).seq = c + 1
  <2> DEFINE v == x.queue[1].seq
  <2>1. v \in Nat /\ v + 1 = c + 1 + 1
    BY <1>1, <1>4, <1>5
  <2> HIDE DEF v
  <2>2. v = c + 1
    BY <2>1
  <2> QED  BY <1>2, <2>2 DEF v
<1>7. ASSUME NEW i \in 1 .. l - 1
      PROVE  y.queue[i].seq + 1 = c + 2 + i
  <2>1. i + 1 \in 1 .. l /\ c + 1 + (i + 1) = c + 2 + i
    BY <1>1
  <2> QED  BY <1>2, <1>4, <2>1
<1>8. c + 2 + (l - 1) = c + 1 + l
  BY <1>1
<1>9. Served(y, c + 1, n)
  <2>1. Len(y.replay) = 0
    OBVIOUS
  <2>2. x.state = "open" =>
          Behind(y, c + 1) + Len(y.queue) = IF n <= x.floor + 1 THEN x.floor + 1 ELSE n
    BY <1>2, <1>3, <1>4, <1>8
  <2>3. \A i \in 1 .. Len(y.queue) : y.queue[i].seq + 1 = Behind(y, c + 1) + i
    BY <1>2, <1>3, <1>7
  <2> QED  BY <2>1, <2>2, <2>3 DEF Served, Rest
<1>10. Told(x, y, c)
  BY <1>1, <1>6 DEF Told
<1> QED  BY <1>6, <1>9, <1>10

\* Of a subscription that is no longer open, nothing more is expected.
LEMMA ShutServed ==
  ASSUME NEW x, NEW c, NEW n, NEW m, Served(x, c, n), x.state # "open"
  PROVE  Served(x, c, m)
BY DEF Served

-----------------------------------------------------------------------------
(* Deliveries and backpressure *)

\* A read counts towards the deadline that was spent: until the queue is half empty or
\* enough was read, the deadline stays spent.
LEMMA Drains ==
  ASSUME NEW x \in Subscriptions, NEW live \in Nat, NEW y, y = NoteDrained(x, live)
  PROVE  /\ y \in Subscriptions
         /\ \A f \in DOMAIN x : f \notin {"high", "spent", "reads", "drained"} => y[f] = x[f]
         /\ QueueBound(y, 0) = QueueBound(x, live)
         /\ \A d \in Nat :
              /\ x.spent /\ x.reads <= d
              /\ ~(Len(y.queue) * 2 < QueueBound(y, 0)) /\ ~((d + 1) * 2 >= QueueBound(y, 0))
              => y.spent /\ y.reads <= d + 1
<1> DEFINE b == QueueBound(x, live)
           z == Sized(x, live)
           rearmed == x.spent /\ (x.reads + 1) * 2 >= b
           below == Len(x.queue) * 2 < b
           sp == x.spent /\ ~rearmed /\ ~below
           rd == IF x.spent /\ ~rearmed /\ ~below THEN x.reads + 1 ELSE 0
           dr == x.drained \/ below
<1>1. b \in Nat
  BY Bounds
<1>2. x.reads \in Nat /\ x.spent \in BOOLEAN /\ x.drained \in BOOLEAN
  BY DEF Subscriptions
<1>3. z \in Subscriptions
  BY SizedKeeps
<1>4. z.spent = x.spent /\ z.reads = x.reads /\ z.drained = x.drained
  <2>1. {"spent", "reads", "drained"} \subseteq DOMAIN x
    BY DEF Subscriptions
  <2> QED  BY <2>1, SizedKeeps
<1>5. \A f \in DOMAIN x : f # "high" => z[f] = x[f]
  BY SizedKeeps
<1>6. x.scope = None => z.high = b
  BY SizedKeeps
<1>7. y = [z EXCEPT !.spent = sp, !.reads = rd, !.drained = dr]
  <2>1. y = [z EXCEPT !.spent = @ /\ ~rearmed /\ ~below,
                      !.reads = IF x.spent /\ ~rearmed /\ ~below THEN @ + 1 ELSE 0,
                      !.drained = @ \/ below]
    BY DEF NoteDrained
  <2> HIDE DEF z, b, below, rearmed
  <2> QED  BY <1>3, <1>4, <2>1 DEF Subscriptions
<1>8. sp \in BOOLEAN /\ dr \in BOOLEAN
  BY <1>2
<1>9. rd \in Nat
  BY <1>2
<1>10. ASSUME NEW d \in Nat, x.spent, x.reads <= d, ~(Len(x.queue) * 2 < b), ~((d + 1) * 2 >= b)
       PROVE  sp /\ rd <= d + 1
  <2>1. ~((x.reads + 1) * 2 >= b)
    BY <1>1, <1>2, <1>10
  <2>2. x.reads + 1 <= d + 1
    BY <1>2, <1>10
  <2> QED  BY <1>10, <2>1, <2>2
<1> HIDE DEF z, b, below, rearmed, sp, rd, dr
<1>11. y \in Subscriptions
  BY Zenon, <1>3, <1>7, <1>8, <1>9 DEF Subscriptions
<1>12. y.spent = sp /\ y.reads = rd /\ y.drained = dr
  BY <1>3, <1>7 DEF Subscriptions
<1>13. \A f \in DOMAIN x : f \notin {"spent", "reads", "drained"} => y[f] = z[f]
  BY Zenon, <1>3, <1>7 DEF Subscriptions
<1>14. \A f \in DOMAIN x : f \notin {"high", "spent", "reads", "drained"} => y[f] = x[f]
  BY <1>5, <1>13
<1>15. {"high", "scope", "queue"} \subseteq DOMAIN x
  BY DEF Subscriptions
<1>16. y.scope = x.scope /\ y.queue = x.queue
  BY <1>14, <1>15
<1>17. y.high = z.high
  BY <1>13, <1>15
<1>18. QueueBound(y, 0) = b
  BY <1>6, <1>11, <1>16, <1>17, BoundKept DEF b
<1> QED  BY <1>10, <1>11, <1>12, <1>14, <1>16, <1>18 DEF b

\* The waits a step leaves are waits there were.
Fewer == \A r \in Runs : pub'[r].rest = pub[r].rest /\ pub'[r].on \in {pub[r].on, None}

\* Waking publishers lets none of them wait on more subscribers.
LEMMA WakeLess ==
  ASSUME Typed, NEW S, Wake(S)
  PROVE  Fewer /\ pub' \in [Runs -> [on : Subs \cup {None}, rest : SUBSET Subs]]
BY Zenon DEF Typed, Wake, Fewer

\* Publishers that wait on fewer subscribers stay within what they spent.
LEMMA IndebtedLess ==
  ASSUME Typed, Indebted, Fewer,
         \A s \in Subs, r \in Runs : debt[s][r] = Free => debt'[s][r] = Free,
         \A s \in Subs, r \in Runs : debt'[s][r] # Free =>
           sub'[s].spent /\ sub'[s].reads <= debt'[s][r]
  PROVE  Indebted'
<1>1. \A r \in Runs, s \in Subs : s \in pub'[r].rest \/ pub'[r].on = s =>
        s \in pub[r].rest \/ pub[r].on = s
  BY NoneIsNoRun DEF Fewer
<1>2. \A r \in Runs : pub'[r].on \notin pub'[r].rest
  <2>1. \A r \in Runs : None \notin pub[r].rest
    BY NoneIsNoRun DEF Typed
  <2> QED  BY <2>1 DEF Fewer, Indebted
<1>3. Free' = Free
  BY DEF Free
<1> QED  BY <1>1, <1>2, <1>3 DEF Indebted

\* Nothing changed what a publisher waits for or has spent.
LEMMA IndebtedSame ==
  ASSUME Typed, Indebted, Fewer, UNCHANGED debt,
         \A s \in Subs : sub'[s].spent = sub[s].spent /\ sub'[s].reads = sub[s].reads
  PROVE  Indebted'
BY IndebtedLess DEF Indebted

\* The subscriptions match what they matched.
LEMMA CleanedSame ==
  ASSUME Cleaned, UNCHANGED <<dead, timer, down>>,
         \A s \in Subs : sub'[s].state = sub[s].state /\ sub'[s].scope = sub[s].scope
  PROVE  Cleaned'
BY DEF Cleaned, CleanupKept, Matches

\* Every gap a step makes in a watched stream is told.
AllTold == \A s \in Subs :
  cover[s] # None /\ sub'[s].state # "closed" => Told(sub[s], sub'[s], cover[s])

\* A subscription with a recorded cover is open or shut, and served.
LEMMA ServedNow ==
  ASSUME Typed, Unbroken, NEW s \in Subs, cover[s] # None
  PROVE  /\ sub[s] \in Subscriptions /\ cover[s] \in Nat
         /\ sub[s].scope \in Runs /\ next[sub[s].scope] \in Nat
         /\ sub[s].state \in {"open", "shut"}
         /\ Served(sub[s], cover[s], next[sub[s].scope])
<1>1. Served(sub[s], cover[s], next[sub[s].scope])
  BY DEF Unbroken
<1>2. sub[s].scope \in Runs /\ sub[s].state \in {"open", "shut"}
  BY <1>1 DEF Served
<1> QED  BY <1>1, <1>2 DEF Typed

\* A step that touches no subscription and no numbering tells no gap.
LEMMA UnbrokenSame ==
  ASSUME Typed, Unbroken, UNCHANGED <<sub, cover, next>>
  PROVE  Unbroken' /\ AllTold
<1>1. Unbroken'
  BY DEF Unbroken
<1>2. ASSUME NEW s \in Subs, cover[s] # None
      PROVE  Told(sub[s], sub'[s], cover[s])
  <2>1. Same(sub[s], sub'[s])
    BY DEF Same
  <2> QED  BY <1>2, <2>1, ServedNow, SameServed
<1> QED  BY <1>1, <1>2 DEF AllTold

-----------------------------------------------------------------------------
(* Publishing *)

\* The event is numbered, buffered and enqueued.
LEMMA Delivers ==
  ASSUME IInv, NEW r \in Runs, NEW terminal \in BOOLEAN, Deliver(r, terminal), UNCHANGED cover
  PROVE  /\ buf' \in [Runs -> Seq(Entries)] /\ next' \in [Runs -> Nat]
         /\ sub' \in [Subs -> Subscriptions]
         /\ Buffered' /\ Unbroken' /\ AllTold
         /\ \A s \in Subs : /\ sub'[s].state = sub[s].state /\ sub'[s].scope = sub[s].scope
                            /\ sub'[s].spent = sub[s].spent /\ sub'[s].reads = sub[s].reads
<1> DEFINE q == IF Known(r) THEN next[r] ELSE 1
           e == [run |-> r, seq |-> q, terminal |-> terminal]
           live == LiveRuns([next EXCEPT ![r] = q + 1], dead')
<1>1. /\ next' = [next EXCEPT ![r] = q + 1]
      /\ buf' = [buf EXCEPT ![r] = Keep(Append(@, e))]
      /\ sub' = [s \in Subs |->
          LET x == IF Matches(sub[s], r) THEN Enqueue(sub[s], e, live) ELSE sub[s]
          IN  IF ~terminal /\ Matches(sub[s], r) /\ Backlogged(x, live)
                THEN [x EXCEPT !.drained = FALSE] ELSE x]
  BY DEF Deliver
<1>2. next[r] \in Nat /\ q = IF next[r] = 0 THEN 1 ELSE next[r]
  BY DEF IInv, Typed, Known
<1>3. q \in Nat
  BY <1>2
<1>4. e \in Entries /\ e.seq = q
  BY <1>3 DEF Entries
<1>5. live \in Nat
  BY LiveIsNat
<1> HIDE DEF q, e, live
<1>6. next' \in [Runs -> Nat]
  BY <1>1, <1>3 DEF IInv, Typed
<1>7. buf' \in [Runs -> Seq(Entries)] /\ Buffered'
  <2>1. buf[r] \in Seq(Entries) /\ Filled(buf[r], next[r])
    BY DEF IInv, Typed, Buffered
  <2>2. Append(buf[r], e) \in Seq(Entries) /\ Filled(Append(buf[r], e), q + 1)
    BY <1>2, <1>4, <2>1, AppendFills
  <2>3. q + 1 \in Nat
    BY <1>3
  <2>4. Keep(Append(buf[r], e)) \in Seq(Entries) /\ Filled(Keep(Append(buf[r], e)), q + 1)
    BY Zenon, <2>2, <2>3, KeepFills
  <2>5. buf'[r] = Keep(Append(buf[r], e)) /\ next'[r] = q + 1
    BY <1>1 DEF IInv, Typed
  <2>6. \A t \in Runs \ {r} : buf'[t] = buf[t] /\ next'[t] = next[t]
    BY <1>1 DEF IInv, Typed
  <2>7. buf' \in [Runs -> Seq(Entries)]
    BY <1>1, <2>4 DEF IInv, Typed
  <2>8. \A t \in Runs : Filled(buf'[t], next'[t])
    BY <2>4, <2>5, <2>6 DEF IInv, Buffered
  <2> QED  BY <2>7, <2>8 DEF Buffered
<1>8. ASSUME NEW s \in Subs
      PROVE  IF Matches(sub[s], r) THEN Taken(sub[s], sub'[s], e) ELSE sub'[s] = sub[s]
  <2> DEFINE y == Enqueue(sub[s], e, live)
  <2>1. CASE ~Matches(sub[s], r)
    BY <1>1, <2>1
  <2>2. CASE Matches(sub[s], r)
    <3>1. sub[s] \in Subscriptions
      BY DEF IInv, Typed
    <3>2. Taken(sub[s], y, e)
      BY <1>4, <1>5, <3>1, Enqueues
    <3>3. sub'[s] \in {y, [y EXCEPT !.drained = FALSE]}
      BY <1>1, <2>2
    <3> HIDE DEF y
    <3>4. Taken(sub[s], [y EXCEPT !.drained = FALSE], e)
      <4> DEFINE z == [y EXCEPT !.drained = FALSE]
      <4>1. y \in Subscriptions
        BY <3>2 DEF Taken
      <4>2. z \in Subscriptions
        BY Zenon, <4>1 DEF Subscriptions
      <4>3. /\ z.state = y.state /\ z.scope = y.scope /\ z.floor = y.floor
            /\ z.trunc = y.trunc /\ z.replay = y.replay /\ z.spent = y.spent
            /\ z.reads = y.reads /\ z.queue = y.queue /\ z.dropped = y.dropped
            /\ z.through = y.through
        BY <4>1 DEF Subscriptions
      <4> HIDE DEF z
      <4>4. Taken(sub[s], z, e)
        BY Zenon, <3>2, <4>2, <4>3 DEF Taken
      <4> QED  BY <4>4 DEF z
    <3> QED  BY Zenon, <2>2, <3>2, <3>3, <3>4
  <2> QED  BY <2>1, <2>2
<1>9. sub' \in [Subs -> Subscriptions]
  <2>1. sub' = [s \in Subs |-> sub'[s]]
    BY <1>1
  <2>2. \A s \in Subs : sub'[s] \in Subscriptions
    BY Zenon, <1>8 DEF Taken, IInv, Typed
  <2> QED  BY <2>1, <2>2
<1>10. \A s \in Subs : /\ sub'[s].state = sub[s].state /\ sub'[s].scope = sub[s].scope
                       /\ sub'[s].spent = sub[s].spent /\ sub'[s].reads = sub[s].reads
  BY <1>8 DEF Taken
<1>11. ASSUME NEW s \in Subs
       PROVE  /\ sub'[s].state = "idle" => sub'[s].queue = <<>> /\ sub'[s].dropped = 0
              /\ cover'[s] # None =>
                   /\ Served(sub'[s], cover'[s], next'[sub'[s].scope])
                   /\ Told(sub[s], sub'[s], cover[s])
  <2>1. CASE ~Matches(sub[s], r)
    <3>1. sub'[s] = sub[s] /\ cover'[s] = cover[s]
      BY <1>8, <2>1
    <3>2. ASSUME cover[s] # None
          PROVE  /\ Served(sub[s], cover[s], next'[sub[s].scope])
                 /\ Told(sub[s], sub[s], cover[s])
      <4>1. /\ sub[s] \in Subscriptions /\ cover[s] \in Nat
            /\ sub[s].scope \in Runs /\ next[sub[s].scope] \in Nat
            /\ Served(sub[s], cover[s], next[sub[s].scope])
        BY <3>2, ServedNow DEF IInv
      <4>2. Same(sub[s], sub[s])
        BY DEF Same
      <4>3. sub[s].scope # r => next'[sub[s].scope] = next[sub[s].scope]
        BY <1>1, <4>1 DEF IInv, Typed
      <4>4. sub[s].scope = r => sub[s].state # "open"
        BY <2>1 DEF Matches
      <4> QED  BY <4>1, <4>2, <4>3, <4>4, SameServed, ShutServed
    <3> QED  BY <3>1, <3>2 DEF IInv, Unbroken
  <2>2. CASE Matches(sub[s], r)
    <3>1. sub[s].state = "open" /\ sub'[s].state = "open" /\ Taken(sub[s], sub'[s], e)
      BY <1>8, <1>10, <2>2 DEF Matches
    <3>2. ASSUME cover[s] # None
          PROVE  /\ Served(sub'[s], cover[s], next'[sub'[s].scope])
                 /\ Told(sub[s], sub'[s], cover[s])
      <4>1. /\ sub[s] \in Subscriptions /\ cover[s] \in Nat
            /\ sub[s].scope \in Runs /\ next[sub[s].scope] \in Nat
            /\ Served(sub[s], cover[s], next[sub[s].scope])
        BY <3>2, ServedNow DEF IInv
      <4>2. sub[s].scope = r /\ sub'[s].scope = r
        BY <1>10, <2>2, <4>1, NoneIsNoRun DEF Matches
      <4>3. Served(sub'[s], cover[s], q + 1)
        BY <1>2, <1>4, <3>1, <4>1, <4>2, TakenServed
      <4>4. next'[r] = q + 1
        BY <1>1 DEF IInv, Typed
      <4>5. Told(sub[s], sub'[s], cover[s])
        BY <1>4, <3>1, <4>1, TakenTold
      <4> QED  BY <4>2, <4>3, <4>4, <4>5
    <3> QED  BY <3>1, <3>2
  <2> QED  BY Zenon, <2>1, <2>2
<1>12. Unbroken'
  BY <1>11 DEF Unbroken
<1>13. AllTold
  BY <1>11 DEF AllTold
<1> QED  BY <1>6, <1>7, <1>9, <1>10, <1>12, <1>13

\* What every action is shown to do.
Keeps == IInv' /\ AllTold

\* publish.
LEMMA PublishKeeps ==
  ASSUME IInv, NEW r \in Runs, Publish(r)
  PROVE  Keeps
<1>1. /\ Deliver(r, FALSE) /\ UNCHANGED <<dead, timer, down, cover, debt>>
      /\ pub' = [pub EXCEPT ![r] = [on |-> None, rest |-> Backlog(r)]]
  BY Zenon DEF Publish
<1>2. /\ buf' \in [Runs -> Seq(Entries)] /\ next' \in [Runs -> Nat]
      /\ sub' \in [Subs -> Subscriptions]
      /\ Buffered' /\ Unbroken' /\ AllTold
      /\ \A s \in Subs : /\ sub'[s].state = sub[s].state /\ sub'[s].scope = sub[s].scope
                         /\ sub'[s].spent = sub[s].spent /\ sub'[s].reads = sub[s].reads
  BY Zenon, <1>1, Delivers
<1>3. Backlog(r) \subseteq Subs /\ \A s \in Backlog(r) : ~sub[s].spent
  BY <1>2 DEF Backlog, Backlogged
<1> DEFINE B == Backlog(r)
<1> HIDE DEF B
<1>4. pub' = [pub EXCEPT ![r] = [on |-> None, rest |-> B]]
  BY <1>1 DEF B
<1>5. Typed'
  <2>1. pub' \in [Runs -> [on : Subs \cup {None}, rest : SUBSET Subs]]
    BY <1>3, <1>4 DEF IInv, Typed, B
  <2> QED  BY Zenon, <1>1, <1>2, <2>1 DEF IInv, Typed
<1>6. Cleaned'
  BY <1>1, <1>2, CleanedSame DEF IInv
<1>7. Indebted'
  <2>1. /\ pub'[r] = [on |-> None, rest |-> B]
        /\ \A t \in Runs \ {r} : pub'[t] = pub[t]
    BY <1>4 DEF IInv, Typed
  <2>2. \A s \in B : debt[s][r] = Free
    BY <1>3 DEF IInv, Indebted, B
  <2>3. Free' = Free /\ None \notin Subs
    BY NoneIsNoRun DEF Free
  <2>4. \A t \in Runs, s \in Subs : s \in pub'[t].rest \/ pub'[t].on = s => debt'[s][t] = Free
    BY <1>1, <2>1, <2>2, <2>3 DEF IInv, Indebted
  <2>5. \A t \in Runs : pub'[t].on \notin pub'[t].rest
    BY <1>3, <2>1, <2>3 DEF IInv, Indebted, B
  <2>6. \A t \in Runs, s \in Subs : debt'[s][t] # Free =>
          sub'[s].spent /\ sub'[s].reads <= debt'[s][t]
    BY Zenon, <1>1, <1>2 DEF IInv, Indebted
  <2> QED  BY <2>3, <2>4, <2>5, <2>6 DEF Indebted
<1> QED  BY <1>2, <1>5, <1>6, <1>7 DEF Keeps, IInv

\* publish_terminal_if_absent.
LEMMA PublishTerminalKeeps ==
  ASSUME IInv, NEW r \in Runs, PublishTerminal(r)
  PROVE  Keeps
<1>1. /\ Deliver(r, TRUE) /\ UNCHANGED <<down, pub, cover, debt>> /\ ~down
      /\ dead' = dead \cup {r} /\ timer' = IF Watched(r) THEN timer ELSE timer \cup {r}
  BY Zenon DEF PublishTerminal, ScheduleCleanup
<1>2. /\ buf' \in [Runs -> Seq(Entries)] /\ next' \in [Runs -> Nat]
      /\ sub' \in [Subs -> Subscriptions]
      /\ Buffered' /\ Unbroken' /\ AllTold
      /\ \A s \in Subs : /\ sub'[s].state = sub[s].state /\ sub'[s].scope = sub[s].scope
                         /\ sub'[s].spent = sub[s].spent /\ sub'[s].reads = sub[s].reads
  BY Zenon, <1>1, Delivers
<1>3. Typed'
  BY <1>1, <1>2 DEF IInv, Typed
<1>4. Cleaned'
  BY Zenon, <1>1, <1>2 DEF IInv, Cleaned, CleanupKept, Watched, Matches
<1>5. Indebted'
  BY <1>1, <1>2, IndebtedSame DEF IInv, Fewer
<1> QED  BY <1>2, <1>3, <1>4, <1>5 DEF Keeps, IInv

\* The wait of a publisher that was woken, or has the next subscriber to wait on.
LEMMA AwaitKeeps ==
  ASSUME IInv, NEW r \in Runs, Await(r)
  PROVE  Keeps
<1>1. PICK s \in pub[r].rest :
        pub' = [pub EXCEPT ![r] = [on |-> IF sub[s].drained THEN None ELSE s,
                                   rest |-> @.rest \ {s}]]
  BY Zenon DEF Await
<1>2. UNCHANGED <<buf, next, dead, timer, down, sub, cover, debt>>
  BY DEF Await, bus, history
<1>3. pub[r].rest \subseteq Subs /\ s \in Subs /\ None \notin Subs
  BY NoneIsNoRun DEF IInv, Typed
<1>4. /\ pub'[r].rest = pub[r].rest \ {s} /\ pub'[r].on \in {None, s}
      /\ \A t \in Runs \ {r} : pub'[t] = pub[t]
  BY <1>1 DEF IInv, Typed
<1>5. Typed'
  <2>1. pub' \in [Runs -> [on : Subs \cup {None}, rest : SUBSET Subs]]
    BY <1>1, <1>3 DEF IInv, Typed
  <2> QED  BY <1>2, <2>1 DEF IInv, Typed
<1>6. Indebted'
  <2>1. \A t \in Runs, u \in Subs : u \in pub'[t].rest \/ pub'[t].on = u => debt[u][t] = Free
    BY <1>3, <1>4 DEF IInv, Indebted
  <2>2. \A t \in Runs : pub'[t].on \notin pub'[t].rest
    BY <1>3, <1>4 DEF IInv, Indebted
  <2> QED  BY <1>2, <2>1, <2>2 DEF IInv, Indebted, Free
<1>7. Buffered' /\ Cleaned'
  BY <1>2 DEF IInv, Buffered, Cleaned, CleanupKept
<1> QED  BY <1>2, <1>5, <1>6, <1>7, UnbrokenSame DEF Keeps, IInv

\* The wait of a publisher that ran into its deadline.
LEMMA DeadlineKeeps ==
  ASSUME IInv, NEW r \in Runs, Deadline(r)
  PROVE  Keeps
<1> DEFINE s == pub[r].on
           y == [sub[s] EXCEPT !.spent = TRUE, !.reads = 0]
<1>1. /\ s # None /\ pub' = [pub EXCEPT ![r].on = None]
      /\ sub' = [sub EXCEPT ![s] = y]
      /\ debt' = [debt EXCEPT ![s][r] = 0]
      /\ UNCHANGED <<buf, next, dead, timer, down, cover>>
  BY DEF Deadline, bus
<1>2. s \in Subs /\ None \notin Subs
  BY <1>1, NoneIsNoRun DEF IInv, Typed
<1>3. sub[s] \in Subscriptions
  BY <1>2 DEF IInv, Typed
<1>4. /\ y \in Subscriptions /\ y.spent = TRUE /\ y.reads = 0
      /\ y.state = sub[s].state /\ y.scope = sub[s].scope /\ Same(sub[s], y)
  BY Zenon, <1>3 DEF Subscriptions, Same
<1> HIDE DEF y
<1>5. sub'[s] = y /\ \A u \in Subs \ {s} : sub'[u] = sub[u]
  BY <1>1, <1>2 DEF IInv, Typed
<1>6. /\ debt'[s][r] = 0
      /\ \A u \in Subs, t \in Runs : u # s \/ t # r => debt'[u][t] = debt[u][t]
  BY <1>1, <1>2 DEF IInv, Typed
<1>7. /\ pub'[r].on = None /\ pub'[r].rest = pub[r].rest
      /\ \A t \in Runs \ {r} : pub'[t] = pub[t]
  BY <1>1 DEF IInv, Typed
<1>8. Typed'
  <2>1. pub' \in [Runs -> [on : Subs \cup {None}, rest : SUBSET Subs]]
    BY Zenon, <1>1 DEF IInv, Typed
  <2>2. sub' \in [Subs -> Subscriptions]
    BY <1>1, <1>4 DEF IInv, Typed
  <2>3. debt' \in [Subs -> [Runs -> Nat]]
    BY <1>1 DEF IInv, Typed
  <2> QED  BY Zenon, <1>1, <2>1, <2>2, <2>3 DEF IInv, Typed
<1>9. Cleaned'
  BY <1>1, <1>4, <1>5, CleanedSame DEF IInv
<1>10. Indebted'
  <2>1. \A t \in Runs, u \in Subs : u \in pub'[t].rest \/ pub'[t].on = u =>
          debt[u][t] = Free /\ (u # s \/ t # r)
    BY <1>2, <1>7 DEF IInv, Indebted
  <2>2. \A t \in Runs : pub'[t].on \notin pub'[t].rest
    <3>1. None \notin pub[r].rest
      BY <1>2 DEF IInv, Typed
    <3> QED  BY <1>7, <3>1 DEF IInv, Indebted
  <2>3. \A t \in Runs, u \in Subs : debt'[u][t] # Free =>
          sub'[u].spent /\ sub'[u].reads <= debt'[u][t]
    <3>1. ASSUME NEW t \in Runs PROVE sub'[s].spent /\ sub'[s].reads <= debt'[s][t]
      <4>1. debt'[s][t] \in Nat
        BY <1>2, <1>8 DEF Typed
      <4> QED  BY <1>4, <1>5, <4>1
    <3>2. ASSUME NEW t \in Runs, NEW u \in Subs \ {s}, debt'[u][t] # Free
          PROVE  sub'[u].spent /\ sub'[u].reads <= debt'[u][t]
      BY <1>5, <1>6, <3>2 DEF IInv, Indebted
    <3> QED  BY <3>1, <3>2
  <2>4. Free' = Free
    BY DEF Free
  <2> QED  BY <1>6, <2>1, <2>2, <2>3, <2>4 DEF Indebted
<1>11. Buffered'
  BY <1>1 DEF IInv, Buffered
<1>12. \A u \in Subs : Same(sub[u], sub'[u]) /\ sub'[u].state = sub[u].state
  BY <1>4, <1>5 DEF Same
<1>13. Unbroken' /\ AllTold
  <2>1. ASSUME NEW u \in Subs, cover[u] # None
        PROVE  /\ Served(sub'[u], cover[u], next[sub'[u].scope])
               /\ Told(sub[u], sub'[u], cover[u])
    <3>1. sub'[u].scope = sub[u].scope
      BY <1>12 DEF Same
    <3> QED  BY Zenon, <1>12, <2>1, <3>1, ServedNow, SameServed DEF IInv
  <2>2. \A u \in Subs : sub'[u].state = "idle" => sub'[u].queue = <<>> /\ sub'[u].dropped = 0
    BY <1>12 DEF IInv, Unbroken, Same
  <2> QED  BY <1>1, <2>1, <2>2 DEF Unbroken, AllTold
<1> QED  BY <1>8, <1>9, <1>10, <1>11, <1>13 DEF Keeps, IInv

\* What a step owes a subscription.
Kept(s) ==
  /\ sub'[s].state = "idle" => sub'[s].queue = <<>> /\ sub'[s].dropped = 0
  /\ cover'[s] # None => Served(sub'[s], cover'[s], next'[sub'[s].scope])
  /\ cover[s] # None /\ sub'[s].state # "closed" => Told(sub[s], sub'[s], cover[s])

\* Each subscription by itself.
LEMMA AllKept ==
  ASSUME \A s \in Subs : Kept(s)
  PROVE  Unbroken' /\ AllTold
BY DEF Kept, Unbroken, AllTold

\* The subscriptions a step leaves alone.
LEMMA OtherKept ==
  ASSUME Typed, Unbroken, NEW s \in Subs, Same(sub[s], sub'[s]), cover'[s] \in {cover[s], None},
         \/ sub'[s].state # "open"
         \/ cover'[s] = None
         \/ sub[s].scope \in Runs => next'[sub[s].scope] = next[sub[s].scope]
  PROVE  Kept(s)
<1>1. sub'[s].state = "idle" => sub'[s].queue = <<>> /\ sub'[s].dropped = 0
  BY DEF Unbroken, Same
<1>2. ASSUME cover[s] # None
      PROVE  /\ cover'[s] # None => Served(sub'[s], cover'[s], next'[sub'[s].scope])
             /\ Told(sub[s], sub'[s], cover[s])
  <2>1. /\ Served(sub'[s], cover[s], next[sub[s].scope])
        /\ Told(sub[s], sub'[s], cover[s])
        /\ sub[s].scope \in Runs
    BY Zenon, <1>2, ServedNow, SameServed
  <2>2. sub'[s].scope = sub[s].scope
    BY DEF Same
  <2> QED  BY Zenon, <2>1, <2>2, ShutServed
<1> QED  BY Zenon, <1>1, <1>2 DEF Kept

\* A buffer of the events 1 to n, and one whose last event is marked terminal.
LEMMA SeedFills ==
  ASSUME NEW r \in Runs, NEW n \in Nat, NEW t \in BOOLEAN,
         NEW q, q = [i \in 1..n |-> [run |-> r, seq |-> i, terminal |-> t /\ i = n]]
  PROVE  q \in Seq(Entries) /\ Filled(q, n + 1)
<1>1. \A i \in 1 .. n : q[i] \in Entries /\ q[i].seq = i
  <2> TAKE i \in 1 .. n
  <2>1. (t /\ i = n) \in BOOLEAN /\ i \in Nat
    OBVIOUS
  <2> QED  BY <2>1 DEF Entries
<1>2. q \in Seq(Entries) /\ Len(q) = n
  BY <1>1
<1>3. n + 1 > 1 => q # <<>>
  BY <1>2
<1>4. \A i \in 1 .. n : q[i].seq + n + 1 = (n + 1) + i
  BY <1>1
<1>5. n < n + 1
  OBVIOUS
<1> QED  BY <1>2, <1>3, <1>4, <1>5 DEF Filled

\* Marking the last event of a buffer terminal leaves no gap.
LEMMA MarkFills ==
  ASSUME NEW q \in Seq(Entries), NEW n \in Nat, Filled(q, n), q # <<>>,
         NEW p, p = [q EXCEPT ![Len(q)].terminal = TRUE]
  PROVE  p \in Seq(Entries) /\ Filled(p, n)
<1> DEFINE l == Len(q)
           z == [q[l] EXCEPT !.terminal = TRUE]
<1>1. l \in Nat /\ l \in 1 .. l
  OBVIOUS
<1>2. q[l] \in Entries
  BY <1>1
<1>3. z \in Entries /\ z.seq = q[l].seq
  BY Zenon, <1>2 DEF Entries
<1>4. p = [q EXCEPT ![l] = z]
  OBVIOUS
<1> HIDE DEF z
<1>5. p \in Seq(Entries) /\ Len(p) = l /\ p # <<>>
  <2>1. q \in [1 .. l -> Entries] /\ l # 0
    OBVIOUS
  <2> HIDE DEF l
  <2>2. p \in [1 .. l -> Entries]
    BY Zenon, <1>3, <1>4, <2>1
  <2> QED  BY <1>1, <2>1, <2>2
<1>6. \A i \in 1 .. l : p[i].seq = q[i].seq
  BY <1>3, <1>4
<1> QED  BY <1>5, <1>6 DEF Filled

\* seed_replay_buffer.
LEMMA SeedKeeps ==
  ASSUME IInv, NEW r \in Runs, NEW n \in 0 .. MaxSeq, NEW t \in BOOLEAN,
         SeedReplayBuffer(r, n, t)
  PROVE  Keeps
<1>1. /\ ~down /\ UNCHANGED <<down, sub, pub, debt>>
      /\ dead' = IF t THEN dead \cup {r} ELSE dead
      /\ IF t THEN timer' = IF Watched(r) THEN timer ELSE timer \cup {r} ELSE timer' = timer
      /\ cover' = [s \in Subs |->
           IF n > 0 /\ ~Known(r) /\ sub[s].scope = r THEN None ELSE cover[s]]
  BY DEF SeedReplayBuffer, ScheduleCleanup
<1>2. n \in Nat /\ buf[r] \in Seq(Entries) /\ next[r] \in Nat /\ Filled(buf[r], next[r])
  BY BoundsPositive DEF IInv, Typed, Buffered
<1>3. \E q \in Seq(Entries), m \in Nat :
        /\ Filled(q, m) /\ buf' = [buf EXCEPT ![r] = q] /\ next' = [next EXCEPT ![r] = m]
        /\ Known(r) => m = next[r]
        /\ ~Known(r) => m = n + 1 /\ next[r] = 0
  <2>1. CASE Known(r) /\ buf[r] = <<>>
    <3>1. buf' = [buf EXCEPT ![r] = buf[r]] /\ next' = [next EXCEPT ![r] = next[r]]
      BY <2>1 DEF SeedReplayBuffer, IInv, Typed
    <3> QED  BY Zenon, <1>2, <2>1, <3>1
  <2>2. CASE Known(r) /\ buf[r] # <<>>
    <3> DEFINE q == [buf[r] EXCEPT ![Len(buf[r])].terminal = TRUE]
    <3>1. buf' = [buf EXCEPT ![r] = q] /\ next' = [next EXCEPT ![r] = next[r]]
      BY <2>2 DEF SeedReplayBuffer, IInv, Typed
    <3>2. q \in Seq(Entries) /\ Filled(q, next[r])
      BY Zenon, <1>2, <2>2, MarkFills
    <3> HIDE DEF q
    <3> QED  BY Zenon, <1>2, <2>2, <3>1, <3>2
  <2>3. CASE ~Known(r)
    <3> DEFINE q == [i \in 1..n |-> [run |-> r, seq |-> i, terminal |-> t /\ i = n]]
    <3>1. buf' = [buf EXCEPT ![r] = Keep(q)] /\ next' = [next EXCEPT ![r] = n + 1]
      BY <2>3 DEF SeedReplayBuffer
    <3>2. n + 1 \in Nat
      BY <1>2
    <3>3. q \in Seq(Entries) /\ Filled(q, n + 1)
      BY Zenon, <1>2, SeedFills
    <3> HIDE DEF q
    <3>4. Keep(q) \in Seq(Entries) /\ Filled(Keep(q), n + 1)
      BY <3>2, <3>3, KeepFills
    <3>5. next[r] = 0
      BY <2>3 DEF Known
    <3> QED  BY Zenon, <2>3, <3>1, <3>2, <3>4, <3>5
  <2> QED  BY <2>1, <2>2, <2>3
<1>4. PICK q \in Seq(Entries), m \in Nat :
        /\ Filled(q, m) /\ buf' = [buf EXCEPT ![r] = q] /\ next' = [next EXCEPT ![r] = m]
        /\ Known(r) => m = next[r]
        /\ ~Known(r) => m = n + 1 /\ next[r] = 0
  BY Zenon, <1>3
<1>5. /\ buf'[r] = q /\ next'[r] = m
      /\ \A u \in Runs \ {r} : buf'[u] = buf[u] /\ next'[u] = next[u]
  BY <1>4 DEF IInv, Typed
<1>6. Typed'
  <2>1. buf' \in [Runs -> Seq(Entries)] /\ next' \in [Runs -> Nat]
    BY <1>4 DEF IInv, Typed
  <2>2. cover' \in [Subs -> Nat \cup {None}]
    BY <1>1 DEF IInv, Typed
  <2>3. dead' \subseteq Runs /\ timer' \subseteq Runs
    BY <1>1 DEF IInv, Typed
  <2> QED  BY <1>1, <2>1, <2>2, <2>3 DEF IInv, Typed
<1>7. Buffered'
  BY <1>4, <1>5 DEF IInv, Buffered
<1>8. Cleaned'
  BY <1>1 DEF IInv, Cleaned, CleanupKept, Watched, Matches
<1>9. Indebted'
  BY <1>1, IndebtedSame DEF IInv, Fewer
<1>10. ASSUME NEW s \in Subs
       PROVE  Kept(s)
  <2>1. Same(sub[s], sub'[s]) /\ cover'[s] \in {cover[s], None}
    BY <1>1 DEF Same
  <2>2. CASE Known(r) \/ sub[s].scope # r
    BY Zenon, <1>4, <1>5, <2>1, <2>2, OtherKept DEF IInv
  <2>3. CASE ~Known(r) /\ sub[s].scope = r /\ n # 0
    <3>1. cover'[s] = None
      BY <1>1, <1>2, <2>3
    <3> QED  BY <2>1, <3>1, OtherKept DEF IInv
  <2>4. CASE ~Known(r) /\ sub[s].scope = r /\ n = 0
    <3>1. m = 1 /\ next[r] = 0 /\ next'[r] = 1
      BY <1>4, <1>5, <2>4
    <3>2a. ~(n > 0)
      BY <2>4
    <3>2. cover'[s] = cover[s] /\ sub'[s] = sub[s]
      BY Zenon, <1>1, <3>2a
    <3>3. ASSUME cover[s] # None
          PROVE  Served(sub[s], cover[s], 1) /\ Told(sub[s], sub[s], cover[s])
      <4>1. /\ sub[s] \in Subscriptions /\ cover[s] \in Nat
            /\ Served(sub[s], cover[s], 0)
        BY <2>4, <3>1, <3>3, ServedNow DEF IInv
      <4>2. sub[s].floor \in Nat
        BY <4>1 DEF Subscriptions
      <4>3. 0 <= sub[s].floor + 1 /\ 1 <= sub[s].floor + 1
        BY <4>2
      <4>4. Served(sub[s], cover[s], 1)
        BY Zenon, <4>1, <4>3 DEF Served
      <4>5. Same(sub[s], sub[s])
        BY DEF Same
      <4> QED  BY Zenon, <4>1, <4>4, <4>5, SameServed
    <3> QED  BY Zenon, <2>4, <3>1, <3>2, <3>3 DEF Kept, IInv, Unbroken
  <2> QED  BY <2>2, <2>3, <2>4
<1> QED  BY <1>6, <1>7, <1>8, <1>9, <1>10, AllKept DEF Keeps, IInv

-----------------------------------------------------------------------------
(* Subscribing *)

\* A new subscription takes the place of the cleanups it cancels.
LEMMA CleanupTaken ==
  ASSUME Typed, Cleaned, NEW s \in Subs, NEW scope \in Runs \cup {None}, sub[s].state = "idle",
         sub'[s].state = "open", sub'[s].scope = scope,
         \A u \in Subs \ {s} : sub'[u] = sub[u],
         timer' = timer \ {r \in Runs : scope \in {None, r}}, UNCHANGED <<dead, down>>
  PROVE  Cleaned'
<1>1. ASSUME NEW r \in dead
      PROVE  r \in timer' \/ \E u \in Subs : Matches(sub'[u], r)
  <2>1. r \in Runs
    BY DEF Typed
  <2>2. CASE scope \in {None, r}
    BY <2>2 DEF Matches
  <2>3. CASE scope \notin {None, r} /\ r \in timer
    BY <2>1, <2>3
  <2>4. CASE scope \notin {None, r} /\ r \notin timer
    <3>1. PICK u \in Subs : Matches(sub[u], r)
      BY <2>4 DEF Cleaned, CleanupKept
    <3>2. u # s
      BY <3>1 DEF Matches
    <3> QED  BY <3>1, <3>2
  <2> QED  BY <2>2, <2>3, <2>4
<1> QED  BY <1>1 DEF Cleaned, CleanupKept

\* subscribe_entries.
LEMMA SubscribeEntriesKeeps ==
  ASSUME IInv, NEW s \in Subs, NEW scope \in Runs \cup {None}, NEW floor \in Floors,
         SubscribeEntries(s, scope, floor)
  PROVE  Keeps
<1> DEFINE x == sub[s]
           scoped == scope # None
           replay == IF scoped THEN buf[scope] ELSE <<>>
           f == IF scoped THEN floor ELSE 0
           t == scoped /\ scope \in dead
           trunc == Truncation(replay, floor)
           a == Above(replay, floor)
           n == IF scoped THEN next[scope] ELSE 0
           first == Start(trunc, floor)
           y == [x EXCEPT !.state = "open", !.scope = scope, !.stop = scoped, !.floor = f,
                          !.term = t, !.trunc = trunc, !.replay = a]
<1>1. /\ x.state = "idle" /\ sub' = [sub EXCEPT ![s] = y]
      /\ timer' = timer \ {r \in Runs : scope \in {None, r}}
      /\ cover' = [cover EXCEPT ![s] = IF scoped THEN floor ELSE None]
      /\ UNCHANGED <<buf, next, dead, down, pub, debt>>
  BY DEF SubscribeEntries, Truncation
<1>2. x \in Subscriptions /\ floor \in Nat
  BY FloorsType DEF IInv, Typed
<1>3. replay \in Seq(Entries) /\ n \in Nat /\ Filled(replay, n)
  <2>1. CASE scoped
    BY <2>1 DEF IInv, Typed, Buffered
  <2>2. CASE ~scoped
    <3>1. Filled(<<>>, 0)
      BY DEF Filled
    <3> QED  BY <2>2, <3>1
  <2> QED  BY <2>1, <2>2
<1> HIDE DEF n, replay
<1>4. /\ trunc \in Nat
      /\ a \in Seq(Entries)
      /\ trunc # 0 => trunc > floor + 1 /\ a # <<>>
      /\ \A i \in 1 .. Len(a) : a[i].seq + 1 = first + i
      /\ first + Len(a) = IF n <= floor + 1 THEN floor + 1 ELSE n
  BY <1>2, <1>3, AboveServes
<1>5. scoped \in BOOLEAN /\ t \in BOOLEAN /\ f \in Nat
  BY <1>2
<1> HIDE DEF x, scoped, f, t, trunc, a
<1>6. y \in Subscriptions
  BY Zenon, <1>2, <1>4, <1>5 DEF Subscriptions
<1>7. /\ y.state = "open" /\ y.scope = scope /\ y.floor = f /\ y.trunc = trunc /\ y.replay = a
      /\ y.queue = x.queue /\ y.dropped = x.dropped /\ y.spent = x.spent /\ y.reads = x.reads
  BY <1>2 DEF Subscriptions
<1> HIDE DEF y
<1>8. x.queue = <<>> /\ x.dropped = 0
  BY <1>1 DEF IInv, Unbroken, x
<1>9. sub'[s] = y /\ \A u \in Subs \ {s} : sub'[u] = sub[u]
  BY <1>1 DEF IInv, Typed
<1>10. Typed'
  <2>1. sub' \in [Subs -> Subscriptions]
    BY <1>1, <1>6 DEF IInv, Typed
  <2>2. cover' \in [Subs -> Nat \cup {None}]
    BY <1>1, <1>2 DEF IInv, Typed
  <2> QED  BY <1>1, <2>1, <2>2 DEF IInv, Typed
<1>11. Buffered'
  BY <1>1 DEF IInv, Buffered
<1>12. Cleaned'
  BY <1>1, <1>7, <1>9, CleanupTaken DEF IInv, x
<1>13. Indebted'
  <2>1. \A u \in Subs : sub'[u].spent = sub[u].spent /\ sub'[u].reads = sub[u].reads
    BY <1>7, <1>9 DEF x
  <2> QED  BY Zenon, <1>1, <2>1, IndebtedSame DEF IInv, Fewer
<1>14. ASSUME NEW u \in Subs \ {s}
       PROVE  Kept(u)
  <2>1. Same(sub[u], sub'[u]) /\ cover'[u] = cover[u]
    BY <1>1, <1>9 DEF Same, IInv, Typed
  <2> QED  BY <1>1, <2>1, OtherKept DEF IInv
<1>15. Kept(s)
  <2>1. cover[s] = None
    <3>1. x.state \notin {"open", "shut"}
      BY <1>1
    <3> QED  BY Zenon, <3>1, ServedNow DEF IInv, x
  <2>2. cover'[s] = IF scoped THEN floor ELSE None
    BY <1>1 DEF IInv, Typed
  <2>3. ASSUME scoped
        PROVE  Served(y, floor, next'[y.scope])
    <3>1. n = next'[y.scope] /\ y.scope \in Runs /\ f = floor
      BY Zenon, <1>1, <1>7, <2>3 DEF n, f, scoped
    <3>2. First(y, floor) = first
      BY <1>7 DEF First, Start
    <3> DEFINE l == Len(a)
    <3>3. l \in Nat /\ first \in Nat
      BY <1>2, <1>4 DEF Start
    <3>4. Behind(y, floor) = first + l
      <4>1. Behind(y, floor) = first + l + 0
        BY <1>7, <1>8, <3>2 DEF Behind
      <4> HIDE DEF l, first
      <4> QED  BY <3>3, <4>1
    <3>5. Len(y.queue) = 0 /\ ~(y.dropped > 0)
      BY <1>7, <1>8
    <3>6. Behind(y, floor) + Len(y.queue) = IF n <= floor + 1 THEN floor + 1 ELSE n
      <4>1. first + l + 0 = first + l
        <5> HIDE DEF l, first
        <5> QED  BY <3>3
      <4> QED  BY <1>4, <3>4, <3>5, <4>1
    <3> QED  BY <1>4, <1>7, <3>1, <3>2, <3>5, <3>6 DEF Served
  <2> QED  BY Zenon, <1>7, <1>9, <2>1, <2>2, <2>3 DEF Kept
<1> QED  BY <1>10, <1>11, <1>12, <1>13, <1>14, <1>15, AllKept DEF Keeps, IInv

\* subscribe.
LEMMA SubscribeKeeps ==
  ASSUME IInv, NEW s \in Subs, NEW scope \in Runs \cup {None}, Subscribe(s, scope)
  PROVE  Keeps
<1> DEFINE x == sub[s]
           a == IF scope = None THEN <<>> ELSE buf[scope]
           y == [x EXCEPT !.state = "open", !.scope = scope, !.replay = a]
<1>1. /\ x.state = "idle" /\ sub' = [sub EXCEPT ![s] = y]
      /\ timer' = timer \ {r \in Runs : scope \in {None, r}}
      /\ UNCHANGED <<buf, next, dead, down, pub, cover, debt>>
  BY DEF Subscribe, history
<1>2. x \in Subscriptions /\ a \in Seq(Entries)
  BY DEF IInv, Typed
<1> HIDE DEF x, a
<1>3. /\ y \in Subscriptions /\ y.state = "open" /\ y.scope = scope
      /\ y.spent = x.spent /\ y.reads = x.reads
  BY Zenon, <1>2 DEF Subscriptions
<1> HIDE DEF y
<1>4. sub'[s] = y /\ \A u \in Subs \ {s} : sub'[u] = sub[u]
  BY <1>1 DEF IInv, Typed
<1>5. Typed'
  <2>1. sub' \in [Subs -> Subscriptions]
    BY <1>1, <1>3 DEF IInv, Typed
  <2> QED  BY <1>1, <2>1 DEF IInv, Typed
<1>6. Buffered'
  BY <1>1 DEF IInv, Buffered
<1>7. Cleaned'
  BY <1>1, <1>3, <1>4, CleanupTaken DEF IInv, x
<1>8. Indebted'
  <2>1. \A u \in Subs : sub'[u].spent = sub[u].spent /\ sub'[u].reads = sub[u].reads
    BY <1>3, <1>4 DEF x
  <2> QED  BY <1>1, <2>1, IndebtedSame DEF IInv, Fewer
<1>9. ASSUME NEW u \in Subs \ {s}
      PROVE  Kept(u)
  <2>1. Same(sub[u], sub'[u]) /\ cover'[u] = cover[u]
    BY <1>1, <1>4 DEF Same
  <2> QED  BY Zenon, <1>1, <2>1, OtherKept DEF IInv
<1>10. Kept(s)
  <2>1. x.state \notin {"open", "shut"}
    BY <1>1
  <2>2. cover[s] = None
    BY <2>1, ServedNow DEF IInv, x
  <2> QED  BY Zenon, <1>1, <1>3, <1>4, <2>2 DEF Kept
<1> QED  BY <1>5, <1>6, <1>7, <1>8, <1>9, <1>10, AllKept DEF Keeps, IInv

\* A subscription that is not there.
LEMMA NoSubTyped == NoSub \in Subscriptions
<1>1. <<>> \in Seq(Entries)
  OBVIOUS
<1> QED  BY <1>1 DEF NoSub, Subscriptions

\* _unsubscribe.
LEMMA UnsubscribeKeeps ==
  ASSUME IInv, NEW s \in Subs, Unsubscribe(s)
  PROVE  Keeps
<1>1. /\ sub' = [sub EXCEPT ![s] = Closed] /\ Wake({s})
      /\ timer' = IF down THEN timer
                  ELSE timer \cup {r \in dead : /\ sub[s].scope \in {None, r}
                                                /\ ~\E u \in Subs \ {s} : Matches(sub[u], r)}
      /\ cover' = [cover EXCEPT ![s] = None]
      /\ debt' = [debt EXCEPT ![s] = [r \in Runs |-> Free]]
      /\ UNCHANGED <<buf, next, dead, down>>
  BY DEF Unsubscribe, Forgotten
<1>2. Closed \in Subscriptions /\ Closed.state = "closed"
  <2>1. NoSub \in Subscriptions
    BY NoSubTyped
  <2> QED  BY Zenon, <2>1 DEF Closed, Subscriptions
<1>3. sub'[s] = Closed /\ \A u \in Subs \ {s} : sub'[u] = sub[u]
  BY <1>1 DEF IInv, Typed
<1>4. Fewer /\ pub' \in [Runs -> [on : Subs \cup {None}, rest : SUBSET Subs]]
  BY <1>1, WakeLess DEF IInv
<1>5. Free \in Nat
  BY Zenon, FreeIsNat
<1>6. Typed'
  <2>1. sub' \in [Subs -> Subscriptions]
    BY <1>1, <1>2 DEF IInv, Typed
  <2>2. cover' \in [Subs -> Nat \cup {None}]
    BY <1>1 DEF IInv, Typed
  <2>3. debt' \in [Subs -> [Runs -> Nat]]
    BY <1>1, <1>5 DEF IInv, Typed
  <2>4. timer' \subseteq Runs
    BY <1>1 DEF IInv, Typed
  <2> QED  BY <1>1, <1>4, <2>1, <2>2, <2>3, <2>4 DEF IInv, Typed
<1>7. Buffered'
  BY Zenon, <1>1 DEF IInv, Buffered
<1>8. Cleaned'
  <2>1. ASSUME NEW r \in dead
        PROVE  r \in timer' \/ \E u \in Subs : Matches(sub'[u], r)
    <3>1. ~down
      BY DEF IInv, Cleaned
    <3>2. CASE \E u \in Subs \ {s} : Matches(sub[u], r)
      BY <1>3, <3>2
    <3>3. CASE ~\E u \in Subs \ {s} : Matches(sub[u], r)
      <4>1. r \in timer \/ Matches(sub[s], r)
        BY <3>3 DEF IInv, Cleaned, CleanupKept
      <4> QED  BY Zenon, <1>1, <3>1, <3>3, <4>1 DEF Matches
    <3> QED  BY <3>2, <3>3
  <2> QED  BY <1>1, <2>1 DEF IInv, Cleaned, CleanupKept
<1>9. Indebted'
  <2>1. /\ \A r \in Runs : debt'[s][r] = Free
        /\ \A u \in Subs \ {s} : debt'[u] = debt[u]
    BY <1>1 DEF IInv, Typed
  <2>2. \A u \in Subs, r \in Runs : debt[u][r] = Free => debt'[u][r] = Free
    BY <2>1
  <2>3. \A u \in Subs, r \in Runs : debt'[u][r] # Free =>
          sub'[u].spent /\ sub'[u].reads <= debt'[u][r]
    BY <1>3, <2>1 DEF IInv, Indebted
  <2> QED  BY <1>4, <2>2, <2>3, IndebtedLess DEF IInv
<1>10. ASSUME NEW u \in Subs \ {s}
       PROVE  Kept(u)
  <2>1. Same(sub[u], sub'[u]) /\ cover'[u] = cover[u]
    BY <1>1, <1>3 DEF Same, IInv, Typed
  <2> QED  BY Zenon, <1>1, <2>1, OtherKept DEF IInv
<1>11. Kept(s)
  <2>1. cover'[s] = None
    BY <1>1 DEF IInv, Typed
  <2> QED  BY Zenon, <1>2, <1>3, <2>1 DEF Kept
<1> QED  BY <1>6, <1>7, <1>8, <1>9, <1>10, <1>11, AllKept DEF Keeps, IInv

-----------------------------------------------------------------------------
(* Reading *)

\* __anext__ before the replay is read.
LEMMA ReadReplayKeeps ==
  ASSUME IInv, NEW s \in Subs, ReadReplay(s)
  PROVE  Keeps
<1> DEFINE x == sub[s]
<1>1. x \in Subscriptions
  BY DEF IInv, Typed
<1>2. x.state \in {"open", "shut"} /\ UNCHANGED <<buf, next, dead, timer, down, pub, debt>>
  BY DEF ReadReplay, bus
<1> DEFINE y == sub'[s]
           Step(c) == cover' = [cover EXCEPT ![s] = IF @ = None THEN None ELSE c]
<1>3. /\ y \in Subscriptions /\ sub' = [sub EXCEPT ![s] = y]
      /\ Rest(x, y) /\ y.spent = x.spent /\ y.reads = x.reads
      /\ y.queue = x.queue /\ y.dropped = x.dropped /\ y.through = x.through /\ y.trunc = 0
      /\ \/ x.trunc # 0 /\ y.replay = x.replay /\ Step(x.trunc - 1)
         \/ /\ x.trunc = 0 /\ x.replay # <<>> /\ y.replay = Tail(x.replay)
            /\ Step(Head(x.replay).seq)
  <2>1. CASE x.trunc # 0
    <3> DEFINE z == [x EXCEPT !.trunc = 0]
    <3>1. sub' = [sub EXCEPT ![s] = z] /\ Step(x.trunc - 1)
      BY <2>1 DEF ReadReplay, Covered
    <3>2. y = z
      BY <3>1 DEF IInv, Typed
    <3>3. /\ z \in Subscriptions /\ Rest(x, z) /\ z.spent = x.spent /\ z.reads = x.reads
          /\ z.queue = x.queue /\ z.dropped = x.dropped /\ z.through = x.through
          /\ z.trunc = 0 /\ z.replay = x.replay
      BY Zenon, <1>1 DEF Subscriptions, Rest
    <3> HIDE DEF z, x, y
    <3> QED  BY Zenon, <2>1, <3>1, <3>2, <3>3
  <2>2. CASE x.trunc = 0
    <3> DEFINE d == x.ended \/ (x.stop /\ Head(x.replay).terminal)
               z == [x EXCEPT !.replay = Tail(x.replay), !.ended = d]
    <3>1. sub' = [sub EXCEPT ![s] = z] /\ Step(Head(x.replay).seq) /\ x.replay # <<>>
      <4>1. /\ x.replay # <<>> /\ Covered(s, Head(x.replay).seq)
            /\ sub' = [sub EXCEPT ![s] = z]
        BY <2>2 DEF ReadReplay
      <4> HIDE DEF z
      <4> QED  BY <4>1 DEF Covered
    <3>2. y = z
      BY <3>1 DEF IInv, Typed
    <3>3. x.replay \in Seq(Entries)
      BY <1>1 DEF Subscriptions
    <3>4. Tail(x.replay) \in Seq(Entries) /\ Head(x.replay) \in Entries
      BY <3>1, <3>3
    <3>5. d \in BOOLEAN
      BY <1>1, <3>4 DEF Subscriptions, Entries
    <3> HIDE DEF d
    <3>6. /\ z \in Subscriptions /\ Rest(x, z) /\ z.spent = x.spent /\ z.reads = x.reads
          /\ z.queue = x.queue /\ z.dropped = x.dropped /\ z.through = x.through
          /\ z.trunc = 0 /\ z.replay = Tail(x.replay)
      BY Zenon, <1>1, <2>2, <3>4, <3>5 DEF Subscriptions, Rest
    <3> HIDE DEF z, x, y
    <3> QED  BY Zenon, <2>2, <3>1, <3>2, <3>6
  <2> QED  BY Zenon, <2>1, <2>2
<1> HIDE DEF y
<1>4. \A u \in Subs \ {s} : sub'[u] = sub[u] /\ cover'[u] = cover[u]
  BY Zenon, <1>3 DEF IInv, Typed
<1>5. /\ cover[s] = None => cover'[s] = None
      /\ cover[s] # None =>
           /\ cover[s] \in Nat /\ cover'[s] \in Nat
           /\ Served(y, cover'[s], next[x.scope]) /\ Told(x, y, cover[s])
  <2>1. CASE cover[s] = None
    BY Zenon, <1>3, <2>1 DEF IInv, Typed
  <2>2. CASE cover[s] # None
    <3>1. /\ cover[s] \in Nat /\ next[x.scope] \in Nat
          /\ Served(x, cover[s], next[x.scope])
      BY <2>2, ServedNow DEF IInv
    <3>2. CASE x.trunc # 0
      <4>1. cover'[s] = x.trunc - 1 /\ y.replay = x.replay
        BY Zenon, <1>3, <2>2, <3>2 DEF IInv, Typed
      <4> HIDE DEF x
      <4>2. /\ x.trunc - 1 \in Nat /\ Served(y, x.trunc - 1, next[x.scope])
            /\ Told(x, y, cover[s])
        BY Zenon, <1>1, <1>3, <3>1, <3>2, <4>1, TruncationServed
      <4> QED  BY Zenon, <2>2, <3>1, <4>1, <4>2
    <3>3. CASE x.trunc = 0
      <4>1. cover'[s] = Head(x.replay).seq /\ x.replay # <<>> /\ y.replay = Tail(x.replay)
        BY Zenon, <1>3, <2>2, <3>3 DEF IInv, Typed
      <4> HIDE DEF x
      <4>2. /\ Head(x.replay).seq = cover[s] + 1
            /\ Served(y, cover[s] + 1, next[x.scope]) /\ Told(x, y, cover[s])
        BY Zenon, <1>1, <1>3, <3>1, <3>3, <4>1, ReplayServed
      <4>3. cover[s] + 1 \in Nat
        BY Zenon, <3>1, NextIsNat
      <4> QED  BY Zenon, <2>2, <3>1, <4>1, <4>2, <4>3
    <3> QED  BY Zenon, <3>2, <3>3
  <2> QED  BY Zenon, <2>1, <2>2
<1>6. Typed'
  <2>1. sub' \in [Subs -> Subscriptions]
    BY Zenon, <1>3 DEF IInv, Typed
  <2>2. cover'[s] \in Nat \cup {None}
    BY <1>5
  <2>3. cover' \in [Subs -> Nat \cup {None}]
    <3>1. cover' = [cover EXCEPT ![s] = cover'[s]]
      BY Zenon, <1>3 DEF IInv, Typed
    <3> QED  BY Zenon, <2>2, <3>1 DEF IInv, Typed
  <2> QED  BY <1>2, <2>1, <2>3 DEF IInv, Typed
<1>7. Buffered'
  BY <1>2 DEF IInv, Buffered
<1>8. Cleaned' /\ Indebted'
  <2>1. \A u \in Subs : /\ sub'[u].state = sub[u].state /\ sub'[u].scope = sub[u].scope
                        /\ sub'[u].spent = sub[u].spent /\ sub'[u].reads = sub[u].reads
    BY Zenon, <1>3, <1>4 DEF Rest, y
  <2> QED  BY Zenon, <1>2, <2>1, CleanedSame, IndebtedSame DEF IInv, Fewer
<1>9. ASSUME NEW u \in Subs \ {s}
      PROVE  Kept(u)
  <2>1. Same(sub[u], sub'[u]) /\ cover'[u] = cover[u]
    BY <1>4 DEF Same
  <2> QED  BY Zenon, <1>2, <2>1, OtherKept DEF IInv
<1>10. Kept(s)
  <2>1. y.state # "idle" /\ y.scope = x.scope
    BY <1>2, <1>3 DEF Rest
  <2> QED  BY Zenon, <1>2, <1>5, <2>1 DEF Kept, y
<1> QED  BY <1>6, <1>7, <1>8, <1>9, <1>10, AllKept DEF Keeps, IInv

\* A delivery from the live queue, whichever it is.
LEMMA DrainedKeeps ==
  ASSUME IInv, NEW s \in Subs, NEW x \in Subscriptions, Drained(s, x),
         sub[s].state \in {"open", "shut"}, UNCHANGED bus,
         x.spent = sub[s].spent, x.reads = sub[s].reads, Rest(sub[s], x),
         NEW c \in Nat, cover' = [cover EXCEPT ![s] = IF @ = None THEN None ELSE c],
         \A y \in Subscriptions :
           /\ cover[s] # None /\ Rest(sub[s], y) /\ y.trunc = x.trunc /\ y.replay = x.replay
           /\ y.queue = x.queue /\ y.dropped = x.dropped
           => /\ Served(y, c, next[sub[s].scope])
              /\ Told(sub[s], y, cover[s])
  PROVE  Keeps
<1> DEFINE live == LiveRuns(next, dead)
           y == NoteDrained(x, live)
<1>1. /\ sub' = [sub EXCEPT ![s] = y] /\ (Wake({s}) \/ pub' = pub) /\ Repaid(s, y)
      /\ UNCHANGED <<buf, next, dead, timer, down>>
  BY Zenon DEF Drained, bus
<1>2. live \in Nat
  BY Zenon, LiveIsNat
<1> HIDE DEF live
<1>3. /\ y \in Subscriptions
      /\ \A f \in DOMAIN x : f \notin {"high", "spent", "reads", "drained"} => y[f] = x[f]
      /\ \A d \in Nat :
           /\ x.spent /\ x.reads <= d
           /\ ~(Len(y.queue) * 2 < QueueBound(y, 0)) /\ ~((d + 1) * 2 >= QueueBound(y, 0))
           => y.spent /\ y.reads <= d + 1
  BY Zenon, <1>2, Drains
<1> HIDE DEF y
<1>4. /\ y.state = x.state /\ y.scope = x.scope /\ y.floor = x.floor /\ y.trunc = x.trunc
      /\ y.replay = x.replay /\ y.queue = x.queue /\ y.dropped = x.dropped
  BY Zenon, <1>3 DEF Subscriptions
<1>5. Rest(sub[s], y)
  BY Zenon, <1>4 DEF Rest
<1>6. sub'[s] = y /\ \A u \in Subs \ {s} : sub'[u] = sub[u] /\ cover'[u] = cover[u]
  BY <1>1 DEF IInv, Typed
<1>7. Fewer /\ pub' \in [Runs -> [on : Subs \cup {None}, rest : SUBSET Subs]]
  <2>1. CASE Wake({s})
    BY Zenon, <2>1, WakeLess DEF IInv
  <2>2. CASE pub' = pub
    BY <2>2 DEF IInv, Typed, Fewer
  <2> QED  BY Zenon, <1>1, <2>1, <2>2
<1> DEFINE lo == Len(y.queue) * 2 < QueueBound(y, 0)
           Hi(d) == (d + 1) * 2 >= QueueBound(y, 0)
<1>8. /\ \A r \in Runs : debt'[s][r] = IF debt[s][r] = Free \/ lo \/ Hi(debt[s][r])
                                          THEN Free ELSE debt[s][r] + 1
      /\ \A u \in Subs \ {s} : debt'[u] = debt[u]
      /\ debt' = [debt EXCEPT ![s] = [r \in Runs |-> debt'[s][r]]]
  <2> HIDE DEF lo, Hi
  <2>1. debt' = [debt EXCEPT ![s] = [r \in Runs |->
           IF debt[s][r] = Free \/ lo \/ Hi(debt[s][r]) THEN Free ELSE debt[s][r] + 1]]
    BY Zenon, <1>1 DEF Repaid, lo, Hi
  <2> QED  BY Zenon, <2>1 DEF IInv, Typed
<1>9. Free \in Nat
  BY Zenon, FreeIsNat
<1>10. Typed'
  <2>1. sub' \in [Subs -> Subscriptions]
    BY Zenon, <1>1, <1>3 DEF IInv, Typed
  <2>2. cover' \in [Subs -> Nat \cup {None}]
    BY DEF IInv, Typed
  <2>3. \A r \in Runs : debt'[s][r] \in Nat
    <3> HIDE DEF lo, Hi
    <3>1. \A r \in Runs : debt[s][r] \in Nat
      BY DEF IInv, Typed
    <3> QED  BY Zenon, <1>8, <1>9, <3>1, NextIsNat
  <2>4. debt' \in [Subs -> [Runs -> Nat]]
    BY Zenon, <1>8, <2>3 DEF IInv, Typed
  <2> QED  BY Zenon, <1>1, <1>7, <2>1, <2>2, <2>4 DEF IInv, Typed
<1>11. Buffered'
  BY Zenon, <1>1 DEF IInv, Buffered
<1>12. Cleaned'
  BY Zenon, <1>1, <1>5, <1>6, CleanedSame DEF IInv, Rest
<1>13. Indebted'
  <2>1. \A u \in Subs, r \in Runs : debt[u][r] = Free => debt'[u][r] = Free
    <3> HIDE DEF lo, Hi
    <3> QED  BY Zenon, <1>8
  <2>2. ASSUME NEW r \in Runs, debt'[s][r] # Free
        PROVE  y.spent /\ y.reads <= debt'[s][r]
    <3>1. debt[s][r] # Free /\ ~lo /\ ~Hi(debt[s][r]) /\ debt'[s][r] = debt[s][r] + 1
      <4> HIDE DEF lo, Hi
      <4> QED  BY Zenon, <1>8, <2>2
    <3>2. debt[s][r] \in Nat /\ x.spent /\ x.reads <= debt[s][r]
      BY Zenon, <3>1 DEF IInv, Typed, Indebted
    <3> QED  BY Zenon, <1>3, <3>1, <3>2
  <2>3. \A u \in Subs, r \in Runs : debt'[u][r] # Free =>
          sub'[u].spent /\ sub'[u].reads <= debt'[u][r]
    <3> HIDE DEF lo, Hi
    <3> QED  BY Zenon, <1>6, <1>8, <2>2 DEF IInv, Indebted
  <2> QED  BY Zenon, <1>7, <2>1, <2>3, IndebtedLess DEF IInv
<1>14. ASSUME NEW u \in Subs \ {s}
       PROVE  Kept(u)
  <2>1. Same(sub[u], sub'[u]) /\ cover'[u] = cover[u]
    BY Zenon, <1>6 DEF Same
  <2> QED  BY Zenon, <1>1, <2>1, OtherKept DEF IInv
<1>15. Kept(s)
  <2>1. y.state # "idle" /\ y.scope = sub[s].scope
    BY Zenon, <1>5 DEF Rest
  <2>2. cover'[s] = IF cover[s] = None THEN None ELSE c
    BY DEF IInv, Typed
  <2>3. cover[s] # None => Served(y, c, next[sub[s].scope]) /\ Told(sub[s], y, cover[s])
    BY Zenon, <1>3, <1>4, <1>5
  <2> QED  BY Zenon, <1>1, <1>6, <2>1, <2>2, <2>3 DEF Kept
<1> QED  BY Zenon, <1>10, <1>11, <1>12, <1>13, <1>14, <1>15, AllKept DEF Keeps, IInv

\* __anext__ on the queue.
LEMMA ReadLiveKeeps ==
  ASSUME IInv, NEW s \in Subs, ReadLive(s)
  PROVE  Keeps
<1> DEFINE x == sub[s]
<1>1. x \in Subscriptions
  BY DEF IInv, Typed
<1>2. /\ x.state \in {"open", "shut"} /\ x.trunc = 0 /\ x.replay = <<>> /\ UNCHANGED bus
  BY DEF ReadLive
<1>3. CASE /\ x.dropped > 0
           /\ Drained(s, [x EXCEPT !.dropped = 0, !.through = 0])
           /\ Covered(s, x.through)
  <2> DEFINE z == [x EXCEPT !.dropped = 0, !.through = 0]
  <2>1. /\ z \in Subscriptions /\ z.spent = x.spent /\ z.reads = x.reads /\ Rest(x, z)
        /\ z.trunc = 0 /\ z.replay = <<>> /\ z.dropped = 0 /\ z.queue = x.queue
    BY Zenon, <1>1, <1>2 DEF Subscriptions, Rest
  <2>2. x.through \in Nat
    BY <1>1 DEF Subscriptions
  <2> HIDE DEF z
  <2>3. ASSUME NEW y \in Subscriptions, cover[s] # None, Rest(x, y), y.trunc = z.trunc,
               y.replay = z.replay, y.queue = z.queue, y.dropped = z.dropped
        PROVE  Served(y, x.through, next[x.scope]) /\ Told(x, y, cover[s])
    <3>1. /\ cover[s] \in Nat /\ next[x.scope] \in Nat
          /\ Served(x, cover[s], next[x.scope])
      BY Zenon, <2>3, ServedNow DEF IInv
    <3>2. y.trunc = 0 /\ y.replay = <<>> /\ y.dropped = 0 /\ y.queue = x.queue
      BY <2>1, <2>3
    <3> HIDE DEF x
    <3> QED  BY <1>1, <1>2, <1>3, <2>3, <3>1, <3>2, DropsServed
  <2>4. Drained(s, z) /\ cover' = [cover EXCEPT ![s] = IF @ = None THEN None ELSE x.through]
    BY <1>3 DEF z, Covered
  <2> QED  BY Zenon, <1>2, <2>1, <2>2, <2>3, <2>4, DrainedKeeps
<1>4. CASE /\ x.dropped = 0 /\ x.queue # <<>>
           /\ Drained(s, [x EXCEPT !.queue = Tail(@), !.ended = x.stop /\ Head(x.queue).terminal])
           /\ Covered(s, Head(x.queue).seq)
  <2> DEFINE d == x.stop /\ Head(x.queue).terminal
             c == Head(x.queue).seq
             z == [x EXCEPT !.queue = Tail(@), !.ended = d]
  <2>1. x.queue \in Seq(Entries)
    BY Zenon, <1>1 DEF Subscriptions
  <2>2. Tail(x.queue) \in Seq(Entries) /\ Head(x.queue) \in Entries
    BY <1>4, <2>1
  <2>3. d \in BOOLEAN /\ c \in Nat
    BY <1>1, <2>2 DEF Subscriptions, Entries
  <2>4. Drained(s, z) /\ cover' = [cover EXCEPT ![s] = IF @ = None THEN None ELSE c]
    BY <1>4 DEF Covered
  <2> HIDE DEF d
  <2>5. /\ z \in Subscriptions /\ z.spent = x.spent /\ z.reads = x.reads /\ Rest(x, z)
        /\ z.trunc = 0 /\ z.replay = <<>> /\ z.dropped = 0 /\ z.queue = Tail(x.queue)
    BY Zenon, <1>1, <1>2, <1>4, <2>2, <2>3 DEF Subscriptions, Rest
  <2> HIDE DEF z
  <2>6. ASSUME NEW y \in Subscriptions, cover[s] # None, Rest(x, y), y.trunc = z.trunc,
               y.replay = z.replay, y.queue = z.queue, y.dropped = z.dropped
        PROVE  Served(y, c, next[x.scope]) /\ Told(x, y, cover[s])
    <3>1. /\ cover[s] \in Nat /\ next[x.scope] \in Nat
          /\ Served(x, cover[s], next[x.scope])
      BY Zenon, <2>6, ServedNow DEF IInv
    <3>2. y.trunc = 0 /\ y.replay = <<>> /\ y.dropped = 0 /\ y.queue = Tail(x.queue)
      BY <2>5, <2>6
    <3> HIDE DEF x
    <3>3. /\ c = cover[s] + 1
          /\ Served(y, cover[s] + 1, next[x.scope]) /\ Told(x, y, cover[s])
      BY <1>1, <1>2, <1>4, <2>6, <3>1, <3>2, QueueServed
    <3> QED  BY Zenon, <3>3
  <2> HIDE DEF c
  <2> QED  BY Zenon, <1>2, <2>3, <2>4, <2>5, <2>6, DrainedKeeps
<1> QED  BY <1>3, <1>4 DEF ReadLive

-----------------------------------------------------------------------------
(* Cleanup and shutdown *)

\* cleanup_run.
LEMMA CleanupRunKeeps ==
  ASSUME IInv, NEW r \in Runs, CleanupRun(r)
  PROVE  Keeps
<1>1. /\ ~down /\ UNCHANGED <<buf, next, down, sub, pub, cover, debt>>
      /\ dead' = dead \cup {r} /\ timer' = IF Watched(r) THEN timer ELSE timer \cup {r}
  BY DEF CleanupRun, ScheduleCleanup, history
<1>2. Typed'
  BY <1>1 DEF IInv, Typed
<1>3. Buffered'
  BY <1>1 DEF IInv, Buffered
<1>4. Cleaned'
  BY Zenon, <1>1 DEF IInv, Cleaned, CleanupKept, Watched, Matches
<1>5. Indebted'
  BY <1>1, IndebtedSame DEF IInv, Fewer
<1> QED  BY <1>1, <1>2, <1>3, <1>4, <1>5, UnbrokenSame DEF Keeps, IInv

\* _deferred_cleanup.
LEMMA DeferredCleanupKeeps ==
  ASSUME IInv, NEW r \in Runs, DeferredCleanup(r)
  PROVE  Keeps
<1>1. /\ UNCHANGED <<down, sub, pub, cover, debt>> /\ timer' = timer \ {r}
  BY DEF DeferredCleanup, history
<1>2. CASE Watched(r)
  <2>1. UNCHANGED <<buf, next, dead>>
    BY <1>2 DEF DeferredCleanup
  <2>2. Typed'
    BY <1>1, <2>1 DEF IInv, Typed
  <2>3. Buffered'
    BY <2>1 DEF IInv, Buffered
  <2>4. Cleaned'
    BY <1>1, <1>2, <2>1 DEF IInv, Cleaned, CleanupKept, Watched, Matches
  <2>5. Indebted'
    BY <1>1, IndebtedSame DEF IInv, Fewer
  <2> QED  BY <1>1, <2>1, <2>2, <2>3, <2>4, <2>5, UnbrokenSame DEF Keeps, IInv
<1>3. CASE ~Watched(r)
  <2>1. /\ buf' = [buf EXCEPT ![r] = <<>>] /\ next' = [next EXCEPT ![r] = 0]
        /\ dead' = dead \ {r}
    BY <1>3 DEF DeferredCleanup
  <2>2. Typed'
    <3>1. <<>> \in Seq(Entries)
      OBVIOUS
    <3>2. buf' \in [Runs -> Seq(Entries)] /\ next' \in [Runs -> Nat]
      BY <2>1, <3>1 DEF IInv, Typed
    <3> QED  BY <1>1, <2>1, <3>2 DEF IInv, Typed
  <2>3. Buffered'
    <3>1. Filled(<<>>, 0)
      BY DEF Filled
    <3> QED  BY <2>1, <3>1 DEF IInv, Typed, Buffered
  <2>4. Cleaned'
    BY <1>1, <2>1 DEF IInv, Cleaned, CleanupKept, Matches
  <2>5. Indebted'
    BY <1>1, IndebtedSame DEF IInv, Fewer
  <2>6. ASSUME NEW s \in Subs
        PROVE  Kept(s)
    <3>1. Same(sub[s], sub'[s]) /\ cover'[s] = cover[s]
      BY <1>1 DEF Same
    <3>2. CASE sub[s].scope # r
      <4>1. sub[s].scope \in Runs => next'[sub[s].scope] = next[sub[s].scope]
        BY <2>1, <3>2 DEF IInv, Typed
      <4> QED  BY <3>1, <4>1, OtherKept DEF IInv
    <3>3. CASE sub[s].scope = r
      <4>1. sub'[s].state # "open"
        BY <1>1, <1>3, <3>3 DEF Watched, Matches
      <4> QED  BY <3>1, <4>1, OtherKept DEF IInv
    <3> QED  BY <3>2, <3>3
  <2> QED  BY <2>2, <2>3, <2>4, <2>5, <2>6, AllKept DEF Keeps, IInv
<1> QED  BY <1>2, <1>3

\* shutdown.
LEMMA ShutdownKeeps ==
  ASSUME IInv, Shutdown
  PROVE  Keeps
<1>1. /\ down' = TRUE /\ dead' = {} /\ timer' = {} /\ UNCHANGED <<cover, debt>>
      /\ sub' = [s \in Subs |-> IF sub[s].state = "open"
                                  THEN [sub[s] EXCEPT !.state = "shut", !.drained = TRUE]
                                  ELSE sub[s]]
      /\ Wake({s \in Subs : sub[s].state = "open"})
      /\ buf' = [r \in Runs |-> <<>>] /\ next' = [r \in Runs |-> 0]
  BY Zenon DEF Shutdown, history
<1>2. ASSUME NEW s \in Subs
      PROVE  /\ sub'[s] \in Subscriptions /\ Same(sub[s], sub'[s]) /\ sub'[s].state # "open"
             /\ sub'[s].spent = sub[s].spent /\ sub'[s].reads = sub[s].reads
  <2>1. sub[s] \in Subscriptions
    BY DEF IInv, Typed
  <2>2. CASE sub[s].state # "open"
    BY Zenon, <1>1, <2>1, <2>2 DEF Same
  <2>3. CASE sub[s].state = "open"
    <3> DEFINE x == sub[s]
               y == [x EXCEPT !.state = "shut", !.drained = TRUE]
    <3>1. sub'[s] = y
      BY Zenon, <1>1, <2>3
    <3> HIDE DEF x
    <3>2. y \in Subscriptions /\ y.state = "shut" /\ y.spent = x.spent /\ y.reads = x.reads
      BY Zenon, <2>1 DEF Subscriptions, x
    <3>3. Same(x, y)
      BY <2>1, <2>3 DEF Subscriptions, Same, x
    <3> QED  BY <3>1, <3>2, <3>3 DEF x
  <2> QED  BY <2>2, <2>3
<1>3. Fewer /\ pub' \in [Runs -> [on : Subs \cup {None}, rest : SUBSET Subs]]
  BY Zenon, <1>1, WakeLess DEF IInv
<1>4. Typed'
  <2>1. sub' \in [Subs -> Subscriptions]
    <3>1. sub' = [s \in Subs |-> sub'[s]]
      BY Zenon, <1>1
    <3> QED  BY <1>2, <3>1
  <2>2. <<>> \in Seq(Entries)
    OBVIOUS
  <2>3. buf' \in [Runs -> Seq(Entries)] /\ next' \in [Runs -> Nat]
    BY Zenon, <1>1, <2>2
  <2> QED  BY Zenon, <1>1, <1>3, <2>1, <2>3 DEF IInv, Typed
<1>5. Buffered'
  <2>1. Filled(<<>>, 0)
    BY DEF Filled
  <2> QED  BY Zenon, <1>1, <2>1 DEF Buffered
<1>6. Cleaned'
  BY Zenon, <1>1 DEF Cleaned, CleanupKept
<1>7. Indebted'
  BY Zenon, <1>1, <1>2, <1>3, IndebtedSame DEF IInv
<1>8. \A s \in Subs : Kept(s)
  BY Zenon, <1>1, <1>2, OtherKept DEF IInv
<1> QED  BY <1>4, <1>5, <1>6, <1>7, <1>8, AllKept DEF Keeps, IInv

-----------------------------------------------------------------------------
(* The theorems *)

\* The empty bus satisfies the inductive invariant.
LEMMA InitHolds == Init => IInv
<1> SUFFICES ASSUME Init PROVE IInv
  OBVIOUS
<1>1. <<>> \in Seq(Entries) /\ NoSub \in Subscriptions
  BY NoSubTyped
<1>2. Free \in Nat
  BY Zenon, FreeIsNat
<1>3. Typed
  <2>1. sub \in [Subs -> Subscriptions]
    BY <1>1 DEF Init
  <2>2. pub \in [Runs -> [on : Subs \cup {None}, rest : SUBSET Subs]]
    BY DEF Init, NotWaiting
  <2>3. buf \in [Runs -> Seq(Entries)] /\ next \in [Runs -> Nat]
    BY <1>1 DEF Init
  <2>4. debt \in [Subs -> [Runs -> Nat]]
    BY <1>2 DEF Init
  <2> QED  BY Zenon, <2>1, <2>2, <2>3, <2>4 DEF Init, Typed
<1>4. Buffered
  <2>1. Filled(<<>>, 0)
    BY DEF Filled
  <2> QED  BY <2>1 DEF Init, Buffered
<1>5. Cleaned
  BY DEF Init, Cleaned, CleanupKept
<1>6. Indebted
  <2>1. \A r \in Runs : pub[r].on = None /\ pub[r].rest = {}
    BY DEF Init, NotWaiting
  <2>2. \A s \in Subs, r \in Runs : debt[s][r] = Free
    BY DEF Init
  <2> QED  BY <2>1, <2>2 DEF Indebted
<1>7. Unbroken
  <2>1. \A s \in Subs : sub[s] = NoSub /\ cover[s] = None
    BY DEF Init
  <2>2. NoSub.queue = <<>> /\ NoSub.dropped = 0
    BY DEF NoSub
  <2> QED  BY <2>1, <2>2 DEF Unbroken
<1> QED  BY <1>3, <1>4, <1>5, <1>6, <1>7 DEF IInv

\* Every step keeps the inductive invariant and tells the gaps it makes.
LEMMA NextKeeps ==
  ASSUME IInv, [Next]_vars
  PROVE  Keeps
<1>1. CASE UNCHANGED vars
  <2>1. UNCHANGED <<buf, next, dead, timer, down, sub, pub, cover, debt>>
    BY <1>1 DEF vars
  <2>2. Typed' /\ Buffered' /\ Cleaned' /\ Indebted'
    BY Zenon, <2>1 DEF IInv, Typed, Buffered, Cleaned, CleanupKept, Indebted, Free
  <2> QED  BY <2>1, <2>2, UnbrokenSame DEF IInv, Keeps
<1>2. ASSUME NEW r \in Runs, RunStep(r)
      PROVE  Keeps
  BY <1>2, PublishKeeps, AwaitKeeps, DeadlineKeeps, PublishTerminalKeeps, SeedKeeps,
     CleanupRunKeeps, DeferredCleanupKeeps DEF RunStep
<1>3. ASSUME NEW s \in Subs, SubStep(s)
      PROVE  Keeps
  BY Zenon, <1>3, SubscribeEntriesKeeps, SubscribeKeeps, UnsubscribeKeeps, ReadReplayKeeps,
     ReadLiveKeeps DEF SubStep, Read, ReadEnd
<1> QED  BY <1>1, <1>2, <1>3, ShutdownKeeps DEF Next

\* A terminated run that nobody watches has its cleanup pending, for any number of
\* runs and subscriptions and any sizes of the buffers: its events are not leaked.
THEOREM CleanupIsKept == Spec => []CleanupKept
<1>1. IInv => CleanupKept
  BY DEF IInv, Cleaned
<1>2. IInv /\ [Next]_vars => IInv'
  BY NextKeeps DEF Keeps
<1> QED  BY <1>1, <1>2, InitHolds, PTL DEF Spec

\* A publisher waits again on a subscriber it spent a deadline on only after it read
\* half a bound of events or fell below the mark, for any number of publishers.
THEOREM StalledWatcherCostsOnce == Spec => []StalledCostsOnce
<1>1. IInv => StalledCostsOnce
  BY DEF IInv, Typed, Indebted, StalledCostsOnce
<1>2. IInv /\ [Next]_vars => IInv'
  BY NextKeeps DEF Keeps
<1> QED  BY <1>1, <1>2, InitHolds, PTL DEF Spec

\* Whatever is published, dropped, truncated, reseeded or shut down meanwhile, the next
\* entry of a subscription of a run follows what was delivered or announced.
THEOREM GapsAreTold == Spec => NoSilentGap
<1> DEFINE A == \A s \in Subs :
       LET x == sub[s] y == sub'[s] IN
       cover[s] # None /\ y.state # "closed" =>
         /\ Len(y.replay) < Len(x.replay) => Head(x.replay).seq = cover[s] + 1
         /\ Len(y.queue) < Len(x.queue) => Head(x.queue).seq = cover[s] + 1
         /\ x.dropped > 0 /\ y.dropped = 0 => x.through = cover[s] + x.dropped
         /\ x.trunc # 0 /\ y.trunc = 0 => x.trunc > cover[s] + 1
<1>1. IInv /\ [Next]_vars => [A]_vars
  BY NextKeeps DEF Keeps, AllTold, Told
<1>2. IInv /\ [Next]_vars => IInv'
  BY NextKeeps DEF Keeps
<1> QED  BY <1>1, <1>2, InitHolds, PTL DEF Spec, NoSilentGap
=============================================================================
