----------------------- MODULE ApprovalDeliveryProofs -----------------------
(***************************************************************************)
(* For any number of approvals, decision requests, deletions and restarts: *)
(* a published decision was sent, a fenced approval is not sent, a pending *)
(* row is watched, and the delivery of decisions implements                *)
(* DecisionDelivery.                                                       *)
(***************************************************************************)
EXTENDS ApprovalDelivery, TLAPS

Steps == {"idle", "terminalize", "audit", "ready", "check", "publish", "commit", "reconcile",
          "quarantine", "fail_owner"}

Tasks == [at : Steps, for : Approvals \cup {None}]

Rows == {NoRow} \cup [audit : {"pending", "ready"},
                      state : {"pending", "published", "acknowledged", "quarantined"}]

Loops == [at : {"waiting", "window", "select", "rows"}, upto : Nat,
          rows : SUBSET Approvals, failed : BOOLEAN]

\* A request is decided when its row is inserted, and has one place in the order.
Store ==
  /\ request \in [Approvals -> {"pending_user", "approved", "denied"}]
  /\ row \in [Approvals -> Rows]
  /\ order \in Seq(Approvals)
  /\ \A i, j \in DOMAIN order : order[i] = order[j] => i = j
  /\ \A i \in DOMAIN order : row[order[i]].state # "none"
  /\ \A a \in Approvals : row[a].state # "none" =>
       request[a] # "pending_user" /\ \E i \in DOMAIN order : order[i] = a
  /\ \A a \in Approvals : row[a].state = "none" => request[a] = "pending_user"

\* A row is marked ready, and its decision travels, after its audit receipt.
Audits ==
  /\ \A a \in audited : a \in Approvals /\ row[a].state # "none"
  /\ \A a \in Approvals : row[a].audit = "ready" => a \in audited

Frames ==
  /\ sent \in Seq(Approvals) /\ wire \in Seq(Approvals) /\ inbox \in Seq(Approvals)
  /\ \A i \in DOMAIN wire : wire[i] \in audited
  /\ \A i \in DOMAIN inbox : inbox[i] \in audited

\* What a delivery knows of its row: the publication's transaction keeps the row
\* pending until it commits, and only a decision that was sent is reconciled.
Work(w) ==
  LET a == worker[w].for IN
  /\ worker[w].at # "idle" => a \in Approvals
  /\ worker[w].at \notin {"idle", "terminalize"} => row[a].state # "none"
  /\ worker[w].at = "ready" => a \in audited
  /\ worker[w].at \in {"check", "publish", "commit", "reconcile"} => row[a].audit = "ready"
  /\ worker[w].at \in {"commit", "reconcile"} => a \in Range(sent)
  /\ worker[w].at = "commit" => txn = w /\ row[a].state = "pending"
  /\ worker[w].at = "fail_owner" => row[a].state = "quarantined"

Working == worker \in [Workers -> Tasks] /\ \A w \in Workers : Work(w)

Looping ==
  /\ drain \in Loops /\ wake \in BOOLEAN /\ retry \in BOOLEAN
  /\ drain.upto <= Len(order)
  /\ worker[Drainer].at # "idle" => drain.at = "rows"
  /\ drain.rows # {} => drain.at = "rows"
  /\ \A a \in drain.rows : row[a].state # "none"

\* The drainer has the row, or will read the rows again.
DrainWatches(a) ==
  \/ wake \/ retry \/ drain.at = "window"
  \/ drain.at = "rows" /\ drain.failed
  \/ drain.at = "select" /\ a \in Upto(drain.upto)
  \/ a \in drain.rows
  \/ worker[Drainer].at # "idle" /\ worker[Drainer].for = a

\* The task that took the decision has not marked the row ready: it still has to wake
\* the drainer.
Deciding(a) ==
  /\ row[a].audit # "ready"
  /\ \E w \in Workers \ {Drainer} : worker[w].at \in {"audit", "ready"} /\ worker[w].for = a

Watched == \A a \in Approvals : Pending(a) => DrainWatches(a) \/ Deciding(a)

IInv == Store /\ Audits /\ Frames /\ Working /\ Looping /\ Watched /\ PublishedWasSent

-----------------------------------------------------------------------------
(* Lemmas about the operators *)

\* The delivery sequence of an approval is its place in the order.
LEMMA SeqPlace ==
  ASSUME Store, NEW i \in DOMAIN order
  PROVE  Seq_(order[i]) = i
BY DEF Store, Seq_

\* A longer sequence contains what the shorter one does, and its last element.
LEMMA RangeAppend ==
  ASSUME NEW s \in Seq(Approvals), NEW a \in Approvals
  PROVE  /\ Append(s, a) \in Seq(Approvals) /\ Len(Append(s, a)) = Len(s) + 1
         /\ a \in Range(Append(s, a))
         /\ \A b : b \in Range(s) => b \in Range(Append(s, a))
         /\ \A b : b \in Range(Append(s, a)) => b = a \/ b \in Range(s)
         /\ \A i \in DOMAIN Append(s, a) : Append(s, a)[i] = a \/ (i \in DOMAIN s /\ Append(s, a)[i] = s[i])
         /\ \A i \in DOMAIN s : i \in DOMAIN Append(s, a) /\ Append(s, a)[i] = s[i]
         /\ Len(s) + 1 \in DOMAIN Append(s, a) /\ Append(s, a)[Len(s) + 1] = a
BY DEF Range

LEMMA EmptySequence ==
  \A s : s = <<>> => s \in Seq(Approvals) /\ DOMAIN s = {}
OBVIOUS

\* A task that goes on or ends leaves the other tasks alone.
LEMMA GoesTo ==
  ASSUME Working, NEW w \in Workers, NEW pc \in Steps, worker' = Goes(w, pc)
  PROVE  /\ worker' \in [Workers -> Tasks]
         /\ worker'[w].at = pc /\ worker'[w].for = worker[w].for
         /\ \A v \in Workers \ {w} : worker'[v] = worker[v]
BY DEF Working, Goes, Tasks

LEMMA EndsTask ==
  ASSUME Working, NEW w \in Workers, Ends(w)
  PROVE  /\ worker' \in [Workers -> Tasks]
         /\ worker'[w].at = "idle"
         /\ \A v \in Workers \ {w} : worker'[v] = worker[v]
BY DEF Working, Ends, Tasks, Idle, Steps

LEMMA StartsTask ==
  ASSUME Working, NEW w \in Workers, NEW a \in Approvals, NEW pc \in Steps,
         worker' = [worker EXCEPT ![w] = [at |-> pc, for |-> a]]
  PROVE  /\ worker' \in [Workers -> Tasks]
         /\ worker'[w].at = pc /\ worker'[w].for = a
         /\ \A v \in Workers \ {w} : worker'[v] = worker[v]
BY DEF Working, Tasks

\* A row is never removed, stays ready, and stays in quarantine; what is audited or
\* sent stays so.
Grows ==
  /\ \A a \in Approvals :
       /\ row[a].state # "none" => row'[a].state # "none"
       /\ row[a].audit = "ready" => row'[a].audit = "ready"
       /\ row[a].state = "quarantined" => row'[a].state = "quarantined"
  /\ audited \subseteq audited'
  /\ \A a : a \in Range(sent) => a \in Range(sent')

\* A step of one task keeps what the others know, if it respects the transaction of
\* a publication under way.
LEMMA OthersKeep ==
  ASSUME Working, NEW w \in Workers, Grows,
         worker' \in [Workers -> Tasks], \A v \in Workers \ {w} : worker'[v] = worker[v],
         \A v \in Workers \ {w} :
           worker[v].at = "commit" => txn' = txn /\ row'[worker[v].for].state = "pending",
         Work(w)'
  PROVE  Working'
<1>1. ASSUME NEW v \in Workers \ {w}  PROVE Work(v)'
  BY <1>1 DEF Work, Working, Grows
<1> QED  BY <1>1 DEF Working

\* While the write transaction is free no publication is under way, and its holder is
\* the only one.
LEMMA NobodyCommits ==
  ASSUME Working, txn = None
  PROVE  \A v \in Workers : worker[v].at # "commit"
BY ActorsDiffer DEF Working, Work, Workers

LEMMA OneCommits ==
  ASSUME Working, NEW w \in Workers, worker[w].at = "commit"
  PROVE  \A v \in Workers \ {w} : worker[v].at # "commit"
BY DEF Working, Work

-----------------------------------------------------------------------------
(* The inductive invariant *)

\* The state of a new gateway and child satisfies the invariant.
LEMMA InitIInv == Init => IInv
<1> SUFFICES ASSUME Init  PROVE IInv
  OBVIOUS
<1>1. Store  BY DEF Init, Store, Rows, NoRow
<1>2. Audits /\ Frames  BY DEF Init, Audits, Frames, NoRow
<1>3. Working  BY DEF Init, Working, Work, Tasks, Steps, Idle
<1>4. Looping
  <2>1. drain \in Loops /\ drain.upto = 0 /\ drain.rows = {}  BY DEF Init, Loops
  <2>2. wake \in BOOLEAN /\ retry \in BOOLEAN  BY Zenon DEF Init
  <2>3. worker[Drainer].at = "idle" /\ Len(order) = 0  BY DEF Init, Workers, Idle
  <2> QED  BY <2>1, <2>2, <2>3 DEF Looping
<1>5. Watched /\ PublishedWasSent  BY DEF Init, Watched, Pending, PublishedWasSent, NoRow
<1> QED  BY <1>1, <1>2, <1>3, <1>4, <1>5 DEF IInv

\* The change of one field of a row that exists.
LEMMA SetsState ==
  ASSUME Store, NEW a \in Approvals, row[a].state # "none",
         NEW st \in {"pending", "published", "acknowledged", "quarantined"},
         row' = [row EXCEPT ![a].state = st]
  PROVE  /\ row' \in [Approvals -> Rows]
         /\ row'[a].state = st /\ row'[a].audit = row[a].audit
         /\ \A b \in Approvals \ {a} : row'[b] = row[b]
<1>1. row[a] \in [audit : {"pending", "ready"},
                  state : {"pending", "published", "acknowledged", "quarantined"}]
  BY DEF Store, Rows, NoRow
<1>2. row'[a] = [row[a] EXCEPT !.state = st]  BY DEF Store
<1>3. row'[a] \in Rows /\ row'[a].state = st /\ row'[a].audit = row[a].audit
  BY <1>1, <1>2 DEF Rows
<1> QED  BY <1>3 DEF Store

LEMMA SetsAudit ==
  ASSUME Store, NEW a \in Approvals, row[a].state # "none",
         row' = [row EXCEPT ![a].audit = "ready"]
  PROVE  /\ row' \in [Approvals -> Rows]
         /\ row'[a].state = row[a].state /\ row'[a].audit = "ready"
         /\ \A b \in Approvals \ {a} : row'[b] = row[b]
<1>1. row[a] \in [audit : {"pending", "ready"},
                  state : {"pending", "published", "acknowledged", "quarantined"}]
  BY DEF Store, Rows, NoRow
<1>2. row'[a] = [row[a] EXCEPT !.audit = "ready"]  BY DEF Store
<1>3. row'[a] \in Rows /\ row'[a].state = row[a].state /\ row'[a].audit = "ready"
  BY <1>1, <1>2 DEF Rows
<1> QED  BY <1>3 DEF Store

\* A step that inserts no row.
LEMMA StoreKept ==
  ASSUME Store, UNCHANGED <<request, order>>, row' \in [Approvals -> Rows],
         \A a \in Approvals : row'[a].state = "none" <=> row[a].state = "none"
  PROVE  Store'
BY DEF Store

\* What the drainer watches stays watched while the drainer rests.
LEMMA DrainRests ==
  ASSUME Looping, NEW a \in Approvals, DrainWatches(a),
         UNCHANGED <<drain, retry, order>>, wake => wake',
         worker[Drainer].at # "idle" =>
           worker'[Drainer].at # "idle" /\ worker'[Drainer].for = worker[Drainer].for
  PROVE  DrainWatches(a)'
BY DEF DrainWatches, Upto

LEMMA LoopRests ==
  ASSUME Looping, UNCHANGED <<drain, retry, order>>, wake' \in BOOLEAN,
         \A a \in Approvals : row[a].state # "none" => row'[a].state # "none",
         worker'[Drainer].at # "idle" => worker[Drainer].at # "idle"
  PROVE  Looping'
BY DEF Looping, Loops

\* A delivery that raises leaves a pending row to the drainer.
LEMMA RaisesStep ==
  ASSUME IInv, NEW w \in Workers, worker[w].at # "idle", Raises(w),
         UNCHANGED <<row, order, audited, sent, txn, retry>>,
         wake' \in BOOLEAN, wake => wake',
         \/ w = Drainer \/ wake' \/ worker[w].at \notin {"audit", "ready"}
         \/ ~Pending(worker[w].for)
  PROVE  Working' /\ Looping' /\ Watched'
<1>1. /\ worker' \in [Workers -> Tasks] /\ worker'[w].at = "idle"
      /\ \A v \in Workers \ {w} : worker'[v] = worker[v]
  BY EndsTask DEF IInv, Raises
<1>2. Working'
  <2>1. Work(w)'  BY <1>1 DEF Work
  <2>2. Grows  BY DEF Grows
  <2>3. \A v \in Workers \ {w} :
           worker[v].at = "commit" => txn' = txn /\ row'[worker[v].for].state = "pending"
    BY DEF IInv, Working, Work
  <2> QED  BY <1>1, <2>1, <2>2, <2>3, OthersKeep DEF IInv
<1>3. Drainer \in Workers  BY DEF Workers
<1>4. CASE w = Drainer /\ Pending(worker[w].for)
  <2>1. drain' = [drain EXCEPT !.failed = TRUE] /\ drain \in Loops
    BY <1>4 DEF Raises, Noted, IInv, Looping
  <2>2. drain.at = "rows"  BY <1>4 DEF IInv, Looping
  <2>3. /\ drain' \in Loops /\ drain'.failed = TRUE /\ drain'.at = "rows"
        /\ drain'.rows = drain.rows /\ drain'.upto = drain.upto
    BY Zenon, <2>1, <2>2 DEF Loops
  <2>4. Looping'  BY <2>3, <1>1, <1>4 DEF IInv, Looping
  <2>5. Watched'  BY <2>3 DEF Watched, DrainWatches
  <2> QED  BY <1>2, <2>4, <2>5
<1>5. CASE ~(w = Drainer /\ Pending(worker[w].for))
  <2>1. UNCHANGED drain  BY <1>5 DEF Raises, Noted
  <2>2. worker'[Drainer].at # "idle" => worker[Drainer].at # "idle"  BY <1>1, <1>3
  <2>3. Looping'  BY <2>1, <2>2, LoopRests DEF IInv
  <2>4. ASSUME NEW a \in Approvals, Pending(a)'  PROVE DrainWatches(a)' \/ Deciding(a)'
    <3>1. Pending(a)  BY <2>4 DEF Pending
    <3>2. CASE DrainWatches(a) /\ ~(w = Drainer /\ worker[w].for = a)
      <4>1. CASE w = Drainer
        BY <1>1, <2>1, <3>2, <4>1 DEF DrainWatches, Upto
      <4>2. CASE w # Drainer
        <5>1. worker'[Drainer] = worker[Drainer]  BY <1>1, <1>3, <4>2
        <5> QED  BY <2>1, <3>2, <5>1, DrainRests DEF IInv
      <4> QED  BY <4>1, <4>2
    <3>3. CASE Deciding(a)
      <4>1. PICK v \in Workers \ {Drainer} :
              worker[v].at \in {"audit", "ready"} /\ worker[v].for = a
        BY <3>3 DEF Deciding
      <4>2. CASE v = w
        <5>1. wake'  BY <3>1, <4>1, <4>2
        <5> QED  BY <5>1 DEF DrainWatches
      <4>3. CASE v # w
        <5>1. worker'[v] = worker[v]  BY <1>1, <4>3
        <5> QED  BY <3>3, <4>1, <5>1 DEF Deciding
      <4> QED  BY <4>2, <4>3
    <3>4. DrainWatches(a) \/ Deciding(a)  BY <3>1 DEF IInv, Watched
    <3> QED  BY <1>5, <3>1, <3>2, <3>3, <3>4
  <2>5. Watched'  BY <2>4 DEF Watched
  <2> QED  BY <1>2, <2>3, <2>5
<1> QED  BY <1>4, <1>5

\* Steps that change neither the store nor the channels.
LEMMA StoreRests ==
  ASSUME IInv, UNCHANGED <<request, row, order, audited, sent, wire, inbox>>
  PROVE  Store' /\ Audits' /\ Frames' /\ PublishedWasSent' /\ Grows
BY DEF IInv, Store, Audits, Frames, PublishedWasSent, Grows

\* A task goes on, starts or ends and leaves the rows alone: the drainer keeps its row,
\* and the task that took a decision has woken the drainer when it leaves its audit.
LEMMA TaskStep ==
  ASSUME IInv, NEW w \in Workers, worker' \in [Workers -> Tasks],
         \A v \in Workers \ {w} : worker'[v] = worker[v], Work(w)', Grows,
         UNCHANGED <<row, order, drain, retry>>, wake' \in BOOLEAN, wake => wake',
         \A v \in Workers \ {w} : worker[v].at = "commit" => txn' = txn,
         w = Drainer => /\ worker[w].at # "idle" /\ worker'[w].at # "idle"
                        /\ worker'[w].for = worker[w].for,
         worker[w].at \in {"audit", "ready"} =>
           \/ wake' = TRUE \/ row[worker[w].for].audit = "ready"
           \/ worker'[w].at \in {"audit", "ready"} /\ worker'[w].for = worker[w].for
  PROVE  Working' /\ Looping' /\ Watched'
<1>1. Working'
  <2>1. \A v \in Workers \ {w} :
           worker[v].at = "commit" => txn' = txn /\ row'[worker[v].for].state = "pending"
    BY DEF IInv, Working, Work
  <2> QED  BY <2>1, OthersKeep DEF IInv
<1>2. /\ worker'[Drainer].at # "idle" <=> worker[Drainer].at # "idle"
      /\ worker'[Drainer].for = worker[Drainer].for
  BY DEF Workers
<1>3. Looping'  BY <1>2, LoopRests DEF IInv
<1>4. ASSUME NEW b \in Approvals, DrainWatches(b)  PROVE DrainWatches(b)'
  BY <1>2, <1>4, DrainRests DEF IInv
<1>5. ASSUME NEW b \in Approvals, Deciding(b)  PROVE DrainWatches(b)' \/ Deciding(b)'
  <2>1. PICK v \in Workers \ {Drainer} :
          worker[v].at \in {"audit", "ready"} /\ worker[v].for = b
    BY <1>5 DEF Deciding
  <2>2. wake' = TRUE \/ (worker'[v].at \in {"audit", "ready"} /\ worker'[v].for = b)
    <3>1. row[worker[v].for].audit # "ready"  BY <1>5, <2>1 DEF Deciding
    <3>2. CASE v = w  BY <2>1, <3>1, <3>2
    <3>3. CASE v # w  BY <2>1, <3>3
    <3> QED  BY Zenon, <3>2, <3>3
  <2> QED  BY <1>5, <2>1, <2>2 DEF Deciding, DrainWatches
<1>6. Watched'  BY <1>4, <1>5 DEF IInv, Watched, Pending
<1> QED  BY <1>1, <1>3, <1>6

\* The transaction that takes a decision (record_vote, terminalize_pending_for_
\* cancellation): the row takes the next place in the order, and its task is to audit.
LEMMA DecideStep ==
  ASSUME IInv, NEW w \in Workers, w # Drainer, NEW a \in Approvals,
         NEW d \in {"approved", "denied"}, request[a] = "pending_user", Decides(a, d),
         worker[w].at \in {"idle", "terminalize"},
         worker' \in [Workers -> Tasks], worker'[w].at = "audit", worker'[w].for = a,
         \A v \in Workers \ {w} : worker'[v] = worker[v],
         UNCHANGED <<audited, txn, sent, wire, inbox, drain, wake, retry>>
  PROVE  IInv'
<1>1. row[a].state = "none" /\ row[a] = NoRow  BY DEF IInv, Store, Rows, NoRow
<1>2. /\ row' \in [Approvals -> Rows]
      /\ row'[a].state = "pending" /\ row'[a].audit = "pending"
      /\ \A b \in Approvals \ {a} : row'[b] = row[b]
  BY DEF IInv, Store, Decides, Rows
<1>3. /\ request' \in [Approvals -> {"pending_user", "approved", "denied"}]
      /\ request'[a] # "pending_user"
      /\ \A b \in Approvals \ {a} : request'[b] = request[b]
  BY DEF IInv, Store, Decides
<1>4. order \in Seq(Approvals) /\ order' = Append(order, a)  BY DEF IInv, Store, Decides
<1>5. \A i \in DOMAIN order : order[i] # a  BY <1>1 DEF IInv, Store
<1>6. Store'
  <2>1. \A i, j \in DOMAIN order' : order'[i] = order'[j] => i = j
    <3>1. \A i, j \in DOMAIN order : order[i] = order[j] => i = j  BY DEF IInv, Store
    <3> QED  BY <1>4, <1>5, <3>1
  <2>2. ASSUME NEW i \in DOMAIN order'  PROVE row'[order'[i]].state # "none"
    <3>1. CASE order'[i] = a  BY <1>2, <3>1
    <3>2. CASE order'[i] # a
      <4>1. i \in DOMAIN order /\ order'[i] = order[i]  BY <1>4, <3>2
      <4>2. order[i] \in Approvals \ {a} /\ row[order[i]].state # "none"
        BY <1>4, <3>2, <4>1 DEF IInv, Store
      <4> QED  BY <1>2, <4>1, <4>2
    <3> QED  BY <3>1, <3>2
  <2>3. \A b \in Approvals : row'[b].state # "none" =>
          request'[b] # "pending_user" /\ \E i \in DOMAIN order' : order'[i] = b
    <3>1. ASSUME NEW b \in Approvals \ {a}, row'[b].state # "none"
          PROVE  request'[b] # "pending_user" /\ \E i \in DOMAIN order' : order'[i] = b
      <4>1. request[b] # "pending_user" /\ \E i \in DOMAIN order : order[i] = b
        BY <1>2, <3>1 DEF IInv, Store
      <4> QED  BY <1>3, <1>4, <4>1, RangeAppend
    <3>2. \E i \in DOMAIN order' : order'[i] = a  BY <1>4, RangeAppend
    <3> QED  BY <1>3, <3>1, <3>2
  <2>4. \A b \in Approvals : row'[b].state = "none" => request'[b] = "pending_user"
    BY <1>2, <1>3 DEF IInv, Store
  <2> QED  BY <1>2, <1>3, <1>4, <2>1, <2>2, <2>3, <2>4, RangeAppend DEF Store
<1>7. Audits' /\ Frames'  BY Zenon, <1>2 DEF IInv, Audits, Frames
<1>8. Working'
  <2>1. Work(w)'  BY <1>2 DEF Work
  <2>2. row[a].audit # "ready" /\ row[a].state = "none"  BY <1>1 DEF NoRow
  <2>3. Grows  BY <1>2, <2>2 DEF Grows
  <2>4. \A v \in Workers : worker[v].at # "commit"  BY NobodyCommits DEF IInv, Decides
  <2> QED  BY <2>1, <2>3, <2>4, OthersKeep DEF IInv
<1>9. worker'[Drainer] = worker[Drainer]  BY DEF Workers
<1>10. Looping'
  <2>1. Len(order') = Len(order) + 1 /\ Len(order) \in Nat  BY <1>4, RangeAppend
  <2>2. drain.upto <= Len(order')  BY <2>1 DEF IInv, Looping, Loops
  <2>3. \A b \in drain.rows : row'[b].state # "none"  BY <1>2 DEF IInv, Looping, Loops
  <2> QED  BY <1>9, <2>2, <2>3 DEF IInv, Looping
<1>11. Watched'
  <2>1. Deciding(a)'  BY <1>2 DEF Deciding
  <2>2. ASSUME NEW b \in Approvals \ {a}, Pending(b)'  PROVE DrainWatches(b)' \/ Deciding(b)'
    <3>1. Pending(b)  BY <1>2, <2>2 DEF Pending
    <3>2. CASE DrainWatches(b)
      <4>1. \A i \in 1..drain.upto : i \in DOMAIN order' /\ order'[i] = order[i]
        BY <1>4 DEF IInv, Looping, Loops
      <4>2. ASSUME b \in Upto(drain.upto)  PROVE b \in Upto(drain.upto)'
        <5>1. PICK i \in 1..drain.upto : order[i] = b  BY <4>2, Zenon DEF Upto
        <5>2. order'[i] = b /\ drain'.upto = drain.upto  BY <4>1, <5>1
        <5> QED  BY <5>1, <5>2 DEF Upto
      <4> QED  BY <1>9, <3>2, <4>2 DEF DrainWatches
    <3>3. CASE Deciding(b)
      <4>1. PICK v \in Workers \ {Drainer} :
              worker[v].at \in {"audit", "ready"} /\ worker[v].for = b
        BY <3>3 DEF Deciding
      <4>2. worker'[v] = worker[v]  BY <4>1
      <4> QED  BY <1>2, <3>3, <4>1, <4>2 DEF Deciding
    <3> QED  BY <3>1, <3>2, <3>3 DEF IInv, Watched
  <2> QED  BY <2>1, <2>2 DEF Watched
<1>12. PublishedWasSent'
  BY <1>2 DEF IInv, PublishedWasSent
<1> QED  BY <1>6, <1>7, <1>8, <1>10, <1>11, <1>12 DEF IInv

LEMMA VoteStep ==
  ASSUME IInv, NEW h \in Handlers, NEW a \in Approvals, NEW d \in {"approved", "denied"},
         Vote(h, a, d)
  PROVE  IInv'
<1>1. h \in Workers /\ h # Drainer  BY ActorsDiffer DEF Workers
<1>2. worker' = [worker EXCEPT ![h] = [at |-> "audit", for |-> a]] /\ "audit" \in Steps
  BY DEF Vote, Steps
<1>3. /\ worker' \in [Workers -> Tasks] /\ worker'[h].at = "audit" /\ worker'[h].for = a
      /\ \A v \in Workers \ {h} : worker'[v] = worker[v]
  BY Zenon, <1>1, <1>2, StartsTask DEF IInv
<1>4. /\ worker[h].at \in {"idle", "terminalize"} /\ request[a] = "pending_user" /\ Decides(a, d)
      /\ UNCHANGED <<audited, txn, sent, wire, inbox, drain, wake, retry>>
  BY DEF Vote, At, child, loop
<1> QED  BY <1>1, <1>3, <1>4, DecideStep

\* A task starts on a row that exists while the drainer is awake.
LEMMA RedeliverStep ==
  ASSUME IInv, NEW h \in Handlers, NEW a \in Approvals, Redeliver(h, a)
  PROVE  IInv'
<1>1. h \in Workers /\ h # Drainer /\ Drainer \in Workers  BY ActorsDiffer DEF Workers
<1>2. worker' = [worker EXCEPT ![h] = [at |-> "audit", for |-> a]] /\ "audit" \in Steps
  BY DEF Redeliver, Steps
<1>3. /\ worker' \in [Workers -> Tasks] /\ worker'[h].at = "audit" /\ worker'[h].for = a
      /\ \A v \in Workers \ {h} : worker'[v] = worker[v]
  BY Zenon, <1>1, <1>2, StartsTask DEF IInv
<1>4. /\ row[a].state = "pending" /\ wake' = TRUE
      /\ UNCHANGED <<request, row, order, audited, txn, sent, wire, inbox, drain, retry>>
  BY DEF Redeliver, Pending, store, child
<1>5. Store' /\ Audits' /\ Frames' /\ PublishedWasSent' /\ Grows  BY <1>4, StoreRests
<1>6. Work(h)'  BY <1>3, <1>4 DEF Work
<1>7. Working' /\ Looping' /\ Watched'  BY <1>1, <1>3, <1>4, <1>5, <1>6, TaskStep
<1> QED  BY <1>5, <1>7 DEF IInv

\* The deletion's task takes a request; it knows nothing of the row yet.
LEMMA FenceStep ==
  ASSUME IInv, NEW c \in Cancels, NEW a \in Approvals, Fence(c, a)
  PROVE  IInv'
<1>1. c \in Workers /\ c # Drainer /\ Drainer \in Workers  BY ActorsDiffer DEF Workers
<1>2. worker' = [worker EXCEPT ![c] = [at |-> "terminalize", for |-> a]] /\ "terminalize" \in Steps
  BY DEF Fence, Steps
<1>3. /\ worker' \in [Workers -> Tasks] /\ worker'[c].at = "terminalize" /\ worker'[c].for = a
      /\ \A v \in Workers \ {c} : worker'[v] = worker[v]
  BY Zenon, <1>1, <1>2, StartsTask DEF IInv
<1>4. /\ worker[c].at = "idle"
      /\ UNCHANGED <<request, row, order, audited, txn, sent, wire, inbox, drain, wake, retry>>
  BY DEF Fence, At, child, loop
<1>5. Store' /\ Audits' /\ Frames' /\ PublishedWasSent' /\ Grows  BY <1>4, StoreRests
<1>6. Work(c)'  BY <1>3 DEF Work
<1>7. wake' \in BOOLEAN  BY <1>4 DEF IInv, Looping
<1>8. Working' /\ Looping' /\ Watched'  BY Zenon, <1>1, <1>3, <1>4, <1>5, <1>6, <1>7, TaskStep
<1> QED  BY <1>5, <1>8 DEF IInv

\* The deletion denies an undecided request, and leaves a decided one to the drainer.
LEMMA TerminalizeStep ==
  ASSUME IInv, NEW c \in Cancels, Terminalize(c)
  PROVE  IInv'
<1> DEFINE a == worker[c].for
<1>1. c \in Workers /\ c # Drainer /\ Drainer \in Workers  BY ActorsDiffer DEF Workers
<1>2. worker[c].at = "terminalize" /\ a \in Approvals
  BY <1>1 DEF Terminalize, At, IInv, Working, Work
<1>3. UNCHANGED <<audited, txn, sent, wire, inbox, drain, retry>>
  BY DEF Terminalize, child
<1>4. CASE request[a] = "pending_user"
  <2>1. Decides(a, "denied") /\ worker' = Goes(c, "audit") /\ UNCHANGED wake
    BY <1>4 DEF Terminalize
  <2>2. "audit" \in Steps  BY DEF Steps
  <2>3. /\ worker' \in [Workers -> Tasks] /\ worker'[c].at = "audit" /\ worker'[c].for = a
        /\ \A v \in Workers \ {c} : worker'[v] = worker[v]
    BY <1>1, <2>1, <2>2, GoesTo DEF IInv
  <2> HIDE DEF a
  <2>4. worker[c].at \in {"idle", "terminalize"}  BY <1>2
  <2> QED  BY <1>1, <1>2, <1>3, <1>4, <2>1, <2>3, <2>4, DecideStep
<1>5. CASE request[a] # "pending_user"
  <2>1. Ends(c) /\ wake' = TRUE /\ UNCHANGED <<request, row, order>>
    BY <1>5 DEF Terminalize
  <2>2. /\ worker' \in [Workers -> Tasks] /\ worker'[c].at = "idle"
        /\ \A v \in Workers \ {c} : worker'[v] = worker[v]
    BY <1>1, <2>1, EndsTask DEF IInv
  <2>3. Store' /\ Audits' /\ Frames' /\ PublishedWasSent' /\ Grows  BY <1>3, <2>1, StoreRests
  <2>4. Work(c)'  BY <2>2 DEF Work
  <2>5. Working' /\ Looping' /\ Watched'  BY <1>1, <1>2, <1>3, <2>1, <2>2, <2>3, <2>4, TaskStep
  <2> QED  BY <2>3, <2>5 DEF IInv
<1> QED  BY <1>4, <1>5

-----------------------------------------------------------------------------
(* The delivery of one row *)

\* A delivery goes on and leaves the rows alone: the task that took the decision has
\* woken the drainer when it leaves its audit behind.
LEMMA GoesStep ==
  ASSUME IInv, NEW w \in Workers, NEW pc \in Steps, pc # "idle", worker[w].at # "idle",
         worker' = Goes(w, pc), Work(w)', Grows, UNCHANGED <<row, order, drain, retry, wake>>,
         \A v \in Workers \ {w} : worker[v].at = "commit" => txn' = txn,
         worker[w].at \in {"audit", "ready"} => pc = "ready" \/ row[worker[w].for].audit = "ready"
  PROVE  Working' /\ Looping' /\ Watched'
<1>1. /\ worker' \in [Workers -> Tasks] /\ worker'[w].at = pc
      /\ worker'[w].for = worker[w].for /\ \A v \in Workers \ {w} : worker'[v] = worker[v]
  BY GoesTo DEF IInv
<1>2. wake' \in BOOLEAN  BY DEF IInv, Looping
<1> QED  BY Zenon, <1>1, <1>2, TaskStep

\* The audit receipt (ensure_autonomous_approval_delivery_audited).
LEMMA AuditStep ==
  ASSUME IInv, NEW w \in Workers, Audit(w)
  PROVE  IInv'
<1> DEFINE a == worker[w].for
<1>1. /\ worker[w].at = "audit" /\ a \in Approvals /\ row[a].state # "none" /\ row[a] \in Rows
      /\ "check" \in Steps /\ "ready" \in Steps
  BY DEF Audit, At, IInv, Working, Work, Store, Steps
<1>2. UNCHANGED <<request, row, order, txn, sent, wire, inbox, wake, retry>>
  BY DEF Audit, child
<1>3. wake' \in BOOLEAN /\ (wake => wake')  BY <1>2 DEF IInv, Looping
<1>4. CASE row[a] = [audit |-> "ready", state |-> "pending"]
  <2>1. worker' = Goes(w, "check") /\ UNCHANGED <<audited, drain>>
    BY <1>4 DEF Audit, Row
  <2>2. Store' /\ Audits' /\ Frames' /\ PublishedWasSent' /\ Grows  BY <1>2, <2>1, StoreRests
  <2>3. worker'[w].at = "check" /\ worker'[w].for = a  BY <1>1, <2>1, GoesTo DEF IInv
  <2>4. row[a].audit = "ready"  BY <1>4
  <2>5. Work(w)'  BY <1>1, <1>2, <2>3, <2>4 DEF Work
  <2>6. Working' /\ Looping' /\ Watched'  BY <1>1, <1>2, <2>1, <2>2, <2>4, <2>5, GoesStep
  <2> QED  BY <2>2, <2>6 DEF IInv
<1>5. CASE row[a] = [audit |-> "pending", state |-> "pending"]
  <2>1. row[a].audit = "pending" /\ row[a].state = "pending"  BY <1>5
  <2>2. audited' = audited \cup {a} /\ worker' = Goes(w, "ready") /\ UNCHANGED drain
    BY <1>5 DEF Audit, Row
  <2>3. Store' /\ PublishedWasSent' /\ Grows
    BY <1>2, <2>2 DEF IInv, Store, PublishedWasSent, Grows
  <2>4. Audits' /\ Frames'  BY <1>1, <1>2, <2>2 DEF IInv, Audits, Frames
  <2>5. worker'[w].at = "ready" /\ worker'[w].for = a  BY <1>1, <2>2, GoesTo DEF IInv
  <2>6. Work(w)'  BY <1>1, <1>2, <2>2, <2>5 DEF Work
  <2>7. Working' /\ Looping' /\ Watched'  BY <1>1, <1>2, <2>2, <2>3, <2>6, GoesStep
  <2> QED  BY <2>3, <2>4, <2>7 DEF IInv
<1>6. CASE /\ row[a] # [audit |-> "ready", state |-> "pending"]
           /\ row[a] # [audit |-> "pending", state |-> "pending"]
  <2>1. Raises(w) /\ UNCHANGED audited  BY <1>6 DEF Audit, Row
  <2>2. row[a] \in [audit : {"pending", "ready"},
                    state : {"pending", "published", "acknowledged", "quarantined"}]
    BY <1>1 DEF Rows, NoRow
  <2> HIDE DEF a
  <2>3. row[a].state # "pending"  BY <1>6, <2>2
  <2>4. ~Pending(worker[w].for)  BY <2>3 DEF Pending, a
  <2>5. Store' /\ Audits' /\ Frames' /\ PublishedWasSent'  BY <1>2, <2>1, StoreRests
  <2>6. Working' /\ Looping' /\ Watched'  BY <1>1, <1>2, <1>3, <2>1, <2>4, RaisesStep
  <2> QED  BY <2>5, <2>6 DEF IInv
<1> QED  BY <1>4, <1>5, <1>6

LEMMA AuditFailsStep ==
  ASSUME IInv, NEW w \in Workers, AuditFails(w)
  PROVE  IInv'
<1>1. worker[w].at # "idle" /\ Raises(w)  BY DEF AuditFails, At
<1>2. UNCHANGED <<request, row, order, audited, txn, sent, wire, inbox, retry>>
  BY DEF AuditFails, store, child
<1>3. wake' \in BOOLEAN /\ (wake => wake') /\ (w = Drainer \/ wake')
  BY Zenon DEF AuditFails
<1>4. Working' /\ Looping' /\ Watched'  BY <1>1, <1>2, <1>3, RaisesStep
<1> QED  BY <1>2, <1>4, StoreRests DEF IInv

LEMMA ReadyStep ==
  ASSUME IInv, NEW w \in Workers, Ready(w)
  PROVE  IInv'
<1> DEFINE a == worker[w].for
<1>1. /\ worker[w].at = "ready" /\ a \in Approvals /\ row[a].state # "none" /\ a \in audited
      /\ txn = None /\ "check" \in Steps
  BY DEF Ready, At, IInv, Working, Work, Steps
<1>2. UNCHANGED <<request, order, audited, txn, sent, wire, inbox, retry>>
  BY DEF Ready, child
<1>3. wake' \in BOOLEAN /\ (wake => wake') /\ (w = Drainer \/ wake')  BY Zenon DEF Ready
<1>4. CASE row[a].state # "pending" /\ row[a].audit # "ready"
  <2>1. Raises(w) /\ UNCHANGED row  BY <1>4 DEF Ready, Row
  <2>2. Working' /\ Looping' /\ Watched'  BY <1>1, <1>2, <1>3, <2>1, RaisesStep
  <2> QED  BY <1>2, <2>1, <2>2, StoreRests DEF IInv
<1>5. CASE ~(row[a].state # "pending" /\ row[a].audit # "ready")
  <2>1. /\ row' = [row EXCEPT ![a].audit = "ready"]
        /\ worker' = Goes(w, "check") /\ UNCHANGED drain
    BY <1>5 DEF Ready, Row
  <2>2. /\ row' \in [Approvals -> Rows] /\ row'[a].state = row[a].state /\ row'[a].audit = "ready"
        /\ \A b \in Approvals \ {a} : row'[b] = row[b]
    BY Zenon, <1>1, <2>1, SetsAudit DEF IInv
  <2>3. \A b \in Approvals : row'[b].state = row[b].state  BY <2>2
  <2>4. Store'  BY <1>2, <2>2, <2>3, StoreKept DEF IInv
  <2>5. Audits' /\ Frames' /\ PublishedWasSent'
    <3>1. Audits'  BY <1>1, <1>2, <2>2 DEF IInv, Audits
    <3> QED  BY <1>2, <2>3, <3>1 DEF IInv, Frames, PublishedWasSent
  <2>6. /\ worker' \in [Workers -> Tasks] /\ worker'[w].at = "check" /\ worker'[w].for = a
        /\ \A v \in Workers \ {w} : worker'[v] = worker[v]
    BY <1>1, <2>1, GoesTo DEF IInv
  <2>7. Working'
    <3>1. Work(w)'  BY <1>1, <2>2, <2>6 DEF Work
    <3>2. Grows  BY <1>2, <2>2 DEF Grows
    <3>3. \A v \in Workers : worker[v].at # "commit"  BY <1>1, NobodyCommits DEF IInv
    <3> QED  BY <2>6, <3>1, <3>2, <3>3, OthersKeep DEF IInv
  <2>8. Drainer \in Workers  BY DEF Workers
  <2>9. Looping'
    <3>1. worker'[Drainer].at # "idle" => worker[Drainer].at # "idle"  BY <1>1, <2>6, <2>8
    <3> QED  BY <1>2, <1>3, <2>1, <2>3, <3>1, LoopRests DEF IInv
  <2>10. Watched'
    <3>1. CASE w = Drainer
      <4>1. ASSUME NEW b \in Approvals, DrainWatches(b)  PROVE DrainWatches(b)'
        <5>1. worker'[Drainer].at # "idle" /\ worker'[Drainer].for = worker[Drainer].for
          BY <2>6, <3>1
        <5> QED  BY <1>2, <1>3, <2>1, <4>1, <5>1, DrainRests DEF IInv
      <4>2. ASSUME NEW b \in Approvals, b = a  PROVE DrainWatches(b)'
        BY <1>1, <2>6, <3>1, <4>2 DEF DrainWatches
      <4>3. ASSUME NEW b \in Approvals \ {a}, Deciding(b)  PROVE Deciding(b)'
        <5>1. row'[b] = row[b]  BY <2>2
        <5> QED  BY <2>6, <3>1, <4>3, <5>1 DEF Deciding
      <4>4. ASSUME NEW b \in Approvals, Pending(b)'  PROVE DrainWatches(b)' \/ Deciding(b)'
        <5>1. DrainWatches(b) \/ Deciding(b)  BY <2>3, <4>4 DEF IInv, Watched, Pending
        <5> QED  BY <4>1, <4>2, <4>3, <5>1
      <4> QED  BY <4>4 DEF Watched
    <3>2. CASE w # Drainer
      BY <1>3, <3>2 DEF Watched, DrainWatches
    <3> QED  BY <3>1, <3>2
  <2> QED  BY <2>4, <2>5, <2>7, <2>9, <2>10 DEF IInv
<1> QED  BY <1>4, <1>5

\* The check before the run's lock (send_approval_decision).
LEMMA CheckStep ==
  ASSUME IInv, NEW w \in Workers, Check(w)
  PROVE  IInv'
<1>1. worker[w].at = "check" /\ "publish" \in Steps  BY DEF Check, At, Steps
<1>2. UNCHANGED <<request, row, order, audited, txn, sent, wire, inbox, wake, retry>>
  BY DEF Check, store, child
<1>3. wake' \in BOOLEAN /\ (wake => wake')  BY <1>2 DEF IInv, Looping
<1>4. Store' /\ Audits' /\ Frames' /\ PublishedWasSent' /\ Grows  BY <1>2, StoreRests
<1>5. CASE worker' = Goes(w, "publish") /\ UNCHANGED drain
  <2>1. worker'[w].at = "publish" /\ worker'[w].for = worker[w].for
    BY <1>1, <1>5, GoesTo DEF IInv
  <2>2. Work(w)  BY DEF IInv, Working
  <2>3. Work(w)'  BY <1>1, <1>2, <2>1, <2>2 DEF Work
  <2>4. Working' /\ Looping' /\ Watched'  BY Zenon, <1>1, <1>2, <1>4, <1>5, <2>3, GoesStep
  <2> QED  BY <1>4, <2>4 DEF IInv
<1>6. CASE Raises(w)
  <2>1. Working' /\ Looping' /\ Watched'  BY Zenon, <1>1, <1>2, <1>3, <1>6, RaisesStep
  <2> QED  BY <1>4, <2>1 DEF IInv
<1> QED  BY <1>5, <1>6 DEF Check

\* The frame is sent inside the store's transaction: the row is ready, so its receipt
\* is durable.
LEMMA SendStep ==
  ASSUME IInv, NEW w \in Workers, Send(w)
  PROVE  IInv'
<1> DEFINE a == worker[w].for
<1>1. /\ worker[w].at = "publish" /\ a \in Approvals /\ row[a].state = "pending"
      /\ row[a].audit = "ready" /\ txn = None /\ "commit" \in Steps
  BY DEF Send, At, Publishable, IInv, Working, Work, Steps
<1>2. /\ UNCHANGED <<request, row, order, audited, inbox, drain, wake, retry>>
      /\ txn' = w /\ wire' = Append(wire, a)
      /\ sent' = IF Was(w) THEN sent ELSE Append(sent, a)
      /\ worker' = Goes(w, "commit")
  BY DEF Send, store, loop
<1>3. sent' \in Seq(Approvals) /\ a \in Range(sent') /\ \A b : b \in Range(sent) => b \in Range(sent')
  <2>1. CASE Was(w)  BY Zenon, <1>2, <2>1 DEF Was, IInv, Frames
  <2>2. CASE ~Was(w)
    <3>1. sent' = Append(sent, a) /\ sent \in Seq(Approvals)  BY <1>2, <2>2 DEF IInv, Frames
    <3> HIDE DEF a
    <3> QED  BY <1>1, <3>1, RangeAppend
  <2> QED  BY <2>1, <2>2
<1>4. Store' /\ Audits'  BY <1>2 DEF IInv, Store, Audits
<1>5. PublishedWasSent' /\ Grows  BY <1>2, <1>3 DEF IInv, PublishedWasSent, Grows
<1>6. Frames'
  <2>1. a \in audited /\ wire \in Seq(Approvals)  BY <1>1 DEF IInv, Audits, Frames
  <2>2. wire' \in Seq(Approvals)  BY <1>1, <1>2, <2>1
  <2>3. \A i \in DOMAIN wire' : wire'[i] = a \/ (i \in DOMAIN wire /\ wire'[i] = wire[i])
    BY <1>1, <1>2, <2>1, RangeAppend
  <2> QED  BY <1>2, <1>3, <2>1, <2>2, <2>3 DEF IInv, Frames
<1>7. worker'[w].at = "commit" /\ worker'[w].for = a  BY <1>1, <1>2, GoesTo DEF IInv
<1>8. Work(w)'  BY Zenon, <1>1, <1>2, <1>3, <1>7 DEF Work
<1>9. \A v \in Workers : worker[v].at # "commit"  BY <1>1, NobodyCommits DEF IInv
<1>10. Working' /\ Looping' /\ Watched'  BY <1>1, <1>2, <1>5, <1>8, <1>9, GoesStep
<1> QED  BY <1>4, <1>5, <1>6, <1>10 DEF IInv

\* A publication that raises: a sent decision is reconciled.
LEMMA ReconcilesStep ==
  ASSUME IInv, NEW w \in Workers, worker[w].at = "publish", Reconciles(w),
         UNCHANGED <<request, row, order, audited, txn, sent, wire, inbox, wake, retry>>
  PROVE  IInv'
<1>1. wake' \in BOOLEAN /\ (wake => wake') /\ "reconcile" \in Steps
  BY DEF IInv, Looping, Steps
<1>2. Store' /\ Audits' /\ Frames' /\ PublishedWasSent' /\ Grows  BY StoreRests
<1>3. CASE Was(w)
  <2>1. worker' = Goes(w, "reconcile") /\ UNCHANGED drain  BY <1>3 DEF Reconciles
  <2>2. worker'[w].at = "reconcile" /\ worker'[w].for = worker[w].for
    BY <1>1, <2>1, GoesTo DEF IInv
  <2>3. Work(w)  BY DEF IInv, Working
  <2>4. Work(w)'  BY <1>3, <2>2, <2>3 DEF Work, Was
  <2>5. Working' /\ Looping' /\ Watched'  BY Zenon, <1>1, <1>2, <2>1, <2>4, GoesStep
  <2> QED  BY <1>2, <2>5 DEF IInv
<1>4. CASE ~Was(w)
  <2>1. Raises(w)  BY <1>4 DEF Reconciles
  <2>2. Working' /\ Looping' /\ Watched'  BY <1>1, <2>1, RaisesStep
  <2> QED  BY <1>2, <2>2 DEF IInv
<1> QED  BY <1>3, <1>4

LEMMA RefusedStep ==
  ASSUME IInv, NEW w \in Workers, Refused(w) \/ SendFails(w)
  PROVE  IInv'
<1>1. worker[w].at = "publish" /\ Reconciles(w)  BY DEF Refused, SendFails, At
<1>2. UNCHANGED <<request, row, order, audited, txn, sent, wire, inbox, wake, retry>>
  BY DEF Refused, SendFails, store, child
<1> QED  BY <1>1, <1>2, ReconcilesStep

LEMMA CommitFailsStep ==
  ASSUME IInv, NEW w \in Workers, CommitFails(w)
  PROVE  IInv'
<1>1. /\ worker[w].at = "commit" /\ worker' = Goes(w, "reconcile") /\ "reconcile" \in Steps
      /\ UNCHANGED <<request, row, order, audited, sent, wire, inbox, drain, wake, retry>>
  BY Zenon DEF CommitFails, At, Steps, store, child, loop
<1>2. Store' /\ Audits' /\ Frames' /\ PublishedWasSent' /\ Grows  BY <1>1, StoreRests
<1>3. worker'[w].at = "reconcile" /\ worker'[w].for = worker[w].for  BY <1>1, GoesTo DEF IInv
<1>4. Work(w)  BY DEF IInv, Working
<1>5. Work(w)'  BY <1>1, <1>3, <1>4 DEF Work
<1>6. \A v \in Workers \ {w} : worker[v].at # "commit"  BY <1>1, OneCommits DEF IInv
<1>7. Working' /\ Looping' /\ Watched'  BY <1>1, <1>2, <1>5, <1>6, GoesStep
<1> QED  BY <1>2, <1>7 DEF IInv

\* A row leaves the pending state for good.
LEMMA SettlesRow ==
  ASSUME IInv, NEW a \in Approvals, row[a].state \in {"pending", "published"},
         NEW st \in {"published", "acknowledged", "quarantined"},
         st = "quarantined" \/ a \in Range(sent),
         row' = [row EXCEPT ![a].state = st], UNCHANGED <<request, order, audited, sent>>
  PROVE  /\ Store' /\ Audits' /\ PublishedWasSent' /\ Grows
         /\ row'[a].state = st /\ \A b \in Approvals \ {a} : row'[b] = row[b]
         /\ \A b \in Approvals : row'[b].audit = row[b].audit
         /\ \A b \in Approvals : Pending(b)' => Pending(b) /\ b # a
<1>1. /\ row' \in [Approvals -> Rows] /\ row'[a].state = st /\ row'[a].audit = row[a].audit
      /\ \A b \in Approvals \ {a} : row'[b] = row[b]
  BY Zenon, SetsState DEF IInv
<1>2. Store'  BY <1>1, StoreKept DEF IInv
<1>3. Audits'  BY <1>1 DEF IInv, Audits
<1>4. PublishedWasSent'  BY <1>1 DEF IInv, PublishedWasSent
<1>5. Grows  BY <1>1 DEF Grows
<1>6. \A b \in Approvals : Pending(b)' => Pending(b) /\ b # a  BY <1>1 DEF Pending
<1> QED  BY <1>1, <1>2, <1>3, <1>4, <1>5, <1>6

\* A delivery that publishes its row and ends.
LEMMA PublishesStep ==
  ASSUME IInv, NEW w \in Workers, worker[w].at \in {"commit", "reconcile"},
         row[worker[w].for].state = "pending", Publishes(worker[w].for), Ends(w),
         \A v \in Workers \ {w} : worker[v].at # "commit",
         UNCHANGED <<request, order, audited, sent, wire, inbox, drain, wake, retry>>
  PROVE  IInv'
<1> DEFINE a == worker[w].for
<1>1. a \in Approvals /\ a \in Range(sent)  BY DEF IInv, Working, Work
<1>2. /\ worker' \in [Workers -> Tasks] /\ worker'[w].at = "idle"
      /\ \A v \in Workers \ {w} : worker'[v] = worker[v]
  BY EndsTask DEF IInv
<1>3. /\ Store' /\ Audits' /\ PublishedWasSent' /\ Grows
      /\ \A b \in Approvals : row'[b].audit = row[b].audit
      /\ \A b \in Approvals : Pending(b)' => Pending(b) /\ b # a
  <2>1. row' = [row EXCEPT ![a].state = "published"] /\ row[a].state = "pending"
    BY DEF Publishes
  <2> HIDE DEF a
  <2> QED  BY Zenon, <1>1, <2>1, SettlesRow
<1>4. Frames'  BY Zenon DEF IInv, Frames
<1>5. Working'
  <2>1. Work(w)'  BY <1>2 DEF Work
  <2> QED  BY <1>2, <1>3, <2>1, OthersKeep DEF IInv
<1>6. Drainer \in Workers  BY DEF Workers
<1>7. Looping'
  <2>1. worker'[Drainer].at # "idle" => worker[Drainer].at # "idle"  BY <1>2, <1>6
  <2>2. wake' \in BOOLEAN  BY Zenon DEF IInv, Looping
  <2>3. \A b \in Approvals : row[b].state # "none" => row'[b].state # "none"
    BY <1>3 DEF Grows
  <2> QED  BY <2>1, <2>2, <2>3, LoopRests DEF IInv
<1>8. ASSUME NEW b \in Approvals, Pending(b)'  PROVE DrainWatches(b)' \/ Deciding(b)'
  <2>1. Pending(b) /\ b # a  BY Zenon, <1>3, <1>8
  <2>2. CASE DrainWatches(b)
    <3>1. worker[Drainer].at # "idle" /\ worker[Drainer].for = b =>
            worker'[Drainer].at # "idle" /\ worker'[Drainer].for = b
      BY Zenon, <1>2, <1>6, <2>1
    <3> QED  BY Zenon, <2>2, <3>1 DEF DrainWatches, Upto
  <2>3. CASE Deciding(b)
    BY Zenon, <1>2, <1>3, <2>1, <2>3 DEF Deciding
  <2> QED  BY <2>1, <2>2, <2>3 DEF IInv, Watched
<1>9. Watched'  BY Zenon, <1>8 DEF Watched
<1> QED  BY Zenon, <1>3, <1>4, <1>5, <1>7, <1>9 DEF IInv

LEMMA CommitStep ==
  ASSUME IInv, NEW w \in Workers, Commit(w)
  PROVE  IInv'
<1>1. /\ worker[w].at = "commit" /\ Publishes(worker[w].for) /\ Ends(w)
      /\ UNCHANGED <<request, order, audited, sent, wire, inbox, drain, wake, retry>>
  BY DEF Commit, At, child, loop
<1>2. row[worker[w].for].state = "pending"  BY <1>1 DEF IInv, Working, Work
<1>3. \A v \in Workers \ {w} : worker[v].at # "commit"  BY <1>1, OneCommits DEF IInv
<1> QED  BY Zenon, <1>1, <1>2, <1>3, PublishesStep

LEMMA ReconcileStep ==
  ASSUME IInv, NEW w \in Workers, Reconcile(w)
  PROVE  IInv'
<1>1. /\ worker[w].at = "reconcile" /\ txn = None
      /\ UNCHANGED <<request, order, audited, txn, sent, wire, inbox, wake, retry>>
  BY DEF Reconcile, At, child
<1>2. CASE row[worker[w].for].state = "pending" /\ Publishes(worker[w].for) /\ Ends(w) /\ UNCHANGED drain
  <2>1. \A v \in Workers \ {w} : worker[v].at # "commit"  BY <1>1, NobodyCommits DEF IInv
  <2> QED  BY <1>1, <1>2, <2>1, PublishesStep
<1>3. CASE Raises(w) /\ UNCHANGED row
  <2>1. wake' \in BOOLEAN /\ (wake => wake')  BY <1>1 DEF IInv, Looping
  <2>2. Working' /\ Looping' /\ Watched'  BY <1>1, <1>3, <2>1, RaisesStep
  <2> QED  BY <1>1, <1>3, <2>2, StoreRests DEF IInv
<1> QED  BY Zenon, <1>2, <1>3 DEF Reconcile

-----------------------------------------------------------------------------
(* The drainer *)

\* A step of the drainer's loop leaves the store, the channels and the tasks alone.
LEMMA LoopOnly ==
  ASSUME IInv, UNCHANGED <<request, row, order, audited, txn, sent, wire, inbox, worker>>,
         Looping',
         \A a \in Approvals : Pending(a) /\ DrainWatches(a) => DrainWatches(a)'
  PROVE  IInv'
<1>1. Store' /\ Audits' /\ Frames' /\ PublishedWasSent'  BY StoreRests
<1>2. Working'  BY Zenon DEF IInv, Working, Work
<1>3. \A a \in Approvals : Pending(a)' <=> Pending(a)  BY DEF Pending
<1>4. \A a \in Approvals : Deciding(a)' <=> Deciding(a)  BY DEF Deciding
<1>5. Watched'  BY <1>3, <1>4 DEF IInv, Watched
<1> QED  BY <1>1, <1>2, <1>5 DEF IInv

\* The wake event is cleared before the rows are read.
LEMMA DrainWakesStep ==
  ASSUME IInv, DrainWakes
  PROVE  IInv'
<1>1. /\ UNCHANGED <<request, row, order, audited, txn, sent, wire, inbox, worker, retry>>
      /\ drain.at = "waiting" /\ wake' = FALSE
      /\ drain' = [drain EXCEPT !.at = "window", !.failed = FALSE] /\ drain \in Loops
  BY DEF DrainWakes, store, child, IInv, Looping
<1>2. /\ drain' \in Loops /\ drain'.at = "window" /\ drain'.rows = drain.rows
      /\ drain'.upto = drain.upto
  BY Zenon, <1>1 DEF Loops
<1>3. worker[Drainer].at = "idle" /\ drain.rows = {}  BY <1>1 DEF IInv, Looping
<1>4. Looping'  BY Zenon, <1>1, <1>2, <1>3 DEF IInv, Looping
<1>5. \A a \in Approvals : DrainWatches(a)'  BY <1>2 DEF DrainWatches
<1> QED  BY <1>1, <1>4, <1>5, LoopOnly

\* Every row has a place up to the end of the order.
LEMMA DrainWindowStep ==
  ASSUME IInv, DrainWindow
  PROVE  IInv'
<1>1. /\ UNCHANGED <<request, row, order, audited, txn, sent, wire, inbox, worker, wake, retry>>
      /\ drain.at = "window"
      /\ drain' = [drain EXCEPT !.at = "select", !.upto = Len(order)]
      /\ drain \in Loops /\ Len(order) \in Nat
  BY DEF DrainWindow, store, child, IInv, Looping, Store
<1>2. /\ drain' \in Loops /\ drain'.at = "select" /\ drain'.rows = drain.rows
      /\ drain'.upto = Len(order)
  BY Zenon, <1>1 DEF Loops
<1>3. worker[Drainer].at = "idle" /\ drain.rows = {}  BY <1>1 DEF IInv, Looping
<1>4. Looping'  BY <1>1, <1>2, <1>3 DEF IInv, Looping
<1>5. ASSUME NEW a \in Approvals, Pending(a)  PROVE DrainWatches(a)'
  <2>1. PICK i \in DOMAIN order : order[i] = a  BY <1>5 DEF IInv, Store, Pending
  <2>2. i \in 1..Len(order)  BY DEF IInv, Store
  <2> QED  BY <1>1, <1>2, <2>1, <2>2 DEF DrainWatches, Upto
<1> QED  BY <1>1, <1>4, <1>5, LoopOnly

LEMMA DrainSelectStep ==
  ASSUME IInv, DrainSelect
  PROVE  IInv'
<1> DEFINE R == {a \in Upto(drain.upto) : Pending(a)}
<1>1. /\ UNCHANGED <<request, row, order, audited, txn, sent, wire, inbox, worker, wake, retry>>
      /\ drain.at = "select"
      /\ drain' = [drain EXCEPT !.at = "rows", !.upto = 0, !.rows = R]
      /\ drain \in Loops /\ order \in Seq(Approvals) /\ drain.upto <= Len(order)
  BY DEF DrainSelect, store, child, IInv, Looping, Store
<1>2. R \in SUBSET Approvals /\ \A a \in R : row[a].state = "pending"
  <2>1. \A i \in 1..drain.upto : order[i] \in Approvals  BY <1>1 DEF Loops
  <2> QED  BY <2>1 DEF Upto, Pending
<1> HIDE DEF R
<1>3. drain' \in Loops /\ drain'.at = "rows" /\ drain'.rows = R /\ drain'.upto = 0
  BY Zenon, <1>1, <1>2 DEF Loops
<1>4. worker[Drainer].at = "idle" /\ drain.rows = {}  BY <1>1 DEF IInv, Looping
<1>5. Looping'
  <2>1. \A a \in R : row'[a].state # "none"  BY <1>1, <1>2
  <2>2. drain'.upto <= Len(order')  BY <1>1, <1>3
  <2> QED  BY <1>1, <1>3, <2>1, <2>2 DEF IInv, Looping
<1>6. ASSUME NEW a \in Approvals, Pending(a), DrainWatches(a)  PROVE DrainWatches(a)'
  <2>1. wake \/ retry \/ a \in Upto(drain.upto)  BY <1>1, <1>4, <1>6 DEF DrainWatches
  <2>2. a \in Upto(drain.upto) => a \in R  BY <1>6 DEF R
  <2> QED  BY <1>1, <1>3, <2>1, <2>2 DEF DrainWatches
<1> QED  BY <1>1, <1>5, <1>6, LoopOnly

\* A row that could not be delivered arms the retry timer.
LEMMA DrainEndsStep ==
  ASSUME IInv, DrainEnds
  PROVE  IInv'
<1>1. /\ UNCHANGED <<request, row, order, audited, txn, sent, wire, inbox, worker, wake>>
      /\ drain.at = "rows" /\ drain.rows = {} /\ worker[Drainer].at = "idle"
      /\ drain' = [drain EXCEPT !.at = "waiting"] /\ drain \in Loops
  BY DEF DrainEnds, At, store, child, IInv, Looping
<1>2. /\ drain' \in Loops /\ drain'.at = "waiting" /\ drain'.rows = {}
      /\ drain'.upto = drain.upto
  BY <1>1 DEF Loops
<1>3. retry' \in BOOLEAN /\ (retry \/ drain.failed => retry')  BY Zenon DEF DrainEnds
<1>4. Looping'  BY <1>1, <1>2, <1>3 DEF IInv, Looping
<1>5. ASSUME NEW a \in Approvals, DrainWatches(a)  PROVE DrainWatches(a)'
  BY <1>1, <1>2, <1>3, <1>5 DEF DrainWatches
<1> QED  BY <1>1, <1>4, <1>5, LoopOnly

LEMMA RetryWakeStep ==
  ASSUME IInv, RetryWake
  PROVE  IInv'
<1>1. /\ UNCHANGED <<request, row, order, audited, txn, sent, wire, inbox, worker, drain>>
      /\ wake' = TRUE /\ retry' = FALSE
  BY DEF RetryWake, store, child
<1>2. Looping'  BY Zenon, <1>1 DEF IInv, Looping
<1>3. \A a \in Approvals : DrainWatches(a)'  BY <1>1 DEF DrainWatches
<1> QED  BY <1>1, <1>2, <1>3, LoopOnly

\* The drainer takes a row out of its window: its task then holds it.
LEMMA DrainRowStep ==
  ASSUME IInv, NEW a \in Approvals, NEW listed \in BOOLEAN, DrainRow(a, listed)
  PROVE  IInv'
<1> DEFINE pc == IF running /\ listed THEN "audit" ELSE "quarantine"
<1>1. /\ UNCHANGED <<request, row, order, audited, txn, sent, wire, inbox, wake, retry>>
      /\ a \in drain.rows /\ worker[Drainer].at = "idle"
      /\ drain' = [drain EXCEPT !.rows = @ \ {a}] /\ drain \in Loops
      /\ worker' = [worker EXCEPT ![Drainer] = [at |-> pc, for |-> a]]
  BY DEF DrainRow, At, store, child, IInv, Looping
<1>2. pc \in {"audit", "quarantine"} /\ pc \in Steps /\ Drainer \in Workers
  BY DEF Steps, Workers
<1> HIDE DEF pc
<1>3. /\ worker' \in [Workers -> Tasks] /\ worker'[Drainer].at = pc /\ worker'[Drainer].for = a
      /\ \A v \in Workers \ {Drainer} : worker'[v] = worker[v]
  BY Zenon, <1>1, <1>2, StartsTask DEF IInv
<1>4. drain.at = "rows" /\ row[a].state # "none"  BY <1>1 DEF IInv, Looping
<1>5. /\ drain' \in Loops /\ drain'.at = "rows" /\ drain'.rows = drain.rows \ {a}
      /\ drain'.upto = drain.upto /\ drain'.failed = drain.failed
  BY <1>1, <1>4 DEF Loops
<1>6. Store' /\ Audits' /\ Frames' /\ PublishedWasSent' /\ Grows  BY <1>1, StoreRests
<1>7. Working'
  <2>1. Work(Drainer)'  BY <1>1, <1>2, <1>3, <1>4 DEF Work
  <2>2. \A v \in Workers \ {Drainer} :
           worker[v].at = "commit" => txn' = txn /\ row'[worker[v].for].state = "pending"
    BY <1>1 DEF IInv, Working, Work
  <2> QED  BY <1>2, <1>3, <1>6, <2>1, <2>2, OthersKeep DEF IInv
<1>8. Looping'  BY <1>1, <1>5 DEF IInv, Looping
<1>9. Watched'
  <2>1. ASSUME NEW b \in Approvals, DrainWatches(b)  PROVE DrainWatches(b)'
    <3>1. wake \/ retry \/ drain.failed \/ b \in drain.rows
      BY <1>1, <1>4, <2>1 DEF DrainWatches
    <3>2. CASE b = a  BY <1>2, <1>3, <3>2 DEF DrainWatches
    <3>3. CASE b # a  BY <1>1, <1>5, <3>1, <3>3 DEF DrainWatches
    <3> QED  BY <3>2, <3>3
  <2>2. ASSUME NEW b \in Approvals, Deciding(b)  PROVE Deciding(b)'
    BY <1>1, <1>3, <2>2 DEF Deciding
  <2> QED  BY <1>1, <2>1, <2>2 DEF IInv, Watched, Pending
<1> QED  BY <1>6, <1>7, <1>8, <1>9 DEF IInv

\* A row whose owner is gone is quarantined; no task of the drainer is lost by it.
LEMMA QuarantineStep ==
  ASSUME IInv, Quarantine
  PROVE  IInv'
<1> DEFINE a == worker[Drainer].for
<1>1. /\ worker[Drainer].at = "quarantine" /\ txn = None /\ Drainer \in Workers
      /\ UNCHANGED <<request, order, audited, txn, sent, wire, inbox, wake, retry>>
      /\ drain.at = "rows" /\ drain \in Loops /\ "fail_owner" \in Steps
  BY DEF Quarantine, At, child, Workers, IInv, Looping, Steps
<1>2. a \in Approvals  BY <1>1 DEF IInv, Working, Work
<1>3. \A v \in Workers : worker[v].at # "commit"  BY <1>1, NobodyCommits DEF IInv
<1>4. Frames'  BY <1>1 DEF IInv, Frames
<1>5. wake' \in BOOLEAN  BY <1>1 DEF IInv, Looping
<1>6. CASE row[a].state = "pending"
  <2>1. /\ row' = [row EXCEPT ![a].state = "quarantined"]
        /\ worker' = Goes(Drainer, "fail_owner") /\ UNCHANGED drain
    BY <1>6 DEF Quarantine, Row
  <2>2. /\ worker' \in [Workers -> Tasks] /\ worker'[Drainer].at = "fail_owner"
        /\ worker'[Drainer].for = a /\ \A v \in Workers \ {Drainer} : worker'[v] = worker[v]
    BY <1>1, <2>1, GoesTo DEF IInv
  <2> HIDE DEF a
  <2>3. /\ Store' /\ Audits' /\ PublishedWasSent' /\ Grows /\ row'[a].state = "quarantined"
        /\ \A b \in Approvals : row'[b].audit = row[b].audit
        /\ \A b \in Approvals : Pending(b)' => Pending(b) /\ b # a
    BY Zenon, <1>1, <1>2, <1>6, <2>1, SettlesRow
  <2>4. Working'
    <3>1. Work(Drainer)'  BY <1>2, <2>2, <2>3 DEF Work
    <3> QED  BY <1>1, <1>3, <2>2, <2>3, <3>1, OthersKeep DEF IInv
  <2>5. Looping'
    <3>1. \A b \in Approvals : row[b].state # "none" => row'[b].state # "none"
      BY <2>3 DEF Grows
    <3> QED  BY <1>1, <1>5, <2>1, <3>1, LoopRests DEF IInv
  <2>6. ASSUME NEW b \in Approvals, Pending(b)'  PROVE DrainWatches(b)' \/ Deciding(b)'
    <3>1. Pending(b)  BY <2>3, <2>6
    <3>2. CASE DrainWatches(b)
      <4>1. worker'[Drainer].at # "idle" /\ worker'[Drainer].for = worker[Drainer].for
        BY <2>2 DEF a
      <4> QED  BY <1>1, <2>1, <3>2, <4>1, DrainRests DEF IInv
    <3>3. CASE Deciding(b)
      BY <2>2, <2>3, <3>3 DEF Deciding
    <3> QED  BY <3>1, <3>2, <3>3 DEF IInv, Watched
  <2>7. Watched'  BY <2>6 DEF Watched
  <2> QED  BY <1>4, <2>3, <2>4, <2>5, <2>7 DEF IInv
<1>7. CASE row[a].state # "pending"
  <2>1. UNCHANGED row /\ Ends(Drainer) /\ drain' = [drain EXCEPT !.failed = TRUE]
    BY <1>7 DEF Quarantine, Row
  <2>2. /\ worker' \in [Workers -> Tasks] /\ worker'[Drainer].at = "idle"
        /\ \A v \in Workers \ {Drainer} : worker'[v] = worker[v]
    BY <1>1, <2>1, EndsTask DEF IInv
  <2>3. /\ drain' \in Loops /\ drain'.at = "rows" /\ drain'.failed = TRUE
        /\ drain'.rows = drain.rows /\ drain'.upto = drain.upto
    BY Zenon, <1>1, <2>1 DEF Loops
  <2>4. Store' /\ Audits' /\ PublishedWasSent' /\ Grows  BY <1>1, <2>1, StoreRests
  <2>5. Working'
    <3>1. Work(Drainer)'  BY <2>2 DEF Work
    <3> QED  BY <1>1, <1>3, <2>2, <2>4, <3>1, OthersKeep DEF IInv
  <2>6. Looping'  BY <1>1, <2>1, <2>2, <2>3 DEF IInv, Looping
  <2>7. Watched'  BY <2>3 DEF Watched, DrainWatches
  <2> QED  BY <1>4, <2>4, <2>5, <2>6, <2>7 DEF IInv
<1> QED  BY <1>6, <1>7

LEMMA FailOwnerStep ==
  ASSUME IInv, FailOwner
  PROVE  IInv'
<1>1. /\ worker[Drainer].at = "fail_owner" /\ Ends(Drainer) /\ Drainer \in Workers
      /\ UNCHANGED <<request, row, order, audited, txn, sent, inbox, drain, wake, retry>>
      /\ wire' = wire \/ wire' = <<>>
  BY DEF FailOwner, RunStops, At, Workers, store, loop
<1>2. /\ worker' \in [Workers -> Tasks] /\ worker'[Drainer].at = "idle"
      /\ \A v \in Workers \ {Drainer} : worker'[v] = worker[v]
  BY <1>1, EndsTask DEF IInv
<1>3. row[worker[Drainer].for].state = "quarantined"  BY <1>1 DEF IInv, Working, Work
<1>4. Store' /\ Audits' /\ PublishedWasSent' /\ Grows
  BY <1>1 DEF IInv, Store, Audits, PublishedWasSent, Grows
<1>5. Frames'
  <2>1. CASE wire' = wire  BY <1>1, <2>1 DEF IInv, Frames
  <2>2. CASE wire' = <<>>  BY <1>1, <2>2, EmptySequence DEF IInv, Frames
  <2> QED  BY Zenon, <1>1, <2>1, <2>2
<1>6. Working'
  <2>1. Work(Drainer)'  BY <1>2 DEF Work
  <2>2. \A v \in Workers \ {Drainer} :
           worker[v].at = "commit" => txn' = txn /\ row'[worker[v].for].state = "pending"
    BY <1>1 DEF IInv, Working, Work
  <2> QED  BY <1>1, <1>2, <1>4, <2>1, <2>2, OthersKeep DEF IInv
<1>7. Looping'
  <2>1. wake' \in BOOLEAN  BY <1>1 DEF IInv, Looping
  <2> QED  BY <1>1, <1>2, <2>1, LoopRests DEF IInv
<1>8. Watched'
  <2>1. ASSUME NEW b \in Approvals, Pending(b), DrainWatches(b)  PROVE DrainWatches(b)'
    BY Zenon, <1>1, <1>3, <2>1 DEF DrainWatches, Upto, Pending
  <2>2. ASSUME NEW b \in Approvals, Deciding(b)  PROVE Deciding(b)'
    BY <1>1, <1>2, <2>2 DEF Deciding
  <2> QED  BY Zenon, <1>1, <2>1, <2>2 DEF IInv, Watched, Pending
<1> QED  BY <1>4, <1>5, <1>6, <1>7, <1>8 DEF IInv

-----------------------------------------------------------------------------
(* The child, its process and the gateway's *)

LEMMA WatchRests ==
  ASSUME Watched, UNCHANGED <<row, order, worker, drain, wake, retry>>
  PROVE  Watched'
<1>1. \A a \in Approvals : Pending(a)' <=> Pending(a)  BY DEF Pending
<1>2. Upto(drain.upto)' = Upto(drain.upto)  BY DEF Upto
<1>3. \A a \in Approvals : DrainWatches(a)' <=> DrainWatches(a)  BY <1>2 DEF DrainWatches
<1>4. \A a \in Approvals : Deciding(a)' <=> Deciding(a)  BY DEF Deciding
<1> QED  BY <1>1, <1>3, <1>4 DEF Watched

\* The child takes the frames in order; each was sent after its audit receipt.
LEMMA ReceiveStep ==
  ASSUME IInv, Receive
  PROVE  IInv'
<1>1. UNCHANGED <<request, row, order, audited, txn, sent, worker, drain, wake, retry>>
  BY DEF Receive, store, loop
<1>2. Store' /\ Audits' /\ PublishedWasSent' /\ Working' /\ Looping'
  BY Zenon, <1>1 DEF IInv, Store, Audits, PublishedWasSent, Working, Work, Looping
<1>3. Watched'  BY <1>1, WatchRests DEF IInv
<1>4. Frames'
  <2>1. wire # <<>> /\ wire \in Seq(Approvals) /\ inbox \in Seq(Approvals)
    BY DEF Receive, IInv, Frames
  <2>2. Head(wire) \in audited /\ Head(wire) \in Approvals
    BY <2>1 DEF IInv, Frames
  <2>3. wire' \in Seq(Approvals) /\ \A i \in DOMAIN wire' : wire'[i] \in audited
    BY <2>1 DEF Receive, IInv, Frames
  <2>4. inbox' = inbox \/ inbox' = Append(inbox, Head(wire))  BY DEF Receive
  <2>5. inbox' \in Seq(Approvals) /\ \A i \in DOMAIN inbox' : inbox'[i] \in audited
    <3>1. CASE inbox' = inbox  BY <3>1 DEF IInv, Frames
    <3>2. CASE inbox' = Append(inbox, Head(wire))
      <4>1. /\ inbox' \in Seq(Approvals)
            /\ \A i \in DOMAIN inbox' :
                 inbox'[i] = Head(wire) \/ (i \in DOMAIN inbox /\ inbox'[i] = inbox[i])
        BY <2>1, <2>2, <3>2, RangeAppend
      <4> QED  BY <2>2, <4>1 DEF IInv, Frames
    <3> QED  BY <2>4, <3>1, <3>2
  <2> QED  BY <1>1, <2>3, <2>5 DEF IInv, Frames
<1> QED  BY <1>2, <1>3, <1>4 DEF IInv

\* The end of the child, by itself or by a deletion.
LEMMA ChildStops ==
  ASSUME IInv, wire' \in {wire, <<>>},
         UNCHANGED <<request, row, order, audited, txn, sent, inbox, worker, drain, wake, retry>>
  PROVE  IInv'
<1>1. Store' /\ Audits' /\ PublishedWasSent' /\ Working' /\ Looping'
  BY Zenon DEF IInv, Store, Audits, PublishedWasSent, Working, Work, Looping
<1>2. Watched'  BY WatchRests DEF IInv
<1>3. Frames'
  <2>1. CASE wire' = wire  BY <2>1 DEF IInv, Frames
  <2>2. CASE wire' = <<>>  BY <2>2, EmptySequence DEF IInv, Frames
  <2> QED  BY <2>1, <2>2
<1> QED  BY <1>1, <1>2, <1>3 DEF IInv

\* An acknowledgement joins the published row of its decision.
LEMMA AcknowledgeStep ==
  ASSUME IInv, NEW i \in DOMAIN inbox, Acknowledge(i)
  PROVE  IInv'
<1> DEFINE a == inbox[i]
<1>1. /\ UNCHANGED <<request, order, audited, txn, sent, inbox, worker, drain, wake, retry>>
      /\ txn = None /\ a \in Approvals
  BY DEF Acknowledge, loop, IInv, Frames
<1>2. CASE row[a].state = "published" /\ channel # "none"
  <2>1. row' = [row EXCEPT ![a].state = "acknowledged"] /\ UNCHANGED wire
    BY <1>2 DEF Acknowledge
  <2>2. a \in Range(sent)  BY <1>1, <1>2 DEF IInv, PublishedWasSent
  <2> HIDE DEF a
  <2>3. /\ Store' /\ Audits' /\ PublishedWasSent' /\ Grows
        /\ \A b \in Approvals : row'[b].audit = row[b].audit
        /\ \A b \in Approvals : Pending(b)' => Pending(b) /\ b # a
    BY Zenon, <1>1, <1>2, <2>1, <2>2, SettlesRow
  <2>4. Frames'  BY <1>1, <2>1 DEF IInv, Frames
  <2>5. Working'
    <3>1. Drainer \in Workers /\ Work(Drainer)  BY DEF Workers, IInv, Working
    <3>2. \A v \in Workers : worker[v].at # "commit"  BY <1>1, NobodyCommits DEF IInv
    <3>3. Work(Drainer)'  BY Zenon, <1>1, <2>3, <3>1, <3>2 DEF Work, Grows
    <3>4. worker' \in [Workers -> Tasks]  BY <1>1 DEF IInv, Working
    <3> QED  BY <1>1, <2>3, <3>1, <3>2, <3>3, <3>4, OthersKeep DEF IInv
  <2>6. Looping'
    <3>1. \A b \in Approvals : row[b].state # "none" => row'[b].state # "none"
      BY <2>3 DEF Grows
    <3>2. wake' \in BOOLEAN  BY <1>1 DEF IInv, Looping
    <3> QED  BY Zenon, <1>1, <3>1, <3>2, LoopRests DEF IInv
  <2>7. \A b \in Approvals : DrainWatches(b) => DrainWatches(b)'
    BY <1>1 DEF DrainWatches, Upto
  <2>8. \A b \in Approvals : Deciding(b) => Deciding(b)'
    BY <1>1, <2>3 DEF Deciding
  <2>9. Watched'  BY <2>3, <2>7, <2>8 DEF IInv, Watched
  <2> QED  BY <2>3, <2>4, <2>5, <2>6, <2>9 DEF IInv
<1>3. CASE ~(row[a].state = "published" /\ channel # "none")
  <2>1. RunStops /\ UNCHANGED row  BY Zenon, <1>3 DEF Acknowledge
  <2> QED  BY <1>1, <2>1, ChildStops DEF RunStops
<1> QED  BY <1>2, <1>3

\* A new process starts its drainer awake.
LEMMA RestartStep ==
  ASSUME IInv, Restart
  PROVE  IInv'
<1>1. /\ UNCHANGED <<request, row, order, audited, sent, inbox>> /\ wire' = <<>>
      /\ worker' = [w \in Workers |-> Idle] /\ wake' = TRUE /\ retry' = FALSE
      /\ drain' = [drain EXCEPT !.at = "waiting", !.rows = {}] /\ drain \in Loops
  BY DEF Restart, RunStops, store, IInv, Looping
<1>2. Store' /\ Audits' /\ PublishedWasSent'
  BY <1>1 DEF IInv, Store, Audits, PublishedWasSent
<1>3. Frames'  BY <1>1 DEF IInv, Frames
<1>4. Working'  BY <1>1 DEF Working, Work, Tasks, Idle, Steps
<1>5. Looping'
  <2>1. drain' \in Loops /\ drain'.rows = {} /\ drain'.upto = drain.upto  BY Zenon, <1>1 DEF Loops
  <2>2. worker'[Drainer].at = "idle"  BY <1>1 DEF Workers, Idle
  <2> QED  BY Zenon, <1>1, <2>1, <2>2 DEF IInv, Looping
<1>6. Watched'  BY <1>1 DEF Watched, DrainWatches
<1> QED  BY <1>2, <1>3, <1>4, <1>5, <1>6 DEF IInv

-----------------------------------------------------------------------------
(* The properties *)

\* Every step of the gateway, the child and the process preserves the invariant.
LEMMA NextIInv == IInv /\ [Next]_vars => IInv'
<1> SUFFICES ASSUME IInv, [Next]_vars  PROVE IInv'
  OBVIOUS
<1>1. ASSUME NEW h \in Handlers, NEW a \in Approvals, Redeliver(h, a)  PROVE IInv'
  BY <1>1, RedeliverStep
<1>2. ASSUME NEW h \in Handlers, NEW a \in Approvals, NEW d \in {"approved", "denied"}, Vote(h, a, d)
      PROVE  IInv'
  BY <1>2, VoteStep
<1>3. ASSUME NEW c \in Cancels, Terminalize(c)  PROVE IInv'  BY <1>3, TerminalizeStep
<1>4. ASSUME NEW c \in Cancels, CancelRun(c)  PROVE IInv'
  BY <1>4, ChildStops DEF CancelRun, store, loop
<1>5. ASSUME NEW c \in Cancels, NEW a \in Approvals, Fence(c, a)  PROVE IInv'  BY <1>5, FenceStep
<1>6. ASSUME NEW w \in Workers, Deliver(w)  PROVE IInv'
  BY <1>6, AuditStep, AuditFailsStep, ReadyStep, CheckStep, SendStep, RefusedStep, CommitStep,
     CommitFailsStep, ReconcileStep DEF Deliver
<1>7. CASE Drain
  BY <1>7, DrainWakesStep, DrainWindowStep, DrainSelectStep, DrainEndsStep, DrainRowStep DEF Drain
<1>8. CASE Quarantine \/ FailOwner \/ RetryWake \/ Receive \/ Restart
  BY <1>8, QuarantineStep, FailOwnerStep, RetryWakeStep, ReceiveStep, RestartStep
<1>9. CASE ChildExits
  BY <1>9, ChildStops DEF ChildExits, RunStops, store, loop
<1>10. ASSUME NEW i \in DOMAIN inbox, Acknowledge(i)  PROVE IInv'  BY <1>10, AcknowledgeStep
<1>11. CASE UNCHANGED vars
  BY <1>11, ChildStops DEF vars
<1> QED
  BY <1>1, <1>2, <1>3, <1>4, <1>5, <1>6, <1>7, <1>8, <1>9, <1>10, <1>11 DEF Next

LEMMA Invariance == Spec => []IInv
BY InitIInv, NextIInv, PTL DEF Spec

\* A row says published only if the endpoint sent its decision, also when the
\* publication failed halfway and was reconciled (PublishedWasSent).
THEOREM PublishedRowsWereSent == Spec => []PublishedWasSent
<1>1. IInv => PublishedWasSent  BY DEF IInv
<1> QED  BY <1>1, Invariance, PTL

\* A pending row has a delivery under way, or a drain that will read it, whatever the
\* order of commits, wakes, failures and restarts (PendingIsWatched).
THEOREM PendingRowsAreWatched == Spec => []PendingIsWatched
<1>1. IInv => PendingIsWatched
  <2> SUFFICES ASSUME IInv  PROVE PendingIsWatched
    OBVIOUS
  <2>1. Drainer \in Workers  BY DEF Workers
  <2> QED  BY <2>1 DEF IInv, Watched, DrainWatches, Deciding, PendingIsWatched
<1> QED  BY <1>1, Invariance, PTL

\* Only the publication sends, and it reads the fence in its transaction.
LEMMA FenceChecked ==
  ASSUME IInv, [Next]_vars
  PROVE  \A a \in fenced : a \in Range(sent') /\ a \notin Range(sent) => request[a] = "denied"
<1>1. CASE UNCHANGED sent  BY <1>1
<1>2. ASSUME NEW w \in Workers, Send(w)
      PROVE  \A a \in fenced : a \in Range(sent') /\ a \notin Range(sent) => request[a] = "denied"
  <2> DEFINE a == worker[w].for
  <2>1. /\ a \in Approvals /\ row[a].state # "none" /\ sent \in Seq(Approvals)
        /\ request[a] = "approved" => a \notin fenced
        /\ sent' = IF Was(w) THEN sent ELSE Append(sent, a)
    BY Zenon, <1>2 DEF Send, At, Publishable, IInv, Working, Work, Frames
  <2>2. request[a] \in {"approved", "denied"}  BY Zenon, <2>1 DEF IInv, Store
  <2> HIDE DEF a
  <2>3. \A b : b \in Range(sent') => b = a \/ b \in Range(sent)  BY <2>1, RangeAppend
  <2> QED  BY <2>1, <2>2, <2>3
<1>3. UNCHANGED sent \/ \E w \in Workers : Send(w)
  BY Zenon DEF Next, vars, child, Redeliver, Vote, Terminalize, CancelRun, Fence, Deliver, Audit,
     AuditFails, Ready, Check, SendFails, Refused, Commit, CommitFails, Reconcile, Drain, DrainWakes,
     DrainWindow, DrainSelect, DrainEnds, DrainRow, Quarantine, FailOwner, RetryWake, Receive,
     ChildExits, Restart, Acknowledge
<1> QED  BY <1>1, <1>2, <1>3

\* No approval is sent once its cancellation fence is committed (FencedNotSent).
THEOREM FencedApprovalsAreNotSent == Spec => FencedNotSent
<1>1. IInv /\ [Next]_vars =>
        [\A a \in fenced : a \in Range(sent') /\ a \notin Range(sent) => request[a] = "denied"]_vars
  BY FenceChecked
<1> QED  BY <1>1, Invariance, PTL DEF Spec, FencedNotSent

-----------------------------------------------------------------------------
(* The delivery implements DecisionDelivery. *)

Acked == {a \in Approvals : row[a].state = "acknowledged"}

\* What a sequence of approvals says of the decisions taken.
Taken(a, r) == [approval |-> a, approved |-> r[a] = "approved"]
Told(s, r) == [i \in DOMAIN s |-> Taken(s[i], r)]

LEMMA ToldSame ==
  ASSUME NEW s \in Seq(Approvals), NEW r, NEW q, \A i \in DOMAIN s : r[s[i]] = q[s[i]]
  PROVE  Told(s, r) = Told(s, q)
BY DEF Told, Taken

\* Sequences of one length with the same elements are equal.
LEMMA SameSequence ==
  ASSUME NEW S, NEW s \in Seq(S), NEW t \in Seq(S), Len(s) = Len(t),
         \A i \in 1..Len(s) : s[i] = t[i]
  PROVE  s = t
<1>1. DOMAIN s = 1..Len(s) /\ DOMAIN t = 1..Len(s)  OBVIOUS
<1>2. s = [i \in 1..Len(s) |-> s[i]] /\ t = [i \in 1..Len(s) |-> t[i]]  BY <1>1
<1> QED  BY <1>2

LEMMA ToldSequence ==
  ASSUME NEW s \in Seq(Approvals), NEW r
  PROVE  Told(s, r) \in Seq(Promise!Decisions) /\ Len(Told(s, r)) = Len(s)
<1>1. DOMAIN Told(s, r) = 1..Len(s) /\ Len(s) \in Nat  BY DEF Told
<1>2. \A i \in 1..Len(s) : Told(s, r)[i] \in Promise!Decisions
  BY DEF Told, Taken, Promise!Decisions
<1>3. Told(s, r) = [i \in 1..Len(s) |-> Told(s, r)[i]]  BY DEF Told
<1>4. Told(s, r) \in [1..Len(s) -> Promise!Decisions]  BY <1>2, <1>3
<1>5. \A n \in Nat : \A f \in [1..n -> Promise!Decisions] :
        f \in Seq(Promise!Decisions) /\ Len(f) = n
  OBVIOUS
<1> QED  BY <1>1, <1>4, <1>5

LEMMA ToldAppend ==
  ASSUME NEW s \in Seq(Approvals), NEW a \in Approvals, NEW r
  PROVE  Told(Append(s, a), r) = Append(Told(s, r), Taken(a, r))
<1> DEFINE t == Told(Append(s, a), r)
           u == Append(Told(s, r), Taken(a, r))
<1>1. Told(s, r) \in Seq(Promise!Decisions) /\ Len(Told(s, r)) = Len(s)  BY ToldSequence
<1>2. Append(s, a) \in Seq(Approvals) /\ Len(Append(s, a)) = Len(s) + 1  OBVIOUS
<1>3. t \in Seq(Promise!Decisions) /\ Len(t) = Len(s) + 1  BY <1>2, ToldSequence
<1>4. Taken(a, r) \in Promise!Decisions  BY DEF Taken, Promise!Decisions
<1>5. u \in Seq(Promise!Decisions) /\ Len(u) = Len(s) + 1  BY <1>1, <1>4
<1>6. ASSUME NEW i \in 1..(Len(s) + 1)  PROVE t[i] = u[i]
  <2>1. CASE i = Len(s) + 1
    <3>1. u[i] = Taken(a, r)  BY <1>1, <1>4, <2>1
    <3>2. Append(s, a)[i] = a  BY <2>1
    <3> QED  BY <3>1, <3>2 DEF Told
  <2>2. CASE i # Len(s) + 1
    <3>1. i \in 1..Len(s)  BY <2>2
    <3>2. u[i] = Told(s, r)[i]  BY <1>1, <1>4, <3>1
    <3>3. Append(s, a)[i] = s[i]  BY <3>1
    <3> QED  BY <3>1, <3>2, <3>3 DEF Told
  <2> QED  BY <2>1, <2>2
<1> HIDE DEF t, u
<1>7. t = u  BY <1>3, <1>5, <1>6, SameSequence
<1> QED  BY <1>7 DEF t, u

\* The mapping in terms of Told.
LEMMA Mapping ==
  /\ Decided(order) = Told(order, request) /\ Decided(order)' = Told(order', request')
  /\ Decided(inbox) = Told(inbox, request) /\ Decided(inbox)' = Told(inbox', request')
BY DEF Decided, Told, Taken

\* A step that takes, records, gives and acknowledges nothing is a stutter.
LEMMA Stutters ==
  ASSUME UNCHANGED <<request, order, audited, inbox>>, UNCHANGED Acked
  PROVE  UNCHANGED Promise!vars
BY DEF Promise!vars, Decided, Acked

\* The decision of a vote or a deletion.
LEMMA DecideRefines ==
  ASSUME IInv, NEW a \in Approvals, NEW d \in {"approved", "denied"},
         request[a] = "pending_user", Decides(a, d), UNCHANGED <<audited, inbox>>
  PROVE  Promise!Next
<1> DEFINE v == Taken(a, request')
<1>1. /\ order \in Seq(Approvals) /\ order' = Append(order, a) /\ row[a].state = "none"
      /\ \A b \in Approvals \ {a} : request'[b] = request[b]
      /\ \A b \in Approvals \ {a} : row'[b] = row[b]
      /\ row'[a].state = "pending"
  BY DEF IInv, Store, Decides
<1>2. \A i \in DOMAIN order : order[i] \in Approvals \ {a}
  <2>1. \A i \in DOMAIN order : row[order[i]].state # "none"  BY DEF IInv, Store
  <2> QED  BY <1>1, <2>1
<1>3. inbox \in Seq(Approvals) /\ \A i \in DOMAIN inbox : inbox[i] \in Approvals \ {a}
  BY <1>1 DEF IInv, Frames, Audits
<1>4. Decided(order)' = Append(Decided(order), v)
  <2>1. Told(order, request) = Told(order, request')  BY <1>1, <1>2, ToldSame
  <2>2. Told(order', request') = Append(Told(order, request'), v)  BY <1>1, ToldAppend
  <2> QED  BY <2>1, <2>2, Mapping
<1>5. UNCHANGED Decided(inbox)
  <2>1. Told(inbox, request) = Told(inbox, request')  BY <1>1, <1>3, ToldSame
  <2> QED  BY <2>1, Mapping
<1>6. UNCHANGED Acked  BY <1>1 DEF Acked
<1>7. \A i \in DOMAIN Decided(order) : Decided(order)[i].approval # a
  BY <1>2 DEF Decided
<1>8. v \in Promise!Decisions /\ v.approval = a  BY DEF Promise!Decisions, Taken
<1> HIDE DEF v
<1>9. Promise!Decide(v)  BY <1>4, <1>5, <1>6, <1>7, <1>8 DEF Promise!Decide, Acked
<1> QED  BY <1>8, <1>9 DEF Promise!Next

\* The receipt of a decision that was taken.
LEMMA AuditRefines ==
  ASSUME IInv, NEW w \in Workers, Audit(w)
  PROVE  Promise!Next \/ UNCHANGED Promise!vars
<1> DEFINE a == worker[w].for
<1>1. UNCHANGED <<request, row, order, inbox>>  BY DEF Audit, child
<1>2. CASE UNCHANGED audited
  BY <1>1, <1>2, Stutters DEF Acked
<1>3. CASE audited' = audited \cup {a}
  <2>1. a \in Approvals /\ row[a].state # "none"  BY DEF Audit, At, IInv, Working, Work
  <2>2. PICK i \in DOMAIN order : order[i] = a  BY <2>1 DEF IInv, Store
  <2>3. i \in DOMAIN Decided(order) /\ Decided(order)[i].approval = a  BY <2>2 DEF Decided
  <2>4. UNCHANGED <<Decided(order), Decided(inbox), Acked>>  BY <1>1 DEF Decided, Acked
  <2>5. Promise!Record(i)  BY <1>3, <2>3, <2>4 DEF Promise!Record, Acked
  <2> QED  BY <2>3, <2>5 DEF Promise!Next
<1> QED  BY <1>2, <1>3 DEF Audit

\* The child is given a decision whose receipt is durable, after those taken before it.
LEMMA ReceiveRefines ==
  ASSUME IInv, Receive
  PROVE  Promise!Next \/ UNCHANGED Promise!vars
<1> DEFINE a == Head(wire)
<1>1. UNCHANGED <<request, row, order, audited>>  BY DEF Receive, store
<1>2. CASE UNCHANGED inbox
  BY <1>1, <1>2, Stutters DEF Acked
<1>3. CASE (\A j \in DOMAIN inbox : Seq_(inbox[j]) < Seq_(a)) /\ inbox' = Append(inbox, a)
  <2>1. /\ wire \in Seq(Approvals) /\ wire # <<>> /\ inbox \in Seq(Approvals)
        /\ order \in Seq(Approvals)
    BY DEF Receive, IInv, Frames, Store
  <2>2. a \in audited /\ a \in Approvals  BY <2>1 DEF IInv, Frames
  <2> HIDE DEF a
  <2>3. PICK i \in DOMAIN order : order[i] = a  BY <2>2 DEF IInv, Audits, Store
  <2>4. i \in Nat /\ Seq_(a) = i  BY <2>1, <2>3, SeqPlace DEF IInv
  <2>5. i \in DOMAIN Decided(order) /\ Decided(order)[i] = Taken(a, request)
    BY <2>3 DEF Decided, Taken
  <2>6. ASSUME NEW j \in DOMAIN Decided(inbox)
        PROVE  \E k \in 1..(i - 1) : Decided(inbox)[j] = Decided(order)[k]
    <3>1. j \in DOMAIN inbox  BY DEF Decided
    <3>2. PICK k \in DOMAIN order : order[k] = inbox[j]
      BY <3>1 DEF IInv, Frames, Audits, Store
    <3>3. Seq_(inbox[j]) = k /\ k \in 1..Len(order)  BY <2>1, <3>2, SeqPlace DEF IInv
    <3>4. k < i  BY <1>3, <2>4, <3>1, <3>3
    <3>5. k \in 1..(i - 1)  BY <2>4, <3>3, <3>4
    <3>6. Decided(inbox)[j] = Decided(order)[k]  BY <3>1, <3>2 DEF Decided
    <3> QED  BY <3>5, <3>6
  <2>7. Decided(inbox)' = Append(Decided(inbox), Decided(order)[i])
    <3>1. Told(inbox', request') = Append(Told(inbox, request), Taken(a, request))
      BY <1>1, <1>3, <2>1, <2>2, ToldAppend
    <3> QED  BY <2>5, <3>1, Mapping
  <2>8. UNCHANGED <<Decided(order), Acked>>  BY <1>1 DEF Decided, Acked
  <2>9. Decided(order)[i].approval \in audited  BY <2>2, <2>5 DEF Taken
  <2>10. Promise!Give(i)
    BY <1>1, <2>6, <2>7, <2>8, <2>9 DEF Promise!Give, Acked
  <2> QED  BY <2>5, <2>10 DEF Promise!Next
<1> QED  BY <1>2, <1>3 DEF Receive

\* An acknowledgement is of a decision the child was given.
LEMMA AcknowledgeRefines ==
  ASSUME IInv, NEW i \in DOMAIN inbox, Acknowledge(i)
  PROVE  Promise!Next \/ UNCHANGED Promise!vars
<1> DEFINE a == inbox[i]
<1>1. UNCHANGED <<request, order, audited, inbox>> /\ a \in Approvals
  BY DEF Acknowledge, IInv, Frames
<1>2. CASE ~(row[a].state = "published" /\ channel # "none")
  <2>1. UNCHANGED row  BY <1>2 DEF Acknowledge
  <2> QED  BY <1>1, <2>1, Stutters DEF Acked
<1>3. CASE row[a].state = "published" /\ channel # "none"
  <2>1. row' = [row EXCEPT ![a].state = "acknowledged"]  BY <1>3 DEF Acknowledge
  <2>2. i \in DOMAIN Decided(inbox) /\ Decided(inbox)[i].approval = a  BY DEF Decided
  <2>3. UNCHANGED <<Decided(order), Decided(inbox)>>  BY <1>1 DEF Decided
  <2>4. a \in Range(sent) /\ UNCHANGED sent
    BY <1>1, <1>3 DEF IInv, PublishedWasSent, Acknowledge
  <2> HIDE DEF a
  <2>5. row'[a].state = "acknowledged" /\ \A b \in Approvals \ {a} : row'[b] = row[b]
    BY <1>1, <1>3, <2>1, <2>4, SettlesRow
  <2>6. Acked' = Acked \cup {a}  BY <1>1, <2>5 DEF Acked
  <2>7. Promise!Acknowledge(i)  BY <1>1, <2>2, <2>3, <2>6 DEF Promise!Acknowledge, Acked
  <2> QED  BY <2>2, <2>7 DEF Promise!Next
<1> QED  BY <1>2, <1>3

\* The other steps of a delivery acknowledge nothing: a publication and a quarantine
\* change a pending row.
LEMMA DeliverRefines ==
  ASSUME IInv, NEW w \in Workers, Deliver(w)
  PROVE  Promise!Next \/ UNCHANGED Promise!vars
<1> DEFINE a == worker[w].for
<1>1. CASE Audit(w)  BY <1>1, AuditRefines
<1>2. CASE AuditFails(w) \/ Check(w) \/ Send(w) \/ SendFails(w) \/ Refused(w) \/ CommitFails(w)
  <2>1. UNCHANGED <<request, row, order, audited, inbox>>
    BY <1>2 DEF AuditFails, Check, Send, SendFails, Refused, CommitFails, store, child
  <2> QED  BY <2>1, Stutters DEF Acked
<1>3. CASE Ready(w)
  <2>1. UNCHANGED <<request, order, audited, inbox>>  BY <1>3 DEF Ready, child
  <2>2. a \in Approvals /\ row[a].state # "none" /\ Store
    BY <1>3 DEF Ready, At, IInv, Working, Work
  <2>3. CASE UNCHANGED row  BY <2>1, <2>3, Stutters DEF Acked
  <2>4. CASE row' = [row EXCEPT ![a].audit = "ready"]
    <3> HIDE DEF a
    <3>1. row'[a].state = row[a].state /\ \A b \in Approvals \ {a} : row'[b] = row[b]
      BY <2>2, <2>4, SetsAudit
    <3>2. UNCHANGED Acked  BY <3>1 DEF Acked
    <3> QED  BY <2>1, <3>2, Stutters
  <2> QED  BY <1>3, <2>3, <2>4 DEF Ready
<1>4. CASE Commit(w) \/ Reconcile(w)
  <2>1. UNCHANGED <<request, order, audited, sent, inbox>>
    BY <1>4 DEF Commit, Reconcile, child
  <2>2. a \in Approvals /\ a \in Range(sent)
    BY <1>4 DEF Commit, Reconcile, At, IInv, Working, Work
  <2>3. CASE UNCHANGED row  BY <2>1, <2>3, Stutters DEF Acked
  <2>4. CASE row[a].state = "pending" /\ row' = [row EXCEPT ![a].state = "published"]
    <3> HIDE DEF a
    <3>1. row'[a].state = "published" /\ \A b \in Approvals \ {a} : row'[b] = row[b]
      BY <2>1, <2>2, <2>4, SettlesRow
    <3>2. UNCHANGED Acked  BY <2>4, <3>1 DEF Acked
    <3> QED  BY <2>1, <3>2, Stutters
  <2>5. Commit(w) => row[a].state = "pending"  BY DEF Commit, At, IInv, Working, Work
  <2>6. CASE Commit(w)  BY <2>4, <2>5, <2>6 DEF Commit, Publishes
  <2>7. CASE Reconcile(w)  BY <2>3, <2>4, <2>7 DEF Reconcile, Publishes
  <2> QED  BY <1>4, <2>6, <2>7
<1> QED  BY <1>1, <1>2, <1>3, <1>4 DEF Deliver

LEMMA QuarantineRefines ==
  ASSUME IInv, Quarantine
  PROVE  UNCHANGED Promise!vars
<1> DEFINE a == worker[Drainer].for
<1>1. UNCHANGED <<request, order, audited, sent, inbox>>  BY DEF Quarantine, child
<1>2. a \in Approvals  BY DEF Quarantine, At, IInv, Working, Work, Workers
<1>3. CASE row[a].state = "pending"
  <2>1. row' = [row EXCEPT ![a].state = "quarantined"]  BY <1>3 DEF Quarantine, Row
  <2> HIDE DEF a
  <2>2. row'[a].state = "quarantined" /\ \A b \in Approvals \ {a} : row'[b] = row[b]
    BY <1>1, <1>2, <1>3, <2>1, SettlesRow
  <2>3. UNCHANGED Acked  BY <1>3, <2>2 DEF Acked
  <2> QED  BY <1>1, <2>3, Stutters
<1>4. CASE row[a].state # "pending"
  <2>1. UNCHANGED row  BY <1>4 DEF Quarantine, Row
  <2> QED  BY <1>1, <2>1, Stutters DEF Acked
<1> QED  BY <1>3, <1>4

\* Every step of the delivery is a step of what it promises, or a stutter.
LEMMA NextRefines == IInv /\ [Next]_vars => [Promise!Next]_(Promise!vars)
<1> SUFFICES ASSUME IInv, [Next]_vars  PROVE Promise!Next \/ UNCHANGED Promise!vars
  OBVIOUS
<1>1. ASSUME NEW h \in Handlers, NEW a \in Approvals, NEW d \in {"approved", "denied"}, Vote(h, a, d)
      PROVE  Promise!Next
  BY <1>1, DecideRefines DEF Vote, child
<1>2. ASSUME NEW c \in Cancels, Terminalize(c)
      PROVE  Promise!Next \/ UNCHANGED Promise!vars
  <2> DEFINE a == worker[c].for
  <2>1. UNCHANGED <<audited, inbox>> /\ a \in Approvals
    BY <1>2 DEF Terminalize, child, At, IInv, Working, Work, Workers
  <2>2. CASE request[a] = "pending_user"
    <3>1. Decides(a, "denied")  BY <1>2, <2>2 DEF Terminalize
    <3> HIDE DEF a
    <3> QED  BY <2>1, <2>2, <3>1, DecideRefines
  <2>3. CASE request[a] # "pending_user"
    <3>1. UNCHANGED <<request, row, order>>  BY <1>2, <2>3 DEF Terminalize
    <3> QED  BY <2>1, <3>1, Stutters DEF Acked
  <2> QED  BY <2>2, <2>3
<1>3. ASSUME NEW w \in Workers, Deliver(w)
      PROVE  Promise!Next \/ UNCHANGED Promise!vars
  BY <1>3, DeliverRefines
<1>4. ASSUME NEW i \in DOMAIN inbox, Acknowledge(i)
      PROVE  Promise!Next \/ UNCHANGED Promise!vars
  BY <1>4, AcknowledgeRefines
<1>5. CASE Receive  BY <1>5, ReceiveRefines
<1>6. CASE Quarantine  BY <1>6, QuarantineRefines
<1>7. CASE \/ \E h \in Handlers, a \in Approvals : Redeliver(h, a)
           \/ \E c \in Cancels : CancelRun(c) \/ \E a \in Approvals : Fence(c, a)
           \/ Drain \/ FailOwner \/ RetryWake \/ ChildExits \/ Restart \/ UNCHANGED vars
  <2>1. UNCHANGED <<request, row, order, audited, inbox>>
    BY <1>7 DEF Redeliver, CancelRun, Fence, Drain, DrainWakes, DrainWindow, DrainSelect, DrainEnds,
       DrainRow, FailOwner, RetryWake, ChildExits, Restart, store, child, vars
  <2> QED  BY <2>1, Stutters DEF Acked
<1> QED  BY <1>1, <1>2, <1>3, <1>4, <1>5, <1>6, <1>7 DEF Next

\* The delivery implements what it promises the child: each request decided once, each
\* decision given at most once, after its audit receipt and in the order of the
\* decisions, and only a given decision acknowledged (DeliversAsPromised).
THEOREM DeliveryImplementsPromise == Spec => DeliversAsPromised
<1>1. Init => Promise!Init
  <2> SUFFICES ASSUME Init  PROVE Promise!Init
    OBVIOUS
  <2>1. order = <<>> /\ inbox = <<>> /\ audited = {}  BY DEF Init
  <2>2. Acked = {}  BY DEF Init, Acked, NoRow
  <2>3. Decided(order) = <<>> /\ Decided(inbox) = <<>>
    <3>1. Decided(<<>>) = <<>>  BY DEF Decided
    <3> QED  BY <2>1, <3>1
  <2> QED  BY <2>1, <2>2, <2>3 DEF Promise!Init, Acked
<1> QED  BY <1>1, Invariance, NextRefines, PTL DEF Spec, DeliversAsPromised, Promise!Spec
=============================================================================
