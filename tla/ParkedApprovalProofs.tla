------------------------ MODULE ParkedApprovalProofs ------------------------
(***************************************************************************)
(* Proofs about ParkedApproval, for every value of its constants: the type *)
(* invariant, that a captured call is started at most once, that a claim   *)
(* keeps its authorizing decision, that decisions are final, that a        *)
(* pending approval keeps the one call its request names, and that a re-   *)
(* issue never asks again for a denied call.                               *)
(***************************************************************************)
EXTENDS ParkedApproval, TLAPS

DispatchPcs == {"created", "parked", "linked", "pending"}

\* A coroutine at work holds the identifiers it read.
Working ==
  /\ \A l \in Dispatches : lc[l].pc \in DispatchPcs =>
       lc[l].appr \in Approvals /\ lc[l].call \in Calls
  /\ \A d \in Deciders : dec[d].pc \notin {"idle", "done"} => dec[d].appr \in Approvals
  /\ \A d \in Deciders : dec[d].pc = "reissue" => dec[d].call \in Calls
  /\ \A e \in Attempts : exe[e].pc \notin {"idle", "done"} =>
       exe[e].appr \in Approvals /\ exe[e].call \in Calls

TypeInv == TypeOK /\ Working

-----------------------------------------------------------------------------
(* The inductive invariant *)

BeforePending == {"created", "parked", "linked"}

\* Who may still run a call.  An attempt past its claim holds the row, and the
\* consumer has not been started while the row is unclaimed or its holder is
\* about to start it.
Claims ==
  /\ \A c \in Calls : bind[c].exec # "unclaimed" => Bound(c)
  /\ \A e \in Attempts : exe[e].pc \in {"run", "ran"} =>
       bind[exe[e].call].exec = "claimed" /\ bind[exe[e].call].token = e
  /\ \A c \in Calls : bind[c].exec = "unclaimed" => runs[c] = 0
  /\ \A e \in Attempts : exe[e].pc = "run" => runs[exe[e].call] = 0

\* An approval holds at most one call.
OneCall ==
  \A a \in Approvals, c, x \in Calls : BoundTo(a, c) /\ BoundTo(a, x) => c = x

\* The version a lifecycle read fences it: while the request still has that
\* version, it is undecided.
Fenced ==
  /\ \A a \in Approvals : req[a].state = "absent" => req[a].ver = 0
  /\ \A l \in Dispatches : lc[l].pc \in BeforePending =>
       LET r == req[lc[l].appr] IN
         /\ r.state # "absent"
         /\ r.ver >= lc[l].ver
         /\ r.ver = lc[l].ver => r.state \in {"created", "pending_user"}

IInv == TypeInv /\ Claims /\ OneCall /\ Fenced /\ OneAttempt /\ ClaimAuthorized

-----------------------------------------------------------------------------
(* The records the actions build *)

\* _write_request_transition_locked changes the state and its version alone.
LEMMA TransitionFields ==
  ASSUME NEW r \in Request, NEW s \in States
  PROVE  /\ Transition(r, s) \in Request
         /\ Transition(r, s).state = s
         /\ Transition(r, s).ver = r.ver + 1
         /\ Transition(r, s).call = r.call
         /\ Transition(r, s).kind = r.kind
         /\ Transition(r, s).by = r.by
         /\ Transition(r, s).next = r.next
<1>1. r.ver + 1 \in Nat
  BY DEF Request
<1>2. Transition(r, s) \in Request
  BY Zenon, <1>1 DEF Transition, Request
<1>3. Transition(r, s).state = s
  BY DEF Transition, Request
<1>4. Transition(r, s).ver = r.ver + 1
  BY DEF Transition, Request
<1>5. Transition(r, s).call = r.call /\ Transition(r, s).kind = r.kind
  BY DEF Transition, Request
<1>6. Transition(r, s).by = r.by /\ Transition(r, s).next = r.next
  BY DEF Transition, Request
<1> QED
  BY <1>2, <1>3, <1>4, <1>5, <1>6

\* A request as store.create inserts it.
LEMMA NewRequestFields ==
  ASSUME NEW c \in Calls, NEW k \in Kinds \cup {"standard"}
  PROVE  /\ NewRequest(c, k) \in Request
         /\ NewRequest(c, k).state = "created"
         /\ NewRequest(c, k).ver = 0
BY DEF NewRequest, Request, States

\* A binding as a park inserts it.
LEMMA UnclaimedFields ==
  ASSUME NEW a \in Approvals \cup {None}, NEW n \in Nat
  PROVE  /\ Unclaimed(a, n) \in Binding
         /\ Unclaimed(a, n).appr = a
         /\ Unclaimed(a, n).exec = "unclaimed"
BY DEF Unclaimed, Binding

\* A park changes the call a request names.
LEMMA NamingFields ==
  ASSUME NEW r \in Request, NEW c \in Calls
  PROVE  /\ Naming(r, c) \in Request
         /\ Naming(r, c).state = r.state
         /\ Naming(r, c).ver = r.ver
         /\ Naming(r, c).kind = r.kind
         /\ Naming(r, c).by = r.by
         /\ Naming(r, c).call = c
<1>1. Naming(r, c) \in Request
  BY DEF Naming, Request
<1>2. Naming(r, c).state = r.state /\ Naming(r, c).ver = r.ver
  BY DEF Naming, Request
<1>3. Naming(r, c).kind = r.kind /\ Naming(r, c).by = r.by
  BY DEF Naming, Request
<1>4. Naming(r, c).call = c
  BY DEF Naming, Request
<1> QED
  BY <1>1, <1>2, <1>3, <1>4

\* A vote is a transition with its decider.
LEMMA VotedFields ==
  ASSUME NEW r \in Request, NEW s \in States, NEW d \in Deciders
  PROVE  /\ Voted(r, s, d) \in Request
         /\ Voted(r, s, d).state = s
         /\ Voted(r, s, d).ver = r.ver + 1
<1>1. Transition(r, s) \in Request /\ Transition(r, s).state = s /\ Transition(r, s).ver = r.ver + 1
  BY TransitionFields
<1>2. Voted(r, s, d) \in Request
  BY <1>1 DEF Voted, Request
<1>3. Voted(r, s, d).state = s
  BY <1>1 DEF Voted, Request
<1>4. Voted(r, s, d).ver = r.ver + 1
  BY <1>1 DEF Voted, Request
<1> QED
  BY <1>2, <1>3, <1>4

\* The expired predecessor of a re-issue is a transition with its successor.
LEMMA ReplacedByFields ==
  ASSUME NEW r \in Request, NEW b \in Approvals
  PROVE  /\ ReplacedBy(r, b) \in Request
         /\ ReplacedBy(r, b).state = "expired"
         /\ ReplacedBy(r, b).ver = r.ver + 1
<1> "expired" \in States
  BY DEF States, Terminal
<1>1. /\ Transition(r, "expired") \in Request
      /\ Transition(r, "expired").state = "expired"
      /\ Transition(r, "expired").ver = r.ver + 1
  BY TransitionFields
<1>2. ReplacedBy(r, b) \in Request
  BY <1>1 DEF ReplacedBy, Request
<1>3. ReplacedBy(r, b).state = "expired"
  BY <1>1 DEF ReplacedBy, Request
<1>4. ReplacedBy(r, b).ver = r.ver + 1
  BY <1>1 DEF ReplacedBy, Request
<1> QED
  BY <1>2, <1>3, <1>4

\* A claim keeps the row's approval and nonce.
LEMMA ClaimedFields ==
  ASSUME NEW row \in Binding, NEW e \in Attempts, NEW v \in Nat
  PROVE  /\ Claimed(row, e, v) \in Binding
         /\ Claimed(row, e, v).appr = row.appr
         /\ Claimed(row, e, v).nonce = row.nonce
         /\ Claimed(row, e, v).exec = "claimed"
         /\ Claimed(row, e, v).token = e
         /\ Claimed(row, e, v).dver = v
<1>1. Claimed(row, e, v) \in Binding
  BY Zenon DEF Claimed, Binding
<1>2. Claimed(row, e, v).appr = row.appr /\ Claimed(row, e, v).nonce = row.nonce
  BY DEF Claimed, Binding
<1>3. Claimed(row, e, v).exec = "claimed" /\ Claimed(row, e, v).token = e
  BY DEF Claimed, Binding
<1>4. Claimed(row, e, v).dver = v
  BY DEF Claimed, Binding
<1> QED
  BY <1>1, <1>2, <1>3, <1>4

\* A settlement changes the execution state alone.
LEMMA CompletedFields ==
  ASSUME NEW row \in Binding
  PROVE  /\ Completed(row) \in Binding
         /\ Completed(row).appr = row.appr
         /\ Completed(row).nonce = row.nonce
         /\ Completed(row).exec = "completed"
         /\ Completed(row).token = row.token
         /\ Completed(row).dver = row.dver
         /\ Completed(row) = [row EXCEPT !.exec = Completed(row).exec]
<1>1. Completed(row) \in Binding
  BY DEF Completed, Binding
<1>2. Completed(row).appr = row.appr /\ Completed(row).nonce = row.nonce
  BY DEF Completed, Binding
<1>3. Completed(row).exec = "completed"
  BY DEF Completed, Binding
<1>4. Completed(row).token = row.token /\ Completed(row).dver = row.dver
  BY DEF Completed, Binding
<1>5. Completed(row) = [row EXCEPT !.exec = Completed(row).exec]
  BY <1>3 DEF Completed
<1> QED
  BY <1>1, <1>2, <1>3, <1>4, <1>5

\* A coroutine that returned holds no identifier.
LEMMA EndedFields ==
  /\ Ended(NoDispatch) \in Dispatch /\ Ended(NoDispatch).pc = "done"
  /\ Ended(NoDecision) \in Decision /\ Ended(NoDecision).pc = "done"
  /\ Ended(NoAttempt) \in Attempt /\ Ended(NoAttempt).pc = "done"
BY Zenon DEF Ended, At, NoDispatch, Deciding, NoDecision, NoAttempt, Dispatch, Decision, Attempt

\* A step of a coroutine that reads nothing new keeps what it holds.
LEMMA AtDispatch ==
  ASSUME NEW r \in Dispatch, NEW p \in DispatchPcs
  PROVE  /\ At(r, p) \in Dispatch
         /\ At(r, p).pc = p
         /\ At(r, p).appr = r.appr
         /\ At(r, p).call = r.call
         /\ At(r, p).ver = r.ver
<1>1. At(r, p) \in Dispatch
  BY DEF At, Dispatch, DispatchPcs
<1>2. At(r, p).pc = p /\ At(r, p).ver = r.ver
  BY DEF At, Dispatch
<1>3. At(r, p).appr = r.appr /\ At(r, p).call = r.call
  BY DEF At, Dispatch
<1> QED
  BY <1>1, <1>2, <1>3

LEMMA ParkedFields ==
  ASSUME NEW r \in Dispatch, NEW n \in Nat
  PROVE  /\ Parked(r, n) \in Dispatch
         /\ Parked(r, n).pc = "parked"
         /\ Parked(r, n).appr = r.appr
         /\ Parked(r, n).call = r.call
         /\ Parked(r, n).ver = r.ver
<1>1. Parked(r, n) \in Dispatch
  BY Zenon DEF Parked, Dispatch
<1>2. Parked(r, n).pc = "parked" /\ Parked(r, n).ver = r.ver
  BY DEF Parked, Dispatch
<1>3. Parked(r, n).appr = r.appr /\ Parked(r, n).call = r.call
  BY DEF Parked, Dispatch
<1> QED
  BY <1>1, <1>2, <1>3

LEMMA AtDecision ==
  ASSUME NEW r \in Decision, NEW p \in {"vote", "continue", "recheck"}
  PROVE  /\ At(r, p) \in Decision
         /\ At(r, p).pc = p
         /\ At(r, p).appr = r.appr
<1>1. At(r, p) \in Decision
  BY DEF At, Decision
<1>2. At(r, p).pc = p
  BY DEF At, Decision
<1>3. At(r, p).appr = r.appr
  BY DEF At, Decision
<1> QED
  BY <1>1, <1>2, <1>3

LEMMA AtAttempt ==
  ASSUME NEW r \in Attempt, NEW p \in {"claim", "run", "ran"}
  PROVE  /\ At(r, p) \in Attempt
         /\ At(r, p).pc = p
         /\ At(r, p).appr = r.appr
         /\ At(r, p).call = r.call
         /\ At(r, p).ver = r.ver
<1>1. At(r, p) \in Attempt
  BY DEF At, Attempt
<1>2. At(r, p).pc = p /\ At(r, p).ver = r.ver
  BY DEF At, Attempt
<1>3. At(r, p).appr = r.appr /\ At(r, p).call = r.call
  BY DEF At, Attempt
<1> QED
  BY <1>1, <1>2, <1>3

LEMMA StateNames ==
  /\ Terminal \subseteq States
  /\ {"absent", "created", "pending_user"} \subseteq States
  /\ {"approved", "denied", "auto_approved", "auto_denied", "expired"} \subseteq Terminal
  /\ Terminal \cap {"absent", "created", "pending_user"} = {}
BY DEF States, Terminal

-----------------------------------------------------------------------------
(* The type invariant *)

LEMMA TypeInit == Init => TypeInv
BY NoneIsNew, UnclaimedFields
   DEF Init, TypeInv, TypeOK, Working, NoRequest, Request, NoBinding, NoTurn, RootTurn,
       NoDispatch, Dispatch, Deciding, NoDecision, Decision, NoAttempt, Attempt, States, DispatchPcs

LEMMA TypeRecordRootTurn ==
  ASSUME TypeInv, NEW t \in Turns, NEW g \in Gens, RecordRootTurn(t, g)
  PROVE  TypeInv'
BY DEF TypeInv, TypeOK, Working, RecordRootTurn, RootTurn, procs

LEMMA TypeStartDispatch ==
  ASSUME TypeInv, NEW l \in Dispatches, NEW a \in Approvals, NEW c \in Calls,
         NEW o \in Calls \cup {None}, NEW t \in Turns \cup {None},
         StartDispatch(l, a, c, o, t)
  PROVE  /\ lc' \in [Dispatches -> Dispatch]
         /\ \A m \in Dispatches : lc'[m].pc \in DispatchPcs =>
              lc'[m].appr \in Approvals /\ lc'[m].call \in Calls
BY DEF TypeInv, TypeOK, Working, StartDispatch, Dispatch, Request

LEMMA TypeCreateRequest ==
  ASSUME TypeInv, NEW l \in Dispatches, NEW a \in Approvals, NEW c \in Calls,
         NEW t \in Turns \cup {None}, NEW k \in Kinds, CreateRequest(l, a, c, t, k)
  PROVE  TypeInv'
BY TypeStartDispatch, NewRequestFields DEF TypeInv, TypeOK, Working, CreateRequest

LEMMA TypeReplacePrepared ==
  ASSUME TypeInv, NEW l \in Dispatches, NEW a \in Approvals, NEW c \in Calls,
         NEW t \in Turns \cup {None}, NEW k \in Kinds, NEW p \in Approvals,
         ReplacePrepared(l, a, c, t, k, p)
  PROVE  TypeInv'
<1>1. req' \in [Approvals -> Request]
  BY NewRequestFields, TransitionFields, StateNames DEF TypeInv, TypeOK, ReplacePrepared
<1>2. bind' \in [Calls -> Binding]
  BY Zenon, UnclaimedFields DEF TypeInv, TypeOK, ReplacePrepared, NoBinding
<1> QED
  BY <1>1, <1>2, TypeStartDispatch DEF TypeInv, TypeOK, Working, ReplacePrepared

LEMMA TypeResumeRequest ==
  ASSUME TypeInv, NEW l \in Dispatches, NEW a \in Approvals, NEW c \in Calls,
         NEW t \in Turns \cup {None}, ResumeRequest(l, a, c, t)
  PROVE  TypeInv'
<1>1. req[a].call \in Calls \cup {None}
  BY DEF TypeInv, TypeOK, Request
<1> QED
  BY Zenon, <1>1, TypeStartDispatch DEF TypeInv, TypeOK, Working, ResumeRequest

\* The dispatches after one of them moved or ended.
DispatchesOK ==
  /\ lc \in [Dispatches -> Dispatch]
  /\ \A l \in Dispatches : lc[l].pc \in DispatchPcs =>
       lc[l].appr \in Approvals /\ lc[l].call \in Calls

LEMMA DispatchMoves ==
  ASSUME DispatchesOK, NEW l \in Dispatches, lc[l].pc \in DispatchPcs,
         NEW p \in DispatchPcs, lc' = [lc EXCEPT ![l] = At(lc[l], p)]
  PROVE  DispatchesOK'
BY AtDispatch DEF DispatchesOK

LEMMA DispatchEnds ==
  ASSUME DispatchesOK, NEW l \in Dispatches, lc' = [lc EXCEPT ![l] = Ended(NoDispatch)]
  PROVE  DispatchesOK'
BY EndedFields DEF DispatchesOK, DispatchPcs

DecisionsOK ==
  /\ dec \in [Deciders -> Decision]
  /\ \A d \in Deciders : dec[d].pc \notin {"idle", "done"} => dec[d].appr \in Approvals
  /\ \A d \in Deciders : dec[d].pc = "reissue" => dec[d].call \in Calls

LEMMA DecisionMoves ==
  ASSUME DecisionsOK, NEW d \in Deciders, dec[d].pc \notin {"idle", "done"},
         NEW p \in {"vote", "continue", "recheck"}, dec' = [dec EXCEPT ![d] = At(dec[d], p)]
  PROVE  DecisionsOK'
BY AtDecision DEF DecisionsOK

LEMMA DecisionEnds ==
  ASSUME DecisionsOK, NEW d \in Deciders, dec' = [dec EXCEPT ![d] = Ended(NoDecision)]
  PROVE  DecisionsOK'
BY EndedFields DEF DecisionsOK

AttemptsOK ==
  /\ exe \in [Attempts -> Attempt]
  /\ \A e \in Attempts : exe[e].pc \notin {"idle", "done"} =>
       exe[e].appr \in Approvals /\ exe[e].call \in Calls

LEMMA AttemptMoves ==
  ASSUME AttemptsOK, NEW e \in Attempts, exe[e].pc \notin {"idle", "done"},
         NEW p \in {"claim", "run", "ran"}, exe' = [exe EXCEPT ![e] = At(exe[e], p)]
  PROVE  AttemptsOK'
BY AtAttempt DEF AttemptsOK

LEMMA AttemptEnds ==
  ASSUME AttemptsOK, NEW e \in Attempts, exe' = [exe EXCEPT ![e] = Ended(NoAttempt)]
  PROVE  AttemptsOK'
BY EndedFields DEF AttemptsOK

LEMMA TypeInvParts ==
  TypeInv <=> /\ req \in [Approvals -> Request]
              /\ bind \in [Calls -> Binding]
              /\ turns \in [Turns -> RootTurn]
              /\ nonces \in Nat
              /\ runs \in [Calls -> Nat]
              /\ DispatchesOK /\ DecisionsOK /\ AttemptsOK
BY DEF TypeInv, TypeOK, Working, DispatchesOK, DecisionsOK, AttemptsOK

LEMMA TypeAutoDecide ==
  ASSUME TypeInv, NEW l \in Dispatches, NEW outcome \in {"auto_approved", "auto_denied"},
         AutoDecide(l, outcome)
  PROVE  TypeInv'
<1> DEFINE a == lc[l].appr
<1>1. a \in Approvals /\ outcome \in States /\ req \in [Approvals -> Request]
  BY StateNames DEF TypeInv, TypeOK, Working, AutoDecide, DispatchPcs
<1>2. req' = [req EXCEPT ![a] = Transition(req[a], outcome)]
  BY DEF AutoDecide
<1>3. Transition(req[a], outcome) \in Request
  BY <1>1, TransitionFields
<1>4. req' \in [Approvals -> Request]
  BY <1>1, <1>2, <1>3
<1>5. DispatchesOK'
  BY EndedFields, TypeInvParts DEF AutoDecide, DispatchesOK, DispatchPcs
<1>6. UNCHANGED <<bind, turns, nonces, dec, exe, runs>>
  BY DEF AutoDecide
<1> QED
  BY <1>4, <1>5, <1>6, TypeInvParts DEF TypeInv, TypeOK, Working, DispatchesOK

\* What a park inserts, for a and c of the right type.
LEMMA TypeParkedBind ==
  ASSUME TypeInv, NEW a \in Approvals, NEW c \in Calls, NEW n \in Nat
  PROVE  ParkedBind(a, c, n) \in [Calls -> Binding]
BY Zenon, UnclaimedFields DEF TypeInv, TypeOK, ParkedBind, NoBinding

LEMMA TypeParkNonce ==
  ASSUME TypeInv, NEW a \in Approvals, NEW c \in Calls, NEW g
  PROVE  ParkNonce(a, c, g) \in Nat
BY DEF TypeInv, TypeOK, ParkNonce, Binding

\* The lifecycle that parked keeps its request and its call.
LEMMA DispatchParks ==
  ASSUME DispatchesOK, NEW l \in Dispatches, lc[l].pc \in DispatchPcs, NEW n \in Nat,
         lc' = [lc EXCEPT ![l] = Parked(lc[l], n)]
  PROVE  DispatchesOK'
<1>1. lc \in [Dispatches -> Dispatch] /\ lc[l] \in Dispatch
  BY DEF DispatchesOK
<1>2. /\ Parked(lc[l], n) \in Dispatch
      /\ Parked(lc[l], n).appr = lc[l].appr /\ Parked(lc[l], n).call = lc[l].call
  BY <1>1, ParkedFields
<1>3. lc'[l] = Parked(lc[l], n) /\ \A m \in Dispatches \ {l} : lc'[m] = lc[m]
  BY <1>1
<1>4. lc' \in [Dispatches -> Dispatch]
  BY <1>1, <1>2
<1>5. ASSUME NEW m \in Dispatches, lc'[m].pc \in DispatchPcs
      PROVE  lc'[m].appr \in Approvals /\ lc'[m].call \in Calls
  <2>1. CASE m = l
    BY <1>2, <1>3, <2>1 DEF DispatchesOK
  <2>2. CASE m # l
    BY <1>3, <1>5, <2>2 DEF DispatchesOK
  <2> QED
    BY <2>1, <2>2
<1> QED
  BY <1>4, <1>5 DEF DispatchesOK

LEMMA TypeParkBinding ==
  ASSUME TypeInv, NEW l \in Dispatches, ParkBinding(l)
  PROVE  TypeInv'
<1> DEFINE a == lc[l].appr
           c == lc[l].call
           n == ParkNonce(a, c, None)
<1>1. a \in Approvals /\ c \in Calls /\ n \in Nat
  BY TypeParkNonce DEF TypeInv, Working, DispatchPcs, ParkBinding
<1>2. bind' \in [Calls -> Binding]
  BY <1>1, TypeParkedBind DEF ParkBinding
<1>3. req' \in [Approvals -> Request]
  BY <1>1, NamingFields DEF TypeInv, TypeOK, ParkBinding
<1>4. lc' = [lc EXCEPT ![l] = Parked(lc[l], n)]
  BY DEF ParkBinding
<1>5. DispatchesOK'
  BY Zenon, <1>1, <1>4, DispatchParks, TypeInvParts DEF ParkBinding, DispatchPcs
<1>6. nonces' \in Nat /\ UNCHANGED <<turns, dec, exe, runs>>
  BY DEF ParkBinding, TypeInv, TypeOK
<1> HIDE DEF a, c, n
<1> QED
  BY <1>2, <1>3, <1>5, <1>6 DEF TypeInv, TypeOK, Working, DispatchesOK

LEMMA TypeSkipCapture ==
  ASSUME TypeInv, NEW l \in Dispatches, SkipCapture(l)
  PROVE  TypeInv'
<1>1. lc' = [lc EXCEPT ![l] = Parked(lc[l], nonces + 1)] /\ lc[l].pc \in DispatchPcs
  BY DEF SkipCapture, DispatchPcs
<1>2. DispatchesOK /\ nonces + 1 \in Nat
  BY TypeInvParts
<1>3. DispatchesOK'
  BY Zenon, <1>1, <1>2, DispatchParks
<1> QED
  BY <1>3 DEF TypeInv, TypeOK, Working, SkipCapture, DispatchesOK

LEMMA TypeLinkRootTurn ==
  ASSUME TypeInv, NEW l \in Dispatches, LinkRootTurn(l)
  PROVE  TypeInv'
<1>1. lc' = [lc EXCEPT ![l] = At(lc[l], "linked")] /\ lc[l].pc \in DispatchPcs
  BY DEF LinkRootTurn, DispatchPcs
<1>2. DispatchesOK'
  BY Zenon, <1>1, DispatchMoves, TypeInvParts DEF DispatchPcs
<1>3. turns' \in [Turns -> RootTurn]
  <2>1. lc[l].call \in Calls /\ lc[l].nonce \in Nat
    BY <1>1 DEF TypeInv, TypeOK, Working, Dispatch
  <2>2. turns' = turns \/ turns' = [turns EXCEPT ![lc[l].turn].refs = @ \cup {<<lc[l].call, lc[l].nonce>>}]
    BY DEF LinkRootTurn
  <2>3. turns \in [Turns -> RootTurn]
    BY DEF TypeInv, TypeOK
  <2> QED
    BY <2>1, <2>2, <2>3 DEF RootTurn
<1> QED
  BY <1>2, <1>3 DEF TypeInv, TypeOK, Working, LinkRootTurn, DispatchesOK

LEMMA TypePublishPending ==
  ASSUME TypeInv, NEW l \in Dispatches, PublishPending(l)
  PROVE  TypeInv'
<1>1. lc' = [lc EXCEPT ![l] = At(lc[l], "pending")] /\ lc[l].pc \in DispatchPcs
  BY DEF PublishPending, DispatchPcs
<1>2. DispatchesOK'
  BY Zenon, <1>1, DispatchMoves, TypeInvParts DEF DispatchPcs
<1>3. req' \in [Approvals -> Request]
  BY Zenon, TransitionFields, StateNames DEF TypeInv, TypeOK, PublishPending
<1> QED
  BY <1>2, <1>3 DEF TypeInv, TypeOK, Working, PublishPending, DispatchesOK

LEMMA TypeAbortUnpublished ==
  ASSUME TypeInv, NEW l \in Dispatches, AbortUnpublished(l)
  PROVE  TypeInv'
<1>1. DispatchesOK'
  BY Zenon, DispatchEnds, TypeInvParts DEF AbortUnpublished
<1>2. req' \in [Approvals -> Request]
  BY Zenon, TransitionFields, StateNames DEF TypeInv, TypeOK, AbortUnpublished
<1> QED
  BY <1>1, <1>2 DEF TypeInv, TypeOK, Working, AbortUnpublished, DispatchesOK

LEMMA TypeCancelPending ==
  ASSUME TypeInv, NEW a \in Approvals, CancelPending(a)
  PROVE  TypeInv'
<1>1. req' \in [Approvals -> Request]
  BY TransitionFields, StateNames DEF TypeInv, TypeOK, CancelPending
<1> QED
  BY <1>1 DEF TypeInv, TypeOK, Working, CancelPending, procs

LEMMA TypeReadRequest ==
  ASSUME TypeInv, NEW d \in Deciders, NEW a \in Approvals, ReadRequest(d, a)
  PROVE  TypeInv'
<1>1. PICK p \in {"continue", "check", "vote"} : dec' = [dec EXCEPT ![d] = Deciding(a, p)]
  BY Zenon DEF ReadRequest
<1>2. Deciding(a, p) \in Decision /\ Deciding(a, p).appr = a /\ Deciding(a, p).pc = p
  BY DEF Deciding, Decision
<1>3. DecisionsOK'
  BY <1>1, <1>2, TypeInvParts DEF DecisionsOK
<1> QED
  BY <1>3 DEF TypeInv, TypeOK, Working, ReadRequest, DecisionsOK

LEMMA TypeCheckGeneration ==
  ASSUME TypeInv, NEW d \in Deciders, CheckGeneration(d)
  PROVE  TypeInv'
<1>1. dec[d].pc \notin {"idle", "done"} /\ DecisionsOK
  BY TypeInvParts DEF CheckGeneration
<1>2. DecisionsOK'
  <2>1. CASE \E loc \in Located(dec[d].appr) : dec' = [dec EXCEPT ![d] = Reissuing(dec[d].appr, loc)]
    <3>1. PICK loc \in Located(dec[d].appr) : dec' = [dec EXCEPT ![d] = Reissuing(dec[d].appr, loc)]
      BY Zenon, <2>1
    <3>2. loc.call \in Calls /\ loc.turn \in Turns /\ loc.nonce \in Nat
      BY MaxNonceType DEF Located, Nonces
    <3>3. /\ Reissuing(dec[d].appr, loc) \in Decision
          /\ Reissuing(dec[d].appr, loc).appr = dec[d].appr
          /\ Reissuing(dec[d].appr, loc).call = loc.call
      BY <1>1, <3>2 DEF Reissuing, Decision, DecisionsOK
    <3> QED
      BY <1>1, <3>1, <3>2, <3>3 DEF DecisionsOK
  <2>2. CASE dec' = [dec EXCEPT ![d] = At(dec[d], "vote")]
    BY Zenon, <1>1, <2>2, DecisionMoves
  <2>3. CASE dec' = [dec EXCEPT ![d] = Ended(NoDecision)]
    BY Zenon, <1>1, <2>3, DecisionEnds
  <2> QED
    BY <2>1, <2>2, <2>3 DEF CheckGeneration
<1> QED
  BY <1>2 DEF TypeInv, TypeOK, Working, CheckGeneration, DecisionsOK

LEMMA TypeRecordVote ==
  ASSUME TypeInv, NEW d \in Deciders, NEW decision \in {"approved", "denied"},
         RecordVote(d, decision)
  PROVE  TypeInv'
<1>1. dec[d].pc \notin {"idle", "done"} /\ DecisionsOK
  BY TypeInvParts DEF RecordVote
<1>2. DecisionsOK'
  <2>1. CASE dec' = [dec EXCEPT ![d] = At(dec[d], "continue")]
    BY Zenon, <1>1, <2>1, DecisionMoves
  <2>2. CASE dec' = [dec EXCEPT ![d] = Ended(NoDecision)]
    BY Zenon, <1>1, <2>2, DecisionEnds
  <2> QED
    BY Zenon, <2>1, <2>2 DEF RecordVote
<1>3. req' \in [Approvals -> Request]
  <2>1. req' = req \/ req' = [req EXCEPT ![dec[d].appr] = Voted(req[dec[d].appr], decision, d)]
    BY DEF RecordVote
  <2>2. req \in [Approvals -> Request] /\ decision \in States
    BY StateNames DEF TypeInv, TypeOK
  <2> QED
    BY <2>1, <2>2, VotedFields
<1> QED
  BY <1>2, <1>3 DEF TypeInv, TypeOK, Working, RecordVote, DecisionsOK

LEMMA TypeContinueChanged ==
  ASSUME TypeInv, NEW d \in Deciders, ContinueChanged(d)
  PROVE  TypeInv'
<1>1. DecisionsOK'
  BY Zenon, DecisionMoves, TypeInvParts DEF ContinueChanged
<1> QED
  BY <1>1 DEF TypeInv, TypeOK, Working, ContinueChanged, DecisionsOK

LEMMA TypeReissue ==
  ASSUME TypeInv, NEW d \in Deciders, NEW b \in Approvals, NEW t \in Turns,
         Reissue(d, b, t)
  PROVE  TypeInv'
<1> DEFINE a == dec[d].appr
           c == dec[d].call
           g == GenOf[d]
           n == ParkNonce(b, c, g)
<1>1. a \in Approvals /\ c \in Calls /\ g \in Gens
  BY Zenon, GenOfType DEF TypeInv, Working, Reissue
<1>2. n \in Nat
  BY <1>1, TypeParkNonce
<1>3. bind' \in [Calls -> Binding]
  BY Zenon, <1>1, <1>2, TypeParkedBind DEF Reissue
<1>4. turns' \in [Turns -> RootTurn]
  <2>1. turns' = [turns EXCEPT ![t] = [gen |-> g, refs |-> {<<c, n>>}]]
    BY Zenon DEF Reissue
  <2>2. turns \in [Turns -> RootTurn]
    BY DEF TypeInv, TypeOK
  <2> QED
    <3>1. [gen |-> g, refs |-> {<<c, n>>}] \in RootTurn
      BY <1>1, <1>2 DEF RootTurn
    <3> QED
      BY <2>1, <2>2, <3>1
<1>5. req' \in [Approvals -> Request]
  <2>1. req' = [x \in Approvals |->
           IF x = b THEN Transition(NewRequest(c, req[a].kind), "pending_user")
           ELSE IF ExpiresPredecessor(x, c, b, g) THEN ReplacedBy(req[x], b) ELSE req[x]]
    BY Zenon DEF Reissue
  <2>2. req \in [Approvals -> Request]
    BY DEF TypeInv, TypeOK
  <2>3. req[a].kind \in Kinds \cup {"standard"}
    BY <1>1, <2>2 DEF Request
  <2>4. Transition(NewRequest(c, req[a].kind), "pending_user") \in Request
    BY Zenon, <1>1, <2>3, NewRequestFields, TransitionFields, StateNames
  <2> QED
    BY <2>1, <2>2, <2>4, ReplacedByFields
<1>6. DecisionsOK'
  BY Zenon, DecisionEnds, TypeInvParts DEF Reissue
<1>7. nonces' = nonces + 1 /\ UNCHANGED <<lc, exe, runs>>
  BY Zenon DEF Reissue
<1>8. nonces' \in Nat
  BY <1>7 DEF TypeInv, TypeOK
<1> HIDE DEF a, c, g, n
<1> QED
  BY <1>3, <1>4, <1>5, <1>6, <1>7, <1>8 DEF TypeInv, TypeOK, Working, DecisionsOK

LEMMA TypeReadBinding ==
  ASSUME TypeInv, NEW e \in Attempts, NEW c \in Calls, ReadBinding(e, c)
  PROVE  TypeInv'
<1> DEFINE r == req[bind[c].appr]
           x == [pc |-> "admit", appr |-> bind[c].appr, call |-> c, nonce |-> bind[c].nonce,
                 ver |-> r.ver, executable |-> Executable(r)]
<1>1. bind[c].appr \in Approvals /\ bind[c].nonce \in Nat
  BY DEF TypeInv, TypeOK, ReadBinding, Bound, Binding
<1>2. r.ver \in Nat
  BY <1>1 DEF TypeInv, TypeOK, Request
<1>3. Executable(r) \in BOOLEAN
  BY DEF Executable
<1>4. x \in Attempt /\ x.appr = bind[c].appr /\ x.call = c
  BY Zenon, <1>1, <1>2, <1>3 DEF Attempt
<1>5. exe' = [exe EXCEPT ![e] = x]
  BY Zenon DEF ReadBinding
<1>6. AttemptsOK'
  <2> HIDE DEF x
  <2> QED
    BY <1>1, <1>4, <1>5, TypeInvParts DEF AttemptsOK
<1> QED
  BY <1>6 DEF TypeInv, TypeOK, Working, ReadBinding, AttemptsOK

LEMMA TypeAdmitBinding ==
  ASSUME TypeInv, NEW e \in Attempts, AdmitBinding(e)
  PROVE  TypeInv'
<1>1. exe[e].pc \notin {"idle", "done"} /\ AttemptsOK
  BY TypeInvParts DEF AdmitBinding
<1>2. \/ exe' = [exe EXCEPT ![e] = At(exe[e], "claim")]
      \/ exe' = [exe EXCEPT ![e] = Ended(NoAttempt)]
  BY Zenon DEF AdmitBinding
<1>3. AttemptsOK'
  BY <1>1, <1>2, AttemptMoves, AttemptEnds
<1> QED
  BY Zenon, <1>3 DEF TypeInv, TypeOK, Working, AdmitBinding, AttemptsOK

\* What a claim does: the loser of a completed call ends, the winner holds it.
LEMMA ClaimBindingCases ==
  ASSUME NEW e \in Attempts, ClaimBinding(e)
  PROVE  \/ /\ exe' = [exe EXCEPT ![e] = Ended(NoAttempt)]
            /\ bind' = bind
         \/ /\ bind[exe[e].call].exec = "unclaimed"
            /\ req[exe[e].appr].ver = exe[e].ver
            /\ Executable(req[exe[e].appr])
            /\ bind' = [bind EXCEPT ![exe[e].call] = Claimed(@, e, exe[e].ver)]
            /\ exe' = [exe EXCEPT ![e] = At(@, "run")]
BY DEF ClaimBinding

LEMMA TypeClaimBinding ==
  ASSUME TypeInv, NEW e \in Attempts, ClaimBinding(e)
  PROVE  TypeInv'
<1>1. exe[e].pc \notin {"idle", "done"} /\ AttemptsOK
  BY TypeInvParts DEF ClaimBinding
<1>2. AttemptsOK'
  BY <1>1, ClaimBindingCases, AttemptMoves, AttemptEnds
<1>3. exe[e].call \in Calls /\ exe[e].ver \in Nat
  BY <1>1 DEF AttemptsOK, Attempt
<1>4. bind' \in [Calls -> Binding]
  <2>1. bind \in [Calls -> Binding]
    BY TypeInvParts
  <2> QED
    BY <1>3, <2>1, ClaimBindingCases, ClaimedFields
<1> QED
  BY <1>2, <1>4 DEF TypeInv, TypeOK, Working, ClaimBinding, AttemptsOK

LEMMA TypeRunCall ==
  ASSUME TypeInv, NEW e \in Attempts, RunCall(e)
  PROVE  TypeInv'
<1>1. exe[e].pc \notin {"idle", "done"} /\ AttemptsOK
  BY TypeInvParts DEF RunCall
<1>2. AttemptsOK'
  BY Zenon, <1>1, AttemptMoves DEF RunCall
<1>3. runs' \in [Calls -> Nat]
  <2>1. PICK c \in Calls : runs' = [runs EXCEPT ![c] = runs[c] + 1]
    BY Zenon, <1>1 DEF RunCall, AttemptsOK
  <2>2. runs \in [Calls -> Nat]
    BY TypeInvParts
  <2>3. runs[c] + 1 \in Nat
    BY <2>2
  <2> QED
    BY <2>1, <2>2, <2>3
<1> QED
  BY <1>2, <1>3 DEF TypeInv, TypeOK, Working, RunCall, AttemptsOK

LEMMA TypeCompleteBinding ==
  ASSUME TypeInv, NEW e \in Attempts, CompleteBinding(e)
  PROVE  TypeInv'
<1>1. AttemptsOK'
  BY Zenon, TypeInvParts, AttemptEnds DEF CompleteBinding
<1>2. bind' \in [Calls -> Binding]
  BY Zenon, TypeInvParts, CompletedFields DEF CompleteBinding
<1> QED
  BY <1>1, <1>2 DEF TypeInv, TypeOK, Working, CompleteBinding, AttemptsOK

\* Every step keeps the type invariant.
LEMMA TypeNext == TypeInv /\ [Next]_vars => TypeInv'
<1> SUFFICES ASSUME TypeInv, [Next]_vars
             PROVE  TypeInv'
  OBVIOUS
<1>1. CASE UNCHANGED vars
  BY Zenon, <1>1 DEF vars, TypeInv, TypeOK, Working
<1>2. ASSUME NEW t \in Turns, NEW g \in Gens, RecordRootTurn(t, g) PROVE TypeInv'
  BY <1>2, TypeRecordRootTurn
<1>3. ASSUME NEW a \in Approvals, CancelPending(a) PROVE TypeInv'
  BY <1>3, TypeCancelPending
<1>4. ASSUME NEW l \in Dispatches, DispatchStep(l) PROVE TypeInv'
  BY <1>4, TypeCreateRequest, TypeReplacePrepared, TypeResumeRequest, TypeAutoDecide,
     TypeParkBinding, TypeSkipCapture, TypeLinkRootTurn, TypePublishPending,
     TypeAbortUnpublished DEF DispatchStep
<1>5. ASSUME NEW d \in Deciders, DecisionStep(d) PROVE TypeInv'
  BY <1>5, TypeReadRequest, TypeCheckGeneration, TypeContinueChanged, TypeRecordVote,
     TypeReissue DEF DecisionStep
<1>6. ASSUME NEW e \in Attempts, AttemptStep(e) PROVE TypeInv'
  BY <1>6, TypeReadBinding, TypeAdmitBinding, TypeClaimBinding, TypeRunCall,
     TypeCompleteBinding DEF AttemptStep
<1> QED
  BY <1>1, <1>2, <1>3, <1>4, <1>5, <1>6 DEF Next

-----------------------------------------------------------------------------
(* What a step does to the requests and to the rows *)

SameDecision(a) ==
  /\ req'[a].state = req[a].state
  /\ req'[a].ver = req[a].ver
  /\ req'[a].kind = req[a].kind
  /\ req'[a].by = req[a].by

\* A request is inserted, or moves to its next version: out of an undecided
\* state, or expired by a re-issue while its call is unclaimed.
Inserted(a) ==
  req[a].state = "absent" /\ req'[a].state \in {"created", "pending_user"}
Decided(a) ==
  /\ req'[a].ver = req[a].ver + 1
  /\ req'[a].state # "absent"
  /\ \/ req[a].state \notin Terminal
     \/ /\ req[a].state = "approved" /\ req'[a].state = "expired"
        /\ \A c \in Calls : BoundTo(a, c) => bind[c].exec = "unclaimed"

RequestsStep == \A a \in Approvals : SameDecision(a) \/ Inserted(a) \/ Decided(a)

\* Only unclaimed rows are replaced, by unclaimed ones.
RowsStep ==
  \A c \in Calls : \/ bind'[c] = bind[c]
                   \/ bind[c].exec = "unclaimed" /\ bind'[c].exec = "unclaimed"

\* A lifecycle keeps the request and the version it read, or reads them now.
VersionsStep ==
  \A l \in Dispatches : lc'[l].pc \in BeforePending =>
    \/ /\ lc[l].pc \in BeforePending
       /\ lc'[l].appr = lc[l].appr /\ lc'[l].ver = lc[l].ver
    \/ /\ req'[lc'[l].appr].state \in {"created", "pending_user"}
       /\ req'[lc'[l].appr].ver = lc'[l].ver /\ lc'[l].ver \in Nat

\* A request that is not touched keeps its decision.
LEMMA UntouchedRequests == UNCHANGED req => RequestsStep
BY DEF RequestsStep, SameDecision

LEMMA UntouchedRows == UNCHANGED bind => RowsStep
BY DEF RowsStep

\* A park replaces rows it was allowed to replace.
LEMMA ParkedRows ==
  ASSUME TypeInv, Claims, NEW a \in Approvals, NEW c \in Calls, NEW g, NEW n \in Nat,
         RowsAdmit(a, c, g), bind' = ParkedBind(a, c, n)
  PROVE  RowsStep
<1> SUFFICES ASSUME NEW x \in Calls
             PROVE  \/ bind'[x] = bind[x]
                    \/ bind[x].exec = "unclaimed" /\ bind'[x].exec = "unclaimed"
  BY DEF RowsStep
<1>1. CASE x \in ParkRows(a, c)
  <2>1. bind[x].exec = "unclaimed"
    BY <1>1 DEF RowsAdmit
  <2>2. bind'[x] = Unclaimed(a, n) \/ bind'[x] = NoBinding
    BY <1>1 DEF ParkedBind
  <2> QED
    BY <2>1, <2>2, UnclaimedFields DEF NoBinding
<1>2. CASE x \notin ParkRows(a, c) /\ x = c
  <2>1. bind[x].exec = "unclaimed"
    BY <1>2 DEF ParkRows, Claims
  <2>2. bind'[x] = Unclaimed(a, n)
    BY <1>2 DEF ParkedBind
  <2> QED
    BY <2>1, <2>2, UnclaimedFields
<1>3. CASE x \notin ParkRows(a, c) /\ x # c
  BY <1>3 DEF ParkedBind
<1> QED
  BY <1>1, <1>2, <1>3

\* After a park, its approval holds its call alone.
LEMMA ParkedOneCall ==
  ASSUME TypeInv, OneCall, NEW a \in Approvals, NEW c \in Calls, NEW n \in Nat,
         bind' = ParkedBind(a, c, n)
  PROVE  OneCall'
<1>1. \A x \in Calls : x # c /\ bind'[x].appr # None => bind'[x] = bind[x] /\ bind[x].appr # a
  BY UnclaimedFields DEF ParkedBind, NoBinding, ParkRows, Bound, BoundTo
<1>2. bind'[c].appr = a
  BY UnclaimedFields DEF ParkedBind
<1> QED
  BY <1>1, <1>2, NoneIsNew DEF OneCall, BoundTo

\* One undecided request moves on.
LEMMA RequestMoves ==
  ASSUME TypeInv, NEW a \in Approvals, NEW s \in States, s # "absent",
         req[a].state \notin Terminal, req' = [req EXCEPT ![a] = Transition(req[a], s)]
  PROVE  RequestsStep
<1>1. req \in [Approvals -> Request]
  BY DEF TypeInv, TypeOK
<1>2. req'[a].state = s /\ req'[a].ver = req[a].ver + 1
  BY <1>1, TransitionFields
<1>3. Decided(a)
  BY <1>2 DEF Decided
<1>4. \A x \in Approvals \ {a} : req'[x] = req[x]
  BY <1>1
<1> QED
  BY <1>3, <1>4 DEF RequestsStep, SameDecision

\* The lifecycle's own writes.
LEMMA CreateRequestStep ==
  ASSUME TypeInv, NEW l \in Dispatches, NEW a \in Approvals, NEW c \in Calls,
         NEW t \in Turns \cup {None}, NEW k \in Kinds, CreateRequest(l, a, c, t, k)
  PROVE  RequestsStep
BY NewRequestFields DEF TypeInv, TypeOK, CreateRequest, RequestsStep, SameDecision, Inserted

LEMMA ReplacePreparedStep ==
  ASSUME TypeInv, NEW l \in Dispatches, NEW a \in Approvals, NEW c \in Calls,
         NEW t \in Turns \cup {None}, NEW k \in Kinds, NEW p \in Approvals,
         ReplacePrepared(l, a, c, t, k, p)
  PROVE  RequestsStep /\ RowsStep
<1>1. /\ req[a].state = "absent"
      /\ req' = [x \in Approvals |->
           IF x = a THEN NewRequest(c, k)
           ELSE IF x = p /\ Undecided(p) THEN Transition(req[p], "expired") ELSE req[x]]
  BY DEF ReplacePrepared
<1>2. req[p] \in Request /\ "expired" \in States
  BY StateNames DEF TypeInv, TypeOK
<1>3. RequestsStep
  <2>1. Inserted(a)
    BY <1>1, NewRequestFields DEF Inserted
  <2>2. ASSUME p # a, Undecided(p) PROVE Decided(p)
    <3>1. req'[p].state = "expired" /\ req'[p].ver = req[p].ver + 1
      BY <1>1, <1>2, <2>2, TransitionFields
    <3> QED
      BY <2>2, <3>1, StateNames DEF Decided, Undecided
  <2>3. \A x \in Approvals \ {a} : (x = p /\ Undecided(p)) \/ req'[x] = req[x]
    BY <1>1
  <2> QED
    BY <2>1, <2>2, <2>3 DEF RequestsStep, SameDecision
<1>4. RowsStep
  <2>1. /\ \A x \in Calls : BoundTo(p, x) => bind[x].exec = "unclaimed"
        /\ bind' = [x \in Calls |-> IF BoundTo(p, x) THEN NoBinding ELSE bind[x]]
    BY DEF ReplacePrepared
  <2>2. NoBinding.exec = "unclaimed"
    BY UnclaimedFields DEF NoBinding
  <2> QED
    BY <2>1, <2>2 DEF RowsStep
<1> QED
  BY <1>3, <1>4

LEMMA AutoDecideStep ==
  ASSUME TypeInv, Fenced, NEW l \in Dispatches,
         NEW outcome \in {"auto_approved", "auto_denied"}, AutoDecide(l, outcome)
  PROVE  RequestsStep
<1> DEFINE a == lc[l].appr
<1>1. /\ lc[l].pc = "created" /\ req[a].ver = lc[l].ver
      /\ req' = [req EXCEPT ![a] = Transition(req[a], outcome)]
  BY DEF AutoDecide
<1>2. a \in Approvals /\ outcome \in States /\ outcome # "absent"
  BY <1>1, StateNames DEF TypeInv, Working, DispatchPcs
<1>3. req[a].state \notin Terminal
  BY <1>1, StateNames DEF Fenced, BeforePending
<1> QED
  BY Zenon, <1>1, <1>2, <1>3, RequestMoves

LEMMA ParkBindingStep ==
  ASSUME TypeInv, Claims, NEW l \in Dispatches, ParkBinding(l)
  PROVE  RequestsStep /\ RowsStep
<1> DEFINE a == lc[l].appr
           c == lc[l].call
           n == ParkNonce(a, c, None)
<1>1. a \in Approvals /\ c \in Calls /\ n \in Nat
  BY Zenon, TypeParkNonce DEF TypeInv, Working, DispatchPcs, ParkBinding
<1>2. RowsStep
  BY Zenon, <1>1, ParkedRows DEF ParkBinding
<1>3. req' = [req EXCEPT ![a] = Naming(req[a], c)] /\ req \in [Approvals -> Request]
  BY DEF ParkBinding, TypeInv, TypeOK
<1>4. RequestsStep
  <2>1. req'[a] = Naming(req[a], c) /\ req[a] \in Request
    BY <1>1, <1>3
  <2>2. SameDecision(a)
    <3>1. LET r == Naming(req[a], c) IN
            /\ r.state = req[a].state /\ r.ver = req[a].ver
            /\ r.kind = req[a].kind /\ r.by = req[a].by
      BY <1>1, <2>1, NamingFields
    <3> QED
      BY <2>1, <3>1, Zenon DEF SameDecision
  <2>3. \A x \in Approvals \ {a} : req'[x] = req[x]
    BY <1>3
  <2> QED
    BY <2>2, <2>3 DEF RequestsStep, SameDecision
<1> QED
  BY <1>2, <1>4

LEMMA PublishPendingStep ==
  ASSUME TypeInv, NEW l \in Dispatches, PublishPending(l)
  PROVE  RequestsStep
<1>1. lc[l].appr \in Approvals
  BY DEF TypeInv, Working, DispatchPcs, PublishPending
<1> QED
  BY Zenon, <1>1, RequestMoves, StateNames DEF PublishPending

LEMMA AbortUnpublishedStep ==
  ASSUME TypeInv, NEW l \in Dispatches, AbortUnpublished(l)
  PROVE  RequestsStep
<1> DEFINE a == lc[l].appr
<1>1. a \in Approvals
  BY DEF TypeInv, Working, DispatchPcs, AbortUnpublished
<1>2. req' = [req EXCEPT ![a] = IF req[a].state \in Terminal THEN req[a]
                                ELSE Transition(req[a], "denied")]
  BY DEF AbortUnpublished
<1>3. CASE req[a].state \in Terminal
  <2>1. req' = req
    BY <1>2, <1>3 DEF TypeInv, TypeOK
  <2> QED
    BY <2>1, UntouchedRequests
<1>4. CASE req[a].state \notin Terminal
  BY Zenon, <1>1, <1>2, <1>4, RequestMoves, StateNames
<1> QED
  BY <1>3, <1>4

LEMMA CancelPendingStep ==
  ASSUME TypeInv, NEW a \in Approvals, CancelPending(a)
  PROVE  RequestsStep
BY Zenon, RequestMoves, StateNames DEF CancelPending

\* The decision route's writes.
LEMMA RecordVoteStep ==
  ASSUME TypeInv, NEW d \in Deciders, NEW decision \in {"approved", "denied"},
         RecordVote(d, decision)
  PROVE  RequestsStep
<1> DEFINE a == dec[d].appr
<1>1. \/ req' = req
      \/ req[a].state \notin Terminal /\ req' = [req EXCEPT ![a] = Voted(req[a], decision, d)]
  BY DEF RecordVote
<1>2. req \in [Approvals -> Request] /\ decision \in States /\ decision # "absent"
  BY StateNames DEF TypeInv, TypeOK
<1>3. CASE req' = req
  BY <1>3, UntouchedRequests
<1>4. CASE req[a].state \notin Terminal /\ req' = [req EXCEPT ![a] = Voted(req[a], decision, d)]
  <2>1. \A x \in Approvals \ {a} : req'[x] = req[x]
    BY <1>2, <1>4
  <2>2. ASSUME a \in Approvals PROVE Decided(a)
    <3>1. req[a] \in Request /\ req'[a] = Voted(req[a], decision, d)
      BY <1>2, <1>4, <2>2
    <3>2. req'[a].state = decision /\ req'[a].ver = req[a].ver + 1
      <4>1. /\ Voted(req[a], decision, d).state = decision
            /\ Voted(req[a], decision, d).ver = req[a].ver + 1
        BY <1>2, <3>1, VotedFields
      <4> QED
        BY <3>1, <4>1, Zenon
    <3> QED
      BY <1>2, <1>4, <3>2 DEF Decided
  <2> QED
    BY <2>1, <2>2 DEF RequestsStep, SameDecision
<1> QED
  BY <1>1, <1>3, <1>4

LEMMA ReissueStep ==
  ASSUME TypeInv, Claims, OneCall, NEW d \in Deciders, NEW b \in Approvals, NEW t \in Turns,
         Reissue(d, b, t)
  PROVE  RequestsStep /\ RowsStep
<1> DEFINE a == dec[d].appr
           c == dec[d].call
           g == GenOf[d]
           n == ParkNonce(b, c, g)
           new == Transition(NewRequest(c, req[a].kind), "pending_user")
<1>1. a \in Approvals /\ c \in Calls /\ n \in Nat
  BY Zenon, TypeParkNonce DEF TypeInv, Working, Reissue
<1>2. RowsStep
  BY Zenon, <1>1, ParkedRows DEF Reissue
<1>3. /\ req[b].state = "absent"
      /\ Bound(c) /\ RowsAdmit(b, c, g)
      /\ req' = [x \in Approvals |->
           IF x = b THEN new
           ELSE IF ExpiresPredecessor(x, c, b, g) THEN ReplacedBy(req[x], b) ELSE req[x]]
  BY Zenon DEF Reissue
<1>4. new.state = "pending_user"
  <2>1. req[a].kind \in Kinds \cup {"standard"}
    BY <1>1 DEF TypeInv, TypeOK, Request
  <2> QED
    <3>1. NewRequest(c, req[a].kind) \in Request
      BY <1>1, <2>1, NewRequestFields
    <3> QED
      BY Zenon, <3>1, TransitionFields, StateNames
<1>5. bind[c].exec = "unclaimed"
  BY Zenon, <1>1, <1>3 DEF RowsAdmit, ParkRows
<1>6. ASSUME NEW x \in Approvals, x # b, ExpiresPredecessor(x, c, b, g)
      PROVE  Decided(x)
  <2>1. req'[x] = ReplacedBy(req[x], b)
    BY Zenon, <1>3, <1>6
  <2>2. req'[x].state = "expired" /\ req'[x].ver = req[x].ver + 1
    <3>1. req[x] \in Request
      BY DEF TypeInv, TypeOK
    <3>2. ReplacedBy(req[x], b).state = "expired" /\ ReplacedBy(req[x], b).ver = req[x].ver + 1
      BY Zenon, <3>1, ReplacedByFields
    <3> QED
      BY <2>1, <3>2, Zenon
  <2>3. BoundTo(x, c) /\ req[x].state \in {"created", "pending_user", "approved"}
    BY <1>6 DEF ExpiresPredecessor, Superseded, BoundTo
  <2>4. \A y \in Calls : BoundTo(x, y) => bind[y].exec = "unclaimed"
    BY <1>1, <1>5, <2>3 DEF OneCall
  <2> QED
    BY Zenon, <2>2, <2>3, <2>4, StateNames DEF Decided
<1>7. RequestsStep
  BY Zenon, <1>3, <1>4, <1>6 DEF RequestsStep, SameDecision, Inserted
<1> QED
  BY <1>2, <1>7

-----------------------------------------------------------------------------
(* What those steps keep *)

\* Steps of the lifecycle and of the route leave the attempts alone.
LEMMA RowsKeepClaims ==
  ASSUME TypeInv, Claims, RowsStep, exe' = exe, runs' = runs
  PROVE  Claims'
<1>1. ASSUME NEW c \in Calls, bind'[c].exec # "unclaimed" PROVE bind'[c].appr # None
  <2>1. bind'[c] = bind[c]
    BY <1>1 DEF RowsStep
  <2>2. bind[c].exec # "unclaimed" => bind[c].appr # None
    BY DEF Claims, Bound
  <2> QED
    BY <1>1, <2>1, <2>2
<1>2. \A e \in Attempts : exe[e].pc \in {"run", "ran"} =>
        bind'[exe[e].call].exec = "claimed" /\ bind'[exe[e].call].token = e
  <2> SUFFICES ASSUME NEW e \in Attempts, exe[e].pc \in {"run", "ran"}
               PROVE  bind'[exe[e].call].exec = "claimed" /\ bind'[exe[e].call].token = e
    OBVIOUS
  <2>1. exe[e].call \in Calls
    BY DEF TypeInv, Working
  <2>2. bind[exe[e].call].exec = "claimed" /\ bind[exe[e].call].token = e
    BY DEF Claims
  <2> QED
    BY <2>1, <2>2 DEF RowsStep
<1>3. \A c \in Calls : bind'[c].exec = "unclaimed" => runs[c] = 0
  BY DEF RowsStep, Claims
<1> QED
  BY Zenon, <1>1, <1>2, <1>3 DEF Claims, Bound

\* No transition reaches the request a claim was made under.
LEMMA StepKeepsAuthorized ==
  ASSUME TypeInv, Claims, ClaimAuthorized, RowsStep, RequestsStep
  PROVE  ClaimAuthorized'
<1> SUFFICES ASSUME NEW c \in Calls, bind'[c].exec # "unclaimed"
             PROVE  /\ Executable(req'[bind'[c].appr])
                    /\ req'[bind'[c].appr].ver = bind'[c].dver
  BY DEF ClaimAuthorized, Executable
<1> DEFINE a == bind[c].appr
<1>1. bind'[c] = bind[c] /\ bind[c].exec # "unclaimed"
  BY DEF RowsStep
<1>2. a \in Approvals
  <2>1. bind[c].appr \in Approvals \cup {None}
    BY DEF TypeInv, TypeOK, Binding
  <2>2. bind[c].appr # None
    BY <1>1 DEF Claims, Bound
  <2> QED
    BY <2>1, <2>2
<1>3. Executable(req[a]) /\ req[a].ver = bind[c].dver
  BY <1>1 DEF ClaimAuthorized
<1>4. req[a].state \in Terminal /\ req[a].state # "absent"
  BY <1>3 DEF Executable, Terminal
<1>5. SameDecision(a)
  BY <1>1, <1>2, <1>4 DEF RequestsStep, Inserted, Decided, BoundTo
<1> QED
  BY <1>1, <1>3, <1>5 DEF SameDecision, Executable

\* The fence of every lifecycle that keeps its request and version.
LEMMA StepKeepsFences ==
  ASSUME TypeInv, Fenced, RequestsStep, VersionsStep
  PROVE  Fenced'
<1>1. ASSUME NEW a \in Approvals, req'[a].state = "absent" PROVE req'[a].ver = 0
  <2>1. SameDecision(a)
    BY <1>1 DEF RequestsStep, Inserted, Decided
  <2>2. req[a].state = "absent" => req[a].ver = 0
    BY DEF Fenced
  <2> QED
    BY <1>1, <2>1, <2>2 DEF SameDecision
<1>2. ASSUME NEW l \in Dispatches, lc'[l].pc \in BeforePending
      PROVE  LET r == req'[lc'[l].appr] IN
               /\ r.state # "absent"
               /\ r.ver >= lc'[l].ver
               /\ r.ver = lc'[l].ver => r.state \in {"created", "pending_user"}
  <2>1. CASE /\ lc[l].pc \in BeforePending
             /\ lc'[l].appr = lc[l].appr /\ lc'[l].ver = lc[l].ver
    <3> DEFINE a == lc[l].appr
    <3>1. a \in Approvals /\ lc[l].ver \in Nat
      BY <2>1 DEF TypeInv, TypeOK, Working, DispatchPcs, BeforePending, Dispatch
    <3>2. req[a].ver \in Nat
      BY <3>1 DEF TypeInv, TypeOK, Request
    <3>3. /\ req[a].state # "absent"
          /\ req[a].ver >= lc[l].ver
          /\ req[a].ver = lc[l].ver => req[a].state \in {"created", "pending_user"}
      BY <2>1 DEF Fenced
    <3>4. CASE SameDecision(a)
      BY Zenon, <2>1, <3>3, <3>4 DEF SameDecision
    <3>5. CASE Decided(a)
      <4>1. req'[a].ver = req[a].ver + 1 /\ req'[a].state # "absent"
        BY <3>5 DEF Decided
      <4>2. req[a].ver + 1 > lc[l].ver
        BY <3>1, <3>2, <3>3
      <4>3. lc'[l].appr = a /\ lc'[l].ver = lc[l].ver
        BY <2>1
      <4> HIDE DEF a
      <4>4. req'[a].ver >= lc[l].ver /\ req'[a].ver # lc[l].ver
        BY <3>1, <3>2, <4>1, <4>2
      <4> QED
        BY <4>1, <4>3, <4>4, Zenon
    <3> QED
      BY Zenon, <3>1, <3>3, <3>4, <3>5 DEF RequestsStep, Inserted
  <2>2. CASE /\ req'[lc'[l].appr].state \in {"created", "pending_user"}
             /\ req'[lc'[l].appr].ver = lc'[l].ver /\ lc'[l].ver \in Nat
    BY <2>2
  <2> QED
    BY <1>2, <2>1, <2>2 DEF VersionsStep
<1> QED
  BY Zenon, <1>1, <1>2 DEF Fenced

LEMMA UntouchedVersions == UNCHANGED lc => VersionsStep
BY DEF VersionsStep

LEMMA MovedVersions ==
  ASSUME TypeInv, NEW l \in Dispatches, lc[l].pc \in BeforePending,
         NEW p \in DispatchPcs, lc' = [lc EXCEPT ![l] = At(lc[l], p)]
  PROVE  VersionsStep
<1>1. lc \in [Dispatches -> Dispatch]
  BY DEF TypeInv, TypeOK
<1>2. lc'[l].appr = lc[l].appr /\ lc'[l].ver = lc[l].ver
  BY <1>1, AtDispatch
<1> QED
  BY <1>1, <1>2 DEF VersionsStep

LEMMA ParkedVersions ==
  ASSUME TypeInv, NEW l \in Dispatches, lc[l].pc \in BeforePending,
         NEW n \in Nat, lc' = [lc EXCEPT ![l] = Parked(lc[l], n)]
  PROVE  VersionsStep
<1>1. lc \in [Dispatches -> Dispatch]
  BY DEF TypeInv, TypeOK
<1>2. lc'[l].appr = lc[l].appr /\ lc'[l].ver = lc[l].ver
  BY <1>1, ParkedFields
<1> QED
  BY <1>1, <1>2 DEF VersionsStep

LEMMA EndedVersions ==
  ASSUME TypeInv, NEW l \in Dispatches, lc' = [lc EXCEPT ![l] = Ended(NoDispatch)]
  PROVE  VersionsStep
<1>1. lc \in [Dispatches -> Dispatch]
  BY DEF TypeInv, TypeOK
<1>2. lc'[l].pc = "done"
  BY <1>1, EndedFields
<1> QED
  BY <1>1, <1>2 DEF VersionsStep, BeforePending

LEMMA StartedVersions ==
  ASSUME TypeInv, NEW l \in Dispatches, NEW a \in Approvals, NEW c \in Calls,
         NEW o \in Calls \cup {None}, NEW t \in Turns \cup {None},
         StartDispatch(l, a, c, o, t),
         req'[a].state \in {"created", "pending_user"}, req'[a].ver = req[a].ver
  PROVE  VersionsStep
<1>1. lc \in [Dispatches -> Dispatch] /\ req[a].ver \in Nat
  BY DEF TypeInv, TypeOK, Request
<1>2. lc'[l].appr = a /\ lc'[l].ver = req[a].ver
  BY Zenon, <1>1 DEF StartDispatch
<1>3. \A m \in Dispatches \ {l} : lc'[m] = lc[m]
  BY <1>1 DEF StartDispatch
<1> QED
  BY <1>1, <1>2, <1>3 DEF VersionsStep

\* What a step that is no attempt's does.
StoreStep ==
  RequestsStep /\ RowsStep /\ VersionsStep /\ UNCHANGED <<exe, runs>> /\ OneCall'

LEMMA CreateRequestStore ==
  ASSUME IInv, NEW l \in Dispatches, NEW a \in Approvals, NEW c \in Calls,
         NEW t \in Turns \cup {None}, NEW k \in Kinds, CreateRequest(l, a, c, t, k)
  PROVE  StoreStep
<1>1. RequestsStep /\ RowsStep
  BY Zenon, CreateRequestStep, UntouchedRows DEF IInv, CreateRequest
<1>2. req'[a].state = "created" /\ req'[a].ver = req[a].ver
  BY NewRequestFields DEF IInv, TypeInv, TypeOK, Fenced, CreateRequest
<1>3. VersionsStep
  BY <1>2, StartedVersions DEF IInv, CreateRequest
<1> QED
  BY <1>1, <1>3 DEF IInv, StoreStep, CreateRequest, OneCall, BoundTo

LEMMA ReplacePreparedStore ==
  ASSUME IInv, NEW l \in Dispatches, NEW a \in Approvals, NEW c \in Calls,
         NEW t \in Turns \cup {None}, NEW k \in Kinds, NEW p \in Approvals,
         ReplacePrepared(l, a, c, t, k, p)
  PROVE  StoreStep
<1>1. RequestsStep /\ RowsStep
  BY ReplacePreparedStep DEF IInv
<1>2. req'[a].state = "created" /\ req'[a].ver = req[a].ver
  BY Zenon, NewRequestFields DEF IInv, TypeInv, TypeOK, Fenced, ReplacePrepared
<1>3. VersionsStep
  BY Zenon, <1>2, StartedVersions DEF IInv, ReplacePrepared
<1>4. \A x \in Calls : bind'[x].appr \in {None, bind[x].appr}
  BY Zenon, UnclaimedFields DEF ReplacePrepared, NoBinding
<1>5. OneCall'
  <2>1. OneCall
    BY DEF IInv
  <2>2. ASSUME NEW b \in Approvals, NEW x \in Calls, BoundTo(b, x)' PROVE BoundTo(b, x)
    BY Zenon, <1>4, <2>2, NoneIsNew DEF BoundTo
  <2> QED
    BY <2>1, <2>2 DEF OneCall
<1> QED
  BY Zenon, <1>1, <1>3, <1>5 DEF StoreStep, ReplacePrepared

LEMMA ResumeRequestStore ==
  ASSUME IInv, NEW l \in Dispatches, NEW a \in Approvals, NEW c \in Calls,
         NEW t \in Turns \cup {None}, ResumeRequest(l, a, c, t)
  PROVE  StoreStep
<1>1. req[a].call \in Calls \cup {None}
  BY DEF IInv, TypeInv, TypeOK, Request
<1>2. VersionsStep
  BY Zenon, <1>1, StartedVersions DEF IInv, ResumeRequest, Undecided
<1> QED
  BY <1>2, UntouchedRequests, UntouchedRows
     DEF IInv, StoreStep, ResumeRequest, OneCall, BoundTo

LEMMA AutoDecideStore ==
  ASSUME IInv, NEW l \in Dispatches, NEW outcome \in {"auto_approved", "auto_denied"},
         AutoDecide(l, outcome)
  PROVE  StoreStep
<1>1. RequestsStep /\ RowsStep /\ VersionsStep
  BY Zenon, AutoDecideStep, UntouchedRows, EndedVersions DEF IInv, AutoDecide
<1> QED
  BY Zenon, <1>1 DEF IInv, StoreStep, AutoDecide, OneCall, BoundTo

LEMMA ParkBindingStore ==
  ASSUME IInv, NEW l \in Dispatches, ParkBinding(l)
  PROVE  StoreStep
<1> DEFINE a == lc[l].appr
           c == lc[l].call
           n == ParkNonce(a, c, None)
<1>1. a \in Approvals /\ c \in Calls /\ n \in Nat
  BY Zenon, TypeParkNonce DEF IInv, TypeInv, Working, DispatchPcs, ParkBinding
<1>2. lc' = [lc EXCEPT ![l] = Parked(lc[l], n)] /\ lc[l].pc \in BeforePending
  BY Zenon DEF ParkBinding, BeforePending
<1>3. VersionsStep
  BY Zenon, <1>1, <1>2, ParkedVersions DEF IInv
<1>4. OneCall'
  BY Zenon, <1>1, ParkedOneCall DEF IInv, ParkBinding
<1> QED
  BY Zenon, <1>3, <1>4, ParkBindingStep DEF IInv, StoreStep, ParkBinding

LEMMA DispatchStore ==
  ASSUME IInv, NEW l \in Dispatches, DispatchStep(l)
  PROVE  StoreStep
<1>1. CASE SkipCapture(l)
  <2>1. lc' = [lc EXCEPT ![l] = Parked(lc[l], nonces + 1)] /\ lc[l].pc \in BeforePending
    BY <1>1 DEF SkipCapture, BeforePending
  <2>2. nonces + 1 \in Nat
    BY DEF IInv, TypeInv, TypeOK
  <2>3. VersionsStep
    BY Zenon, <2>1, <2>2, ParkedVersions DEF IInv
  <2> QED
    BY <1>1, <2>3, UntouchedRequests, UntouchedRows
       DEF IInv, StoreStep, SkipCapture, OneCall, BoundTo
<1>2. CASE LinkRootTurn(l)
  <2>1. lc' = [lc EXCEPT ![l] = At(lc[l], "linked")] /\ lc[l].pc \in BeforePending
    BY <1>2 DEF LinkRootTurn, BeforePending
  <2>2. VersionsStep
    BY Zenon, <2>1, MovedVersions DEF IInv, DispatchPcs
  <2> QED
    BY <1>2, <2>2, UntouchedRequests, UntouchedRows
       DEF IInv, StoreStep, LinkRootTurn, OneCall, BoundTo
<1>3. CASE PublishPending(l)
  <2>1. lc' = [lc EXCEPT ![l] = At(lc[l], "pending")] /\ lc[l].pc \in BeforePending
    BY Zenon, <1>3 DEF PublishPending, BeforePending
  <2>2. VersionsStep
    BY Zenon, <2>1, MovedVersions DEF IInv, DispatchPcs
  <2> QED
    BY Zenon, <1>3, <2>2, PublishPendingStep, UntouchedRows
       DEF IInv, StoreStep, PublishPending, OneCall, BoundTo
<1>4. CASE AbortUnpublished(l)
  <2>1. VersionsStep
    BY Zenon, <1>4, EndedVersions DEF IInv, AbortUnpublished
  <2> QED
    BY Zenon, <1>4, <2>1, AbortUnpublishedStep, UntouchedRows
       DEF IInv, StoreStep, AbortUnpublished, OneCall, BoundTo
<1> QED
  BY <1>1, <1>2, <1>3, <1>4, CreateRequestStore, ReplacePreparedStore, ResumeRequestStore,
     AutoDecideStore, ParkBindingStore DEF DispatchStep

LEMMA ReissueStore ==
  ASSUME IInv, NEW d \in Deciders, NEW b \in Approvals, NEW t \in Turns, Reissue(d, b, t)
  PROVE  StoreStep
<1> DEFINE c == dec[d].call
           n == ParkNonce(b, c, GenOf[d])
<1>1. c \in Calls /\ n \in Nat
  BY Zenon, TypeParkNonce DEF IInv, TypeInv, Working, Reissue
<1>2. OneCall'
  BY Zenon, <1>1, ParkedOneCall DEF IInv, Reissue
<1> QED
  BY Zenon, <1>2, ReissueStep, UntouchedVersions DEF IInv, StoreStep, Reissue

LEMMA DecisionStore ==
  ASSUME IInv, NEW d \in Deciders, DecisionStep(d)
  PROVE  StoreStep
<1>1. ASSUME NEW a \in Approvals, ReadRequest(d, a) PROVE StoreStep
  BY Zenon, <1>1, UntouchedRequests, UntouchedRows, UntouchedVersions
     DEF IInv, StoreStep, ReadRequest, OneCall, BoundTo
<1>2. CASE CheckGeneration(d)
  BY <1>2, UntouchedRequests, UntouchedRows, UntouchedVersions
     DEF IInv, StoreStep, CheckGeneration, OneCall, BoundTo
<1>3. CASE ContinueChanged(d)
  BY <1>3, UntouchedRequests, UntouchedRows, UntouchedVersions
     DEF IInv, StoreStep, ContinueChanged, OneCall, BoundTo
<1>4. ASSUME NEW decision \in {"approved", "denied"}, RecordVote(d, decision) PROVE StoreStep
  <2>1. RequestsStep
    BY <1>4, RecordVoteStep DEF IInv
  <2> QED
    BY <1>4, <2>1, UntouchedRows, UntouchedVersions
       DEF IInv, StoreStep, RecordVote, OneCall, BoundTo
<1> QED
  BY <1>1, <1>2, <1>3, <1>4, ReissueStore DEF DecisionStep

LEMMA StoreKeepsIInv ==
  ASSUME IInv, TypeInv', StoreStep
  PROVE  IInv'
<1>1. Claims'
  BY RowsKeepClaims DEF IInv, StoreStep
<1>2. ClaimAuthorized'
  BY StepKeepsAuthorized DEF IInv, StoreStep
<1>3. Fenced'
  BY StepKeepsFences DEF IInv, StoreStep
<1>4. OneAttempt'
  BY DEF IInv, StoreStep, OneAttempt
<1> QED
  BY <1>1, <1>2, <1>3, <1>4 DEF IInv, StoreStep

-----------------------------------------------------------------------------
(* Attempts *)

\* An attempt leaves requests and lifecycles alone, and no row changes hands.
AttemptOnly ==
  /\ UNCHANGED <<req, lc>>
  /\ \A c \in Calls : bind'[c].appr = bind[c].appr

LEMMA AttemptKeepsRest ==
  ASSUME IInv, AttemptOnly
  PROVE  OneCall' /\ Fenced'
<1>1. OneCall'
  BY DEF IInv, OneCall, BoundTo, AttemptOnly
<1>2. Fenced'
  BY DEF IInv, Fenced, AttemptOnly
<1> QED
  BY <1>1, <1>2

LEMMA ReadBindingIInv ==
  ASSUME IInv, TypeInv', NEW e \in Attempts, NEW c \in Calls, ReadBinding(e, c)
  PROVE  IInv'
<1>1. OneCall' /\ Fenced'
  BY AttemptKeepsRest DEF AttemptOnly, ReadBinding
<1>2. exe'[e].pc = "admit" /\ \A f \in Attempts \ {e} : exe'[f] = exe[f]
  BY DEF ReadBinding, IInv, TypeInv, TypeOK
<1>3. bind' = bind /\ runs' = runs /\ req' = req
  BY Zenon DEF ReadBinding
<1>4. Claims'
  <2>1. Claims
    BY DEF IInv
  <2>2. \A x \in Calls : /\ bind'[x].exec # "unclaimed" => bind'[x].appr # None
                         /\ bind'[x].exec = "unclaimed" => runs'[x] = 0
    BY <1>3, <2>1 DEF Claims, Bound
  <2>3. \A f \in Attempts : exe'[f].pc \in {"run", "ran"} => exe'[f] = exe[f]
    BY <1>2
  <2>4. \A f \in Attempts : exe'[f].pc \in {"run", "ran"} =>
          bind'[exe'[f].call].exec = "claimed" /\ bind'[exe'[f].call].token = f
    BY Zenon, <1>3, <2>1, <2>3 DEF Claims
  <2>5. \A f \in Attempts : exe'[f].pc = "run" => runs'[exe'[f].call] = 0
    BY <1>3, <2>1, <2>3 DEF Claims
  <2> QED
    BY Zenon, <2>2, <2>4, <2>5 DEF Claims, Bound
<1>5. OneAttempt' /\ ClaimAuthorized'
  BY Zenon, <1>3 DEF IInv, OneAttempt, ClaimAuthorized, Executable
<1> QED
  BY <1>1, <1>4, <1>5 DEF IInv

LEMMA AdmitBindingIInv ==
  ASSUME IInv, TypeInv', NEW e \in Attempts, AdmitBinding(e)
  PROVE  IInv'
<1>1. OneCall' /\ Fenced'
  BY Zenon, AttemptKeepsRest DEF AttemptOnly, AdmitBinding
<1>2. exe'[e].pc \in {"claim", "done"} /\ \A f \in Attempts \ {e} : exe'[f] = exe[f]
  BY Zenon, AtAttempt, EndedFields DEF AdmitBinding, IInv, TypeInv, TypeOK
<1>3. bind' = bind /\ runs' = runs /\ req' = req
  BY Zenon DEF AdmitBinding
<1>4. Claims'
  BY <1>2, <1>3 DEF IInv, Claims, Bound
<1>5. OneAttempt' /\ ClaimAuthorized'
  BY Zenon, <1>3 DEF IInv, OneAttempt, ClaimAuthorized, Executable
<1> QED
  BY <1>1, <1>4, <1>5 DEF IInv

\* The row a claim takes.
LEMMA ClaimedRow ==
  ASSUME bind \in [Calls -> Binding], NEW c \in Calls, NEW e \in Attempts, NEW v \in Nat,
         bind' = [bind EXCEPT ![c] = Claimed(bind[c], e, v)]
  PROVE  /\ bind'[c].appr = bind[c].appr /\ bind'[c].exec = "claimed"
         /\ bind'[c].token = e /\ bind'[c].dver = v
<1>1. bind'[c] = Claimed(bind[c], e, v) /\ bind[c] \in Binding
  OBVIOUS
<1>2. Claimed(bind[c], e, v).appr = bind[c].appr /\ Claimed(bind[c], e, v).exec = "claimed"
  BY <1>1, ClaimedFields
<1>3. Claimed(bind[c], e, v).token = e /\ Claimed(bind[c], e, v).dver = v
  BY <1>1, ClaimedFields
<1> QED
  BY <1>1, <1>2, <1>3

\* A claim takes an unclaimed row, under a decision that is still the one read.
LEMMA ClaimBindingIInv ==
  ASSUME IInv, TypeInv', NEW e \in Attempts, ClaimBinding(e)
  PROVE  IInv'
<1> DEFINE c == exe[e].call
           a == exe[e].appr
<1>1. /\ c \in Calls /\ a \in Approvals /\ exe[e].ver \in Nat
      /\ exe \in [Attempts -> Attempt] /\ bind \in [Calls -> Binding]
  BY Zenon DEF IInv, TypeInv, TypeOK, Working, ClaimBinding, Attempt
<1>2. bind[c].appr = a /\ req' = req /\ lc' = lc /\ runs' = runs
  BY Zenon DEF ClaimBinding, SameBinding, BoundTo
<1> HIDE DEF a, c
<1>3. CASE exe' = [exe EXCEPT ![e] = Ended(NoAttempt)] /\ bind' = bind
  <2>1. exe'[e].pc = "done" /\ \A f \in Attempts \ {e} : exe'[f] = exe[f]
    BY <1>1, <1>3, EndedFields
  <2>2. Claims'
    <3>1. Claims
      BY DEF IInv
    <3>2. \A f \in Attempts : exe'[f].pc \in {"run", "ran"} => exe'[f] = exe[f]
      BY <2>1
    <3> QED
      <4>1. \A x \in Calls : bind'[x].exec # "unclaimed" => bind'[x].appr # None
        BY <1>3, <3>1 DEF Claims, Bound
      <4>2. \A f \in Attempts : exe'[f].pc \in {"run", "ran"} =>
              bind'[exe'[f].call].exec = "claimed" /\ bind'[exe'[f].call].token = f
        <5> SUFFICES ASSUME NEW f \in Attempts, exe'[f].pc \in {"run", "ran"}
                     PROVE  bind'[exe'[f].call].exec = "claimed" /\ bind'[exe'[f].call].token = f
          OBVIOUS
        <5>1. exe'[f] = exe[f] /\ exe[f].pc \in {"run", "ran"}
          BY <3>2
        <5>2. bind[exe[f].call].exec = "claimed" /\ bind[exe[f].call].token = f
          BY <3>1, <5>1 DEF Claims
        <5> QED
          BY <1>3, <5>1, <5>2
      <4>3. \A x \in Calls : bind'[x].exec = "unclaimed" => runs'[x] = 0
        BY <1>2, <1>3, <3>1 DEF Claims
      <4>4. \A f \in Attempts : exe'[f].pc = "run" => runs'[exe'[f].call] = 0
        BY <1>2, <3>1, <3>2 DEF Claims
      <4> QED
        BY <4>1, <4>2, <4>3, <4>4 DEF Claims, Bound
  <2>3. OneAttempt' /\ ClaimAuthorized'
    BY <1>2, <1>3 DEF IInv, OneAttempt, ClaimAuthorized, Executable
  <2>4. OneCall' /\ Fenced'
    BY <1>2, <1>3, AttemptKeepsRest DEF AttemptOnly
  <2> QED
    BY <2>2, <2>3, <2>4 DEF IInv
<1>4. CASE /\ bind[c].exec = "unclaimed"
           /\ req[a].ver = exe[e].ver
           /\ Executable(req[a])
           /\ bind' = [bind EXCEPT ![c] = Claimed(bind[c], e, exe[e].ver)]
           /\ exe' = [exe EXCEPT ![e] = At(exe[e], "run")]
  <2>1. /\ bind'[c].appr = a /\ bind'[c].exec = "claimed"
        /\ bind'[c].token = e /\ bind'[c].dver = exe[e].ver
    <3> DEFINE v == exe[e].ver
    <3>1. /\ bind \in [Calls -> Binding] /\ c \in Calls /\ v \in Nat
          /\ bind' = [bind EXCEPT ![c] = Claimed(bind[c], e, v)]
      BY Zenon, <1>1, <1>4
    <3> HIDE DEF v
    <3>2. bind'[c] = Claimed(bind[c], e, v) /\ bind[c] \in Binding
      BY <3>1
    <3> HIDE DEF c
    <3>3. /\ bind'[c].appr = bind[c].appr /\ bind'[c].exec = "claimed"
          /\ bind'[c].token = e /\ bind'[c].dver = v
      BY Zenon, <3>2, ClaimedRow, <3>1
    <3> QED
      BY <1>2, <3>3 DEF v
  <2>2. \A x \in Calls \ {c} : bind'[x] = bind[x]
    BY <1>1, <1>4
  <2>3. exe'[e].pc = "run" /\ exe'[e].call = c
    <3>1. exe'[e] = At(exe[e], "run") /\ exe[e] \in Attempt
      BY <1>1, <1>4
    <3> QED
      BY <3>1, AtAttempt DEF c
  <2>4. \A f \in Attempts \ {e} : exe'[f] = exe[f]
    BY Zenon, <1>1, <1>4
  <2>5. \A f \in Attempts \ {e} : exe[f].pc \in {"run", "ran"} => exe[f].call # c
    BY Zenon, <1>4 DEF IInv, Claims, c
  <2>6. \A f \in Attempts : exe[f].pc \in {"run", "ran"} => exe[f].call \in Calls
    BY Zenon DEF IInv, TypeInv, Working
  <2>7. Claims'
    <3>1. \A x \in Calls : bind'[x].exec # "unclaimed" => bind'[x].appr # None
      <4>1. \A x \in Calls : bind[x].exec # "unclaimed" => bind[x].appr # None
        BY Zenon DEF IInv, Claims, Bound
      <4>2. bind'[c].appr # None
        BY <1>1, <2>1, NoneIsNew
      <4> QED
        BY <2>2, <4>1, <4>2
    <3>2. \A f \in Attempts : exe'[f].pc \in {"run", "ran"} =>
            bind'[exe'[f].call].exec = "claimed" /\ bind'[exe'[f].call].token = f
      <4> SUFFICES ASSUME NEW f \in Attempts, exe'[f].pc \in {"run", "ran"}
                   PROVE  bind'[exe'[f].call].exec = "claimed" /\ bind'[exe'[f].call].token = f
        OBVIOUS
      <4>1. CASE f = e
        BY <2>1, <2>3, <4>1
      <4>2. CASE f # e
        <5>1. exe'[f] = exe[f] /\ exe[f].call \in Calls \ {c}
          BY <2>4, <2>5, <2>6, <4>2
        <5>2. bind[exe[f].call].exec = "claimed" /\ bind[exe[f].call].token = f
          BY <5>1 DEF IInv, Claims
        <5> QED
          BY <2>2, <5>1, <5>2
      <4> QED
        BY <4>1, <4>2
    <3>3. \A x \in Calls : bind'[x].exec = "unclaimed" => runs'[x] = 0
      BY Zenon, <1>2, <2>1, <2>2 DEF IInv, Claims
    <3>4. \A f \in Attempts : exe'[f].pc = "run" => runs'[exe'[f].call] = 0
      <4>1. runs[c] = 0
        BY Zenon, <1>1, <1>4 DEF IInv, Claims
      <4>2. \A f \in Attempts : exe[f].pc = "run" => runs[exe[f].call] = 0
        BY Zenon DEF IInv, Claims
      <4> QED
        BY Zenon, <1>2, <2>3, <2>4, <4>1, <4>2
    <3> QED
      BY <3>1, <3>2, <3>3, <3>4 DEF Claims, Bound
  <2>8. ClaimAuthorized'
    <3> SUFFICES ASSUME NEW x \in Calls, bind'[x].exec # "unclaimed"
                 PROVE  /\ Executable(req'[bind'[x].appr])
                        /\ req'[bind'[x].appr].ver = bind'[x].dver
      BY DEF ClaimAuthorized, Executable
    <3>1. CASE x = c
      BY Zenon, <1>2, <1>4, <2>1, <3>1
    <3>2. CASE x # c
      BY Zenon, <1>2, <2>2, <3>2 DEF IInv, ClaimAuthorized
    <3> QED
      BY Zenon, <3>1, <3>2
  <2>9. OneAttempt'
    BY <1>2 DEF IInv, OneAttempt
  <2>10. OneCall' /\ Fenced'
    BY Zenon, <1>2, <2>1, <2>2, AttemptKeepsRest DEF AttemptOnly
  <2> QED
    BY <2>7, <2>8, <2>9, <2>10 DEF IInv
<1> QED
  BY Zenon, <1>3, <1>4, ClaimBindingCases DEF a, c

\* The holder of the claim starts the consumer, once.
LEMMA RunCallIInv ==
  ASSUME IInv, TypeInv', NEW e \in Attempts, RunCall(e)
  PROVE  IInv'
<1> DEFINE c == exe[e].call
<1>1. /\ c \in Calls /\ exe[e].pc = "run"
      /\ exe \in [Attempts -> Attempt] /\ runs \in [Calls -> Nat]
  BY Zenon DEF IInv, TypeInv, TypeOK, Working, RunCall
<1>2. bind' = bind /\ req' = req /\ lc' = lc
  BY DEF RunCall
<1>3. runs[c] = 0 /\ bind[c].exec = "claimed" /\ bind[c].token = e
  BY Zenon, <1>1 DEF IInv, Claims
<1>4. runs' = [runs EXCEPT ![c] = runs[c] + 1] /\ exe' = [exe EXCEPT ![e] = At(exe[e], "ran")]
  BY DEF RunCall
<1>5. runs'[c] = 1 /\ \A x \in Calls \ {c} : runs'[x] = runs[x]
  <2> HIDE DEF c
  <2>1. runs' = [runs EXCEPT ![c] = 1]
    BY <1>3, <1>4
  <2> QED
    BY <1>1, <2>1
<1>6. exe'[e].pc = "ran" /\ exe'[e].call = c
  BY <1>1, <1>4, AtAttempt
<1>7. \A f \in Attempts \ {e} : exe'[f] = exe[f]
  BY <1>1, <1>4
<1>8. \A f \in Attempts \ {e} : exe[f].pc \in {"run", "ran"} => exe[f].call \in Calls \ {c}
  BY Zenon, <1>3 DEF IInv, Claims, TypeInv, Working
<1>9. Claims'
  <2> HIDE DEF c
  <2>1. Claims
    BY DEF IInv
  <2>2. \A x \in Calls : bind'[x].exec # "unclaimed" => bind'[x].appr # None
    BY Zenon, <1>2, <2>1 DEF Claims, Bound
  <2>3. \A f \in Attempts : exe'[f].pc \in {"run", "ran"} =>
          bind'[exe'[f].call].exec = "claimed" /\ bind'[exe'[f].call].token = f
    <3>1. \A f \in Attempts : exe[f].pc \in {"run", "ran"} =>
            bind[exe[f].call].exec = "claimed" /\ bind[exe[f].call].token = f
      BY <2>1 DEF Claims
    <3> SUFFICES ASSUME NEW f \in Attempts, exe'[f].pc \in {"run", "ran"}
                 PROVE  bind'[exe'[f].call].exec = "claimed" /\ bind'[exe'[f].call].token = f
      OBVIOUS
    <3>2. CASE f = e
      BY <1>2, <1>3, <1>6, <3>2
    <3>3. CASE f # e
      BY <1>2, <1>7, <3>1, <3>3
    <3> QED
      BY <3>2, <3>3
  <2>4. \A x \in Calls : bind'[x].exec = "unclaimed" => runs'[x] = 0
    <3>1. \A x \in Calls : bind[x].exec = "unclaimed" => runs[x] = 0
      BY <2>1 DEF Claims
    <3> QED
      BY <1>2, <1>3, <1>5, <3>1
  <2>5. \A f \in Attempts : exe'[f].pc = "run" => runs'[exe'[f].call] = 0
    <3>1. \A f \in Attempts : exe[f].pc = "run" => runs[exe[f].call] = 0
      BY <2>1 DEF Claims
    <3> QED
      <4> SUFFICES ASSUME NEW f \in Attempts, exe'[f].pc = "run"
                   PROVE  runs'[exe'[f].call] = 0
        OBVIOUS
      <4>1. exe'[f] = exe[f] /\ exe[f].call \in Calls \ {c}
        BY <1>6, <1>7, <1>8
      <4>2. runs[exe[f].call] = 0
        BY <3>1, <4>1
      <4> QED
        BY <1>5, <4>1, <4>2
  <2> QED
    BY <2>2, <2>3, <2>4, <2>5 DEF Claims, Bound
<1>10. OneAttempt'
  BY <1>5 DEF IInv, OneAttempt
<1>11. ClaimAuthorized'
  BY Zenon, <1>2 DEF IInv, ClaimAuthorized, Executable
<1>12. OneCall' /\ Fenced'
  BY <1>2, AttemptKeepsRest DEF AttemptOnly
<1> QED
  BY <1>9, <1>10, <1>11, <1>12 DEF IInv

\* Only the claim that ran settles the row.
LEMMA CompleteBindingIInv ==
  ASSUME IInv, TypeInv', NEW e \in Attempts, CompleteBinding(e)
  PROVE  IInv'
<1> DEFINE c == exe[e].call
<1>1. /\ c \in Calls /\ exe \in [Attempts -> Attempt] /\ bind \in [Calls -> Binding]
  BY Zenon DEF IInv, TypeInv, TypeOK, Working, CompleteBinding
<1>2. /\ bind[c].exec = "claimed" /\ bind[c].token = e
      /\ bind' = [bind EXCEPT ![c] = Completed(bind[c])]
      /\ exe' = [exe EXCEPT ![e] = Ended(NoAttempt)]
      /\ req' = req /\ lc' = lc /\ runs' = runs
  BY DEF CompleteBinding
<1>3. /\ bind'[c].exec = "completed" /\ bind'[c].appr = bind[c].appr
      /\ bind'[c].dver = bind[c].dver
  BY <1>1, <1>2, CompletedFields
<1>4. \A x \in Calls \ {c} : bind'[x] = bind[x]
  BY <1>1, <1>2
<1>5. exe'[e].pc = "done" /\ \A f \in Attempts \ {e} : exe'[f] = exe[f]
  BY <1>1, <1>2, EndedFields
<1>6. \A f \in Attempts \ {e} : exe[f].pc \in {"run", "ran"} => exe[f].call \in Calls \ {c}
  BY Zenon, <1>2 DEF IInv, Claims, TypeInv, Working
<1>7. Claims'
  <2> HIDE DEF c
  <2>1. Claims
    BY DEF IInv
  <2>2. \A x \in Calls : bind'[x].appr = bind[x].appr
    BY <1>3, <1>4
  <2>3. \A x \in Calls : bind'[x].exec # "unclaimed" <=> bind[x].exec # "unclaimed"
    BY <1>2, <1>3, <1>4
  <2>4. \A x \in Calls : bind'[x].exec # "unclaimed" => bind'[x].appr # None
    BY <2>1, <2>2, <2>3 DEF Claims, Bound
  <2>5. \A f \in Attempts : exe'[f].pc \in {"run", "ran"} =>
          exe'[f] = exe[f] /\ exe[f].call \in Calls \ {c}
    BY <1>5, <1>6
  <2>6. \A f \in Attempts : exe'[f].pc \in {"run", "ran"} =>
          bind'[exe'[f].call].exec = "claimed" /\ bind'[exe'[f].call].token = f
    <3>1. \A f \in Attempts : exe[f].pc \in {"run", "ran"} =>
            bind[exe[f].call].exec = "claimed" /\ bind[exe[f].call].token = f
      BY <2>1 DEF Claims
    <3> QED
      <4> SUFFICES ASSUME NEW f \in Attempts, exe'[f].pc \in {"run", "ran"}
                   PROVE  bind'[exe'[f].call].exec = "claimed" /\ bind'[exe'[f].call].token = f
        OBVIOUS
      <4>1. exe'[f] = exe[f] /\ exe[f].call \in Calls \ {c}
        BY <2>5
      <4>2. bind[exe[f].call].exec = "claimed" /\ bind[exe[f].call].token = f
        BY Zenon, <3>1, <4>1
      <4> QED
        BY <1>4, <4>1, <4>2
  <2>7. \A x \in Calls : bind'[x].exec = "unclaimed" => runs'[x] = 0
    BY Zenon, <1>2, <2>1, <2>3 DEF Claims
  <2>8. \A f \in Attempts : exe'[f].pc = "run" => runs'[exe'[f].call] = 0
    <3> SUFFICES ASSUME NEW f \in Attempts, exe'[f].pc = "run"
                 PROVE  runs'[exe'[f].call] = 0
      OBVIOUS
    <3>1. exe'[f] = exe[f]
      BY <2>5
    <3>2. runs[exe[f].call] = 0
      BY <2>1, <3>1 DEF Claims
    <3> QED
      BY Zenon, <1>2, <3>1, <3>2
  <2> QED
    BY <2>4, <2>6, <2>7, <2>8 DEF Claims, Bound
<1>8. ClaimAuthorized'
  <2> SUFFICES ASSUME NEW x \in Calls, bind'[x].exec # "unclaimed"
               PROVE  /\ Executable(req'[bind'[x].appr])
                      /\ req'[bind'[x].appr].ver = bind'[x].dver
    BY DEF ClaimAuthorized, Executable
  <2>1. bind[x].exec # "unclaimed" /\ bind'[x].appr = bind[x].appr /\ bind'[x].dver = bind[x].dver
    BY Zenon, <1>2, <1>3, <1>4
  <2> QED
    BY Zenon, <1>2, <2>1 DEF IInv, ClaimAuthorized
<1>9. OneAttempt'
  BY <1>2 DEF IInv, OneAttempt
<1>10. OneCall' /\ Fenced'
  BY <1>2, <1>3, <1>4, AttemptKeepsRest DEF AttemptOnly
<1> QED
  BY <1>7, <1>8, <1>9, <1>10 DEF IInv

-----------------------------------------------------------------------------
(* The theorems *)

LEMMA IInvInit == Init => IInv
<1> SUFFICES ASSUME Init PROVE IInv
  OBVIOUS
<1>1. TypeInv
  BY TypeInit
<1>2. \A c \in Calls : bind[c].appr = None /\ bind[c].exec = "unclaimed" /\ runs[c] = 0
  BY UnclaimedFields DEF Init, NoBinding
<1>3. Claims
  BY Zenon, <1>2 DEF Init, Claims, NoAttempt
<1>4. OneCall
  BY <1>2, NoneIsNew DEF OneCall, BoundTo
<1>5. Fenced
  BY Zenon DEF Init, Fenced, NoRequest, NoDispatch, BeforePending
<1>6. OneAttempt /\ ClaimAuthorized
  BY <1>2 DEF OneAttempt, ClaimAuthorized
<1> QED
  BY <1>1, <1>3, <1>4, <1>5, <1>6 DEF IInv

\* Every step but an attempt's is a store step.
LEMMA NextCases ==
  ASSUME IInv, Next
  PROVE  StoreStep \/ \E e \in Attempts : AttemptStep(e)
<1>1. ASSUME NEW t \in Turns, NEW g \in Gens, RecordRootTurn(t, g) PROVE StoreStep
  BY <1>1, UntouchedRequests, UntouchedRows, UntouchedVersions
     DEF IInv, StoreStep, RecordRootTurn, procs, OneCall, BoundTo
<1>2. ASSUME NEW a \in Approvals, CancelPending(a) PROVE StoreStep
  <2>1. RequestsStep
    BY <1>2, CancelPendingStep DEF IInv
  <2> QED
    BY <1>2, <2>1, UntouchedRows, UntouchedVersions
       DEF IInv, StoreStep, CancelPending, procs, OneCall, BoundTo
<1> QED
  BY <1>1, <1>2, DispatchStore, DecisionStore DEF Next

LEMMA IInvNext == IInv /\ [Next]_vars => IInv'
<1> SUFFICES ASSUME IInv, [Next]_vars PROVE IInv'
  OBVIOUS
<1>1. TypeInv'
  BY TypeNext DEF IInv
<1>2. CASE UNCHANGED vars
  <2>1. StoreStep
    BY <1>2, UntouchedRequests, UntouchedRows, UntouchedVersions
       DEF IInv, vars, StoreStep, OneCall, BoundTo
  <2> QED
    BY <1>1, <2>1, StoreKeepsIInv
<1>3. CASE StoreStep
  BY <1>1, <1>3, StoreKeepsIInv
<1>4. ASSUME NEW e \in Attempts, AttemptStep(e) PROVE IInv'
  BY <1>1, <1>4, ReadBindingIInv, AdmitBindingIInv, ClaimBindingIInv, RunCallIInv,
     CompleteBindingIInv DEF AttemptStep
<1> QED
  BY <1>2, <1>3, <1>4, NextCases

LEMMA Invariance == Spec => []IInv
BY IInvInit, IInvNext, PTL DEF Spec

\* The tables and the coroutines of the ledger keep their types.
THEOREM TypeCorrect == Spec => []TypeOK
<1>1. IInv => TypeOK
  BY DEF IInv, TypeInv
<1> QED
  BY <1>1, Invariance, PTL

\* The consumer of a captured call is started at most once, for any number of
\* approvals, calls, turns, dispatches, deciders and attempts.
THEOREM AtMostOneAttempt == Spec => []OneAttempt
<1>1. IInv => OneAttempt
  BY DEF IInv
<1> QED
  BY <1>1, Invariance, PTL

\* A claimed or completed call keeps the executable decision it was claimed
\* under.
THEOREM ClaimsAuthorized == Spec => []ClaimAuthorized
<1>1. IInv => ClaimAuthorized
  BY DEF IInv
<1> QED
  BY <1>1, Invariance, PTL

\* A terminal decision changes only when a re-issue expires an approved request
\* none of whose calls is claimed.
THEOREM DecisionsAreFinal == Spec => DecisionFinal
<1> DEFINE Final == \A a \in Approvals :
             req[a].state \in Terminal /\ req'[a].state # req[a].state =>
               /\ req[a].state = "approved" /\ req'[a].state = "expired"
               /\ \A c \in Calls : BoundTo(a, c) => bind[c].exec = "unclaimed"
<1>1. IInv /\ [Next]_vars => [Final]_vars
  <2> SUFFICES ASSUME IInv, Next PROVE Final
    OBVIOUS
  <2>1. CASE RequestsStep
    BY <2>1, StateNames DEF RequestsStep, SameDecision, Inserted, Decided
  <2>2. ASSUME NEW e \in Attempts, AttemptStep(e) PROVE RequestsStep
    <3>1. req' = req
      BY Zenon, <2>2 DEF AttemptStep, ReadBinding, AdmitBinding, ClaimBinding, RunCall, CompleteBinding
    <3> QED
      BY <3>1, UntouchedRequests
  <2> QED
    BY Zenon, <2>1, <2>2, NextCases DEF StoreStep
<1> QED
  BY <1>1, Invariance, PTL DEF Spec, DecisionFinal

\* No step takes a claim over or returns it: a claimed row only completes.
THEOREM ClaimsAreKept == Spec => ClaimKept
<1> DEFINE Kept == \A c \in Calls : bind[c].exec # "unclaimed" =>
             /\ bind'[c] = [bind[c] EXCEPT !.exec = bind'[c].exec]
             /\ bind'[c].exec \in {bind[c].exec, "completed"}
<1>1. IInv /\ [Next]_vars => [Kept]_vars
  <2> SUFFICES ASSUME IInv, Next PROVE Kept
    OBVIOUS
  <2>1. bind \in [Calls -> Binding]
    BY DEF IInv, TypeInv, TypeOK
  <2>2. ASSUME NEW c \in Calls, bind'[c] = bind[c]
        PROVE  bind'[c] = [bind[c] EXCEPT !.exec = bind'[c].exec]
    BY <2>1, <2>2 DEF Binding
  <2>3. CASE RowsStep
    BY <2>2, <2>3 DEF RowsStep
  <2>4. ASSUME NEW e \in Attempts, AttemptStep(e) PROVE Kept
    <3>1. CASE bind' = bind
      BY <2>2, <3>1
    <3>2. CASE ClaimBinding(e)
      <4>1. exe[e].call \in Calls
        BY Zenon, <3>2 DEF IInv, TypeInv, Working, ClaimBinding
      <4>2. CASE bind[exe[e].call].exec = "unclaimed" /\ bind' = [bind EXCEPT ![exe[e].call] = Claimed(@, e, exe[e].ver)]
        <5>1. \A c \in Calls \ {exe[e].call} : bind'[c] = bind[c]
          BY <2>1, <4>1, <4>2
        <5> QED
          BY <2>2, <4>2, <5>1
      <4> QED
        BY <3>1, <3>2, <4>2, ClaimBindingCases
    <3>3. CASE CompleteBinding(e)
      <4>1. bind' = [bind EXCEPT ![exe[e].call] = Completed(bind[exe[e].call])] /\ exe[e].call \in Calls
        BY Zenon, <3>3 DEF IInv, TypeInv, Working, CompleteBinding
      <4>2. \A c \in Calls \ {exe[e].call} : bind'[c] = bind[c]
        BY <2>1, <4>1
      <4>3. bind'[exe[e].call] = Completed(bind[exe[e].call])
        BY <2>1, <4>1
      <4> QED
        BY <2>1, <2>2, <4>1, <4>2, <4>3, CompletedFields
    <3> QED
      BY <2>4, <3>1, <3>2, <3>3 DEF AttemptStep, ReadBinding, AdmitBinding, RunCall
  <2> QED
    BY <2>3, <2>4, NextCases DEF StoreStep
<1> QED
  BY <1>1, Invariance, PTL DEF Spec, ClaimKept

-----------------------------------------------------------------------------
(* The calls the requests name and the turns that link them *)

\* The request of a row exists and names the call.
Named == \A c \in Calls : Bound(c) =>
  /\ req[bind[c].appr].state # "absent"
  /\ req[bind[c].appr].call = c

\* Only recorded turns link calls, a lifecycle holds a recorded turn, and what a route
\* is about to re-issue stays linked from the turn it located.
Linked ==
  /\ \A t \in Turns : turns[t].refs # {} => Recorded(t)
  /\ \A l \in Dispatches : lc[l].pc \in DispatchPcs /\ lc[l].turn # None => Recorded(lc[l].turn)
  /\ \A d \in Deciders : dec[d].pc = "reissue" =>
       dec[d].turn \in Turns /\ <<dec[d].call, dec[d].nonce>> \in turns[dec[d].turn].refs

LinkIInv == IInv /\ Named /\ Linked

\* A row is kept with the call its request names, or written for that call; a row goes
\* away only with the last chance to decide its request, or to another row of it.
CallsStep ==
  /\ \A c \in Calls : bind'[c].appr # None =>
       \/ bind[c].appr = bind'[c].appr /\ req'[bind'[c].appr].call = req[bind'[c].appr].call
       \/ req'[bind'[c].appr].state # "absent" /\ req'[bind'[c].appr].call = c
  /\ \A c \in Calls : Bound(c) /\ bind'[c].appr # bind[c].appr =>
       \/ req'[bind[c].appr].state # "pending_user"
       \/ \E x \in Calls : bind'[x].appr = bind[c].appr

\* Requests are not deleted.
LEMMA RequestsStay ==
  ASSUME RequestsStep, NEW a \in Approvals, req[a].state # "absent"
  PROVE  req'[a].state # "absent"
BY Zenon DEF RequestsStep, SameDecision, Inserted, Decided

LEMMA BoundApproval ==
  ASSUME TypeInv, NEW c \in Calls, Bound(c)
  PROVE  bind[c].appr \in Approvals
BY DEF TypeInv, TypeOK, Binding, Bound

LEMMA CallsKeepNamed ==
  ASSUME TypeInv, TypeInv', Named, RequestsStep, CallsStep
  PROVE  Named'
<1> SUFFICES ASSUME NEW c \in Calls, bind'[c].appr # None
             PROVE  /\ req'[bind'[c].appr].state # "absent"
                    /\ req'[bind'[c].appr].call = c
  BY DEF Named, Bound
<1> DEFINE a == bind'[c].appr
<1>1. a \in Approvals
  BY DEF TypeInv, TypeOK, Binding
<1>2. CASE bind[c].appr = a /\ req'[a].call = req[a].call
  <2>1. Bound(c)
    BY <1>2 DEF Bound
  <2>2. req[a].state # "absent" /\ req[a].call = c
    BY <1>2, <2>1 DEF Named
  <2> QED
    BY Zenon, <1>1, <1>2, <2>2, RequestsStay
<1>3. CASE req'[a].state # "absent" /\ req'[a].call = c
  BY <1>3
<1> QED
  BY Zenon, <1>2, <1>3 DEF CallsStep

\* The rows stay, and no request changes its call.
LEMMA RowsStay ==
  ASSUME TypeInv, Named, \A c \in Calls : bind'[c].appr = bind[c].appr,
         \A a \in Approvals : req[a].state # "absent" => req'[a].call = req[a].call
  PROVE  CallsStep
<1>1. ASSUME NEW c \in Calls, bind'[c].appr # None
      PROVE  bind[c].appr = bind'[c].appr /\ req'[bind'[c].appr].call = req[bind'[c].appr].call
  <2>1. Bound(c) /\ bind[c].appr = bind'[c].appr
    BY <1>1 DEF Bound
  <2>2. bind[c].appr \in Approvals /\ req[bind[c].appr].state # "absent"
    BY <2>1, BoundApproval DEF Named
  <2> QED
    BY <2>1, <2>2
<1> QED
  BY Zenon, <1>1 DEF CallsStep

\* A decision, automatic or not, keeps the call.
LEMMA DecidedCall ==
  ASSUME TypeInv, NEW a \in Approvals, NEW s \in States,
         req' = [req EXCEPT ![a] = Transition(req[a], s)]
  PROVE  \A x \in Approvals : req'[x].call = req[x].call
<1>1. req \in [Approvals -> Request]
  BY DEF TypeInv, TypeOK
<1>2. Transition(req[a], s).call = req[a].call
  BY <1>1, TransitionFields
<1>3. req'[a] = Transition(req[a], s) /\ \A x \in Approvals \ {a} : req'[x] = req[x]
  BY <1>1
<1> QED
  BY <1>2, <1>3, Zenon

LEMMA VotedCall ==
  ASSUME NEW r \in Request, NEW s \in States, NEW d \in Deciders
  PROVE  Voted(r, s, d).call = r.call
<1>1. Transition(r, s) \in Request /\ Transition(r, s).call = r.call
  BY TransitionFields
<1> DEFINE q == Transition(r, s)
<1> HIDE DEF q
<1>2. [q EXCEPT !.by = d].call = q.call
  BY <1>1 DEF Request, q
<1> QED
  BY <1>1, <1>2 DEF Voted, q

LEMMA ReplacedCall ==
  ASSUME NEW r \in Request, NEW b \in Approvals
  PROVE  ReplacedBy(r, b).call = r.call
<1>1. Transition(r, "expired") \in Request /\ Transition(r, "expired").call = r.call
  BY TransitionFields, StateNames
<1> DEFINE q == Transition(r, "expired")
<1> HIDE DEF q
<1>2. [q EXCEPT !.next = b].call = q.call
  BY <1>1 DEF Request, q
<1> QED
  BY <1>1, <1>2 DEF ReplacedBy, q

LEMMA NewCall ==
  ASSUME NEW c \in Calls, NEW k \in Kinds \cup {"standard"}
  PROVE  /\ NewRequest(c, k).call = c
         /\ Transition(NewRequest(c, k), "pending_user").call = c
         /\ Transition(NewRequest(c, k), "pending_user").state = "pending_user"
<1>1. NewRequest(c, k) \in Request /\ NewRequest(c, k).call = c
  BY NewRequestFields DEF NewRequest
<1> QED
  BY Zenon, <1>1, TransitionFields, StateNames

\* store.create inserts a request that no row had.
LEMMA CreateRequestCalls ==
  ASSUME TypeInv, Named, NEW l \in Dispatches, NEW a \in Approvals, NEW c \in Calls,
         NEW t \in Turns \cup {None}, NEW k \in Kinds, CreateRequest(l, a, c, t, k)
  PROVE  CallsStep
<1>1. req \in [Approvals -> Request] /\ bind' = bind /\ req[a].state = "absent"
      /\ req' = [req EXCEPT ![a] = NewRequest(c, k)]
  BY DEF TypeInv, TypeOK, CreateRequest
<1>2. \A x \in Approvals : req[x].state # "absent" => req'[x].call = req[x].call
  BY <1>1
<1> QED
  BY <1>1, <1>2, RowsStay

\* The replaced plan loses its row with its last chance to be decided.
LEMMA ReplacePreparedCalls ==
  ASSUME TypeInv, Named, NEW l \in Dispatches, NEW a \in Approvals, NEW c \in Calls,
         NEW t \in Turns \cup {None}, NEW k \in Kinds, NEW p \in Approvals,
         ReplacePrepared(l, a, c, t, k, p)
  PROVE  CallsStep
<1>1. /\ req[a].state = "absent" /\ p # a
      /\ req' = [x \in Approvals |->
           IF x = a THEN NewRequest(c, k)
           ELSE IF x = p /\ Undecided(p) THEN Transition(req[p], "expired") ELSE req[x]]
      /\ bind' = [x \in Calls |-> IF BoundTo(p, x) THEN NoBinding ELSE bind[x]]
  BY Zenon DEF ReplacePrepared
<1>2. req[p] \in Request
  BY DEF TypeInv, TypeOK
<1>3. /\ Transition(req[p], "expired").call = req[p].call
      /\ Transition(req[p], "expired").state = "expired"
  BY Zenon, <1>2, TransitionFields, StateNames
<1>4. \A x \in Approvals \ {a} : req'[x].call = req[x].call
  BY Zenon, <1>1, <1>3
<1>5. req'[p].state # "pending_user"
  BY Zenon, <1>1, <1>3 DEF Undecided
<1>6. NoBinding.appr = None
  BY UnclaimedFields DEF NoBinding
<1>7. \A x \in Calls : BoundTo(p, x) \/ bind'[x] = bind[x]
  BY Zenon, <1>1
<1>8. \A x \in Calls : BoundTo(p, x) => bind'[x].appr = None
  BY Zenon, <1>1, <1>6
<1>9. ASSUME NEW x \in Calls, bind'[x].appr # None
      PROVE  bind[x].appr = bind'[x].appr /\ req'[bind'[x].appr].call = req[bind'[x].appr].call
  <2>1. Bound(x) /\ bind'[x] = bind[x]
    BY Zenon, <1>7, <1>8, <1>9 DEF Bound
  <2>2. bind[x].appr \in Approvals /\ req[bind[x].appr].state # "absent"
    BY Zenon, <2>1, BoundApproval DEF Named
  <2> QED
    BY Zenon, <1>1, <1>4, <2>1, <2>2
<1>10. ASSUME NEW x \in Calls, bind'[x].appr # bind[x].appr
       PROVE  req'[bind[x].appr].state # "pending_user"
  BY Zenon, <1>5, <1>7, <1>10 DEF BoundTo
<1> QED
  BY Zenon, <1>9, <1>10 DEF CallsStep

\* What a park leaves: its approval on its call, and the rows of others elsewhere.
LEMMA ParkedCalls ==
  ASSUME TypeInv, NEW a \in Approvals, NEW c \in Calls, NEW n \in Nat,
         bind' = ParkedBind(a, c, n)
  PROVE  /\ bind'[c].appr = a
         /\ \A x \in Calls \ {c} : bind'[x].appr # None => bind'[x] = bind[x] /\ bind[x].appr # a
         /\ \A x \in Calls : bind'[x].appr # bind[x].appr => x = c \/ bind[x].appr = a
<1>1. bind'[c].appr = a
  BY UnclaimedFields DEF ParkedBind
<1>2. \A x \in Calls \ {c} : bind'[x].appr # None => bind'[x] = bind[x] /\ bind[x].appr # a
  BY UnclaimedFields DEF ParkedBind, NoBinding, ParkRows, Bound, BoundTo
<1>3. \A x \in Calls \ {c} : bind'[x].appr # bind[x].appr => bind[x].appr = a
  BY DEF ParkedBind, ParkRows, BoundTo
<1> QED
  BY <1>1, <1>2, <1>3

\* A park meets a row of another approval only when that one is superseded or was
\* decided against.
LEMMA MetRow ==
  ASSUME TypeInv, NEW a \in Approvals, NEW c \in Calls, NEW g, RowsAdmit(a, c, g),
         Bound(c), bind[c].appr # a
  PROVE  \/ Superseded(c, a, g)
         \/ req[bind[c].appr].state \in {"denied", "auto_denied", "expired"}
<1>1. c \in ParkRows(a, c) /\ ~BoundTo(a, c)
  BY DEF ParkRows, BoundTo
<1> QED
  BY Zenon, <1>1 DEF RowsAdmit

\* park_executable_binding moves a call to its request and names it there.
LEMMA ParkBindingCalls ==
  ASSUME IInv, Named, NEW l \in Dispatches, ParkBinding(l)
  PROVE  CallsStep
<1> DEFINE a == lc[l].appr
           c == lc[l].call
           n == ParkNonce(a, c, None)
<1>0. TypeInv
  BY DEF IInv
<1>1. a \in Approvals /\ c \in Calls /\ n \in Nat /\ lc[l].pc = "created"
  BY Zenon, <1>0, TypeParkNonce DEF TypeInv, Working, DispatchPcs, ParkBinding
<1>2. /\ bind' = ParkedBind(a, c, n) /\ RowsAdmit(a, c, None)
      /\ req' = [req EXCEPT ![a] = Naming(req[a], c)]
  BY Zenon DEF ParkBinding
<1>3. req \in [Approvals -> Request] /\ req[a].state # "absent"
  BY <1>0, <1>1 DEF TypeInv, TypeOK, IInv, Fenced, BeforePending
<1> HIDE DEF a, c, n
<1>4. req'[a].call = c /\ req'[a].state # "absent"
  <2>1. req'[a] = Naming(req[a], c) /\ req[a] \in Request
    BY <1>1, <1>2, <1>3
  <2>2. Naming(req[a], c).call = c /\ Naming(req[a], c).state = req[a].state
    BY Zenon, <1>1, <2>1, NamingFields
  <2> QED
    BY <1>3, <2>1, <2>2, Zenon
<1>5. \A x \in Approvals \ {a} : req'[x] = req[x]
  BY <1>2, <1>3
<1>6. /\ bind'[c].appr = a
      /\ \A x \in Calls \ {c} : bind'[x].appr # None => bind'[x] = bind[x] /\ bind[x].appr # a
      /\ \A x \in Calls : bind'[x].appr # bind[x].appr => x = c \/ bind[x].appr = a
  BY Zenon, <1>0, <1>1, <1>2, ParkedCalls
<1>7. ASSUME NEW x \in Calls, bind'[x].appr # None
      PROVE  \/ bind[x].appr = bind'[x].appr /\ req'[bind'[x].appr].call = req[bind'[x].appr].call
             \/ req'[bind'[x].appr].state # "absent" /\ req'[bind'[x].appr].call = x
  <2>1. CASE x = c
    BY <1>4, <1>6, <2>1
  <2>2. CASE x # c
    <3>1. Bound(x) /\ bind'[x] = bind[x] /\ bind[x].appr # a
      BY <1>6, <1>7, <2>2 DEF Bound
    <3>2. bind[x].appr \in Approvals
      BY <1>0, <3>1, BoundApproval
    <3> QED
      BY <1>5, <3>1, <3>2
  <2> QED
    BY Zenon, <2>1, <2>2
<1>8. ASSUME NEW x \in Calls, Bound(x), bind'[x].appr # bind[x].appr
      PROVE  \/ req'[bind[x].appr].state # "pending_user"
             \/ \E y \in Calls : bind'[y].appr = bind[x].appr
  <2>1. CASE bind[x].appr = a
    BY <1>1, <1>6, <2>1
  <2>2. CASE bind[x].appr # a
    <3>1. x = c /\ bind[c].appr \in Approvals \ {a} /\ Bound(c)
      BY Zenon, <1>0, <1>6, <1>8, <2>2, BoundApproval
    <3>2. req[bind[c].appr].state \in {"denied", "auto_denied", "expired"}
      BY Zenon, <1>0, <1>1, <1>2, <3>1, MetRow DEF Superseded
    <3>3. req'[bind[c].appr] = req[bind[c].appr]
      BY <1>5, <3>1
    <3>4. req'[bind[c].appr].state # "pending_user"
      BY Zenon, <3>2, <3>3
    <3> QED
      BY <3>1, <3>4
  <2> QED
    BY <2>1, <2>2
<1> QED
  BY Zenon, <1>7, <1>8 DEF CallsStep

\* reissue_parked_approval moves the call to the successor and expires the holder.
LEMMA ReissueCalls ==
  ASSUME IInv, Named, NEW d \in Deciders, NEW b \in Approvals, NEW t \in Turns,
         Reissue(d, b, t)
  PROVE  CallsStep
<1> DEFINE a == dec[d].appr
           c == dec[d].call
           g == GenOf[d]
           n == ParkNonce(b, c, g)
           new == Transition(NewRequest(c, req[a].kind), "pending_user")
<1>0. TypeInv
  BY DEF IInv
<1>1. a \in Approvals /\ c \in Calls /\ n \in Nat
  BY Zenon, <1>0, TypeParkNonce DEF TypeInv, Working, Reissue
<1>2. /\ req[b].state = "absent"
      /\ Bound(c) /\ RowsAdmit(b, c, g)
      /\ bind' = ParkedBind(b, c, n)
      /\ req' = [x \in Approvals |->
           IF x = b THEN new
           ELSE IF ExpiresPredecessor(x, c, b, g) THEN ReplacedBy(req[x], b) ELSE req[x]]
  BY Zenon DEF Reissue
<1>3. req \in [Approvals -> Request] /\ req[a].kind \in Kinds \cup {"standard"}
  BY Zenon, <1>0, <1>1 DEF TypeInv, TypeOK, Request
<1>4. new.call = c /\ new.state = "pending_user"
  BY Zenon, <1>1, <1>3, NewCall
<1> HIDE DEF a, c, g, n, new
<1>5. req'[b].call = c /\ req'[b].state # "absent"
  BY Zenon, <1>2, <1>4
<1>6. ASSUME NEW x \in Approvals \ {b} PROVE req'[x].call = req[x].call
  <2>1. CASE ExpiresPredecessor(x, c, b, g)
    <3>1. req'[x] = ReplacedBy(req[x], b)
      BY Zenon, <1>2, <2>1
    <3>2. req[x] \in Request
      BY <1>3
    <3>3. ReplacedBy(req[x], b).call = req[x].call
      BY <3>2, ReplacedCall
    <3> QED
      BY <3>1, <3>3, Zenon
  <2>2. CASE ~ExpiresPredecessor(x, c, b, g)
    <3>1. req'[x] = req[x]
      BY Zenon, <1>2, <2>2
    <3> QED
      BY <3>1
  <2> QED
    BY Zenon, <2>1, <2>2
<1>7. /\ bind'[c].appr = b
      /\ \A x \in Calls \ {c} : bind'[x].appr # None => bind'[x] = bind[x] /\ bind[x].appr # b
      /\ \A x \in Calls : bind'[x].appr # bind[x].appr => x = c \/ bind[x].appr = b
  BY Zenon, <1>0, <1>1, <1>2, ParkedCalls
<1>8. \A x \in Calls : Bound(x) => bind[x].appr \in Approvals \ {b}
  BY Zenon, <1>0, <1>2, BoundApproval DEF Named
<1>9. ASSUME NEW x \in Calls, bind'[x].appr # None
      PROVE  \/ bind[x].appr = bind'[x].appr /\ req'[bind'[x].appr].call = req[bind'[x].appr].call
             \/ req'[bind'[x].appr].state # "absent" /\ req'[bind'[x].appr].call = x
  <2>1. CASE x = c
    BY Zenon, <1>5, <1>7, <2>1
  <2>2. CASE x # c
    <3>1. Bound(x) /\ bind'[x] = bind[x]
      BY <1>7, <1>9, <2>2 DEF Bound
    <3> QED
      BY <1>6, <1>8, <3>1
  <2> QED
    BY Zenon, <2>1, <2>2
<1>10. ASSUME NEW x \in Calls, Bound(x), bind'[x].appr # bind[x].appr
       PROVE  req'[bind[x].appr].state # "pending_user"
  <2>1. x = c /\ bind[c].appr \in Approvals \ {b}
    BY <1>7, <1>8, <1>10
  <2> DEFINE y == bind[c].appr
  <2>2. BoundTo(y, c)
    BY DEF BoundTo
  <2>3. CASE Superseded(c, b, g)
    <3>1. ExpiresPredecessor(y, c, b, g)
      BY <2>2, <2>3 DEF ExpiresPredecessor
    <3>2. req'[y] = ReplacedBy(req[y], b) /\ req[y] \in Request
      BY <1>2, <1>3, <2>1, <3>1
    <3>3. ReplacedBy(req[y], b).state = "expired"
      BY Zenon, <3>2, ReplacedByFields
    <3>4. req'[y].state = "expired"
      BY <3>2, <3>3, Zenon
    <3> QED
      BY <2>1, <3>4
  <2>4. CASE ~Superseded(c, b, g)
    <3>1. ~ExpiresPredecessor(y, c, b, g)
      BY <2>4 DEF ExpiresPredecessor
    <3>2. req'[y] = req[y]
      BY Zenon, <1>2, <2>1, <3>1
    <3>3. req[y].state \in {"denied", "auto_denied", "expired"}
      BY Zenon, <1>0, <1>1, <1>2, <2>1, <2>4, MetRow
    <3> QED
      BY Zenon, <2>1, <3>2, <3>3
  <2> QED
    BY <2>3, <2>4
<1> QED
  BY Zenon, <1>9, <1>10 DEF CallsStep

\* An attempt leaves the requests and the holders of the rows alone.
LEMMA AttemptCalls ==
  ASSUME IInv, Named, NEW e \in Attempts, AttemptStep(e)
  PROVE  CallsStep /\ req' = req
<1>0. TypeInv /\ bind \in [Calls -> Binding]
  BY DEF IInv, TypeInv, TypeOK
<1>1. req' = req
  BY Zenon DEF AttemptStep, ReadBinding, AdmitBinding, ClaimBinding, RunCall, CompleteBinding
<1>2. \A c \in Calls : bind'[c].appr = bind[c].appr
  <2>1. CASE bind' = bind
    BY <2>1
  <2>2. ASSUME NEW c \in Calls, NEW v \in Nat, bind' = [bind EXCEPT ![c] = Claimed(bind[c], e, v)]
        PROVE  \A x \in Calls : bind'[x].appr = bind[x].appr
    <3>1. Claimed(bind[c], e, v).appr = bind[c].appr
      BY <1>0, ClaimedFields
    <3>2. bind'[c] = Claimed(bind[c], e, v) /\ \A x \in Calls \ {c} : bind'[x] = bind[x]
      BY <1>0, <2>2
    <3> QED
      BY <3>1, <3>2, Zenon
  <2>3. CASE ClaimBinding(e)
    <3>1. exe[e].call \in Calls /\ exe[e].ver \in Nat
      BY Zenon, <1>0, <2>3 DEF TypeInv, TypeOK, Attempt, Working, ClaimBinding
    <3> QED
      BY Zenon, <2>1, <2>2, <2>3, <3>1, ClaimBindingCases
  <2>4. CASE CompleteBinding(e)
    <3>1. /\ exe[e].call \in Calls
          /\ bind' = [bind EXCEPT ![exe[e].call] = Completed(bind[exe[e].call])]
      BY Zenon, <1>0, <2>4 DEF TypeInv, Working, CompleteBinding
    <3>2. Completed(bind[exe[e].call]).appr = bind[exe[e].call].appr
      BY <1>0, <3>1, CompletedFields
    <3>3. /\ bind'[exe[e].call] = Completed(bind[exe[e].call])
          /\ \A x \in Calls \ {exe[e].call} : bind'[x] = bind[x]
      BY <1>0, <3>1
    <3> QED
      BY <3>2, <3>3, Zenon
  <2> QED
    BY Zenon, <2>1, <2>3, <2>4 DEF AttemptStep, ReadBinding, AdmitBinding, RunCall
<1> QED
  BY <1>0, <1>1, <1>2, RowsStay

-----------------------------------------------------------------------------

\* Turns stay recorded and keep what they link, and only recorded turns link.
TurnsStep ==
  \A t \in Turns :
    /\ Recorded(t) => turns'[t].gen # None /\ turns[t].refs \subseteq turns'[t].refs
    /\ turns'[t].refs # {} => turns'[t].gen # None

\* A lifecycle keeps its turn or starts with a recorded one; a route re-issues what it
\* was about to, or what it finds linked.
HoldersStep ==
  /\ \A l \in Dispatches : lc'[l].pc \in DispatchPcs /\ lc'[l].turn # None =>
       \/ lc[l].pc \in DispatchPcs /\ lc'[l].turn = lc[l].turn
       \/ lc'[l].turn \in Turns /\ Recorded(lc'[l].turn)
  /\ \A d \in Deciders : dec'[d].pc = "reissue" =>
       \/ dec'[d] = dec[d]
       \/ /\ dec'[d].turn \in Turns
          /\ <<dec'[d].call, dec'[d].nonce>> \in turns[dec'[d].turn].refs

LEMMA StepsKeepLinked ==
  ASSUME TypeInv, Linked, TurnsStep, HoldersStep
  PROVE  Linked'
<1>1. \A t \in Turns : turns'[t].refs # {} => turns'[t].gen # None
  BY DEF TurnsStep
<1>2. ASSUME NEW l \in Dispatches, lc'[l].pc \in DispatchPcs, lc'[l].turn # None
      PROVE  turns'[lc'[l].turn].gen # None
  <2>1. CASE lc[l].pc \in DispatchPcs /\ lc'[l].turn = lc[l].turn
    <3>1. Recorded(lc[l].turn)
      BY Zenon, <1>2, <2>1 DEF Linked
    <3>2. lc[l].turn \in Turns
      BY <1>2, <2>1 DEF TypeInv, TypeOK, Dispatch
    <3> QED
      BY Zenon, <2>1, <3>1, <3>2 DEF TurnsStep
  <2>2. CASE lc'[l].turn \in Turns /\ Recorded(lc'[l].turn)
    BY <2>2 DEF TurnsStep
  <2> QED
    BY Zenon, <1>2, <2>1, <2>2 DEF HoldersStep
<1>3. ASSUME NEW d \in Deciders, dec'[d].pc = "reissue"
      PROVE  /\ dec'[d].turn \in Turns
             /\ <<dec'[d].call, dec'[d].nonce>> \in turns'[dec'[d].turn].refs
  <2>1. /\ dec'[d].turn \in Turns
        /\ <<dec'[d].call, dec'[d].nonce>> \in turns[dec'[d].turn].refs
    BY Zenon, <1>3 DEF HoldersStep, Linked
  <2>2. Recorded(dec'[d].turn)
    BY Zenon, <2>1 DEF Linked
  <2> QED
    BY <2>1, <2>2 DEF TurnsStep
<1> QED
  BY Zenon, <1>1, <1>2, <1>3 DEF Linked, Recorded

LEMMA TurnsStay == ASSUME Linked, turns' = turns PROVE TurnsStep
BY DEF TurnsStep, Linked, Recorded

\* A lifecycle at its next step keeps its turn.
LEMMA TurnFields ==
  ASSUME NEW r \in Dispatch
  PROVE  /\ \A p : At(r, p).turn = r.turn
         /\ \A n : Parked(r, n).turn = r.turn
BY DEF At, Parked, Dispatch

LEMMA SameHolders ==
  ASSUME UNCHANGED <<lc, dec>>
  PROVE  HoldersStep
BY DEF HoldersStep

\* One lifecycle moves on, or ends; the routes stay.
LEMMA DispatchHolders ==
  ASSUME TypeInv, NEW l \in Dispatches, lc[l].pc \in DispatchPcs, dec' = dec, NEW r,
         lc' = [lc EXCEPT ![l] = r], r.pc = "done" \/ r.turn = lc[l].turn
  PROVE  HoldersStep
<1>1. lc \in [Dispatches -> Dispatch]
  BY DEF TypeInv, TypeOK
<1>2. lc'[l] = r /\ \A m \in Dispatches \ {l} : lc'[m] = lc[m]
  BY <1>1
<1> QED
  BY <1>2 DEF HoldersStep, DispatchPcs

\* One lifecycle starts.
LEMMA StartHolders ==
  ASSUME TypeInv, NEW l \in Dispatches, NEW a \in Approvals, NEW c \in Calls, NEW orig,
         NEW t \in Turns \cup {None}, StartDispatch(l, a, c, orig, t), dec' = dec
  PROVE  HoldersStep
<1> DEFINE r == [pc |-> "created", appr |-> a, call |-> c, orig |-> orig,
                 turn |-> t, ver |-> req[a].ver, nonce |-> 0]
<1>1. lc \in [Dispatches -> Dispatch] /\ lc' = [lc EXCEPT ![l] = r] /\ (t # None => Recorded(t))
  BY DEF TypeInv, TypeOK, StartDispatch
<1>2. r.turn = t
  OBVIOUS
<1> HIDE DEF r
<1>3. lc'[l] = r /\ \A m \in Dispatches \ {l} : lc'[m] = lc[m]
  BY <1>1
<1> QED
  BY Zenon, <1>1, <1>2, <1>3 DEF HoldersStep

\* One route goes on or ends; the lifecycles stay.
LEMMA RouteHolders ==
  ASSUME TypeInv, NEW d \in Deciders, lc' = lc, NEW r, dec' = [dec EXCEPT ![d] = r],
         \/ r.pc # "reissue"
         \/ r.turn \in Turns /\ <<r.call, r.nonce>> \in turns[r.turn].refs
  PROVE  HoldersStep
<1>1. dec \in [Deciders -> Decision]
  BY DEF TypeInv, TypeOK
<1>2. dec'[d] = r /\ \A m \in Deciders \ {d} : dec'[m] = dec[m]
  BY <1>1
<1> QED
  BY <1>2 DEF HoldersStep

-----------------------------------------------------------------------------

LinkStep == CallsStep /\ TurnsStep /\ HoldersStep

\* Rows and calls stay.
LEMMA CallsStay ==
  ASSUME TypeInv, Named, UNCHANGED <<req, bind>>
  PROVE  CallsStep
BY RowsStay

\* record_root_turn_admission records a turn that links nothing.
LEMMA RecordRootTurnLinks ==
  ASSUME LinkIInv, NEW t \in Turns, NEW g \in Gens, RecordRootTurn(t, g)
  PROVE  LinkStep
<1>1. turns \in [Turns -> RootTurn] /\ TypeInv /\ Named /\ Linked
  BY DEF LinkIInv, IInv, TypeInv, TypeOK
<1>2. CallsStep /\ HoldersStep
  BY <1>1, CallsStay, SameHolders DEF RecordRootTurn, procs
<1>3. TurnsStep
  <2>1. turns'[t] = [gen |-> g, refs |-> {}] /\ \A x \in Turns \ {t} : turns'[x] = turns[x]
    BY Zenon, <1>1 DEF RecordRootTurn
  <2>2. ~Recorded(t) /\ turns'[t].refs = {}
    BY <2>1 DEF RecordRootTurn
  <2> QED
    BY Zenon, <1>1, <2>1, <2>2 DEF TurnsStep, Linked, Recorded
<1> QED
  BY <1>2, <1>3 DEF LinkStep

LEMMA CancelPendingLinks ==
  ASSUME LinkIInv, NEW a \in Approvals, CancelPending(a)
  PROVE  LinkStep
<1>1. TypeInv /\ Named /\ Linked
  BY DEF LinkIInv, IInv
<1>2. \A x \in Approvals : req'[x].call = req[x].call
  BY Zenon, <1>1, DecidedCall, StateNames DEF CancelPending
<1>3. CallsStep
  BY <1>1, <1>2, RowsStay DEF CancelPending
<1> QED
  BY <1>1, <1>3, TurnsStay, SameHolders DEF CancelPending, procs, LinkStep

\* A lifecycle starts: its turn is recorded.
LEMMA StartLinks ==
  ASSUME LinkIInv, NEW l \in Dispatches, NEW a \in Approvals, NEW c \in Calls,
         NEW t \in Turns \cup {None},
         \/ \E k \in Kinds : \/ CreateRequest(l, a, c, t, k)
                             \/ \E p \in Approvals : ReplacePrepared(l, a, c, t, k, p)
         \/ ResumeRequest(l, a, c, t)
  PROVE  LinkStep
<1>1. TypeInv /\ Named /\ Linked
  BY DEF LinkIInv, IInv
<1>2. CallsStep
  <2>1. ASSUME NEW k \in Kinds, CreateRequest(l, a, c, t, k) PROVE CallsStep
    BY <1>1, <2>1, CreateRequestCalls
  <2>2. ASSUME NEW k \in Kinds, NEW p \in Approvals, ReplacePrepared(l, a, c, t, k, p)
        PROVE  CallsStep
    BY <1>1, <2>2, ReplacePreparedCalls
  <2>3. ASSUME ResumeRequest(l, a, c, t) PROVE CallsStep
    BY <1>1, <2>3, CallsStay DEF ResumeRequest
  <2> QED
    BY <2>1, <2>2, <2>3
<1>3. turns' = turns /\ dec' = dec /\ \E orig : StartDispatch(l, a, c, orig, t)
  BY DEF CreateRequest, ReplacePrepared, ResumeRequest
<1>4. TurnsStep
  BY <1>1, <1>3, TurnsStay
<1>5. HoldersStep
  BY <1>1, <1>3, StartHolders
<1> QED
  BY <1>2, <1>4, <1>5 DEF LinkStep

\* A lifecycle parks, or keeps the nonce it drew.
LEMMA ParkLinks ==
  ASSUME LinkIInv, NEW l \in Dispatches, ParkBinding(l) \/ SkipCapture(l)
  PROVE  LinkStep
<1>1. TypeInv /\ Named /\ Linked /\ IInv /\ lc[l] \in Dispatch
  BY DEF LinkIInv, IInv, TypeInv, TypeOK
<1>2. CallsStep
  BY <1>1, ParkBindingCalls, CallsStay DEF SkipCapture
<1>3. turns' = turns /\ dec' = dec /\ lc[l].pc = "created"
  BY Zenon DEF ParkBinding, SkipCapture
<1>4. \E n : lc' = [lc EXCEPT ![l] = Parked(lc[l], n)]
  BY Zenon DEF ParkBinding, SkipCapture
<1>5. HoldersStep
  BY Zenon, <1>1, <1>3, <1>4, TurnFields, DispatchHolders DEF DispatchPcs
<1> QED
  BY <1>1, <1>2, <1>3, <1>5, TurnsStay DEF LinkStep

\* link_root_turn_executable_binding adds to a recorded turn.
LEMMA LinkRootTurnLinks ==
  ASSUME LinkIInv, NEW l \in Dispatches, LinkRootTurn(l)
  PROVE  LinkStep
<1> DEFINE t == lc[l].turn
<1>1. TypeInv /\ Named /\ Linked /\ lc[l] \in Dispatch /\ turns \in [Turns -> RootTurn]
  BY DEF LinkIInv, IInv, TypeInv, TypeOK
<1>2. CallsStep
  BY <1>1, CallsStay DEF LinkRootTurn
<1>3. dec' = dec /\ lc[l].pc = "parked" /\ lc' = [lc EXCEPT ![l] = At(lc[l], "linked")]
  BY DEF LinkRootTurn
<1>4. HoldersStep
  BY Zenon, <1>1, <1>3, TurnFields, DispatchHolders DEF DispatchPcs
<1>5. CASE t = None
  BY <1>1, <1>2, <1>4, <1>5, TurnsStay DEF LinkStep, LinkRootTurn
<1>6. CASE t # None
  <2>1. t \in Turns /\ Recorded(t)
    BY Zenon, <1>1, <1>3, <1>6 DEF Linked, Dispatch, DispatchPcs
  <2>2. turns' = [turns EXCEPT ![t].refs = turns[t].refs \cup {<<lc[l].call, lc[l].nonce>>}]
    BY <1>6 DEF LinkRootTurn
  <2>3. /\ turns'[t].gen = turns[t].gen /\ turns[t].refs \subseteq turns'[t].refs
        /\ \A x \in Turns \ {t} : turns'[x] = turns[x]
    BY <1>1, <2>1, <2>2 DEF RootTurn
  <2>4. TurnsStep
    BY Zenon, <1>1, <2>1, <2>3 DEF TurnsStep, Linked, Recorded
  <2> QED
    BY <1>2, <1>4, <2>4 DEF LinkStep
<1> QED
  BY <1>5, <1>6

\* transition_state: an automatic outcome, the publication, or the abort.
LEMMA DecideLinks ==
  ASSUME LinkIInv, NEW l \in Dispatches,
         \/ \E outcome \in {"auto_approved", "auto_denied"} : AutoDecide(l, outcome)
         \/ PublishPending(l) \/ AbortUnpublished(l)
  PROVE  LinkStep
<1> DEFINE a == lc[l].appr
<1>1. TypeInv /\ Named /\ Linked /\ lc[l] \in Dispatch
  BY DEF LinkIInv, IInv, TypeInv, TypeOK
<1>2. lc[l].pc \in DispatchPcs /\ dec' = dec /\ turns' = turns /\ bind' = bind
  BY Zenon DEF AutoDecide, PublishPending, AbortUnpublished, DispatchPcs
<1>3. a \in Approvals
  BY Zenon, <1>1, <1>2 DEF TypeInv, Working
<1>4. req' = req \/ \E s \in States : req' = [req EXCEPT ![a] = Transition(req[a], s)]
  <2>1. CASE \E outcome \in {"auto_approved", "auto_denied"} : AutoDecide(l, outcome)
    BY Zenon, <2>1, StateNames DEF AutoDecide
  <2>2. CASE PublishPending(l)
    BY Zenon, <2>2, StateNames DEF PublishPending
  <2>3. CASE AbortUnpublished(l)
    <3>1. req' = [req EXCEPT ![a] = IF req[a].state \in Terminal THEN req[a]
                                    ELSE Transition(req[a], "denied")]
      BY <2>3 DEF AbortUnpublished
    <3>2. CASE req[a].state \in Terminal
      BY <1>1, <3>1, <3>2 DEF TypeInv, TypeOK
    <3>3. CASE req[a].state \notin Terminal
      BY Zenon, <3>1, <3>3, StateNames
    <3> QED
      BY <3>2, <3>3
  <2> QED
    BY <2>1, <2>2, <2>3
<1>5. \A x \in Approvals : req'[x].call = req[x].call
  <2>1. ASSUME NEW s \in States, req' = [req EXCEPT ![a] = Transition(req[a], s)]
        PROVE  \A x \in Approvals : req'[x].call = req[x].call
    BY Zenon, <1>1, <1>3, <2>1, DecidedCall
  <2> QED
    BY <1>4, <2>1
<1>6. CallsStep
  BY Zenon, <1>1, <1>2, <1>5, RowsStay
<1>7. HoldersStep
  <2>1. \/ lc' = [lc EXCEPT ![l] = At(lc[l], "pending")]
        \/ lc' = [lc EXCEPT ![l] = Ended(NoDispatch)]
    BY Zenon DEF AutoDecide, PublishPending, AbortUnpublished
  <2>2. Ended(NoDispatch).pc = "done"
    BY DEF Ended, At, NoDispatch
  <2> QED
    BY Zenon, <1>1, <1>2, <2>1, <2>2, TurnFields, DispatchHolders
<1> QED
  BY <1>1, <1>2, <1>6, <1>7, TurnsStay DEF LinkStep

\* The route's reads: what it will re-issue is linked from the turn it located.
LEMMA RouteLinks ==
  ASSUME LinkIInv, NEW d \in Deciders,
         (\E a \in Approvals : ReadRequest(d, a)) \/ CheckGeneration(d) \/ ContinueChanged(d)
  PROVE  LinkStep
<1>1. TypeInv /\ Named /\ Linked /\ dec[d] \in Decision
  BY DEF LinkIInv, IInv, TypeInv, TypeOK
<1>2. UNCHANGED <<req, bind>> /\ turns' = turns /\ lc' = lc
  BY Zenon DEF ReadRequest, CheckGeneration, ContinueChanged
<1>3. \E r : /\ dec' = [dec EXCEPT ![d] = r]
             /\ \/ r.pc # "reissue"
                \/ r.turn \in Turns /\ <<r.call, r.nonce>> \in turns[r.turn].refs
  <2>1. CASE \E a \in Approvals : ReadRequest(d, a)
    <3>1. PICK a \in Approvals, p \in {"continue", "check", "vote"} :
            dec' = [dec EXCEPT ![d] = Deciding(a, p)]
      BY Zenon, <2>1 DEF ReadRequest
    <3>2. Deciding(a, p).pc # "reissue"
      BY DEF Deciding
    <3> QED
      BY Zenon, <3>1, <3>2
  <2>2. CASE ContinueChanged(d)
    <3>1. dec' = [dec EXCEPT ![d] = At(dec[d], "recheck")]
      BY <2>2 DEF ContinueChanged
    <3>2. At(dec[d], "recheck").pc # "reissue"
      BY <1>1 DEF At, Decision
    <3> QED
      BY Zenon, <3>1, <3>2
  <2>3. CASE \E loc \in Located(dec[d].appr) : dec' = [dec EXCEPT ![d] = Reissuing(dec[d].appr, loc)]
    <3>1. PICK loc \in Located(dec[d].appr) : dec' = [dec EXCEPT ![d] = Reissuing(dec[d].appr, loc)]
      BY Zenon, <2>3
    <3>2. loc.turn \in Turns /\ <<loc.call, loc.nonce>> \in turns[loc.turn].refs
      BY Zenon DEF Located
    <3> DEFINE r == Reissuing(dec[d].appr, loc)
    <3>3. r.turn = loc.turn /\ r.call = loc.call /\ r.nonce = loc.nonce
      BY DEF Reissuing
    <3> HIDE DEF r
    <3>4. r.turn \in Turns /\ <<r.call, r.nonce>> \in turns[r.turn].refs
      BY <3>2, <3>3, Zenon
    <3> QED
      BY Zenon, <3>1, <3>4 DEF r
  <2>4. CASE dec' = [dec EXCEPT ![d] = At(dec[d], "vote")]
    <3>1. At(dec[d], "vote").pc # "reissue"
      BY <1>1 DEF At, Decision
    <3> QED
      BY Zenon, <2>4, <3>1
  <2>5. CASE dec' = [dec EXCEPT ![d] = Ended(NoDecision)]
    <3>1. Ended(NoDecision).pc # "reissue"
      BY DEF Ended, At, NoDecision, Deciding
    <3> QED
      BY Zenon, <2>5, <3>1
  <2> QED
    BY Zenon, <2>1, <2>2, <2>3, <2>4, <2>5 DEF CheckGeneration
<1>4. HoldersStep
  BY Zenon, <1>1, <1>2, <1>3, RouteHolders
<1> QED
  BY <1>1, <1>2, <1>4, CallsStay, TurnsStay DEF LinkStep

LEMMA RecordVoteLinks ==
  ASSUME LinkIInv, NEW d \in Deciders, NEW decision \in {"approved", "denied"},
         RecordVote(d, decision)
  PROVE  LinkStep
<1> DEFINE a == dec[d].appr
           r == Voted(req[a], decision, d)
<1>1. TypeInv /\ Named /\ Linked /\ dec[d] \in Decision /\ req \in [Approvals -> Request]
  BY DEF LinkIInv, IInv, TypeInv, TypeOK
<1>2. turns' = turns /\ lc' = lc /\ bind' = bind /\ dec[d].pc = "vote"
  BY DEF RecordVote
<1>3. req' = req \/ req' = [req EXCEPT ![a] = r]
  BY DEF RecordVote
<1>4. \A x \in Approvals : req'[x].call = req[x].call
  <2>1. CASE req' = req
    BY <2>1
  <2>2. CASE req' = [req EXCEPT ![a] = r] /\ a \in Approvals
    <3>1. r.call = req[a].call
      BY <1>1, <2>2, VotedCall, StateNames
    <3> HIDE DEF r
    <3>2. req'[a] = r /\ \A x \in Approvals \ {a} : req'[x] = req[x]
      BY <1>1, <2>2
    <3> QED
      BY <3>1, <3>2, Zenon
  <2>3. CASE req' = [req EXCEPT ![a] = r] /\ a \notin Approvals
    <3> HIDE DEF r
    <3> QED
      BY <1>1, <2>3
  <2> QED
    BY <1>3, <2>1, <2>2, <2>3
<1>5. CallsStep
  BY Zenon, <1>1, <1>2, <1>4, RowsStay
<1>6. \E q : dec' = [dec EXCEPT ![d] = q] /\ q.pc # "reissue"
  <2>1. At(dec[d], "continue").pc # "reissue"
    BY <1>1 DEF At, Decision
  <2>2. Ended(NoDecision).pc # "reissue"
    BY DEF Ended, At, NoDecision, Deciding
  <2>3. \/ dec' = [dec EXCEPT ![d] = At(dec[d], "continue")]
        \/ dec' = [dec EXCEPT ![d] = Ended(NoDecision)]
    BY Zenon DEF RecordVote
  <2> QED
    BY <2>1, <2>2, <2>3
<1>7. HoldersStep
  BY Zenon, <1>1, <1>2, <1>6, RouteHolders
<1> QED
  BY <1>1, <1>2, <1>5, <1>7, TurnsStay DEF LinkStep

\* reissue_parked_approval inserts a turn that was not recorded.
LEMMA ReissueLinks ==
  ASSUME LinkIInv, NEW d \in Deciders, NEW b \in Approvals, NEW t \in Turns, Reissue(d, b, t)
  PROVE  LinkStep
<1>1. TypeInv /\ IInv /\ Named /\ Linked /\ turns \in [Turns -> RootTurn]
  BY DEF LinkIInv, IInv, TypeInv, TypeOK
<1>2. CallsStep
  BY <1>1, ReissueCalls
<1>3. PICK refs : turns' = [turns EXCEPT ![t] = [gen |-> GenOf[d], refs |-> refs]]
  BY Zenon DEF Reissue
<1>4. GenOf[d] # None /\ ~Recorded(t)
  BY Zenon, GenOfType, NoneIsNew DEF Reissue
<1>5. turns'[t].gen # None /\ \A x \in Turns \ {t} : turns'[x] = turns[x]
  BY <1>1, <1>3, <1>4
<1>6. TurnsStep
  BY Zenon, <1>1, <1>4, <1>5 DEF TurnsStep, Linked, Recorded
<1>7. lc' = lc /\ dec' = [dec EXCEPT ![d] = Ended(NoDecision)]
  BY Zenon DEF Reissue
<1>8. Ended(NoDecision).pc # "reissue"
  BY DEF Ended, At, NoDecision, Deciding
<1>9. HoldersStep
  BY Zenon, <1>1, <1>7, <1>8, RouteHolders
<1> QED
  BY <1>2, <1>6, <1>9 DEF LinkStep

LEMMA AttemptLinks ==
  ASSUME LinkIInv, NEW e \in Attempts, AttemptStep(e)
  PROVE  LinkStep
<1>1. IInv /\ Named /\ Linked
  BY DEF LinkIInv
<1>2. turns' = turns /\ UNCHANGED <<lc, dec>>
  BY Zenon DEF AttemptStep, ReadBinding, AdmitBinding, ClaimBinding, RunCall, CompleteBinding
<1> QED
  BY <1>1, <1>2, AttemptCalls, TurnsStay, SameHolders DEF LinkStep

LEMMA NextLinks ==
  ASSUME LinkIInv, Next
  PROVE  LinkStep
<1>1. ASSUME NEW t \in Turns, NEW g \in Gens, RecordRootTurn(t, g) PROVE LinkStep
  BY <1>1, RecordRootTurnLinks
<1>2. ASSUME NEW a \in Approvals, CancelPending(a) PROVE LinkStep
  BY <1>2, CancelPendingLinks
<1>3. ASSUME NEW l \in Dispatches, DispatchStep(l) PROVE LinkStep
  BY Zenon, <1>3, StartLinks, ParkLinks, LinkRootTurnLinks, DecideLinks DEF DispatchStep
<1>4. ASSUME NEW d \in Deciders, DecisionStep(d) PROVE LinkStep
  BY <1>4, RouteLinks, RecordVoteLinks, ReissueLinks DEF DecisionStep
<1>5. ASSUME NEW e \in Attempts, AttemptStep(e) PROVE LinkStep
  BY <1>5, AttemptLinks
<1> QED
  BY <1>1, <1>2, <1>3, <1>4, <1>5 DEF Next

LEMMA LinkIInvInit == Init => LinkIInv
<1> SUFFICES ASSUME Init PROVE Named /\ Linked
  BY IInvInit DEF LinkIInv
<1>1. Named
  BY Zenon DEF Init, Named, Bound, NoBinding, Unclaimed
<1>2. \A t \in Turns : turns[t].refs = {}
  BY DEF Init, NoTurn
<1>3. \A l \in Dispatches : lc[l].pc \notin DispatchPcs
  BY Zenon DEF Init, NoDispatch, DispatchPcs
<1>4. \A d \in Deciders : dec[d].pc # "reissue"
  BY Zenon DEF Init, NoDecision, Deciding
<1> QED
  BY <1>1, <1>2, <1>3, <1>4 DEF Linked

LEMMA LinkIInvNext == LinkIInv /\ [Next]_vars => LinkIInv'
<1> SUFFICES ASSUME LinkIInv, [Next]_vars PROVE LinkIInv'
  OBVIOUS
<1>1. IInv /\ IInv' /\ TypeInv /\ TypeInv' /\ Named /\ Linked
  BY IInvNext DEF LinkIInv, IInv
<1>2. CASE UNCHANGED vars
  <2>1. Named' /\ Linked'
    BY Zenon, <1>1, <1>2 DEF vars, Named, Linked, Bound, Recorded
  <2> QED
    BY <1>1, <2>1 DEF LinkIInv
<1>3. CASE Next
  <2>1. CallsStep /\ TurnsStep /\ HoldersStep
    BY <1>3, NextLinks DEF LinkStep
  <2>2. RequestsStep
    <3>1. ASSUME NEW e \in Attempts, AttemptStep(e) PROVE RequestsStep
      BY <1>1, <3>1, AttemptCalls, UntouchedRequests
    <3> QED
      BY <1>1, <1>3, <3>1, NextCases DEF StoreStep
  <2>3. Named'
    BY <1>1, <2>1, <2>2, CallsKeepNamed
  <2>4. Linked'
    BY <1>1, <2>1, StepsKeepLinked
  <2> QED
    BY <1>1, <2>3, <2>4 DEF LinkIInv
<1> QED
  BY <1>2, <1>3

LEMMA LinkInvariance == Spec => []LinkIInv
BY LinkIInvInit, LinkIInvNext, PTL DEF Spec

\* A pending approval that holds a call keeps holding exactly one call, the one its
\* request names, until it is decided or expired.
THEOREM PendingKeepsCall == Spec => PendingKeepsItsCall
<1> DEFINE Keeps == \A a \in Approvals :
             (\E c \in Calls : BoundTo(a, c)) /\ req'[a].state = "pending_user" =>
               \E c \in Calls : /\ \A x \in Calls : bind'[x].appr = a <=> x = c
                                /\ req'[a].call = c
<1>1. LinkIInv /\ [Next]_vars => [Keeps]_vars
  <2> SUFFICES ASSUME LinkIInv, Next, NEW a \in Approvals, NEW c \in Calls, BoundTo(a, c),
                      req'[a].state = "pending_user"
               PROVE  \E x \in Calls : /\ \A y \in Calls : bind'[y].appr = a <=> y = x
                                       /\ req'[a].call = x
    OBVIOUS
  <2>1. CallsStep /\ Named' /\ a # None
    BY Zenon, NextLinks, LinkIInvNext, NoneIsNew DEF LinkStep, LinkIInv
  <2>2. PICK x \in Calls : bind'[x].appr = a
    BY Zenon, <2>1 DEF CallsStep, BoundTo, Bound
  <2>3. \A y \in Calls : bind'[y].appr = a => req'[a].call = y
    BY Zenon, <2>1 DEF Named, Bound
  <2> QED
    BY <2>2, <2>3
<1> QED
  BY <1>1, LinkInvariance, PTL DEF Spec, PendingKeepsItsCall

\* A re-issue moves the row of its own call alone, and never that of a denied one.
LEMMA ReissuedNotDenied ==
  ASSUME LinkIInv, NEW d \in Deciders, NEW b \in Approvals, NEW t \in Turns,
         Reissue(d, b, t), NEW c \in Calls, bind'[c] # bind[c]
  PROVE  req[bind[c].appr].state \notin {"denied", "auto_denied", "expired"}
<1> DEFINE n == ParkNonce(b, dec[d].call, GenOf[d])
<1>1. Named /\ Linked
  BY DEF LinkIInv
<1>2. /\ dec[d].pc = "reissue" /\ req[b].state = "absent"
      /\ ~Recorded(t) /\ Recorded(dec[d].turn)
      /\ Bound(dec[d].call) /\ bind[dec[d].call].nonce = dec[d].nonce
      /\ NoOtherTurn(t, dec[d].call, n)
      /\ bind' = ParkedBind(b, dec[d].call, n)
  BY Zenon DEF Reissue
<1>3. c = dec[d].call
  <2>1. c = dec[d].call \/ c \in ParkRows(b, dec[d].call)
    BY Zenon, <1>2 DEF ParkedBind
  <2>2. ~BoundTo(b, c)
    BY Zenon, <1>1, <1>2, NoneIsNew DEF Named, Bound, BoundTo
  <2> QED
    BY Zenon, <2>1, <2>2 DEF ParkRows
<1>4. SUFFICES ASSUME req[bind[c].appr].state \in {"denied", "auto_denied", "expired"}
               PROVE  FALSE
  OBVIOUS
<1>5. ~Superseded(c, b, GenOf[d])
  BY Zenon, <1>4 DEF Superseded
<1>6. n = dec[d].nonce
  BY Zenon, <1>2, <1>3, <1>5 DEF ParkNonce
<1>7. dec[d].turn \in Linking(dec[d].call, n)
  BY Zenon, <1>1, <1>2, <1>6 DEF Linked, Linking
<1> QED
  BY Zenon, <1>2, <1>7 DEF NoOtherTurn

\* A re-issue never asks again for a call that was denied: the nonce it would keep is
\* linked from the turn that asked.
THEOREM DeniedStayDenied == Spec => DeniedNotReissued
<1> DEFINE Kept == \A c \in Calls, d \in Deciders :
             dec[d].pc = "reissue" /\ dec[d].call = c /\ bind'[c] # bind[c]
             /\ dec' # dec =>
               req[bind[c].appr].state \notin {"denied", "auto_denied", "expired"}
<1>1. LinkIInv /\ [Next]_vars => [Kept]_vars
  <2> SUFFICES ASSUME LinkIInv, Next, NEW c \in Calls, bind'[c] # bind[c], dec' # dec
               PROVE  req[bind[c].appr].state \notin {"denied", "auto_denied", "expired"}
    OBVIOUS
  <2>1. ASSUME NEW l \in Dispatches, DispatchStep(l) PROVE dec' = dec
    <3>1. CASE \E a \in Approvals, c0 \in Calls, t \in Turns \cup {None} :
            \/ \E k \in Kinds : \/ CreateRequest(l, a, c0, t, k)
                                \/ \E p \in Approvals : ReplacePrepared(l, a, c0, t, k, p)
            \/ ResumeRequest(l, a, c0, t)
      <4>1. \A a, c0, t, k : CreateRequest(l, a, c0, t, k) => dec' = dec
        BY Zenon DEF CreateRequest
      <4>2. \A a, c0, t, k, p : ReplacePrepared(l, a, c0, t, k, p) => dec' = dec
        BY Zenon DEF ReplacePrepared
      <4>3. \A a, c0, t : ResumeRequest(l, a, c0, t) => dec' = dec
        BY Zenon DEF ResumeRequest
      <4> QED
        BY Zenon, <3>1, <4>1, <4>2, <4>3
    <3>2. CASE \E outcome \in {"auto_approved", "auto_denied"} : AutoDecide(l, outcome)
      BY Zenon, <3>2 DEF AutoDecide
    <3>3. CASE ParkBinding(l) \/ SkipCapture(l) \/ LinkRootTurn(l)
      BY <3>3 DEF ParkBinding, SkipCapture, LinkRootTurn
    <3>4. CASE PublishPending(l) \/ AbortUnpublished(l)
      BY Zenon, <3>4 DEF PublishPending, AbortUnpublished
    <3> QED
      BY <2>1, <3>1, <3>2, <3>3, <3>4, Zenon DEF DispatchStep
  <2>2. ASSUME NEW e \in Attempts, AttemptStep(e) PROVE dec' = dec
    BY Zenon, <2>2 DEF AttemptStep, ReadBinding, AdmitBinding, ClaimBinding, RunCall, CompleteBinding
  <2>3. PICK d \in Deciders : DecisionStep(d)
    BY Zenon, <2>1, <2>2 DEF Next, RecordRootTurn, CancelPending, procs
  <2>4. PICK b \in Approvals, t \in Turns : Reissue(d, b, t)
    BY Zenon, <2>3 DEF DecisionStep, ReadRequest, CheckGeneration, ContinueChanged, RecordVote
  <2> QED
    BY <2>4, ReissuedNotDenied
<1> QED
  BY <1>1, LinkInvariance, PTL DEF Spec, DeniedNotReissued
=============================================================================
